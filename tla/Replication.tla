---------------------------- MODULE Replication ----------------------------
(***************************************************************************)
(* A replica that is fed from the change stream: a goroutine receives each *)
(* commit from the channel and calls Replay (snapshot.go: Replay; README,  *)
(* "Streaming Changes").  Replay is a transaction of the replica, and with *)
(* no other transaction there it is modelled as one step per commit.       *)
(***************************************************************************)
EXTENDS CommitImplements

VARIABLE replica   \* the cells of the replica

rvars == <<vars, replica>>

RInit == Init /\ replica = [c \in Chunk |-> << >>]

\* Mutant of Replayed: merges that were turned into Puts are merged once more.
ReplayedAsMerge(m) ==
  [c \in Chunk |-> IF m.updates[c].op = "put" /\ m.chunk = c
                   THEN replica[c] \o m.updates[c].val
                   ELSE Applied(m.updates[c], replica[c])]

\* Every chunk that a buffer touches becomes dirty in the transaction of
\* Replay, so the whole commit is applied and not only its chunk.
Replayed(m) == [c \in Chunk |-> Applied(m.updates[c], replica[c])]

Replay ==
  /\ Receive
  /\ replica' = Replayed(Head(channel))

RNext == (ClientStep /\ UNCHANGED replica) \/ Replay

RSpec == RInit /\ [][RNext]_rvars /\ Fairness /\ WF_rvars(Replay)

-----------------------------------------------------------------------------
(* Properties *)

RTypeOK == TypeOK /\ replica \in [Chunk -> Seq(Txn)]

Replays(c) == Cardinality({i \in DOMAIN received : received[i].chunk = c})

\* No transaction has touched chunk c together with another chunk.
Local(c) ==
  \A t \in Txn : program[t][c] # "none" => Dirty(program[t]) = {c}

\* The replica goes through the states of the primary, chunk by chunk: as long
\* as no transaction spans chunks, what it has is what the commits that it has
\* received had made there.
ReplicaFollows ==
  \A c \in Chunk : Local(c) => replica[c] = Serial(c, Replays(c))

Quiet == channel = << >> /\ \A t \in Txn : pc[t] \in {"idle", "done"}

\* "you can also replicate those changes on another database and synchronize
\* both": when the stream has been consumed, the replica equals the primary.
ReplicaConverges == Quiet => replica = value

\* The replica does catch up on the chunks that no transaction spanned.
ReplicaCatchesUp ==
  (\A t \in Txn : pc[t] = "done")
    ~> (\A c \in Chunk : Local(c) => replica[c] = value[c])
=============================================================================
