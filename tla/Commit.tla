------------------------------- MODULE Commit -------------------------------
(***************************************************************************)
(* The commit of a transaction, chunk by chunk, under the sharded latches  *)
(* (txn.go: commit, commitUpdates; txn_lock.go: rangeWrite, rangeRead;     *)
(* commit/commit.go: Next, Clone; commit/log.go: Channel, Log).            *)
(*                                                                         *)
(* Every transaction runs in its own goroutine and writes one cell of each *)
(* chunk it touches.  A value is the sequence of the transactions that     *)
(* made it: Put starts a new one, Merge extends the one it finds.  Both    *)
(* determine their history, so no lost, repeated or reordered update goes  *)
(* unnoticed.                                                              *)
(*                                                                         *)
(* Acquiring or releasing a latch, the atomic counter, an access to a      *)
(* cell, one column's Apply, and a send on the channel are steps of their  *)
(* own.  The logger is a Channel; recorder and recorded are the side of a  *)
(* snapshot that commits see, the rest of it is in module Snapshot.        *)
(***************************************************************************)
EXTENDS Integers, Sequences, FiniteSets

CONSTANTS
  Txn,        \* the goroutines, each runs one transaction
  Reader,     \* goroutines that read under the shared latches
  Snapper,    \* goroutines that take a snapshot
  Chunks,     \* how many chunks there are
  Shards,     \* how many latches there are (128)
  Programs,   \* what a transaction may do: functions from Chunk to Ops
  LogCap,     \* capacity of the channel
  None        \* no goroutine

Chunk == 0 .. Chunks - 1
Ops == {"none", "put", "merge"}

ASSUME CommitAssumption ==
  /\ Chunks \in Nat \ {0}
  /\ Shards \in Nat \ {0}
  /\ Programs \subseteq [Chunk -> Ops]
  /\ LogCap \in Nat \ {0}
  /\ None \notin Txn \cup Reader \cup Snapper

VARIABLES
  lastID,    \* the process-wide commit counter
  holder,    \* who has the exclusive latch of a shard
  sharers,   \* who has the shared latch of a shard
  commits,   \* Collection.commits: ID of the last commit of a chunk
  value,     \* the column: the cell of each chunk
  index,     \* what the computed column knows of that cell
  recorder,  \* Collection.record: the snapshot that records commits
  recorded,  \* the commit log of each snapshot
  channel,   \* the logger: commits that were sent and not received yet
  received,  \* history: commits that the consumer took from the channel
  pc,        \* where the goroutine of a transaction is
  program,   \* the operations the transaction was asked for
  buffer,    \* Txn.updates: the same, as rewritten by Apply
  todo,      \* dirty chunks that are still to be committed
  id,        \* commitID
  old,       \* the cell as Apply found it
  sink,      \* the recorder that the commit loaded
  order      \* history: the commits of each chunk, as they were latched

latches == <<holder, sharers>>
store == <<commits, value, index>>
log == <<recorder, recorded>>
stream == <<channel, received>>
local == <<pc, program, buffer, todo, id, old, sink>>
vars == <<lastID, latches, store, log, stream, local, order>>

Goroutine == Txn \cup Reader \cup Snapper
Shard == 0 .. Shards - 1
ShardOf(c) == c % Shards

Update == [op : Ops, val : Seq(Txn)]
UpdateOf(t, op) == [op |-> op, val |-> IF op = "none" THEN << >> ELSE <<t>>]

\* What Apply makes of a cell.
Applied(u, old_) ==
  IF u.op = "put" THEN u.val ELSE IF u.op = "merge" THEN old_ \o u.val ELSE old_

Dirty(p) == {c \in Chunk : p[c] # "none"}
Current(t) == CHOOSE c \in todo[t] : \A d \in todo[t] : c <= d

-----------------------------------------------------------------------------

Init ==
  /\ lastID = 0
  /\ holder = [s \in Shard |-> None]
  /\ sharers = [s \in Shard |-> {}]
  /\ commits = [c \in Chunk |-> 0]
  /\ value = [c \in Chunk |-> << >>]
  /\ index = [c \in Chunk |-> << >>]
  /\ recorder = None
  /\ recorded = [k \in Snapper |-> << >>]
  /\ channel = << >> /\ received = << >>
  /\ pc = [t \in Txn |-> "idle"]
  /\ program = [t \in Txn |-> [c \in Chunk |-> "none"]]
  /\ buffer = [t \in Txn |-> [c \in Chunk |-> UpdateOf(t, "none")]]
  /\ todo = [t \in Txn |-> {}]
  /\ id = [t \in Txn |-> 0]
  /\ old = [t \in Txn |-> << >>]
  /\ sink = [t \in Txn |-> None]
  /\ order = [c \in Chunk |-> << >>]

Goto(t, from, to) == pc[t] = from /\ pc' = [pc EXCEPT ![t] = to]

\* The query function has returned: commit() collects the dirty chunks.
Start(t) ==
  /\ Goto(t, "idle", "next")
  /\ \E p \in Programs :
       /\ Dirty(p) # {}
       /\ program' = [program EXCEPT ![t] = p]
       /\ buffer' = [buffer EXCEPT ![t] = [c \in Chunk |-> UpdateOf(t, p[c])]]
       /\ todo' = [todo EXCEPT ![t] = Dirty(p)]
  /\ UNCHANGED <<lastID, latches, store, log, stream, id, old, sink, order>>

\* Mutant of NextID: the counter is moved the wrong way.
NextIDBackwards(t) ==
  /\ Goto(t, "next", "lock")
  /\ lastID' = lastID - 1
  /\ id' = [id EXCEPT ![t] = lastID']
  /\ UNCHANGED <<latches, store, log, stream, program, buffer, todo, old, sink, order>>

\* The ID of a chunk commit is drawn before its latch is acquired.
NextID(t) ==
  /\ Goto(t, "next", "lock")
  /\ lastID' = lastID + 1
  /\ id' = [id EXCEPT ![t] = lastID']
  /\ UNCHANGED <<latches, store, log, stream, program, buffer, todo, old, sink, order>>

Free(s) == holder[s] = None
Unshared(s) == sharers[s] = {}

Lock(t) ==
  LET c == Current(t)
  IN  /\ Goto(t, "lock", "read")
      /\ Free(ShardOf(c)) /\ Unshared(ShardOf(c))
      /\ holder' = [holder EXCEPT ![ShardOf(c)] = t]
      /\ commits' = [commits EXCEPT ![c] = id[t]]
      /\ order' = [order EXCEPT ![c] = Append(@, [txn |-> t, id |-> id[t]])]
      /\ UNCHANGED <<lastID, sharers, value, index, log, stream, program, buffer, todo, id, old, sink>>

\* Apply on the column reads the cell, writes the result and puts it into the
\* buffer in place of the delta.
ReadCell(t) ==
  /\ Goto(t, "read", "write")
  /\ old' = [old EXCEPT ![t] = value[Current(t)]]
  /\ UNCHANGED <<lastID, latches, store, log, stream, program, buffer, todo, id, sink, order>>

WriteCell(t) ==
  LET c == Current(t)
      new == Applied(buffer[t][c], old[t])
  IN  /\ Goto(t, "write", "index")
      /\ value' = [value EXCEPT ![c] = new]
      /\ buffer' = [buffer EXCEPT ![t][c] = [op |-> "put", val |-> new]]
      /\ UNCHANGED <<lastID, latches, commits, index, log, stream, program, todo, id, old, sink, order>>

\* The computed columns only understand the final state.
WriteIndex(t) ==
  LET c == Current(t)
      u == buffer[t][c]
  IN  /\ Goto(t, "index", "record")
      /\ index' = [index EXCEPT ![c] = IF u.op = "put" THEN u.val ELSE @]
      /\ UNCHANGED <<lastID, latches, commits, value, log, stream, program, buffer, todo, id, old, sink, order>>

\* Mutant of LoadRecorder: the latch is given up before the commit is published.
LoadRecorderUnlatched(t) ==
  /\ Goto(t, "record", IF recorder = None THEN "send" ELSE "append")
  /\ sink' = [sink EXCEPT ![t] = recorder]
  /\ holder' = [holder EXCEPT ![ShardOf(Current(t))] = None]
  /\ UNCHANGED <<lastID, sharers, store, log, stream, program, buffer, todo, id, old, order>>

\* isSnapshotting(): the pointer is loaded once, the commit appended later.
LoadRecorder(t) ==
  /\ Goto(t, "record", IF recorder = None THEN "send" ELSE "append")
  /\ sink' = [sink EXCEPT ![t] = recorder]
  /\ UNCHANGED <<lastID, latches, store, log, stream, program, buffer, todo, id, old, order>>

\* Log.Append writes the part of the buffers that belongs to the chunk.
AppendRecord(t) ==
  LET c == Current(t)
      record == [chunk |-> c, id |-> id[t], update |-> buffer[t][c]]
  IN  /\ Goto(t, "append", "send")
      /\ recorded' = [recorded EXCEPT ![sink[t]] = Append(@, record)]
      /\ UNCHANGED <<lastID, latches, store, recorder, stream, program, buffer, todo, id, old, sink, order>>

\* Channel.Append clones the commit, which drops the ID and keeps the buffers
\* of every chunk, and blocks while the channel is full.
Send(t) ==
  /\ Goto(t, "send", "unlock")
  /\ Len(channel) < LogCap
  /\ channel' = Append(channel, [txn |-> t, chunk |-> Current(t), updates |-> buffer[t]])
  /\ UNCHANGED <<lastID, latches, store, log, received, program, buffer, todo, id, old, sink, order>>

\* Mutant of Unlock: the latch is only released after the last chunk.
UnlockLast(t) ==
  /\ Goto(t, "unlock", IF todo[t] = {Current(t)} THEN "done" ELSE "next")
  /\ holder' = IF todo[t] = {Current(t)}
               THEN [holder EXCEPT ![ShardOf(Current(t))] = None] ELSE holder
  /\ todo' = [todo EXCEPT ![t] = @ \ {Current(t)}]
  /\ UNCHANGED <<lastID, sharers, store, log, stream, program, buffer, id, old, sink, order>>

Unlock(t) ==
  /\ Goto(t, "unlock", IF todo[t] = {Current(t)} THEN "done" ELSE "next")
  /\ holder' = [holder EXCEPT ![ShardOf(Current(t))] = None]
  /\ todo' = [todo EXCEPT ![t] = @ \ {Current(t)}]
  /\ UNCHANGED <<lastID, sharers, store, log, stream, program, buffer, id, old, sink, order>>

WriterStep(t) ==
  \/ NextID(t) \/ Lock(t) \/ ReadCell(t) \/ WriteCell(t) \/ WriteIndex(t)
  \/ LoadRecorder(t) \/ AppendRecord(t) \/ Send(t) \/ Unlock(t)

\* Mutant of RLock: readers do not wait for the writer.
RLockAnyway(g, c) ==
  /\ \A s \in Shard : g \notin sharers[s]
  /\ sharers' = [sharers EXCEPT ![ShardOf(c)] = @ \cup {g}]
  /\ UNCHANGED <<lastID, holder, store, log, stream, local, order>>

\* rangeRead: one shared latch at a time.
RLock(g, c) ==
  /\ Free(ShardOf(c))
  /\ \A s \in Shard : g \notin sharers[s]
  /\ sharers' = [sharers EXCEPT ![ShardOf(c)] = @ \cup {g}]
  /\ UNCHANGED <<lastID, holder, store, log, stream, local, order>>

RUnlock(g, s) ==
  /\ g \in sharers[s]
  /\ sharers' = [sharers EXCEPT ![s] = @ \ {g}]
  /\ UNCHANGED <<lastID, holder, store, log, stream, local, order>>

\* The consumer of the change stream.
Receive ==
  /\ channel # << >>
  /\ channel' = Tail(channel)
  /\ received' = Append(received, Head(channel))
  /\ UNCHANGED <<lastID, latches, store, log, local, order>>

\* What the goroutines that use the collection do.
ClientStep ==
  \/ \E t \in Txn : Start(t) \/ WriterStep(t)
  \/ \E r \in Reader : \/ \E c \in Chunk : RLock(r, c)
                       \/ \E s \in Shard : RUnlock(r, s)

Next == ClientStep \/ Receive

\* A goroutine that can run runs.  Lock is only enabled from time to time when
\* others come and go; sync.RWMutex starves nobody, hence strong fairness.
\* Readers leave their latch, and the consumer keeps receiving.
Fairness ==
  /\ \A t \in Txn : WF_vars(WriterStep(t)) /\ SF_vars(Lock(t))
  /\ \A r \in Reader : WF_vars(\E s \in Shard : RUnlock(r, s))
  /\ WF_vars(Receive)

Spec == Init /\ [][Next]_vars /\ Fairness

-----------------------------------------------------------------------------
(* Properties *)

Phases == {"idle", "next", "lock", "read", "write", "index", "record", "append",
           "send", "unlock", "done"}

Entry == [txn : Txn, id : Nat]
Record == [chunk : Chunk, id : Nat, update : Update]
Message == [txn : Txn, chunk : Chunk, updates : [Chunk -> Update]]

TypeOK ==
  /\ lastID \in Nat
  /\ holder \in [Shard -> Txn \cup {None}]
  /\ sharers \in [Shard -> SUBSET (Reader \cup Snapper)]
  /\ commits \in [Chunk -> Nat]
  /\ value \in [Chunk -> Seq(Txn)] /\ index \in [Chunk -> Seq(Txn)]
  /\ recorder \in Snapper \cup {None}
  /\ recorded \in [Snapper -> Seq(Record)]
  /\ channel \in Seq(Message) /\ received \in Seq(Message)
  /\ pc \in [Txn -> Phases]
  /\ program \in [Txn -> [Chunk -> Ops]]
  /\ buffer \in [Txn -> [Chunk -> Update]]
  /\ todo \in [Txn -> SUBSET Chunk]
  /\ id \in [Txn -> Nat]
  /\ old \in [Txn -> Seq(Txn)]
  /\ sink \in [Txn -> Snapper \cup {None}]
  /\ order \in [Chunk -> Seq(Entry)]

\* The transactions at a chunk, in one of the given phases.
At(c, phases) == {t \in Txn : pc[t] \in phases /\ Current(t) = c}

\* The value of chunk c when its first n commits run one after the other: the
\* last of them that put a value, and every merge since.
Serial(c, n) ==
  LET puts == {i \in 1 .. n : program[order[c][i].txn][c] = "put"}
      from == CHOOSE i \in puts \cup {1} : \A j \in puts : j <= i
  IN  [i \in 1 .. n - from + 1 |-> order[c][from + i - 1].txn]

\* Whoever holds the shared latch of a chunk sees every commit of it whole:
\* the column, the computed column and the commit ID belong together.
ReadersSeeWholeCommits ==
  \A c \in Chunk : sharers[ShardOf(c)] # {} =>
    /\ index[c] = value[c]
    /\ value[c] = Serial(c, Len(order[c]))
    /\ order[c] # << >> => commits[c] = order[c][Len(order[c])].id

\* A commit that has begun ends, though it waits for latches and for the
\* consumer of the change stream, which it does while it holds a latch.
CommitEnds == \A t \in Txn : pc[t] = "next" ~> pc[t] = "done"
=============================================================================
