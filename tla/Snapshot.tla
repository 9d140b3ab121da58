------------------------------ MODULE Snapshot ------------------------------
(***************************************************************************)
(* Snapshots that are taken while transactions commit (snapshot.go:        *)
(* Snapshot, recorderOpen, recorderClose, writeState, readChunk; Restore,  *)
(* readState; commit/log.go: Append, Copy).                                *)
(*                                                                         *)
(* A snapshot registers a recorder, writes the state chunk by chunk under  *)
(* the shared latches, unregisters the recorder and copies the commits it  *)
(* recorded behind the state.  Restore replays those whose ID is above the *)
(* last one that the state has.                                            *)
(*                                                                         *)
(* How many chunks there are to write is counted once, by the highest row  *)
(* of the fill list.  That may be a row that was reserved and not          *)
(* committed, in a chunk that has no commit ID yet: Snapshot panics there. *)
(* Transactions only touch rows that they got or that were committed, and  *)
(* delete none.                                                            *)
(***************************************************************************)
EXTENDS Commit

CONSTANT WritesFail   \* whether writing to the destination may fail

\* A goroutine takes a snapshot or reads rows.
ASSUME SnapshotAssumption == Reader \cap Snapper = {}

VARIABLES
  filled,  \* the chunks up to the highest row of the fill list
  spc,     \* where the goroutine of a snapshot is
  counted, \* the chunks that it found
  next,    \* the chunk it writes next
  state,   \* the chunks it has written: their cell and last commit ID
  file,    \* the commits that were copied behind the state
  closed   \* history: how many commits each chunk had when it closed

snapvars == <<spc, counted, next, state, file, closed>>
allvars == <<vars, filled, snapvars>>

NoCopy == [last |-> 0, val |-> << >>]

SInit ==
  /\ Init
  /\ filled = 0
  /\ counted = [k \in Snapper |-> 0]
  /\ spc = [k \in Snapper |-> "idle"]
  /\ next = [k \in Snapper |-> 0]
  /\ state = [k \in Snapper |-> [c \in Chunk |-> NoCopy]]
  /\ file = [k \in Snapper |-> << >>]
  /\ closed = [k \in Snapper |-> [c \in Chunk |-> 0]]

-----------------------------------------------------------------------------
(* The fill list and the commit IDs *)

\* The chunks that Collection.commits has room for: commitCapacity() makes it
\* for the last dirty chunk of a transaction, and for those before it.
IDs == {c \in Chunk : \E t \in Txn : \E d \in Dirty(program[t]) : c <= d}

\* next(): a row of the next chunk is reserved.
Reserve ==
  /\ filled < Chunks /\ filled' = filled + 1
  /\ UNCHANGED <<vars, snapvars>>

\* free(): the insert of the highest row has failed.  The words of the fill list
\* stay, and count as a chunk.
GiveBack ==
  /\ filled > 1 /\ filled - 1 \notin IDs /\ filled' = filled - 1
  /\ UNCHANGED <<vars, snapvars>>

\* A transaction commits to rows that it was given.
TxnStep ==
  /\ Next
  /\ \A t \in Txn : Dirty(program'[t]) \subseteq 0 .. filled - 1
  /\ UNCHANGED <<filled, snapvars>>

-----------------------------------------------------------------------------
(* Snapshots *)

SGoto(k, from, to) == spc[k] = from /\ spc' = [spc EXCEPT ![k] = to]

\* recorderOpen(): one compare-and-swap decides.
Open(k) ==
  /\ IF recorder = None
     THEN SGoto(k, "idle", "count") /\ recorder' = k
     ELSE SGoto(k, "idle", "refused") /\ UNCHANGED recorder
  /\ UNCHANGED <<lastID, latches, store, recorded, stream, local, order,
                 filled, counted, next, state, file, closed>>

\* chunks()
Count(k) ==
  /\ SGoto(k, "count", IF filled = 0 THEN "close" ELSE "chunk")
  /\ counted' = [counted EXCEPT ![k] = filled]
  /\ UNCHANGED <<vars, filled, next, state, file, closed>>

EnterChunk(k) ==
  /\ SGoto(k, "chunk", "inside")
  /\ RLock(k, next[k])
  /\ UNCHANGED <<filled, counted, next, state, file, closed>>

Leave(k) == sharers' = [s \in Shard |-> sharers[s] \ {k}]

\* Mutant of WriteChunk: the counter is saved in place of the chunk's last ID.
WriteChunkCounter(k) ==
  LET c == next[k]
  IN  /\ SGoto(k, "inside", IF c = counted[k] - 1 THEN "close" ELSE "chunk")
      /\ c \in IDs
      /\ state' = [state EXCEPT ![k][c] = [last |-> lastID, val |-> value[c]]]
      /\ next' = [next EXCEPT ![k] = c + 1]
      /\ Leave(k)
      /\ UNCHANGED <<lastID, holder, store, log, stream, local, order, filled, counted, file, closed>>

\* readChunk(): the last commit ID and the cells, under the shared latch.
WriteChunk(k) ==
  LET c == next[k]
  IN  /\ SGoto(k, "inside", IF c = counted[k] - 1 THEN "close" ELSE "chunk")
      /\ c \in IDs
      /\ state' = [state EXCEPT ![k][c] = [last |-> commits[c], val |-> value[c]]]
      /\ next' = [next EXCEPT ![k] = c + 1]
      /\ Leave(k)
      /\ UNCHANGED <<lastID, holder, store, log, stream, local, order, filled, counted, file, closed>>

\* writeState() is left, and what it counted forgotten.
Forget(k) == next' = [next EXCEPT ![k] = 0] /\ counted' = [counted EXCEPT ![k] = 0]

\* The commit ID of a chunk that has none is read: an index out of range.  The
\* latch is given up, the recorder stays.
Panics(k) ==
  /\ SGoto(k, "inside", "panicked")
  /\ next[k] \notin IDs
  /\ Leave(k) /\ Forget(k)
  /\ UNCHANGED <<lastID, holder, store, log, stream, local, order, filled, state, file, closed>>

\* The destination returns an error: Snapshot returns at once, and the recorder
\* stays.
WriteFails(k) ==
  /\ WritesFail
  /\ \/ SGoto(k, "count", "failed")
     \/ SGoto(k, "inside", "failed") /\ next[k] \in IDs
     \/ SGoto(k, "close", "failed")
  /\ Leave(k) /\ Forget(k)
  /\ UNCHANGED <<lastID, holder, store, log, stream, local, order, filled, state, file, closed>>

Completed(c) == Len(order[c]) - Cardinality({t \in Txn : holder[ShardOf(c)] = t /\ Current(t) = c})

\* Mutant of Close: the recorder stays registered.
CloseRegistered(k) ==
  /\ SGoto(k, "close", "copy")
  /\ Forget(k)
  /\ closed' = [closed EXCEPT ![k] = [c \in Chunk |-> Completed(c)]]
  /\ UNCHANGED <<lastID, latches, store, log, stream, local, order, filled, state, file>>

Close(k) ==
  /\ SGoto(k, "close", "copy")
  /\ recorder' = None /\ Forget(k)
  /\ closed' = [closed EXCEPT ![k] = [c \in Chunk |-> Completed(c)]]
  /\ UNCHANGED <<lastID, latches, store, recorded, stream, local, order, filled, state, file>>

Copy(k) ==
  /\ SGoto(k, "copy", "done")
  /\ file' = [file EXCEPT ![k] = recorded[k]]
  /\ UNCHANGED <<vars, filled, counted, next, state, closed>>

SnapStep(k) ==
  \/ Open(k) \/ Count(k) \/ EnterChunk(k) \/ WriteChunk(k) \/ Panics(k) \/ WriteFails(k)
  \/ Close(k) \/ Copy(k)

SNext == TxnStep \/ Reserve \/ GiveBack \/ \E k \in Snapper : SnapStep(k)

SSpec == SInit /\ [][SNext]_allvars

-----------------------------------------------------------------------------
(* Restore *)

\* The cell of chunk c in a collection restored from the snapshot of k: the
\* state, empty for a chunk that was not counted, then the last recorded commit
\* that is newer than the state by ID.  Recorded updates are Puts, so the last one
\* decides.
Restored(k, c) ==
  LET newer == {i \in DOMAIN file[k] :
                  /\ file[k][i].chunk = c
                  /\ file[k][i].id > state[k][c].last}
  IN  IF newer = {} THEN state[k][c].val
      ELSE file[k][CHOOSE i \in newer : \A j \in newer : j <= i].update.val

-----------------------------------------------------------------------------
(* Properties *)

\* A restored chunk is the chunk as it was after some of its commits, and at
\* least after all those that ended before the recorder was closed.
PointInTime(k, c) ==
  \E n \in closed[k][c] .. Len(order[c]) : Restored(k, c) = Serial(c, n)

InLatchOrder(c) ==
  \A i, j \in DOMAIN order[c] : i < j => order[c][i].id < order[c][j].id

\* "Support for concurrent snapshotting allowing to store the entire collection
\* into a file": a snapshot that ran beside commits restores to a state that the
\* chunk went through, as long as the commits of the chunk took its latch in the
\* order of their IDs; so does one that was filled after the chunks were counted.
SnapshotIsPointInTime ==
  \A k \in Snapper : spc[k] = "done" =>
    \A c \in Chunk : InLatchOrder(c) => PointInTime(k, c)

\* "unable to snapshot, another one might be in progress": a snapshot is only
\* refused while another one is in progress, or after one whose destination
\* returned an error or that panicked, which leave their recorder behind.
RefusedOnlyWhenBusy ==
  [][\A k \in Snapper : spc[k] = "idle" /\ spc'[k] = "refused" =>
       \E j \in Snapper \ {k} :
         spc[j] \in {"count", "chunk", "inside", "close", "failed", "panicked"}]_allvars
=============================================================================
