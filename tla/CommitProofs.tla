---------------------------- MODULE CommitProofs ----------------------------
(***************************************************************************)
(* Theorems about chunk commits, replicas that are fed from the change     *)
(* stream, and snapshots that are taken beside commits, for every number   *)
(* of transactions, readers, snapshots, chunks and latches, and for every  *)
(* program.                                                                *)
(*                                                                         *)
(* The invariant CommitInv says who has which latch, and what the cell,    *)
(* the computed column and the buffer look like in each phase of a commit. *)
(* It is kept by the steps of module Commit and by whatever a snapshot     *)
(* does to the recorder and the shared latches (Aside), so that the        *)
(* theorems also hold beside replicas and snapshots.                       *)
(*                                                                         *)
(* StreamInv says what the messages are, received or not: the n-th one of  *)
(* a chunk carries the cell as the first n commits of the chunk have made  *)
(* it, and nothing for the chunks that its transaction does not touch.     *)
(* From it follow the refinement of the abstract specification, step by    *)
(* step, and what a replica has.                                           *)
(*                                                                         *)
(* A snapshot has copied the state of a chunk after its first p commits.   *)
(* SnapInv says that the log of the snapshot has commits of the chunk, in  *)
(* the order in which they were latched, and that it has every one after   *)
(* the p-th that has ended while the recorder was registered.  The same is *)
(* true, with no commit for p, of a chunk that was not there when the      *)
(* chunks were counted: no transaction commits to a chunk beyond the fill  *)
(* list (FillInv), so all its commits came later.                          *)
(***************************************************************************)
EXTENDS Replication, Snapshot, TLAPS, FiniteSetTheorems, SequenceTheorems, WellFoundedInduction

USE CommitAssumption

-----------------------------------------------------------------------------
(* Numbers *)

\* A non-empty set of numbers has a least element.
LEMMA LeastExists ==
  ASSUME NEW S \in SUBSET Nat, S # {}
  PROVE  \E x \in S : \A y \in S : x <= y
<1>1. PICK x \in S : \A y \in S : ~(<<y, x>> \in OpToRel(<, Nat))
  BY NatLessThanWellFounded, WFMin, Zenon
<1>2. ASSUME NEW y \in S, y < x PROVE FALSE
  <2>1. <<y, x>> \in Nat \X Nat /\ <<y, x>>[1] < <<y, x>>[2]
    BY <1>2
  <2>2. <<y, x>> \in OpToRel(<, Nat)
    BY <2>1, Zenon DEF OpToRel
  <2>3. QED
    BY <1>1, <2>2, Zenon
<1>3. QED
  BY <1>2

\* A bounded one has a greatest element.
LEMMA GreatestExists ==
  ASSUME NEW n \in Nat, NEW S \in SUBSET (0 .. n), S # {}
  PROVE  \E x \in S : \A y \in S : y <= x
<1> DEFINE T == {n - x : x \in S}
<1>1. T \in SUBSET Nat /\ T # {}
  <2>1. \A x \in S : n - x \in Nat
    OBVIOUS
  <2>2. QED
    BY <2>1, Zenon
<1>2. PICK z \in T : \A y \in T : z <= y
  BY <1>1, LeastExists
<1>3. PICK x \in S : z = n - x
  OBVIOUS
<1>4. \A y \in S : n - x <= n - y
  BY <1>2, <1>3
<1>5. \A y \in S : y <= x
  BY <1>4
<1>6. QED
  BY <1>5

-----------------------------------------------------------------------------
(* Phases of a commit, and the invariant *)

Working == Phases \ {"idle", "done"}
Holding == {"read", "write", "index", "record", "append", "send", "unlock"}
Unsent == Holding \ {"unlock"}
Unwritten == {"read", "write"}
Rewritten == {"index", "record", "append", "send", "unlock"}
Indexed == {"record", "append", "send", "unlock"}

\* A transaction that is at work has a chunk to commit, and what is in its
\* buffer for a chunk is what the program says until Apply has rewritten it.
Progress(t) ==
  /\ pc[t] \in Working <=> todo[t] # {}
  /\ todo[t] \subseteq Dirty(program[t])
  /\ pc[t] = "append" => sink[t] \in Snapper
  /\ \A c \in todo[t] :
       ~(pc[t] \in Rewritten /\ c = Current(t)) => buffer[t][c] = UpdateOf(t, program[t][c])

\* Latches exclude each other, and who is in a chunk has its latch.
LatchInv ==
  /\ \A t \in Txn : pc[t] \in Holding => holder[ShardOf(Current(t))] = t
  /\ \A s \in Shard : sharers[s] # {} => holder[s] = None

\* Only transactions that have begun are in the history of a chunk.
OrderInv ==
  \A c \in Chunk : \A i \in DOMAIN order[c] : pc[order[c][i].txn] # "idle"

\* What transaction t, which has the latch of chunk c, has made of it: the last
\* of the n commits is its own, and the others have left the value it found.
Inside(t, c, n) ==
  /\ n # 0 /\ order[c][n].txn = t /\ order[c][n].id = id[t]
  /\ pc[t] \in Unwritten => value[c] = Serial(c, n - 1)
  /\ pc[t] # "read" => old[t] = Serial(c, n - 1)
  /\ pc[t] \in Rewritten => /\ value[c] = Serial(c, n)
                            /\ buffer[t][c] = [op |-> "put", val |-> value[c]]
  /\ pc[t] \in Indexed => index[c] = value[c]

Cell(c) ==
  \A n \in {Len(order[c])} :
    /\ At(c, Holding) = {} => value[c] = Serial(c, n) /\ index[c] = value[c]
    /\ \A t \in At(c, Holding) : Inside(t, c, n)
    /\ n = 0 => commits[c] = 0
    /\ n # 0 => commits[c] = order[c][n].id

CommitInv ==
  /\ TypeOK /\ LatchInv /\ OrderInv
  /\ \A t \in Txn : Progress(t)
  /\ \A c \in Chunk : Cell(c)

\* What readers, and snapshots beside the commits, do: they take and leave shared
\* latches, and a snapshot registers and unregisters its recorder.
Aside ==
  /\ sharers' \in [Shard -> SUBSET (Reader \cup Snapper)]
  /\ \A s \in Shard : sharers'[s] \subseteq sharers[s] \/ holder[s] = None
  /\ recorder' \in Snapper \cup {None}
  /\ UNCHANGED <<lastID, holder, store, recorded, stream, local, order>>

-----------------------------------------------------------------------------
(* The operators of the model *)

LEMMA CurrentProperty ==
  ASSUME NEW t \in Txn, todo[t] \in SUBSET Chunk, todo[t] # {}
  PROVE  Current(t) \in todo[t] /\ Current(t) \in Chunk
<1>1. todo[t] \in SUBSET Nat
  BY DEF Chunk
<1>2. \E c \in todo[t] : \A d \in todo[t] : c <= d
  BY <1>1, LeastExists
<1>3. QED
  BY <1>2 DEF Current

LEMMA ShardType == \A c \in Chunk : ShardOf(c) \in Shard
BY DEF Chunk, ShardOf, Shard

\* What a goroutine does to the shared latches keeps to Aside.
LEMMA SharingAside ==
  ASSUME TypeOK, NEW g \in Reader \cup Snapper
  PROVE  /\ \A c \in Chunk : RLock(g, c) => Aside
         /\ \A s \in Shard : RUnlock(g, s) => Aside
<1>1. ASSUME NEW c \in Chunk, RLock(g, c) PROVE Aside
  BY <1>1, ShardType DEF RLock, Free, Aside, TypeOK, log
<1>2. ASSUME NEW s \in Shard, RUnlock(g, s) PROVE Aside
  BY <1>2 DEF RUnlock, Aside, TypeOK, log
<1>3. QED
  BY <1>1, <1>2

LEMMA UpdateType ==
  ASSUME NEW t \in Txn, NEW op \in Ops
  PROVE  UpdateOf(t, op) \in Update
BY DEF UpdateOf, Update

LEMMA AppliedType ==
  ASSUME NEW u \in Update, NEW v \in Seq(Txn)
  PROVE  Applied(u, v) \in Seq(Txn)
BY DEF Applied, Update

-----------------------------------------------------------------------------
(* Types *)

LEMMA TypingInit == Init => TypeOK
<1> SUFFICES ASSUME Init PROVE TypeOK
  OBVIOUS
<1>1. \A t \in Txn : UpdateOf(t, "none") \in Update
  BY UpdateType DEF Ops
<1>2. QED
  BY <1>1 DEF Init, TypeOK, Phases, Ops

LEMMA TypingStep ==
  TypeOK /\ (\A t \in Txn : Progress(t)) /\ ([Next]_vars \/ Aside) => TypeOK'
<1> SUFFICES ASSUME TypeOK, \A t \in Txn : Progress(t), [Next]_vars \/ Aside
             PROVE  TypeOK'
  OBVIOUS
<1> USE DEF latches, store, log, stream, local
<1>1. \A t \in Txn : pc[t] \in Working => Current(t) \in Chunk /\ ShardOf(Current(t)) \in Shard
  BY CurrentProperty, ShardType DEF Progress, TypeOK
<1>2. ASSUME NEW t \in Txn, Start(t) PROVE TypeOK'
  <2>1. PICK p \in Programs :
          /\ program' = [program EXCEPT ![t] = p]
          /\ buffer' = [buffer EXCEPT ![t] = [c \in Chunk |-> UpdateOf(t, p[c])]]
          /\ todo' = [todo EXCEPT ![t] = Dirty(p)]
    BY <1>2 DEF Start
  <2>2. p \in [Chunk -> Ops] /\ [c \in Chunk |-> UpdateOf(t, p[c])] \in [Chunk -> Update]
    BY UpdateType
  <2>3. QED
    BY <1>2, <2>1, <2>2 DEF Start, Goto, TypeOK, Phases, Dirty
<1>3. ASSUME NEW t \in Txn, NextID(t) PROVE TypeOK'
  BY <1>3 DEF NextID, Goto, TypeOK, Phases
<1>4. ASSUME NEW t \in Txn, Lock(t) PROVE TypeOK'
  <2> DEFINE c == Current(t)
             e == [txn |-> t, id |-> id[t]]
  <2>1. c \in Chunk /\ ShardOf(c) \in Shard
    BY <1>1, <1>4 DEF Lock, Goto, Working, Phases
  <2>2. e \in Entry
    BY DEF TypeOK, Entry
  <2>3. order' = [order EXCEPT ![c] = Append(@, e)]
    BY <1>4 DEF Lock
  <2> HIDE DEF e
  <2>4. order' \in [Chunk -> Seq(Entry)]
    BY <2>1, <2>2, <2>3 DEF TypeOK
  <2>5. QED
    BY <1>4, <2>1, <2>4 DEF Lock, Goto, TypeOK, Phases
<1>5. ASSUME NEW t \in Txn, ReadCell(t) PROVE TypeOK'
  <2>1. Current(t) \in Chunk
    BY <1>1, <1>5 DEF ReadCell, Goto, Working, Phases
  <2>2. QED
    BY <1>5, <2>1 DEF ReadCell, Goto, TypeOK, Phases
<1>6. ASSUME NEW t \in Txn, WriteCell(t) PROVE TypeOK'
  <2> DEFINE c == Current(t)
             new == Applied(buffer[t][c], old[t])
  <2>1. c \in Chunk
    BY <1>1, <1>6 DEF WriteCell, Goto, Working, Phases
  <2>2. new \in Seq(Txn)
    BY <2>1, AppliedType DEF TypeOK
  <2>3. [op |-> "put", val |-> new] \in Update
    BY <2>2 DEF Update, Ops
  <2>4. /\ value' = [value EXCEPT ![c] = new]
        /\ buffer' = [buffer EXCEPT ![t][c] = [op |-> "put", val |-> new]]
    BY <1>6 DEF WriteCell
  <2> HIDE DEF new, c
  <2>5. value' \in [Chunk -> Seq(Txn)] /\ buffer' \in [Txn -> [Chunk -> Update]]
    BY <2>1, <2>2, <2>3, <2>4 DEF TypeOK
  <2>6. QED
    BY <1>6, <2>5 DEF WriteCell, Goto, TypeOK, Phases
<1>7. ASSUME NEW t \in Txn, WriteIndex(t) PROVE TypeOK'
  <2> DEFINE c == Current(t)
  <2>1. c \in Chunk
    BY <1>1, <1>7 DEF WriteIndex, Goto, Working, Phases
  <2>2. buffer[t][c].val \in Seq(Txn)
    BY <2>1 DEF TypeOK, Update
  <2>3. QED
    BY <1>7, <2>1, <2>2 DEF WriteIndex, Goto, TypeOK, Phases
<1>8. ASSUME NEW t \in Txn, LoadRecorder(t) PROVE TypeOK'
  BY <1>8 DEF LoadRecorder, Goto, TypeOK, Phases
<1>9. ASSUME NEW t \in Txn, AppendRecord(t) PROVE TypeOK'
  <2> DEFINE c == Current(t)
             record == [chunk |-> c, id |-> id[t], update |-> buffer[t][c]]
  <2>1. c \in Chunk
    BY <1>1, <1>9 DEF AppendRecord, Goto, Working, Phases
  <2>2. record \in Record
    BY <2>1 DEF TypeOK, Record
  <2>3. sink[t] \in Snapper
    BY <1>9 DEF AppendRecord, Goto, Progress
  <2>4. recorded' = [recorded EXCEPT ![sink[t]] = Append(@, record)]
    BY <1>9 DEF AppendRecord
  <2> HIDE DEF record
  <2>5. recorded' \in [Snapper -> Seq(Record)]
    BY <2>2, <2>3, <2>4 DEF TypeOK
  <2>6. QED
    BY <1>9, <2>5 DEF AppendRecord, Goto, TypeOK, Phases
<1>10. ASSUME NEW t \in Txn, Send(t) PROVE TypeOK'
  <2> DEFINE m == [txn |-> t, chunk |-> Current(t), updates |-> buffer[t]]
  <2>1. Current(t) \in Chunk
    BY <1>1, <1>10 DEF Send, Goto, Working, Phases
  <2>2. m \in Message
    BY <2>1 DEF TypeOK, Message
  <2>3. channel' = Append(channel, m)
    BY <1>10 DEF Send
  <2> HIDE DEF m
  <2>4. channel' \in Seq(Message)
    BY <2>2, <2>3 DEF TypeOK
  <2>5. QED
    BY <1>10, <2>4 DEF Send, Goto, TypeOK, Phases
<1>11. ASSUME NEW t \in Txn, Unlock(t) PROVE TypeOK'
  <2>1. ShardOf(Current(t)) \in Shard
    BY <1>1, <1>11 DEF Unlock, Goto, Working, Phases
  <2>2. QED
    BY <1>11, <2>1 DEF Unlock, Goto, TypeOK, Phases
<1>12. CASE Aside
  BY <1>12 DEF Aside, TypeOK
<1>13. CASE Receive
  <2>1. Head(channel) \in Message /\ Tail(channel) \in Seq(Message)
    BY <1>13, HeadTailProperties DEF Receive, TypeOK
  <2>2. QED
    BY <1>13, <2>1 DEF Receive, TypeOK
<1>14. ASSUME NEW r \in Reader, (\E c \in Chunk : RLock(r, c)) \/ \E s \in Shard : RUnlock(r, s)
       PROVE  Aside
  BY <1>14, SharingAside
<1>15. CASE UNCHANGED vars
  BY <1>15 DEF vars, TypeOK
<1>16. QED
  BY <1>2, <1>3, <1>4, <1>5, <1>6, <1>7, <1>8, <1>9, <1>10, <1>11, <1>12, <1>13, <1>14, <1>15
     DEF Next, ClientStep, WriterStep

-----------------------------------------------------------------------------
(* Transactions and latches *)

\* Every other step leaves what belongs to a transaction, and the history, alone.
LEMMA StepCases ==
  ASSUME [Next]_vars \/ Aside, TypeOK
  PROVE  \/ \E t \in Txn : Start(t) \/ WriterStep(t)
         \/ Receive
         \/ Aside
<1>1. CASE UNCHANGED vars
  BY <1>1 DEF vars, latches, store, log, stream, Aside, TypeOK
<1>2. QED
  BY <1>1, SharingAside DEF Next, ClientStep

\* A transaction only changes what is its own.
LEMMA OthersStay ==
  ASSUME TypeOK, NEW t \in Txn, Start(t) \/ WriterStep(t), NEW u \in Txn \ {t}
  PROVE  /\ pc'[u] = pc[u] /\ program'[u] = program[u] /\ todo'[u] = todo[u]
         /\ buffer'[u] = buffer[u] /\ id'[u] = id[u] /\ old'[u] = old[u]
         /\ sink'[u] = sink[u] /\ Current(u)' = Current(u)
<1> DEFINE Stays ==
             /\ pc'[u] = pc[u] /\ program'[u] = program[u] /\ todo'[u] = todo[u]
             /\ buffer'[u] = buffer[u] /\ id'[u] = id[u] /\ old'[u] = old[u]
             /\ sink'[u] = sink[u]
<1> USE DEF TypeOK, Goto
<1>1. ASSUME Start(t) PROVE Stays
  BY <1>1 DEF Start
<1>2. ASSUME NextID(t) PROVE Stays
  BY <1>2 DEF NextID
<1>3. ASSUME Lock(t) PROVE Stays
  BY <1>3 DEF Lock
<1>4. ASSUME ReadCell(t) PROVE Stays
  BY <1>4 DEF ReadCell, store
<1>5. ASSUME WriteCell(t) PROVE Stays
  BY <1>5 DEF WriteCell
<1>6. ASSUME WriteIndex(t) PROVE Stays
  BY <1>6 DEF WriteIndex
<1>7. ASSUME LoadRecorder(t) PROVE Stays
  BY <1>7 DEF LoadRecorder, store
<1>8. ASSUME AppendRecord(t) PROVE Stays
  BY <1>8 DEF AppendRecord, store
<1>9. ASSUME Send(t) PROVE Stays
  BY <1>9 DEF Send, store
<1>10. ASSUME Unlock(t) PROVE Stays
  BY <1>10 DEF Unlock
<1>11. Stays
  BY <1>1, <1>2, <1>3, <1>4, <1>5, <1>6, <1>7, <1>8, <1>9, <1>10 DEF WriterStep
<1> HIDE DEF TypeOK, Goto
<1>12. QED
  BY <1>11 DEF Current

LEMMA ProgressInit == Init => \A t \in Txn : Progress(t)
BY DEF Init, Progress, Working, Phases

LEMMA ProgressStep ==
  TypeOK /\ (\A t \in Txn : Progress(t)) /\ ([Next]_vars \/ Aside)
    => \A t \in Txn : Progress(t)'
<1> SUFFICES ASSUME TypeOK, \A t \in Txn : Progress(t), [Next]_vars \/ Aside
             PROVE  \A t \in Txn : Progress(t)'
  OBVIOUS
<1>1. CASE Receive \/ Aside
  BY <1>1 DEF Receive, Aside, local, Progress, Current
<1>2. ASSUME NEW t \in Txn, Start(t) \/ WriterStep(t), Progress(t)', NEW u \in Txn
      PROVE  Progress(u)'
  BY <1>2, OthersStay DEF Progress
<1>3. ASSUME NEW t \in Txn, Start(t) PROVE Progress(t)'
  <2>1. PICK p \in Programs :
          /\ Dirty(p) # {}
          /\ program' = [program EXCEPT ![t] = p]
          /\ buffer' = [buffer EXCEPT ![t] = [c \in Chunk |-> UpdateOf(t, p[c])]]
          /\ todo' = [todo EXCEPT ![t] = Dirty(p)]
    BY <1>3 DEF Start
  <2>2. pc'[t] = "next" /\ program'[t] = p /\ todo'[t] = Dirty(p)
    BY <1>3, <2>1 DEF Start, Goto, TypeOK
  <2>3. \A c \in Chunk : buffer'[t][c] = UpdateOf(t, p[c])
    BY <2>1 DEF TypeOK
  <2>4. QED
    BY <2>1, <2>2, <2>3 DEF Progress, Working, Phases, Rewritten, Dirty
<1>4. ASSUME NEW t \in Txn, NextID(t) \/ Lock(t) \/ ReadCell(t) PROVE Progress(t)'
  <2>1. /\ UNCHANGED <<program, buffer, todo, sink>>
        /\ pc[t] \in {"next", "lock", "read"} /\ pc'[t] \in {"lock", "read", "write"}
    BY <1>4 DEF NextID, Lock, ReadCell, Goto, TypeOK
  <2>2. QED
    BY <2>1 DEF Progress, Working, Phases, Rewritten
<1>5. ASSUME NEW t \in Txn, WriteCell(t) PROVE Progress(t)'
  <2>1. /\ pc[t] = "write" /\ pc'[t] = "index" /\ UNCHANGED <<program, todo, sink>>
        /\ \A c \in Chunk \ {Current(t)} : buffer'[t][c] = buffer[t][c]
    BY <1>5 DEF WriteCell, Goto, TypeOK
  <2>2. QED
    BY <2>1 DEF TypeOK, Progress, Working, Phases, Rewritten, Current
<1>6. ASSUME NEW t \in Txn, WriteIndex(t) \/ LoadRecorder(t) \/ AppendRecord(t) \/ Send(t)
      PROVE  Progress(t)'
  <2>1. /\ UNCHANGED <<program, buffer, todo>>
        /\ pc[t] \in Rewritten /\ pc'[t] \in Rewritten
        /\ pc'[t] = "append" => sink'[t] \in Snapper
    BY <1>6 DEF WriteIndex, LoadRecorder, AppendRecord, Send, Goto, TypeOK, Rewritten
  <2>2. Current(t)' = Current(t)
    BY <2>1 DEF Current
  <2>3. QED
    BY <2>1, <2>2 DEF Progress, Working, Phases, Rewritten
<1>7. ASSUME NEW t \in Txn, Unlock(t) PROVE Progress(t)'
  <2>1. /\ pc[t] = "unlock" /\ UNCHANGED <<program, buffer>>
        /\ pc'[t] = IF todo[t] = {Current(t)} THEN "done" ELSE "next"
        /\ todo'[t] = todo[t] \ {Current(t)}
    BY <1>7 DEF Unlock, Goto, TypeOK
  <2>2. todo'[t] = {} <=> todo[t] = {Current(t)}
    BY <2>1 DEF Progress, Working, Phases
  <2>3. \A c \in todo'[t] : buffer'[t][c] = UpdateOf(t, program'[t][c])
    BY <2>1 DEF Progress
  <2>4. QED
    BY <2>1, <2>2, <2>3 DEF Progress, Working, Phases, Rewritten
<1>8. ASSUME NEW t \in Txn, Start(t) \/ WriterStep(t) PROVE Progress(t)'
  BY <1>3, <1>4, <1>5, <1>6, <1>7, <1>8 DEF WriterStep
<1>9. QED
  BY <1>1, <1>2, <1>8, StepCases

\* Who is in a chunk is there alone.
LEMMA Alone ==
  ASSUME LatchInv, NEW t \in Txn, NEW u \in Txn, pc[t] \in Holding, pc[u] \in Holding,
         ShardOf(Current(t)) = ShardOf(Current(u))
  PROVE  t = u
BY DEF LatchInv

LEMMA Vacant ==
  ASSUME LatchInv, NEW c \in Chunk, holder[ShardOf(c)] = None
  PROVE  At(c, Holding) = {}
BY DEF At, LatchInv

LEMMA LatchInit == Init => LatchInv
BY DEF Init, LatchInv, Holding

LEMMA LatchStep ==
  TypeOK /\ (\A t \in Txn : Progress(t)) /\ LatchInv /\ ([Next]_vars \/ Aside) => LatchInv'
<1> SUFFICES ASSUME TypeOK, \A t \in Txn : Progress(t), LatchInv, [Next]_vars \/ Aside
             PROVE  LatchInv'
  OBVIOUS
<1>1. \A t \in Txn : pc[t] \in Working => ShardOf(Current(t)) \in Shard
  BY CurrentProperty, ShardType DEF Progress, TypeOK
<1>2. CASE Receive \/ Aside
  BY <1>2 DEF Receive, Aside, latches, local, LatchInv, Current
<1>3. ASSUME NEW t \in Txn, Lock(t) PROVE LatchInv'
  <2> DEFINE s == ShardOf(Current(t))
  <2>1. /\ s \in Shard /\ holder[s] = None /\ sharers[s] = {} /\ sharers' = sharers
        /\ holder' = [holder EXCEPT ![s] = t]
        /\ Current(t)' = Current(t)
    BY <1>1, <1>3 DEF Lock, Goto, Working, Phases, Free, Unshared, Current
  <2>2. ASSUME NEW u \in Txn \ {t}, pc'[u] \in Holding
        PROVE  holder'[ShardOf(Current(u))'] = u
    <3>1. pc[u] \in Holding /\ Current(u)' = Current(u)
      BY <1>3, <2>2, OthersStay DEF WriterStep
    <3>2. holder[ShardOf(Current(u))] = u /\ u # None
      BY <3>1 DEF LatchInv
    <3>3. QED
      BY <2>1, <3>1, <3>2 DEF TypeOK, ShardOf
  <2>3. QED
    BY <2>1, <2>2 DEF LatchInv, TypeOK, ShardOf
<1>4. ASSUME NEW t \in Txn, Unlock(t) PROVE LatchInv'
  <2> DEFINE s == ShardOf(Current(t))
  <2>1. /\ s \in Shard /\ holder[s] = t /\ sharers' = sharers
        /\ holder' = [holder EXCEPT ![s] = None]
        /\ pc'[t] \notin Holding
    BY <1>1, <1>4 DEF Unlock, Goto, Working, Phases, Holding, LatchInv, TypeOK
  <2>2. ASSUME NEW u \in Txn \ {t}, pc'[u] \in Holding
        PROVE  holder'[ShardOf(Current(u))'] = u
    <3>1. pc[u] \in Holding /\ Current(u)' = Current(u)
      BY <1>4, <2>2, OthersStay DEF WriterStep
    <3>2. holder[ShardOf(Current(u))] = u
      BY <3>1 DEF LatchInv
    <3>3. QED
      BY <2>1, <3>1, <3>2 DEF TypeOK, ShardOf
  <2>3. QED
    BY <2>1, <2>2 DEF LatchInv, TypeOK
<1>5. ASSUME NEW t \in Txn,
             Start(t) \/ NextID(t) \/ ReadCell(t) \/ WriteCell(t) \/ WriteIndex(t)
               \/ LoadRecorder(t) \/ AppendRecord(t) \/ Send(t)
      PROVE  LatchInv'
  <2>1. holder' = holder /\ sharers' = sharers
    BY <1>5 DEF Start, NextID, ReadCell, WriteCell, WriteIndex, LoadRecorder, AppendRecord,
                Send, latches
  <2>2. pc'[t] \in Holding => pc[t] \in Holding /\ todo' = todo
    BY <1>5 DEF Start, NextID, ReadCell, WriteCell, WriteIndex, LoadRecorder, AppendRecord,
                Send, Goto, Holding, TypeOK
  <2>3. \A u \in Txn : pc'[u] \in Holding => pc[u] \in Holding /\ Current(u)' = Current(u)
    <3>1. Start(t) \/ WriterStep(t)
      BY <1>5 DEF WriterStep
    <3>2. \A u \in Txn \ {t} : pc'[u] = pc[u] /\ Current(u)' = Current(u)
      BY <3>1, OthersStay
    <3>3. pc'[t] \in Holding => pc[t] \in Holding /\ Current(t)' = Current(t)
      BY <2>2 DEF Current
    <3>4. QED
      BY <3>2, <3>3
  <2>4. QED
    BY <2>1, <2>3 DEF LatchInv, ShardOf
<1>6. QED
  BY <1>2, <1>3, <1>4, <1>5, StepCases DEF WriterStep

-----------------------------------------------------------------------------
(* The history of a chunk *)

LEMMA OrderInit == Init => OrderInv
BY DEF Init, OrderInv

LEMMA HistoryType ==
  ASSUME TypeOK, NEW c \in Chunk
  PROVE  /\ order[c] \in Seq(Entry)
         /\ Len(order[c]) \in Nat /\ DOMAIN order[c] = 1 .. Len(order[c])
         /\ \A i \in 1 .. Len(order[c]) : order[c][i].txn \in Txn /\ order[c][i].id \in Nat
<1>1. order[c] \in Seq(Entry)
  BY DEF TypeOK
<1>2. \A i \in 1 .. Len(order[c]) : order[c][i] \in Entry
  BY <1>1, ElementOfSeq
<1>3. QED
  BY <1>1, <1>2, LenProperties DEF Entry

\* Commits are only added to the history of a chunk, by the one that latches it.
LEMMA OrderGrows ==
  ASSUME TypeOK, NEW t \in Txn, Start(t) \/ WriterStep(t), NEW c \in Chunk,
         ~(Lock(t) /\ c = Current(t))
  PROVE  order'[c] = order[c]
<1>1. CASE Start(t) \/ NextID(t) \/ ReadCell(t) \/ WriteCell(t) \/ WriteIndex(t)
           \/ LoadRecorder(t) \/ AppendRecord(t) \/ Send(t) \/ Unlock(t)
  BY <1>1 DEF Start, NextID, ReadCell, WriteCell, WriteIndex, LoadRecorder, AppendRecord,
              Send, Unlock
<1>2. CASE Lock(t)
  BY <1>2 DEF Lock, TypeOK
<1>3. QED
  BY <1>1, <1>2 DEF WriterStep

LEMMA OrderAppended ==
  ASSUME TypeOK, NEW t \in Txn, Lock(t), NEW c \in Chunk, c = Current(t)
  PROVE  /\ Len(order'[c]) = Len(order[c]) + 1
         /\ order'[c][Len(order[c]) + 1] = [txn |-> t, id |-> id[t]]
         /\ \A i \in 1 .. Len(order[c]) : order'[c][i] = order[c][i]
<1> DEFINE e == [txn |-> t, id |-> id[t]]
<1>1. order[c] \in Seq(Entry) /\ e \in Entry
  BY DEF TypeOK, Entry
<1>2. order'[c] = Append(order[c], e)
  BY DEF Lock, TypeOK
<1> HIDE DEF e
<1>3. QED
  BY <1>1, <1>2, AppendProperties DEF e

LEMMA PhaseStep ==
  ASSUME TypeOK, [Next]_vars \/ Aside, NEW t \in Txn, pc[t] # "idle"
  PROVE  pc'[t] # "idle" /\ program'[t] = program[t]
<1>1. CASE Receive \/ Aside
  BY <1>1 DEF Receive, Aside, local
<1>2. CASE Start(t) \/ WriterStep(t)
  BY <1>2 DEF TypeOK, WriterStep, Start, NextID, Lock, ReadCell, WriteCell, WriteIndex,
              LoadRecorder, AppendRecord, Send, Unlock, Goto
<1>3. QED
  BY <1>1, <1>2, StepCases, OthersStay

LEMMA OrderStep ==
  ASSUME TypeOK, \A t \in Txn : Progress(t), OrderInv, [Next]_vars \/ Aside
  PROVE  OrderInv'
<1> SUFFICES ASSUME NEW c \in Chunk, NEW i \in DOMAIN order'[c]
             PROVE  pc'[order'[c][i].txn] # "idle"
  BY DEF OrderInv
<1>1. ASSUME i \in DOMAIN order[c], order'[c][i] = order[c][i]
      PROVE  pc'[order'[c][i].txn] # "idle"
  <2>1. order[c][i].txn \in Txn /\ pc[order[c][i].txn] # "idle"
    BY <1>1, HistoryType DEF OrderInv
  <2>2. QED
    BY <1>1, <2>1, PhaseStep
<1>2. CASE Receive \/ Aside
  BY <1>1, <1>2 DEF Receive, Aside
<1>3. ASSUME NEW t \in Txn, Start(t) \/ WriterStep(t), ~(Lock(t) /\ c = Current(t))
      PROVE  pc'[order'[c][i].txn] # "idle"
  BY <1>1, <1>3, OrderGrows
<1>4. ASSUME NEW t \in Txn, Lock(t), c = Current(t)
      PROVE  pc'[order'[c][i].txn] # "idle"
  <2>1. /\ DOMAIN order[c] = 1 .. Len(order[c]) /\ Len(order[c]) \in Nat
        /\ DOMAIN order'[c] = 1 .. Len(order'[c])
    <3>1. order'[c] \in Seq(Entry)
      BY TypingStep DEF TypeOK
    <3>2. QED
      BY <3>1, HistoryType, LenProperties
  <2>2. pc'[t] # "idle"
    BY <1>4 DEF Lock, Goto, TypeOK
  <2>3. /\ Len(order'[c]) = Len(order[c]) + 1
        /\ order'[c][Len(order[c]) + 1] = [txn |-> t, id |-> id[t]]
        /\ \A j \in 1 .. Len(order[c]) : order'[c][j] = order[c][j]
    BY <1>4, OrderAppended, Zenon
  <2>4. i \in DOMAIN order[c] \/ i = Len(order[c]) + 1
    BY <2>1, <2>3
  <2>5. QED
    BY <1>1, <2>1, <2>2, <2>3, <2>4
<1>5. QED
  BY <1>2, <1>3, <1>4, StepCases

LEMMA LenOfDomain ==
  ASSUME NEW S, NEW s \in Seq(S), NEW n \in Nat, DOMAIN s = 1 .. n
  PROVE  Len(s) = n
<1>1. Len(s) \in Nat /\ 1 .. Len(s) = 1 .. n
  BY LenProperties
<1>2. \A i \in Nat : i \in 1 .. Len(s) <=> i \in 1 .. n
  BY <1>1
<1>3. \A i \in Nat : (1 <= i /\ i <= Len(s)) <=> (1 <= i /\ i <= n)
  BY <1>1, <1>2
<1>4. Len(s) <= n /\ n <= Len(s)
  BY <1>1, <1>3
<1>5. QED
  BY <1>1, <1>4

\* Serial, with a name for the commits that put a value and for the last of them.
Puts(c, n) == {i \in 1 .. n : program[order[c][i].txn][c] = "put"}
From(c, n) == CHOOSE i \in Puts(c, n) \cup {1} : \A j \in Puts(c, n) : j <= i

LEMMA SerialDef ==
  \A c, n : Serial(c, n) = [i \in 1 .. n - From(c, n) + 1 |-> order[c][From(c, n) + i - 1].txn]
BY DEF Serial, From, Puts

LEMMA SerialFrom ==
  ASSUME NEW c, NEW n, NEW k, From(c, n) = k
  PROVE  Serial(c, n) = [i \in 1 .. n - k + 1 |-> order[c][k + i - 1].txn]
BY SerialDef, Zenon

LEMMA SerialAt ==
  ASSUME NEW c, NEW n, NEW k, From(c, n) = k
  PROVE  /\ DOMAIN Serial(c, n) = 1 .. n - k + 1
         /\ \A i \in 1 .. n - k + 1 : Serial(c, n)[i] = order[c][k + i - 1].txn
<1>1. Serial(c, n) = [i \in 1 .. n - k + 1 |-> order[c][k + i - 1].txn]
  BY SerialFrom
<1>2. QED
  BY <1>1

LEMMA FromProperty ==
  ASSUME NEW c \in Chunk, NEW n \in Nat
  PROVE  /\ From(c, n) \in Puts(c, n) \cup {1}
         /\ \A j \in Puts(c, n) : j <= From(c, n)
         /\ From(c, n) \in 1 .. n + 1
<1> DEFINE P == Puts(c, n)
<1>1. P \in SUBSET (0 .. n) /\ P \in SUBSET (1 .. n)
  BY DEF Puts
<1> HIDE DEF P
<1>2. \E i \in P \cup {1} : \A j \in P : j <= i
  BY <1>1, GreatestExists
<1>3. From(c, n) \in P \cup {1} /\ \A j \in P : j <= From(c, n)
  BY <1>2 DEF From, P
<1>4. QED
  BY <1>1, <1>3 DEF P

LEMMA FromUnique ==
  ASSUME NEW c \in Chunk, NEW n \in Nat,
         NEW k \in Puts(c, n) \cup {1}, \A j \in Puts(c, n) : j <= k
  PROVE  From(c, n) = k
<1>1. Puts(c, n) \in SUBSET (1 .. n)
  BY DEF Puts
<1>2. QED
  BY <1>1, FromProperty

LEMMA SerialType ==
  ASSUME TypeOK, NEW c \in Chunk, NEW n \in 0 .. Len(order[c])
  PROVE  Serial(c, n) \in Seq(Txn)
<1>1. \A i \in 1 .. Len(order[c]) : order[c][i].txn \in Txn
  BY HistoryType
<1>2. n \in Nat /\ Len(order[c]) \in Nat
  BY HistoryType
<1>3. From(c, n) \in 1 .. n + 1
  BY <1>2, FromProperty
<1>4. n - From(c, n) + 1 \in Nat
      /\ \A i \in 1 .. n - From(c, n) + 1 : From(c, n) + i - 1 \in 1 .. Len(order[c])
  BY <1>2, <1>3
<1>5. Serial(c, n) \in [1 .. n - From(c, n) + 1 -> Txn]
  <2> SUFFICES ASSUME NEW k, k = From(c, n)
               PROVE  Serial(c, n) \in [1 .. n - k + 1 -> Txn]
    OBVIOUS
  <2>1. \A i \in 1 .. n - k + 1 : order[c][k + i - 1].txn \in Txn
    BY <1>1, <1>4
  <2>2. Serial(c, n) = [i \in 1 .. n - k + 1 |-> order[c][k + i - 1].txn]
    BY SerialFrom
  <2>3. QED
    BY <2>1, <2>2, Zenon
<1>6. QED
  BY <1>4, <1>5, SeqDef

\* One commit more: what the transaction wanted, applied to what was there.
LEMMA SerialNext ==
  ASSUME TypeOK, NEW c \in Chunk, NEW n \in Nat, NEW m, m = n + 1, m <= Len(order[c]),
         NEW t \in Txn, order[c][m].txn = t, program[t][c] # "none"
  PROVE  Serial(c, m) = Applied(UpdateOf(t, program[t][c]), Serial(c, n))
<1> DEFINE k == From(c, n)
           s == Serial(c, n)
           u == Serial(c, m)
<1>0. s \in Seq(Txn) /\ u \in Seq(Txn) /\ m = n + 1 /\ m \in Nat
  BY SerialType, HistoryType
<1>1. k \in Puts(c, n) \cup {1} /\ k \in 1 .. n + 1 /\ \A j \in Puts(c, n) : j <= k
  BY FromProperty
<1>2. program[t][c] \in {"put", "merge"}
  BY DEF TypeOK, Ops
<1>3. CASE program[t][c] = "put"
  <2>1. m \in Puts(c, m) /\ \A j \in Puts(c, m) : j <= m
    BY <1>0, <1>3 DEF Puts
  <2>2. From(c, m) = m
    BY <1>0, <2>1, FromUnique
  <2>3. ASSUME NEW j, j = m PROVE DOMAIN u = 1 .. 1 /\ u[1] = t
    <3>1. From(c, m) = j
      BY <2>2, <2>3
    <3>2. /\ DOMAIN u = 1 .. m - j + 1
          /\ \A i \in 1 .. m - j + 1 : u[i] = order[c][j + i - 1].txn
      BY <3>1, SerialAt
    <3> HIDE DEF u
    <3>3. m - j + 1 = 1 /\ j + 1 - 1 = m
      BY <1>0, <2>3
    <3>4. QED
      BY <3>2, <3>3
  <2>4. DOMAIN u = 1 .. 1 /\ u[1] = t
    BY <2>3
  <2> HIDE DEF u
  <2>5. u = <<t>>
    BY <1>0, <2>4, LenProperties
  <2>6. QED
    BY <1>3, <2>5 DEF Applied, UpdateOf, u
<1>4. CASE program[t][c] = "merge"
  <2>1. Puts(c, m) = Puts(c, n)
    BY <1>0, <1>4 DEF Puts
  <2>2. From(c, m) = k
    BY <2>1 DEF From
  <2>3. /\ DOMAIN s = 1 .. n - k + 1
        /\ \A i \in 1 .. n - k + 1 : s[i] = order[c][k + i - 1].txn
    BY SerialAt
  <2>4. /\ DOMAIN u = 1 .. m - k + 1
        /\ \A i \in 1 .. m - k + 1 : u[i] = order[c][k + i - 1].txn
    BY <2>2, SerialAt
  <2> HIDE DEF k, s, u
  <2>5. Len(s) = n - k + 1 /\ Len(u) = Len(s) + 1 /\ Len(s) \in Nat
    <3>1. n - k + 1 \in Nat /\ m - k + 1 \in Nat /\ m - k + 1 = n - k + 1 + 1
      BY <1>0, <1>1
    <3>2. Len(s) = n - k + 1
      BY <1>0, <2>3, <3>1, LenOfDomain
    <3>3. Len(u) = m - k + 1
      BY <1>0, <2>4, <3>1, LenOfDomain
    <3>4. QED
      BY <3>1, <3>2, <3>3
  <2>6. /\ Append(s, t) \in Seq(Txn) /\ Len(Append(s, t)) = Len(u)
        /\ \A i \in 1 .. Len(s) : Append(s, t)[i] = s[i]
        /\ Append(s, t)[Len(u)] = t
    BY <1>0, <2>5, AppendProperties
  <2>7. ASSUME NEW i \in 1 .. Len(u) PROVE Append(s, t)[i] = u[i]
    <3>1. CASE i = Len(u)
      <4>1. k + i - 1 = m /\ i \in 1 .. m - k + 1
        BY <1>0, <1>1, <2>5, <3>1
      <4>2. u[i] = order[c][m].txn
        BY <2>4, <4>1
      <4>3. QED
        BY <2>6, <3>1, <4>2
    <3>2. CASE i \in 1 .. Len(s)
      <4>1. i \in 1 .. n - k + 1 /\ i \in 1 .. m - k + 1
        BY <1>0, <1>1, <2>5, <3>2
      <4>2. QED
        BY <2>3, <2>4, <2>6, <3>2, <4>1
    <3>3. QED
      BY <2>5, <3>1, <3>2
  <2>8. u = Append(s, t)
    BY <1>0, <2>6, <2>7, SeqEqual
  <2>9. u = s \o <<t>>
    BY <1>0, <2>8, AppendIsConcat
  <2>10. QED
    BY <1>4, <2>9 DEF Applied, UpdateOf, s, u
<1>5. QED
  BY <1>2, <1>3, <1>4

\* What has been committed stays as it is.
LEMMA SerialStays ==
  ASSUME NEW c \in Chunk, NEW n \in Nat,
         \A i \in 1 .. n : order'[c][i] = order[c][i]
                            /\ program'[order[c][i].txn][c] = program[order[c][i].txn][c]
  PROVE  Serial(c, n)' = Serial(c, n)
<1>1. Puts(c, n)' = Puts(c, n)
  BY DEF Puts
<1>2. From(c, n)' = From(c, n)
  BY <1>1 DEF From
<1>3. \A i \in 1 .. n - From(c, n) + 1 : From(c, n) + i - 1 \in 1 .. n
  BY FromProperty
<1>4. Serial(c, n)' = [i \in 1 .. n - From(c, n) + 1 |-> order'[c][From(c, n) + i - 1].txn]
  <2>1. Serial(c, n)' = [i \in 1 .. n - From(c, n)' + 1 |-> order'[c][From(c, n)' + i - 1].txn]
    BY DEF Serial, From, Puts
  <2>2. QED
    BY <1>2, <2>1, Zenon
<1>5. Serial(c, n) = [i \in 1 .. n - From(c, n) + 1 |-> order[c][From(c, n) + i - 1].txn]
  BY SerialFrom
<1>6. QED
  BY <1>3, <1>4, <1>5

LEMMA OrderKeeps ==
  ASSUME TypeOK, [Next]_vars \/ Aside, NEW c \in Chunk
  PROVE  \A i \in 1 .. Len(order[c]) : order'[c][i] = order[c][i]
<1>1. CASE Receive \/ Aside
  BY <1>1 DEF Receive, Aside
<1>2. ASSUME NEW t \in Txn, Start(t) \/ WriterStep(t)
      PROVE  \A i \in 1 .. Len(order[c]) : order'[c][i] = order[c][i]
  <2>1. CASE Lock(t) /\ c = Current(t)
    BY <2>1, OrderAppended
  <2>2. CASE ~(Lock(t) /\ c = Current(t))
    BY <1>2, <2>2, OrderGrows
  <2>3. QED
    BY <2>1, <2>2
<1>3. QED
  BY <1>1, <1>2, StepCases

LEMMA SerialLast ==
  ASSUME TypeOK, NEW c \in Chunk, NEW n \in Nat \ {0}, n <= Len(order[c]),
         NEW t \in Txn, order[c][n].txn = t, program[t][c] # "none"
  PROVE  Serial(c, n) = Applied(UpdateOf(t, program[t][c]), Serial(c, n - 1))
<1>1. n - 1 \in Nat /\ n = (n - 1) + 1
  OBVIOUS
<1>2. QED
  BY <1>1, SerialNext

LEMMA SerialKeeps ==
  ASSUME TypeOK, OrderInv, [Next]_vars \/ Aside, NEW c \in Chunk, NEW n \in 0 .. Len(order[c])
  PROVE  Serial(c, n)' = Serial(c, n)
<1>1. ASSUME NEW i \in 1 .. n
      PROVE  /\ order'[c][i] = order[c][i]
             /\ program'[order[c][i].txn][c] = program[order[c][i].txn][c]
  <2>1. i \in DOMAIN order[c] /\ order'[c][i] = order[c][i]
    BY HistoryType, OrderKeeps
  <2>2. order[c][i].txn \in Txn /\ pc[order[c][i].txn] # "idle"
    BY <2>1, HistoryType DEF OrderInv
  <2>3. QED
    BY <2>1, <2>2, PhaseStep
<1>2. n \in Nat
  BY HistoryType
<1>3. QED
  BY <1>1, <1>2, SerialStays

-----------------------------------------------------------------------------
(* What the cell of a chunk looks like *)

LEMMA CellInit == TypeOK /\ Init => \A c \in Chunk : Cell(c)
<1> SUFFICES ASSUME TypeOK, Init, NEW c \in Chunk PROVE Cell(c)
  OBVIOUS
<1>1. /\ value[c] = << >> /\ index[c] = << >> /\ order[c] = << >> /\ At(c, Holding) = {}
      /\ commits[c] = 0 /\ Len(order[c]) = 0
  BY EmptySeq DEF Init, At, Holding
<1>2. Serial(c, 0) = << >>
  <2>1. Puts(c, 0) = {}
    BY DEF Puts
  <2>2. From(c, 0) = 1
    BY <2>1, FromUnique
  <2>3. DOMAIN Serial(c, 0) = 1 .. 0 - 1 + 1
    BY <2>2, SerialAt
  <2>4. Serial(c, 0) \in Seq(Txn)
    BY SerialType, HistoryType
  <2>5. Len(Serial(c, 0)) = 0
    BY <2>3, <2>4, LenOfDomain
  <2>6. QED
    BY <2>4, <2>5, EmptySeq
<1>3. QED
  BY <1>1, <1>2 DEF Cell

\* A step outside of a chunk leaves its cell as it is.
LEMMA CellStays ==
  ASSUME TypeOK, OrderInv, [Next]_vars \/ Aside, NEW c \in Chunk, Cell(c),
         value'[c] = value[c], index'[c] = index[c],
         commits'[c] = commits[c], order'[c] = order[c],
         At(c, Holding)' = At(c, Holding),
         \A t \in At(c, Holding) :
           pc'[t] = pc[t] /\ id'[t] = id[t] /\ old'[t] = old[t] /\ buffer'[t][c] = buffer[t][c]
  PROVE  Cell(c)'
<1>1. Len(order[c]) \in Nat
  BY HistoryType
<1>2. \A n \in 0 .. Len(order[c]) : Serial(c, n)' = Serial(c, n)
  BY SerialKeeps
<1>3. ASSUME NEW n, n = Len(order[c])
      PROVE  /\ At(c, Holding)' = {} => value'[c] = Serial(c, n)' /\ index'[c] = value'[c]
             /\ \A t \in At(c, Holding)' : Inside(t, c, n)'
             /\ n = 0 => commits'[c] = 0
             /\ n # 0 => commits'[c] = order'[c][n].id
  <2>1. At(c, Holding) = {} => value[c] = Serial(c, n) /\ index[c] = value[c]
    BY <1>3 DEF Cell
  <2>2. (n = 0 => commits[c] = 0) /\ (n # 0 => commits[c] = order[c][n].id)
    BY <1>3 DEF Cell
  <2>3. ASSUME NEW t \in At(c, Holding) PROVE Inside(t, c, n)'
    <3>1. Inside(t, c, n)
      BY <1>3, <2>3 DEF Cell
    <3>2. Serial(c, n)' = Serial(c, n) /\ Serial(c, n - 1)' = Serial(c, n - 1)
      BY <1>1, <1>2, <1>3, <3>1 DEF Inside
    <3>3. QED
      BY <2>3, <3>1, <3>2 DEF Inside
  <2>4. QED
    BY <1>1, <1>2, <1>3, <2>1, <2>2, <2>3
<1>4. QED
  BY <1>3 DEF Cell

LEMMA AtStays ==
  ASSUME TypeOK, NEW t \in Txn, Start(t) \/ WriterStep(t), NEW c \in Chunk,
         c # Current(t) \/ Start(t) \/ NextID(t), NEW P, P \subseteq Holding
  PROVE  At(c, P)' = At(c, P) /\ t \notin At(c, P)
<1>1. \A u \in Txn \ {t} : u \in At(c, P)' <=> u \in At(c, P)
  BY OthersStay DEF At
<1>2. CASE Start(t) \/ NextID(t) \/ Unlock(t)
  <2>1. pc'[t] \in {"next", "lock", "done"}
    BY <1>2 DEF Start, NextID, Unlock, Goto, TypeOK
  <2>2. pc'[t] \notin P
    BY <2>1 DEF Holding
  <2>3. t \notin At(c, P)
    BY <1>2 DEF Start, NextID, Unlock, Goto, Holding, At
  <2>4. QED
    BY <1>1, <2>2, <2>3 DEF At
<1>3. CASE Lock(t) \/ ReadCell(t) \/ WriteCell(t) \/ WriteIndex(t) \/ LoadRecorder(t)
           \/ AppendRecord(t) \/ Send(t)
  <2>1. todo' = todo /\ pc[t] \notin {"idle", "next"}
    BY <1>3 DEF Lock, ReadCell, WriteCell, WriteIndex, LoadRecorder, AppendRecord, Send, Goto
  <2>2. Current(t)' = Current(t)
    BY <2>1 DEF Current
  <2>3. c # Current(t)
    BY <2>1 DEF Start, NextID, Goto
  <2>4. QED
    BY <1>1, <2>2, <2>3 DEF At
<1>4. QED
  BY <1>2, <1>3 DEF WriterStep

\* From Lock to Send the transaction is in the chunk, and nobody else.
LEMMA AtOwn ==
  ASSUME TypeOK, LatchInv, LatchInv', NEW t \in Txn, NEW c \in Chunk, c = Current(t),
         Lock(t) \/ ReadCell(t) \/ WriteCell(t) \/ WriteIndex(t) \/ LoadRecorder(t)
           \/ AppendRecord(t) \/ Send(t)
  PROVE  At(c, Holding)' = {t}
<1>1. todo' = todo /\ pc'[t] \in Holding
  BY DEF Lock, ReadCell, WriteCell, WriteIndex, LoadRecorder, AppendRecord, Send, Goto,
         Holding, TypeOK
<1>2. Current(t)' = Current(t)
  BY <1>1 DEF Current
<1>3. \A u \in Txn : pc'[u] \in Holding /\ Current(u)' = c => u = t
  BY <1>1, <1>2 DEF LatchInv
<1>4. QED
  BY <1>1, <1>2, <1>3 DEF At

LEMMA AtAlone ==
  ASSUME LatchInv, NEW t \in Txn, NEW c \in Chunk, c = Current(t), pc[t] \in Holding
  PROVE  At(c, Holding) = {t}
BY Alone DEF At

LEMMA CellLocked ==
  ASSUME CommitInv, LatchInv', NEW t \in Txn, Lock(t), NEW c \in Chunk, c = Current(t)
  PROVE  Cell(c)'
<1> SUFFICES ASSUME NEW m, m = Len(order[c]), NEW n, n = Len(order'[c])
             PROVE  /\ ~(At(c, Holding)' = {})
                    /\ \A u \in At(c, Holding)' : Inside(u, c, n)'
                    /\ n = 0 => commits'[c] = 0
                    /\ n # 0 => commits'[c] = order'[c][n].id
  BY DEF Cell
<1>0. TypeOK /\ LatchInv /\ OrderInv /\ Next
  BY DEF CommitInv, Next, ClientStep, WriterStep
<1>1. At(c, Holding)' = {t}
  BY <1>0, AtOwn
<1>2. m \in Nat /\ n = m + 1 /\ order'[c][n].txn = t /\ order'[c][n].id = id[t]
  <2>1. n = m + 1 /\ order'[c][m + 1] = [txn |-> t, id |-> id[t]]
    BY <1>0, OrderAppended
  <2>2. QED
    BY <1>0, <2>1, HistoryType
<1>3. pc'[t] = "read" /\ commits'[c] = id[t] /\ value' = value /\ id' = id
  BY <1>0 DEF Lock, Goto, TypeOK
<1>4. At(c, Holding) = {}
  <2>1. ShardOf(c) \in Shard /\ holder[ShardOf(c)] = None
    BY ShardType DEF Lock, Free
  <2>2. QED
    BY <1>0, <2>1, Vacant
<1>5. value[c] = Serial(c, m)
  BY <1>4 DEF CommitInv, Cell
<1>6. Serial(c, m)' = Serial(c, m)
  BY <1>0, <1>2, SerialKeeps
<1>7. Inside(t, c, n)'
  <2>1. n - 1 = m
    BY <1>2
  <2>2. value'[c] = Serial(c, n - 1)'
    BY <1>3, <1>5, <1>6, <2>1
  <2>3. QED
    BY <1>2, <1>3, <2>2 DEF Inside, Unwritten, Rewritten, Indexed
<1>8. QED
  BY <1>1, <1>2, <1>3, <1>7

LEMMA CellWorked ==
  ASSUME CommitInv, LatchInv', NEW t \in Txn, NEW c \in Chunk, c = Current(t),
         ReadCell(t) \/ WriteCell(t) \/ WriteIndex(t) \/ LoadRecorder(t)
           \/ AppendRecord(t) \/ Send(t)
  PROVE  Cell(c)'
<1> SUFFICES ASSUME NEW n, n = Len(order[c])
             PROVE  Cell(c)'
  OBVIOUS
<1>0. TypeOK /\ LatchInv /\ OrderInv /\ Next /\ WriterStep(t) /\ Progress(t)
  BY DEF CommitInv, Next, ClientStep, WriterStep
<1>1. At(c, Holding)' = {t}
  BY <1>0, AtOwn
<1>2. order' = order /\ commits' = commits /\ id' = id /\ pc[t] \in Holding
  BY DEF ReadCell, WriteCell, WriteIndex, LoadRecorder, AppendRecord, Send, Goto, Holding, store
<1>3. At(c, Holding) = {t}
  BY <1>0, <1>2, AtAlone
<1>4. Inside(t, c, n) /\ (n = 0 => commits[c] = 0) /\ (n # 0 => commits[c] = order[c][n].id)
  BY <1>3 DEF CommitInv, Cell
<1>5. n \in Nat \ {0} /\ n - 1 \in Nat /\ n - 1 + 1 = n
  BY <1>0, <1>4, HistoryType DEF Inside
<1>6. Serial(c, n)' = Serial(c, n) /\ Serial(c, n - 1)' = Serial(c, n - 1)
  BY <1>0, <1>5, SerialKeeps
<1>7. CASE ReadCell(t)
  <2>1. pc[t] = "read" /\ pc'[t] = "write" /\ value' = value /\ old'[t] = value[c]
    BY <1>0, <1>7 DEF ReadCell, Goto, TypeOK, store
  <2>2. Inside(t, c, n)'
    BY <1>2, <1>4, <1>6, <2>1 DEF Inside, Unwritten, Rewritten, Indexed
  <2>3. QED
    BY <1>1, <1>2, <1>4, <2>2 DEF Cell
<1>8. CASE WriteCell(t)
  <2>1. /\ pc[t] = "write" /\ pc'[t] = "index" /\ old'[t] = old[t]
        /\ value'[c] = Applied(buffer[t][c], old[t])
        /\ buffer'[t][c] = [op |-> "put", val |-> Applied(buffer[t][c], old[t])]
    BY <1>0, <1>8 DEF WriteCell, Goto, TypeOK
  <2>2. c \in todo[t] /\ program[t][c] # "none" /\ buffer[t][c] = UpdateOf(t, program[t][c])
    <3>1. todo[t] # {}
      BY <1>0, <2>1 DEF Progress, Working, Phases
    <3>2. c \in todo[t]
      BY <1>0, <3>1, CurrentProperty DEF TypeOK
    <3>3. QED
      BY <1>0, <2>1, <3>2 DEF Progress, Dirty, Rewritten
  <2>3. order[c][n].txn = t /\ old[t] = Serial(c, n - 1)
    BY <1>4, <2>1 DEF Inside
  <2>4. Serial(c, n) = Applied(UpdateOf(t, program[t][c]), Serial(c, n - 1))
    <3>1. TypeOK /\ n \in Nat \ {0} /\ n <= Len(order[c])
      BY <1>0, <1>5
    <3>2. order[c][n].txn = t
      BY <2>3
    <3>3. program[t][c] # "none"
      BY <2>2
    <3>4. QED
      BY <3>1, <3>2, <3>3, SerialLast
  <2>5. value'[c] = Serial(c, n) /\ buffer'[t][c] = [op |-> "put", val |-> value'[c]]
    BY <2>1, <2>2, <2>3, <2>4
  <2>6. Inside(t, c, n)'
    BY <1>2, <1>4, <1>6, <2>1, <2>3, <2>5 DEF Inside, Unwritten, Rewritten, Indexed
  <2>7. QED
    BY <1>1, <1>2, <1>4, <2>6 DEF Cell
<1>9. CASE WriteIndex(t)
  <2>1. /\ pc[t] = "index" /\ pc'[t] = "record" /\ UNCHANGED <<value, old, buffer>>
        /\ index'[c] = IF buffer[t][c].op = "put" THEN buffer[t][c].val ELSE index[c]
    BY <1>0, <1>9 DEF WriteIndex, Goto, TypeOK
  <2>2. buffer[t][c] = [op |-> "put", val |-> value[c]]
    BY <1>4, <2>1 DEF Inside, Rewritten
  <2>3. index'[c] = value'[c]
    BY <2>1, <2>2
  <2>4. Inside(t, c, n)'
    BY <1>2, <1>4, <1>6, <2>1, <2>3 DEF Inside, Unwritten, Rewritten, Indexed
  <2>5. QED
    BY <1>1, <1>2, <1>4, <2>4 DEF Cell
<1>10. CASE LoadRecorder(t) \/ AppendRecord(t) \/ Send(t)
  <2>1. /\ pc[t] \in {"record", "append", "send"} /\ pc'[t] \in {"append", "send", "unlock"}
        /\ UNCHANGED <<value, index, old, buffer>>
    BY <1>0, <1>10 DEF LoadRecorder, AppendRecord, Send, Goto, TypeOK, store
  <2>2. Inside(t, c, n)'
    BY <1>2, <1>4, <1>6, <2>1 DEF Inside, Unwritten, Rewritten, Indexed
  <2>3. QED
    BY <1>1, <1>2, <1>4, <2>2 DEF Cell
<1>11. QED
  BY <1>7, <1>8, <1>9, <1>10

LEMMA CellUnlocked ==
  ASSUME CommitInv, NEW t \in Txn, Unlock(t), NEW c \in Chunk, c = Current(t)
  PROVE  Cell(c)'
<1> SUFFICES ASSUME NEW n, n = Len(order[c])
             PROVE  Cell(c)'
  OBVIOUS
<1>0. TypeOK /\ LatchInv /\ OrderInv /\ Next /\ WriterStep(t)
  BY DEF CommitInv, Next, ClientStep, WriterStep
<1>1. /\ pc[t] = "unlock" /\ pc'[t] \in {"done", "next"}
      /\ UNCHANGED <<order, commits, value, index>>
  BY <1>0 DEF Unlock, Goto, TypeOK, store
<1>2. At(c, Holding) = {t}
  BY <1>0, <1>1, AtAlone DEF Holding
<1>3. At(c, Holding)' = {}
  <2>1. \A u \in Txn \ {t} : u \in At(c, Holding)' <=> u \in At(c, Holding)
    BY <1>0, OthersStay DEF At
  <2>2. QED
    BY <1>1, <1>2, <2>1 DEF At, Holding
<1>4. Inside(t, c, n) /\ (n = 0 => commits[c] = 0) /\ (n # 0 => commits[c] = order[c][n].id)
  BY <1>2 DEF CommitInv, Cell
<1>5. value[c] = Serial(c, n) /\ index[c] = value[c]
  BY <1>1, <1>4 DEF Inside, Rewritten, Indexed
<1>6. Serial(c, n)' = Serial(c, n)
  BY <1>0, SerialKeeps, HistoryType
<1>7. QED
  BY <1>1, <1>3, <1>4, <1>5, <1>6 DEF Cell

LEMMA CellStep ==
  ASSUME CommitInv, LatchInv', [Next]_vars \/ Aside, NEW c \in Chunk
  PROVE  Cell(c)'
<1>0. TypeOK /\ LatchInv /\ OrderInv /\ Cell(c)
  BY DEF CommitInv
<1>1. CASE Receive \/ Aside
  <2>1. UNCHANGED <<value, index, commits, order, pc, todo, id, old, buffer>>
    BY <1>1 DEF Receive, Aside, store, local
  <2>2. At(c, Holding)' = At(c, Holding)
    BY <2>1 DEF At, Current
  <2>3. QED
    BY <1>0, <2>1, <2>2, CellStays
<1>2. ASSUME NEW t \in Txn, Start(t) \/ WriterStep(t),
             c # Current(t) \/ Start(t) \/ NextID(t)
      PROVE  Cell(c)'
  <2>1. At(c, Holding)' = At(c, Holding) /\ t \notin At(c, Holding)
    BY <1>0, <1>2, AtStays
  <2>2. \A u \in At(c, Holding) :
          pc'[u] = pc[u] /\ id'[u] = id[u] /\ old'[u] = old[u] /\ buffer'[u] = buffer[u]
    BY <1>0, <1>2, <2>1, OthersStay DEF At
  <2>3. value'[c] = value[c] /\ index'[c] = index[c] /\ commits'[c] = commits[c]
    BY <1>0, <1>2 DEF WriterStep, Start, NextID, Lock, ReadCell, WriteCell, WriteIndex,
                      LoadRecorder, AppendRecord, Send, Unlock, Goto, store, TypeOK
  <2>4. order'[c] = order[c]
    <3>1. ~(Lock(t) /\ c = Current(t))
      BY <1>2 DEF Start, NextID, Lock, Goto
    <3>2. QED
      BY <1>0, <1>2, <3>1, OrderGrows
  <2>5. QED
    BY <1>0, <2>1, <2>2, <2>3, <2>4, CellStays
<1>3. ASSUME NEW t \in Txn, WriterStep(t), c = Current(t), ~NextID(t)
      PROVE  Cell(c)'
  BY <1>3, CellLocked, CellWorked, CellUnlocked DEF WriterStep
<1>4. QED
  BY <1>0, <1>1, <1>2, <1>3, StepCases

-----------------------------------------------------------------------------
(* Theorems *)

LEMMA CommitInvInit == Init => CommitInv
BY TypingInit, ProgressInit, LatchInit, OrderInit, CellInit DEF CommitInv

LEMMA CommitInvStep == CommitInv /\ ([Next]_vars \/ Aside) => CommitInv'
BY TypingStep, ProgressStep, LatchStep, OrderStep, CellStep DEF CommitInv

LEMMA CommitInvWhole == CommitInv => ReadersSeeWholeCommits
<1> SUFFICES ASSUME CommitInv, NEW c \in Chunk, sharers[ShardOf(c)] # {}
             PROVE  /\ index[c] = value[c]
                    /\ value[c] = Serial(c, Len(order[c]))
                    /\ order[c] # << >> => commits[c] = order[c][Len(order[c])].id
  BY DEF ReadersSeeWholeCommits
<1>1. holder[ShardOf(c)] = None
  BY ShardType DEF CommitInv, LatchInv
<1>2. At(c, Holding) = {}
  BY <1>1, Vacant DEF CommitInv
<1>3. order[c] # << >> => Len(order[c]) # 0
  BY EmptySeq DEF CommitInv, TypeOK
<1>4. QED
  BY <1>2, <1>3 DEF CommitInv, Cell

\* Every variable has the type it is declared with (of the code: a transaction
\* that commits has a chunk to commit, and appends to a recorder that it loaded).
THEOREM CommitTyping == Spec => []TypeOK
<1>1. CommitInv => TypeOK
  BY DEF CommitInv
<1>2. QED
  BY <1>1, CommitInvInit, CommitInvStep, PTL DEF Spec

\* txn_lock.go, rangeRead: who has the shared latch of a chunk sees its column,
\* its computed column and its commit ID as the whole commits of the chunk,
\* one after the other in the order in which they were latched, have left them.
THEOREM WholeCommits == Spec => []ReadersSeeWholeCommits
BY CommitInvInit, CommitInvStep, CommitInvWhole, PTL DEF Spec

-----------------------------------------------------------------------------
(* The change stream and a replica *)

Sent == received \o channel

\* How many of the first i messages, of those in s, are commits of chunk c.
NthOf(s, c, i) == Cardinality({j \in 1 .. i : s[j].chunk = c})
Nth(c, i) == NthOf(Sent, c, i)

MessageInv(i) ==
  /\ pc[Sent[i].txn] # "idle"
  /\ program[Sent[i].txn][Sent[i].chunk] # "none"
  /\ \A c \in Chunk :
       /\ Sent[i].chunk = c =>
            Sent[i].updates[c] = [op |-> "put", val |-> Serial(c, Nth(c, i))]
       /\ program[Sent[i].txn][c] = "none" => Sent[i].updates[c].op = "none"

\* All commits of a chunk have been sent, but for the one that is under way.
CountInv(c) ==
  \A n \in {Nth(c, Len(Sent))} :
    /\ At(c, Unsent) = {} => Len(order[c]) = n
    /\ At(c, Unsent) # {} => Len(order[c]) = n + 1

BufferInv == \A t \in Txn, c \in Chunk : program[t][c] = "none" => buffer[t][c].op = "none"

\* A program is chosen when the transaction starts to commit.
IdleInv == \A t \in Txn, c \in Chunk : pc[t] = "idle" => program[t][c] = "none"

StreamInv ==
  /\ BufferInv /\ IdleInv
  /\ \A i \in 1 .. Len(Sent) : MessageInv(i)
  /\ \A c \in Chunk : CountInv(c)

\* What the replica has of the chunks that no transaction spans.
ReplicaInv == \A c \in Chunk : \A n \in {Nth(c, Len(received))} : Local(c) => replica[c] = Serial(c, n)

-----------------------------------------------------------------------------
(* The messages that were sent *)

LEMMA SentType ==
  ASSUME TypeOK
  PROVE  /\ Sent \in Seq(Message) /\ Len(Sent) \in Nat
         /\ \A i \in 1 .. Len(Sent) :
              /\ Sent[i].txn \in Txn /\ Sent[i].chunk \in Chunk
              /\ Sent[i].updates \in [Chunk -> Update]
<1>1. Sent \in Seq(Message)
  BY ConcatProperties DEF TypeOK, Sent
<1>2. \A i \in 1 .. Len(Sent) : Sent[i] \in Message
  BY <1>1, ElementOfSeq
<1>3. QED
  BY <1>1, <1>2, LenProperties DEF Message

LEMMA HeadMoves ==
  ASSUME NEW S, NEW a \in Seq(S), NEW b \in Seq(S), b # << >>
  PROVE  /\ Append(a, Head(b)) \o Tail(b) = a \o b
         /\ Len(a) + 1 <= Len(a \o b) /\ (a \o b)[Len(a) + 1] = Head(b)
<1>1. /\ Len(a) \in Nat /\ Len(b) \in Nat \ {0}
      /\ Head(b) \in S /\ Tail(b) \in Seq(S)
  BY EmptySeq, LenProperties, HeadTailProperties
<1>2. b = SubSeq(b, 1, Len(b))
  BY SubSeqFull
<1>3. Head(SubSeq(b, 1, Len(b))) = b[1]
      /\ SubSeq(b, 1, Len(b)) = <<b[1]>> \o SubSeq(b, 2, Len(b))
  BY <1>1, HeadTailOfSubSeq, SubSeqRecursiveFirst
<1>4. b = <<Head(b)>> \o Tail(b) /\ Head(b) = b[1]
  BY <1>2, <1>3, TailIsSubSeq
<1> DEFINE h == Head(b)
           r == Tail(b)
<1>5. <<h>> \in Seq(S) /\ Append(a, h) = a \o <<h>>
  BY <1>1, AppendIsConcat
<1> HIDE DEF h, r
<1>6. (a \o <<h>>) \o r = a \o (<<h>> \o r)
  BY <1>1, <1>5, ConcatAssociative DEF r
<1>7. Append(a, h) \o r = a \o b
  BY <1>4, <1>5, <1>6 DEF h, r
<1>8. Len(a \o b) = Len(a) + Len(b) /\ (a \o b)[Len(a) + 1] = b[1]
  BY <1>1, ConcatProperties
<1>9. QED
  BY <1>1, <1>4, <1>7, <1>8 DEF h, r

\* Receiving moves a message, and adds none.
LEMMA SentReceive ==
  ASSUME TypeOK, Receive
  PROVE  /\ Sent' = Sent
         /\ Len(received) + 1 <= Len(Sent) /\ Head(channel) = Sent[Len(received) + 1]
         /\ Len(received') = Len(received) + 1
<1>1. /\ channel \in Seq(Message) /\ received \in Seq(Message) /\ channel # << >>
      /\ received' = Append(received, Head(channel)) /\ channel' = Tail(channel)
  BY DEF Receive, TypeOK
<1>2. Head(channel) \in Message
  BY <1>1, HeadTailProperties
<1>3. /\ Append(received, Head(channel)) \o Tail(channel) = received \o channel
      /\ Len(received) + 1 <= Len(received \o channel)
      /\ Head(channel) = (received \o channel)[Len(received) + 1]
  BY <1>1, HeadMoves
<1>4. Len(Append(received, Head(channel))) = Len(received) + 1
  BY <1>1, <1>2, AppendProperties
<1>5. QED
  BY <1>1, <1>3, <1>4 DEF Sent

\* Sending adds one.
LEMMA SentSend ==
  ASSUME TypeOK, NEW t \in Txn, Send(t), NEW c \in Chunk, c = Current(t)
  PROVE  /\ [txn |-> t, chunk |-> c, updates |-> buffer[t]] \in Message
         /\ Sent' = Append(Sent, [txn |-> t, chunk |-> c, updates |-> buffer[t]])
         /\ Len(Sent') = Len(Sent) + 1
         /\ \A i \in 1 .. Len(Sent) : Sent'[i] = Sent[i]
         /\ Sent'[Len(Sent) + 1] = [txn |-> t, chunk |-> c, updates |-> buffer[t]]
<1> DEFINE m == [txn |-> t, chunk |-> c, updates |-> buffer[t]]
<1>1. /\ channel \in Seq(Message) /\ received \in Seq(Message) /\ m \in Message
      /\ channel' = Append(channel, m) /\ received' = received
  BY DEF TypeOK, Send, Message
<1> HIDE DEF m
<1>2. channel' = channel \o <<m>> /\ <<m>> \in Seq(Message)
  BY <1>1, AppendIsConcat
<1>3. Sent' = Sent \o <<m>>
  BY <1>1, <1>2, ConcatAssociative DEF Sent
<1>4. Sent' = Append(Sent, m)
  BY <1>1, <1>3, AppendIsConcat, SentType
<1>5. QED
  BY <1>1, <1>4, AppendProperties, SentType DEF m

LEMMA SentStays ==
  ASSUME TypeOK, NEW t \in Txn, Start(t) \/ (WriterStep(t) /\ ~Send(t))
  PROVE  Sent' = Sent
BY DEF WriterStep, Start, NextID, Lock, ReadCell, WriteCell, WriteIndex, LoadRecorder,
       AppendRecord, Unlock, stream, Sent

-----------------------------------------------------------------------------
(* Counting the commits of a chunk in the stream *)

LEMMA NthOfType ==
  ASSUME NEW s, NEW c, NEW i \in Nat
  PROVE  IsFiniteSet({j \in 1 .. i : s[j].chunk = c}) /\ NthOf(s, c, i) \in Nat
<1>1. IsFiniteSet(1 .. i)
  BY FS_Interval
<1>2. QED
  BY <1>1, FS_Subset, FS_CardinalityType DEF NthOf

LEMMA NthOfNext ==
  ASSUME NEW s, NEW c, NEW i \in Nat, NEW k, k = i + 1
  PROVE  NthOf(s, c, k) = IF s[k].chunk = c THEN NthOf(s, c, i) + 1 ELSE NthOf(s, c, i)
<1> DEFINE S == {j \in 1 .. i : s[j].chunk = c}
           T == {j \in 1 .. k : s[j].chunk = c}
<1>1. IsFiniteSet(S)
  BY NthOfType
<1>2. T = (IF s[k].chunk = c THEN S \cup {k} ELSE S) /\ k \notin S
  OBVIOUS
<1> HIDE DEF S, T
<1>3. Cardinality(T) = IF s[k].chunk = c THEN Cardinality(S) + 1 ELSE Cardinality(S)
  BY <1>1, <1>2, FS_AddElement
<1>4. QED
  BY <1>3 DEF S, T, NthOf

LEMMA NthType == \A c : \A i \in Nat : Nth(c, i) \in Nat
BY NthOfType DEF Nth

LEMMA NthZero == \A c : Nth(c, 0) = 0
<1>1. \A c : {j \in 1 .. 0 : Sent[j].chunk = c} = {}
  OBVIOUS
<1>2. QED
  BY <1>1, FS_EmptySet DEF Nth, NthOf

LEMMA NthNext ==
  ASSUME NEW c, NEW i \in Nat, NEW k, k = i + 1
  PROVE  /\ Nth(c, k) = IF Sent[k].chunk = c THEN Nth(c, i) + 1 ELSE Nth(c, i)
         /\ Nth(c, k)' = IF Sent'[k].chunk = c THEN Nth(c, i)' + 1 ELSE Nth(c, i)'
BY NthOfNext DEF Nth

LEMMA NthMonotone ==
  ASSUME NEW c, NEW n \in Nat, NEW i \in 0 .. n
  PROVE  Nth(c, i) <= Nth(c, n)
<1> DEFINE S == {j \in 1 .. i : Sent[j].chunk = c}
           T == {j \in 1 .. n : Sent[j].chunk = c}
<1>1. S \in SUBSET T
  OBVIOUS
<1>2. IsFiniteSet(T)
  BY NthOfType
<1> HIDE DEF S, T
<1>3. Cardinality(S) <= Cardinality(T)
  BY <1>1, <1>2, FS_Subset
<1>4. QED
  BY <1>3 DEF S, T, Nth, NthOf

LEMMA NthStays ==
  ASSUME NEW c, NEW n \in Nat, \A j \in 1 .. n : Sent'[j] = Sent[j]
  PROVE  Nth(c, n)' = Nth(c, n)
BY DEF Nth, NthOf

LEMMA NthAtMost ==
  ASSUME TypeOK, NEW c \in Chunk, CountInv(c), NEW i \in 0 .. Len(Sent)
  PROVE  Nth(c, i) \in 0 .. Len(order[c])
<1>1. Len(Sent) \in Nat /\ Len(order[c]) \in Nat
  BY SentType, HistoryType
<1>2. Nth(c, i) <= Nth(c, Len(Sent)) /\ Nth(c, i) \in Nat /\ Nth(c, Len(Sent)) \in Nat
  <2>1. i \in Nat
    BY <1>1
  <2>2. QED
    BY <1>1, <2>1, NthMonotone, NthType
<1>3. Nth(c, Len(Sent)) <= Len(order[c])
  BY <1>1, <1>2 DEF CountInv
<1>4. QED
  BY <1>1, <1>2, <1>3

-----------------------------------------------------------------------------
(* What the messages carry *)

LEMMA StreamInit == TypeOK /\ Init => StreamInv
<1> SUFFICES ASSUME TypeOK, Init PROVE StreamInv
  OBVIOUS
<1>1. Sent = << >> /\ Len(Sent) = 0
  BY EmptySeq, ConcatEmptySeq DEF Init, TypeOK, Sent
<1>2. BufferInv /\ IdleInv
  BY DEF Init, BufferInv, IdleInv, UpdateOf
<1>3. ASSUME NEW c \in Chunk PROVE CountInv(c)
  <2>1. At(c, Unsent) = {} /\ Len(order[c]) = 0
    BY EmptySeq DEF Init, At, Unsent, Holding, TypeOK
  <2>2. QED
    BY <1>1, <2>1, NthZero DEF CountInv
<1>4. QED
  BY <1>1, <1>2, <1>3 DEF StreamInv

LEMMA BufferStep ==
  ASSUME TypeOK, \A t \in Txn : Progress(t), BufferInv, [Next]_vars \/ Aside
  PROVE  BufferInv'
<1>1. CASE Receive \/ Aside
  BY <1>1 DEF Receive, Aside, local, BufferInv
<1>2. ASSUME NEW t \in Txn, Start(t) \/ WriterStep(t),
             \A c \in Chunk : program'[t][c] = "none" => buffer'[t][c].op = "none"
      PROVE  BufferInv'
  BY <1>2, OthersStay DEF BufferInv
<1>3. ASSUME NEW t \in Txn, Start(t), NEW c \in Chunk, program'[t][c] = "none"
      PROVE  buffer'[t][c].op = "none"
  <2>1. PICK p \in Programs :
          /\ program' = [program EXCEPT ![t] = p]
          /\ buffer' = [buffer EXCEPT ![t] = [d \in Chunk |-> UpdateOf(t, p[d])]]
    BY <1>3 DEF Start
  <2>2. buffer'[t][c] = UpdateOf(t, p[c]) /\ program'[t] = p
    BY <2>1 DEF TypeOK
  <2>3. QED
    BY <1>3, <2>2 DEF UpdateOf
<1>4. ASSUME NEW t \in Txn, WriteCell(t), NEW c \in Chunk, program'[t][c] = "none"
      PROVE  buffer'[t][c].op = "none"
  <2>1. pc[t] = "write" /\ program' = program
    BY <1>4 DEF WriteCell, Goto
  <2>2. Current(t) \in todo[t]
    BY <2>1, CurrentProperty DEF Progress, Working, Phases, TypeOK
  <2>3. c # Current(t)
    BY <1>4, <2>1, <2>2 DEF Progress, Dirty
  <2>4. buffer'[t][c] = buffer[t][c]
    BY <1>4, <2>3 DEF WriteCell, TypeOK
  <2>5. QED
    BY <1>4, <2>1, <2>4 DEF BufferInv
<1>5. ASSUME NEW t \in Txn, NextID(t) \/ Lock(t) \/ ReadCell(t) \/ WriteIndex(t)
               \/ LoadRecorder(t) \/ AppendRecord(t) \/ Send(t) \/ Unlock(t)
      PROVE  BufferInv'
  BY <1>5 DEF NextID, Lock, ReadCell, WriteIndex, LoadRecorder, AppendRecord, Send, Unlock,
              BufferInv
<1>6. QED
  BY <1>1, <1>2, <1>3, <1>4, <1>5, StepCases DEF WriterStep

LEMMA IdleStep ==
  ASSUME TypeOK, IdleInv, [Next]_vars \/ Aside
  PROVE  IdleInv'
<1>1. ASSUME NEW u \in Txn, pc'[u] = "idle" PROVE pc[u] = "idle" /\ program'[u] = program[u]
  <2>1. pc[u] = "idle"
    BY <1>1, PhaseStep
  <2>2. CASE Receive \/ Aside
    BY <2>1, <2>2 DEF Receive, Aside, local
  <2>3. CASE Start(u) \/ WriterStep(u)
    BY <1>1, <2>1, <2>3 DEF TypeOK, WriterStep, Start, NextID, Lock, ReadCell, WriteCell,
       WriteIndex, LoadRecorder, AppendRecord, Send, Unlock, Goto
  <2>4. QED
    BY <2>1, <2>2, <2>3, StepCases, OthersStay
<1>2. QED
  BY <1>1 DEF IdleInv

\* A message stays what it was.
LEMMA MessageStays ==
  ASSUME CommitInv, StreamInv, [Next]_vars \/ Aside,
         \A j \in 1 .. Len(Sent) : Sent'[j] = Sent[j],
         NEW i \in 1 .. Len(Sent)
  PROVE  MessageInv(i)'
<1>0. TypeOK /\ OrderInv /\ MessageInv(i) /\ \A c \in Chunk : CountInv(c)
  BY DEF CommitInv, StreamInv
<1>1. i \in Nat /\ Sent'[i] = Sent[i] /\ Sent[i].txn \in Txn /\ Sent[i].chunk \in Chunk
  BY <1>0, SentType
<1>2. pc'[Sent[i].txn] # "idle" /\ program'[Sent[i].txn] = program[Sent[i].txn]
  BY <1>0, <1>1, PhaseStep DEF MessageInv
<1>3. ASSUME NEW c \in Chunk
      PROVE  Serial(c, Nth(c, i))' = Serial(c, Nth(c, i))
  <2>1. Nth(c, i) \in 0 .. Len(order[c])
    BY <1>0, SentType, NthAtMost
  <2>2. Nth(c, i)' = Nth(c, i)
    BY <1>0, <1>1, SentType, NthStays
  <2>3. \A n \in 0 .. Len(order[c]) : Serial(c, n)' = Serial(c, n)
    BY <1>0, SerialKeeps
  <2>4. ASSUME NEW n, n = Nth(c, i) PROVE Serial(c, Nth(c, i))' = Serial(c, n)
    <3>1. n = Nth(c, i)'
      BY <2>2, <2>4
    <3>2. Serial(c, Nth(c, i))' = Serial(c, n)'
      BY <3>1 DEF Serial
    <3>3. QED
      BY <2>1, <2>3, <2>4, <3>2
  <2>5. QED
    BY <2>4
<1>4. QED
  BY <1>0, <1>1, <1>2, <1>3 DEF MessageInv

\* What a transaction is about to send: the cell, as its commit has left it.
LEMMA AboutToSend ==
  ASSUME CommitInv, StreamInv, NEW t \in Txn, NEW c \in Chunk, c = Current(t), Send(t)
  PROVE  /\ program[t][c] # "none" /\ pc[t] = "send"
         /\ buffer[t][c] = [op |-> "put", val |-> value[c]]
         /\ value[c] = Serial(c, Len(order[c]))
         /\ order[c][Len(order[c])].txn = t /\ old[t] = Serial(c, Nth(c, Len(Sent)))
         /\ Len(order[c]) = Nth(c, Len(Sent)) + 1
         /\ At(c, Unsent) = {t}
<1>1. pc[t] = "send"
  BY DEF Send, Goto
<1>2. c \in todo[t] /\ program[t][c] # "none"
  BY <1>1, CurrentProperty DEF CommitInv, Progress, Working, Phases, TypeOK, Dirty
<1>3. At(c, Holding) = {t}
  BY <1>1, AtAlone DEF CommitInv, Holding
<1>4. At(c, Unsent) = {t}
  BY <1>1, <1>3 DEF At, Unsent, Holding
<1>5. Inside(t, c, Len(order[c]))
  BY <1>3 DEF CommitInv, Cell
<1>6. Len(order[c]) = Nth(c, Len(Sent)) + 1
  BY <1>4 DEF StreamInv, CountInv
<1>7. ASSUME NEW j, j = Len(order[c]) - 1 PROVE old[t] = Serial(c, j)
  BY <1>1, <1>5, <1>7 DEF Inside
<1>8. Nth(c, Len(Sent)) = Len(order[c]) - 1
  <2>1. Nth(c, Len(Sent)) \in Nat
    BY NthType, SentType DEF CommitInv
  <2>2. QED
    BY <1>6, <2>1
<1>9. old[t] = Serial(c, Nth(c, Len(Sent)))
  BY <1>7, <1>8
<1>10. QED
  BY <1>1, <1>2, <1>4, <1>5, <1>6, <1>9 DEF Inside, Rewritten

LEMMA MessageSent ==
  ASSUME CommitInv, StreamInv, NEW t \in Txn, Send(t), NEW k, k = Len(Sent) + 1
  PROVE  MessageInv(k)' /\ Len(Sent') = k
<1> SUFFICES ASSUME NEW c \in Chunk, c = Current(t), NEW n, n = Len(order[c])
             PROVE  MessageInv(k)' /\ Len(Sent') = k
  <2>1. Current(t) \in Chunk
    BY CurrentProperty DEF CommitInv, Progress, Working, Phases, TypeOK, Send, Goto
  <2>2. QED
    BY <2>1
<1>0. TypeOK /\ OrderInv /\ Next /\ Len(Sent) \in Nat
  BY SentType DEF CommitInv, Next, ClientStep, WriterStep
<1>1. /\ Len(Sent') = k /\ Sent'[k] = [txn |-> t, chunk |-> c, updates |-> buffer[t]]
      /\ \A j \in 1 .. Len(Sent) : Sent'[j] = Sent[j]
  BY <1>0, SentSend
<1>2. pc'[t] # "idle" /\ program' = program
  BY <1>0 DEF Send, Goto, TypeOK
<1>3. /\ program[t][c] # "none" /\ buffer[t][c] = [op |-> "put", val |-> Serial(c, n)]
      /\ n = Nth(c, Len(Sent)) + 1
  <2>1. /\ program[t][c] # "none" /\ buffer[t][c] = [op |-> "put", val |-> value[c]]
        /\ value[c] = Serial(c, Len(order[c])) /\ Len(order[c]) = Nth(c, Len(Sent)) + 1
    BY AboutToSend
  <2>2. QED
    BY <2>1
<1>4. Nth(c, k)' = n
  <2>1. Nth(c, Len(Sent)) \in Nat
    BY <1>0, NthType
  <2>2. ASSUME NEW i, i = Len(Sent) PROVE Nth(c, k)' = Nth(c, i) + 1
    <3>1. Nth(c, i)' = Nth(c, i)
      BY <1>0, <1>1, <2>2, NthStays
    <3>2. Nth(c, k)' = IF Sent'[k].chunk = c THEN Nth(c, i)' + 1 ELSE Nth(c, i)'
      BY <1>0, <2>2, NthNext
    <3>3. QED
      BY <1>1, <3>1, <3>2
  <2>3. QED
    BY <1>3, <2>1, <2>2
<1>5. Serial(c, Nth(c, k))' = Serial(c, n)
  <2>1. Serial(c, Nth(c, k))' = Serial(c, n)'
    <3>1. ASSUME NEW j, j = Nth(c, k)' PROVE Serial(c, Nth(c, k))' = Serial(c, j)'
      BY <3>1 DEF Serial
    <3>2. QED
      BY <1>4, <3>1
  <2>2. QED
    BY <1>0, <2>1, SerialKeeps, HistoryType
<1>6. ASSUME NEW d \in Chunk, program[t][d] = "none" PROVE buffer[t][d].op = "none"
  BY <1>6 DEF StreamInv, BufferInv
<1>7. QED
  BY <1>1, <1>2, <1>3, <1>5, <1>6 DEF MessageInv

\* The number of commits that were sent, step by step.
LEMMA CountStays ==
  ASSUME TypeOK, NEW c \in Chunk, CountInv(c), order'[c] = order[c], Sent' = Sent,
         At(c, Unsent)' = {} <=> At(c, Unsent) = {}
  PROVE  CountInv(c)'
<1>1. Nth(c, Len(Sent))' = Nth(c, Len(Sent))
  BY DEF Nth
<1>2. QED
  BY <1>1 DEF CountInv

LEMMA CountStep ==
  ASSUME CommitInv, CommitInv', StreamInv, [Next]_vars \/ Aside, NEW c \in Chunk
  PROVE  CountInv(c)'
<1>0. TypeOK /\ LatchInv /\ LatchInv' /\ CountInv(c)
  BY DEF CommitInv, StreamInv
<1>1. CASE Receive \/ Aside
  <2>1. order' = order /\ pc' = pc /\ todo' = todo /\ Sent' = Sent
    BY <1>0, <1>1, SentReceive DEF Receive, Aside, local, stream, Sent
  <2>2. At(c, Unsent)' = At(c, Unsent)
    BY <2>1 DEF At, Current
  <2>3. QED
    BY <1>0, <2>1, <2>2, CountStays
<1>2. ASSUME NEW t \in Txn, Start(t) \/ (WriterStep(t) /\ ~Send(t)),
             c # Current(t) \/ Start(t) \/ NextID(t)
      PROVE  CountInv(c)'
  <2>1. At(c, Unsent)' = At(c, Unsent)
    BY <1>0, <1>2, AtStays DEF Unsent
  <2>2. ~(Lock(t) /\ c = Current(t))
    BY <1>2 DEF Start, NextID, Lock, Goto
  <2>3. order'[c] = order[c]
    BY <1>0, <1>2, <2>2, OrderGrows
  <2>4. QED
    BY <1>0, <1>2, <2>1, <2>3, SentStays, CountStays
<1>3. ASSUME NEW t \in Txn, Lock(t), c = Current(t) PROVE CountInv(c)'
  <2>1. At(c, Unsent) = {}
    <3>1. ShardOf(c) \in Shard /\ holder[ShardOf(c)] = None
      BY <1>3, ShardType DEF Lock, Free
    <3>2. At(c, Holding) = {}
      BY <1>0, <3>1, Vacant
    <3>3. QED
      BY <3>2 DEF At, Unsent
  <2>2. At(c, Holding)' = {t} /\ pc'[t] = "read"
    BY <1>0, <1>3, AtOwn DEF Lock, Goto, TypeOK
  <2>3. At(c, Unsent)' # {}
    BY <2>2 DEF At, Unsent, Holding
  <2>4. Len(order'[c]) = Len(order[c]) + 1 /\ Sent' = Sent
    BY <1>0, <1>3, OrderAppended, SentStays DEF WriterStep, Lock, Send, Goto
  <2>5. Nth(c, Len(Sent))' = Nth(c, Len(Sent))
    BY <2>4 DEF Nth
  <2>6. QED
    BY <1>0, <2>1, <2>3, <2>4, <2>5 DEF CountInv
<1>4. ASSUME NEW t \in Txn, c = Current(t), ReadCell(t) \/ WriteCell(t) \/ WriteIndex(t)
               \/ LoadRecorder(t) \/ AppendRecord(t)
      PROVE  CountInv(c)'
  <2>1. /\ pc[t] \in Unsent /\ pc'[t] \in Unsent /\ order' = order /\ todo' = todo
        /\ ~Send(t)
    BY <1>0, <1>4 DEF ReadCell, WriteCell, WriteIndex, LoadRecorder, AppendRecord, Send, Goto,
                      Unsent, Holding, TypeOK
  <2>2. t \in At(c, Unsent) /\ t \in At(c, Unsent)'
    <3>1. Current(t)' = Current(t)
      BY <2>1 DEF Current
    <3>2. QED
      BY <1>4, <2>1, <3>1 DEF At
  <2>3. Sent' = Sent
    BY <1>0, <1>4, <2>1, SentStays DEF WriterStep
  <2>4. QED
    BY <1>0, <2>1, <2>2, <2>3, CountStays
<1>5. ASSUME NEW t \in Txn, c = Current(t), Unlock(t) PROVE CountInv(c)'
  <2>1. pc[t] = "unlock" /\ pc'[t] \in {"done", "next"} /\ order' = order /\ ~Send(t)
    BY <1>0, <1>5 DEF Unlock, Send, Goto, TypeOK
  <2>2. At(c, Holding) = {t}
    BY <1>0, <1>5, <2>1, AtAlone DEF Holding
  <2>3. At(c, Unsent) = {}
    BY <2>1, <2>2 DEF At, Unsent
  <2>4. \A u \in Txn \ {t} : u \in At(c, Unsent)' <=> u \in At(c, Unsent)
    BY <1>0, <1>5, OthersStay DEF At, WriterStep
  <2>5. At(c, Unsent)' = {}
    BY <2>1, <2>3, <2>4 DEF At, Unsent, Holding
  <2>6. Sent' = Sent
    BY <1>0, <1>5, <2>1, SentStays DEF WriterStep
  <2>7. QED
    BY <1>0, <2>1, <2>3, <2>5, <2>6, CountStays
<1>6. ASSUME NEW t \in Txn, Send(t) PROVE CountInv(c)'
  <2> SUFFICES ASSUME NEW d \in Chunk, d = Current(t), NEW k, k = Len(Sent), NEW m, m = k + 1
               PROVE  CountInv(c)'
    <3>1. Current(t) \in Chunk
      BY <1>6, CurrentProperty
         DEF Send, CommitInv, Progress, Working, Phases, TypeOK, Goto
    <3>2. QED
      BY <3>1
  <2>1. /\ order' = order /\ pc[t] = "send" /\ pc'[t] = "unlock" /\ k \in Nat /\ WriterStep(t)
        /\ ~NextID(t) /\ ~Start(t)
    BY <1>0, <1>6, SentType DEF Send, NextID, Start, WriterStep, Goto, TypeOK
  <2>2. /\ Len(Sent') = m /\ Sent'[m].chunk = d
        /\ \A j \in 1 .. k : Sent'[j] = Sent[j]
    <3>1. /\ Len(Sent') = Len(Sent) + 1
          /\ \A j \in 1 .. Len(Sent) : Sent'[j] = Sent[j]
          /\ Sent'[Len(Sent) + 1] = [txn |-> t, chunk |-> d, updates |-> buffer[t]]
      BY <1>0, <1>6, SentSend
    <3>2. QED
      BY <3>1
  <2>3. Nth(c, k)' = Nth(c, k)
    BY <2>1, <2>2, NthStays
  <2>4. Nth(c, m)' = IF c = d THEN Nth(c, k) + 1 ELSE Nth(c, k)
    BY <2>1, <2>2, <2>3, NthNext
  <2>5. Nth(c, Len(Sent))' = Nth(c, m)'
    BY <2>2 DEF Nth
  <2>6. CASE c = d
    <3>1. Len(order[c]) = Nth(c, k) + 1 /\ At(c, Unsent) = {t}
      BY <1>6, <2>6, AboutToSend
    <3>2. \A u \in Txn \ {t} : u \in At(c, Unsent)' <=> u \in At(c, Unsent)
      BY <1>0, <2>1, OthersStay DEF At
    <3>3. At(c, Unsent)' = {}
      BY <2>1, <3>1, <3>2 DEF At, Unsent, Holding
    <3>4. QED
      BY <2>1, <2>4, <2>5, <2>6, <3>1, <3>3 DEF CountInv
  <2>7. CASE c # d
    <3>1. At(c, Unsent)' = At(c, Unsent)
      BY <1>0, <2>1, <2>7, AtStays DEF Unsent
    <3>2. QED
      BY <1>0, <2>1, <2>4, <2>5, <2>7, <3>1 DEF CountInv
  <2>8. QED
    BY <2>6, <2>7
<1>7. QED
  BY <1>0, <1>1, <1>2, <1>3, <1>4, <1>5, <1>6, StepCases DEF WriterStep

LEMMA StreamStep ==
  CommitInv /\ CommitInv' /\ StreamInv /\ ([Next]_vars \/ Aside) => StreamInv'
<1> SUFFICES ASSUME CommitInv, CommitInv', StreamInv, [Next]_vars \/ Aside
             PROVE  StreamInv'
  OBVIOUS
<1>0. TypeOK /\ (\A t \in Txn : Progress(t)) /\ BufferInv /\ Len(Sent) \in Nat
  BY SentType DEF CommitInv, StreamInv
<1>1. BufferInv' /\ IdleInv'
  BY <1>0, BufferStep, IdleStep DEF StreamInv
<1>2. \A c \in Chunk : CountInv(c)'
  BY CountStep
<1>3. ASSUME NEW t \in Txn, Send(t), NEW k, k = Len(Sent) + 1
      PROVE  \A i \in 1 .. Len(Sent') : MessageInv(i)'
  <2>1. MessageInv(k)' /\ Len(Sent') = k
    BY <1>3, MessageSent
  <2>2. \A j \in 1 .. Len(Sent) : Sent'[j] = Sent[j]
    <3>1. ASSUME NEW c \in Chunk, c = Current(t)
          PROVE  \A j \in 1 .. Len(Sent) : Sent'[j] = Sent[j]
      BY <1>0, <1>3, <3>1, SentSend
    <3>2. Current(t) \in Chunk
      BY <1>0, <1>3, CurrentProperty DEF Progress, Working, Phases, TypeOK, Send, Goto
    <3>3. QED
      BY <3>1, <3>2
  <2>3. \A i \in 1 .. Len(Sent) : MessageInv(i)'
    BY <2>2, MessageStays
  <2>4. QED
    BY <1>0, <1>3, <2>1, <2>3
<1>4. ASSUME Sent' = Sent PROVE \A i \in 1 .. Len(Sent') : MessageInv(i)'
  BY <1>4, MessageStays
<1>5. \/ Sent' = Sent
      \/ \E t \in Txn : Send(t)
  <2>1. CASE Aside
    BY <2>1 DEF Aside, Sent, stream
  <2>2. QED
    BY <1>0, <2>1, StepCases, SentReceive, SentStays
<1>6. QED
  BY <1>1, <1>2, <1>3, <1>4, <1>5 DEF StreamInv

-----------------------------------------------------------------------------
(* The replica *)

RInv == CommitInv /\ StreamInv /\ RTypeOK /\ ReplicaInv

\* Once a transaction spans a chunk, it has done so for good.
LEMMA LocalBefore ==
  ASSUME TypeOK, IdleInv, [Next]_vars, NEW c \in Chunk, Local(c)'
  PROVE  Local(c)
<1> SUFFICES ASSUME NEW t \in Txn, program[t][c] # "none"
             PROVE  Dirty(program[t]) = {c}
  BY DEF Local
<1>1. pc[t] # "idle"
  BY DEF IdleInv
<1>2. program'[t] = program[t]
  BY <1>1, PhaseStep
<1>3. Dirty(program[t])' = Dirty(program[t])
  BY <1>2 DEF Dirty
<1>4. QED
  BY <1>2, <1>3 DEF Local

LEMMA ReplicaTyping ==
  ASSUME RTypeOK, TypeOK', RNext \/ UNCHANGED rvars
  PROVE  RTypeOK'
<1>1. CASE Replay
  <2>1. Head(channel) \in Message
    BY <1>1, HeadTailProperties DEF Replay, Receive, RTypeOK, TypeOK
  <2>2. \A c \in Chunk : Applied(Head(channel).updates[c], replica[c]) \in Seq(Txn)
    BY <2>1, AppliedType DEF RTypeOK, Message
  <2>3. QED
    BY <1>1, <2>2 DEF Replay, Replayed, RTypeOK
<1>2. CASE UNCHANGED replica
  BY <1>2 DEF RTypeOK
<1>3. QED
  BY <1>1, <1>2 DEF RNext, rvars

LEMMA ClientKeepsReceived ==
  ASSUME ClientStep \/ UNCHANGED vars
  PROVE  received' = received
<1>1. ASSUME NEW t \in Txn, Start(t) \/ WriterStep(t) PROVE received' = received
  BY <1>1 DEF WriterStep, Start, NextID, Lock, ReadCell, WriteCell, WriteIndex, LoadRecorder,
              AppendRecord, Send, Unlock, stream
<1>2. QED
  BY <1>1 DEF ClientStep, RLock, RUnlock, vars, stream

LEMMA ReplicaStep ==
  ASSUME RInv, RNext \/ UNCHANGED rvars
  PROVE  ReplicaInv'
<1> SUFFICES ASSUME NEW c \in Chunk, Local(c)', NEW n, n = Len(received), NEW p, p = Nth(c, n)
             PROVE  \A k \in {Nth(c, Len(received))'} : replica'[c] = Serial(c, k)'
  BY DEF ReplicaInv
<1>0. /\ TypeOK /\ OrderInv /\ IdleInv /\ CountInv(c) /\ [Next]_vars
      /\ received \in Seq(Message) /\ n \in Nat /\ Len(Sent) \in Nat
  BY SentType, LenProperties DEF RInv, CommitInv, StreamInv, TypeOK, RNext, Replay, Next, rvars
<1>1. Local(c) /\ replica[c] = Serial(c, p)
  BY <1>0, LocalBefore DEF RInv, ReplicaInv
<1>2. n <= Len(Sent) /\ \A i \in 1 .. n : Sent[i] = received[i]
  BY <1>0, ConcatProperties, LenProperties DEF Sent, TypeOK
<1>3. p \in 0 .. Len(order[c])
  BY <1>0, <1>2, NthAtMost
<1>4. CASE (ClientStep \/ UNCHANGED vars) /\ UNCHANGED replica
  <2>1. received' = received
    BY <1>4, ClientKeepsReceived
  <2>2. \A i \in 1 .. n : Sent'[i] = Sent[i]
    <3>1. TypeOK'
      BY <1>0, TypingStep DEF RInv, CommitInv
    <3>2. channel' \in Seq(Message) /\ received' \in Seq(Message)
      BY <3>1 DEF TypeOK
    <3>3. \A i \in 1 .. n : (received' \o channel')[i] = received'[i]
      BY <1>0, <2>1, <3>2, ConcatProperties, LenProperties
    <3>4. QED
      BY <1>2, <2>1, <3>3 DEF Sent
  <2>3. Nth(c, n)' = p
    BY <1>0, <2>2, NthStays
  <2>4. Nth(c, Len(received))' = p
    BY <2>1, <2>3 DEF Nth
  <2>5. Serial(c, p)' = Serial(c, p)
    BY <1>0, <1>3, SerialKeeps
  <2>6. QED
    BY <1>1, <1>4, <2>4, <2>5
<1>5. CASE Replay
  <2> SUFFICES ASSUME NEW k, k = n + 1, NEW q, q = Nth(c, k)
               PROVE  replica'[c] = Serial(c, q)' /\ Nth(c, Len(received))' = q
    OBVIOUS
  <2>1. /\ Sent' = Sent /\ k \in 1 .. Len(Sent) /\ Head(channel) = Sent[k]
        /\ Len(received') = k
    BY <1>0, <1>5, SentReceive DEF Replay
  <2>2. Nth(c, Len(received))' = q
    BY <2>1 DEF Nth
  <2>3. q = IF Sent[k].chunk = c THEN p + 1 ELSE p
    BY <1>0, NthNext
  <2>4. Serial(c, q)' = Serial(c, q)
    <3>1. q \in 0 .. Len(order[c])
      BY <1>0, <2>1, NthAtMost
    <3>2. QED
      BY <1>0, <3>1, SerialKeeps
  <2>5. replica'[c] = Applied(Sent[k].updates[c], replica[c])
    BY <1>5, <2>1 DEF Replay, Replayed
  <2>6. MessageInv(k) /\ Sent[k].txn \in Txn /\ Sent[k].chunk \in Chunk
    BY <1>0, <2>1, SentType DEF RInv, StreamInv
  <2>7. CASE Sent[k].chunk = c
    <3>1. Sent[k].updates[c] = [op |-> "put", val |-> Serial(c, q)]
      BY <2>6, <2>7 DEF MessageInv
    <3>2. QED
      BY <2>2, <2>4, <2>5, <3>1 DEF Applied
  <2>8. CASE Sent[k].chunk # c
    <3>1. program[Sent[k].txn][c] = "none"
      BY <1>1, <2>6, <2>8 DEF MessageInv, Local, Dirty
    <3>2. Sent[k].updates[c].op = "none"
      BY <2>6, <3>1 DEF MessageInv
    <3>3. replica'[c] = replica[c] /\ q = p
      BY <2>3, <2>5, <2>8, <3>2 DEF Applied
    <3>4. QED
      BY <1>1, <2>2, <2>4, <3>3
  <2>9. QED
    BY <2>7, <2>8
<1>6. QED
  BY <1>4, <1>5 DEF RNext, rvars

LEMMA RInvInit == RInit => RInv
<1> SUFFICES ASSUME RInit PROVE RInv
  OBVIOUS
<1>1. CommitInv /\ TypeOK /\ StreamInv
  BY CommitInvInit, TypingInit, StreamInit DEF RInit
<1>2. RTypeOK
  BY <1>1, EmptySeq DEF RInit, RTypeOK
<1>3. ASSUME NEW c \in Chunk PROVE replica[c] = Serial(c, Nth(c, Len(received)))
  <2>1. Len(received) = 0 /\ Len(order[c]) = 0 /\ replica[c] = value[c]
    BY <1>3, EmptySeq DEF RInit, Init
  <2>2. At(c, Holding) = {}
    BY DEF RInit, Init, At, Holding
  <2>3. value[c] = Serial(c, 0)
    BY <1>1, <2>1, <2>2 DEF CommitInv, Cell
  <2>4. QED
    BY <2>1, <2>3, NthZero
<1>4. QED
  BY <1>1, <1>2, <1>3 DEF RInv, ReplicaInv

LEMMA RInvStep == RInv /\ [RNext]_rvars => RInv'
<1> SUFFICES ASSUME RInv, [RNext]_rvars PROVE RInv'
  OBVIOUS
<1>1. [Next]_vars
  BY DEF RNext, Replay, Next, rvars
<1>2. CommitInv'
  BY <1>1, CommitInvStep DEF RInv
<1>3. StreamInv'
  BY <1>1, <1>2, StreamStep DEF RInv
<1>4. RTypeOK'
  BY <1>2, ReplicaTyping DEF RInv, CommitInv
<1>5. ReplicaInv'
  BY ReplicaStep
<1>6. QED
  BY <1>2, <1>3, <1>4, <1>5 DEF RInv

LEMMA Follows == RInv => ReplicaFollows
<1> SUFFICES ASSUME RInv, NEW c \in Chunk, Local(c)
             PROVE  replica[c] = Serial(c, Replays(c))
  BY DEF ReplicaFollows
<1>1. channel \in Seq(Message) /\ received \in Seq(Message)
  BY DEF RInv, RTypeOK, TypeOK
<1>2. /\ DOMAIN received = 1 .. Len(received)
      /\ \A i \in 1 .. Len(received) : Sent[i] = received[i]
  BY <1>1, ConcatProperties, LenProperties DEF Sent
<1>3. {i \in DOMAIN received : received[i].chunk = c}
        = {i \in 1 .. Len(received) : Sent[i].chunk = c}
  BY <1>2
<1>4. Replays(c) = Nth(c, Len(received))
  BY <1>3 DEF Replays, Nth, NthOf
<1>5. QED
  BY <1>4 DEF RInv, ReplicaInv

-----------------------------------------------------------------------------
(* The refinement of atomic chunk commits, step by step *)

Publishing == {"write", "index", "record", "append", "send"}

LEMMA ValueOf ==
  ASSUME NEW c \in Chunk
  PROVE  /\ Unpublished(c) = {} => AbstractValue[c] = value[c]
         /\ \A t : Unpublished(c) = {t} => AbstractValue[c] = old[t]
BY DEF AbstractValue

LEMMA ValueOfNext ==
  ASSUME NEW c \in Chunk
  PROVE  /\ Unpublished(c)' = {} => AbstractValue'[c] = value'[c]
         /\ \A t : Unpublished(c)' = {t} => AbstractValue'[c] = old'[t]
<1>1. AbstractValue'[c] = IF Unpublished(c)' = {} THEN value'[c]
                          ELSE old'[CHOOSE t \in Unpublished(c)' : TRUE]
  BY DEF AbstractValue
<1>2. QED
  BY <1>1

LEMMA ValueStays ==
  ASSUME NEW c \in Chunk, Unpublished(c)' = Unpublished(c), value'[c] = value[c],
         \A t \in Unpublished(c) : old'[t] = old[t]
  PROVE  AbstractValue'[c] = AbstractValue[c]
<1>1. /\ AbstractValue'[c] = IF Unpublished(c)' = {} THEN value'[c]
                             ELSE old'[CHOOSE t \in Unpublished(c)' : TRUE]
      /\ AbstractValue[c] = IF Unpublished(c) = {} THEN value[c]
                            ELSE old[CHOOSE t \in Unpublished(c) : TRUE]
  BY DEF AbstractValue
<1>2. Unpublished(c) # {} => (CHOOSE t \in Unpublished(c) : TRUE) \in Unpublished(c)
  OBVIOUS
<1>3. QED
  BY <1>1, <1>2

LEMMA PublishedPhases == \A c : Unpublished(c) = At(c, Publishing)
BY DEF Unpublished, Publishing

\* The abstract cells only change when a commit is sent.
LEMMA ValuesStay ==
  ASSUME CommitInv, LatchInv', [Next]_vars \/ Aside, \A t \in Txn : ~Send(t)
  PROVE  AbstractValue' = AbstractValue
<1>0. TypeOK /\ LatchInv
  BY DEF CommitInv
<1> SUFFICES ASSUME NEW c \in Chunk PROVE AbstractValue'[c] = AbstractValue[c]
  BY DEF AbstractValue
<1>1. CASE Receive \/ Aside
  <2>1. UNCHANGED <<value, pc, todo, old>>
    BY <1>1 DEF Receive, Aside, store, local
  <2>2. Unpublished(c)' = Unpublished(c)
    BY <2>1 DEF Unpublished, At, Current
  <2>3. QED
    BY <2>1, <2>2, ValueStays
<1>2. ASSUME NEW t \in Txn, Start(t) \/ WriterStep(t),
             c # Current(t) \/ Start(t) \/ NextID(t)
      PROVE  AbstractValue'[c] = AbstractValue[c]
  <2>1. At(c, Publishing)' = At(c, Publishing) /\ t \notin At(c, Publishing)
    BY <1>0, <1>2, AtStays DEF Publishing, Holding
  <2>2. Unpublished(c)' = Unpublished(c) /\ t \notin Unpublished(c)
    BY <2>1 DEF Unpublished, Publishing
  <2>3. \A u \in Unpublished(c) : old'[u] = old[u]
    BY <1>0, <1>2, <2>2, OthersStay DEF Unpublished, At
  <2>4. value'[c] = value[c]
    BY <1>0, <1>2 DEF WriterStep, Start, NextID, Lock, ReadCell, WriteCell, WriteIndex,
                      LoadRecorder, AppendRecord, Send, Unlock, Goto, store, TypeOK
  <2>5. QED
    BY <2>2, <2>3, <2>4, ValueStays
<1>3. ASSUME NEW t \in Txn, c = Current(t), Lock(t) PROVE AbstractValue'[c] = AbstractValue[c]
  <2>1. At(c, Holding) = {}
    <3>1. ShardOf(c) \in Shard /\ holder[ShardOf(c)] = None
      BY <1>3, ShardType DEF Lock, Free
    <3>2. QED
      BY <1>0, <3>1, Vacant
  <2>2. At(c, Holding)' = {t} /\ pc'[t] = "read" /\ value' = value
    BY <1>0, <1>3, AtOwn DEF Lock, Goto, TypeOK
  <2>3. Unpublished(c) = {} /\ Unpublished(c)' = {}
    BY <2>1, <2>2 DEF Unpublished, At, Holding
  <2>4. QED
    BY <2>2, <2>3, ValueOf, ValueOfNext
<1>4. ASSUME NEW t \in Txn, c = Current(t),
             ReadCell(t) \/ WriteCell(t) \/ WriteIndex(t) \/ LoadRecorder(t) \/ AppendRecord(t)
      PROVE  AbstractValue'[c] = AbstractValue[c]
  <2>1. /\ pc[t] \in {"read", "write", "index", "record", "append"} /\ pc'[t] \in Publishing
        /\ pc[t] = "read" => old'[t] = value[c]
        /\ pc[t] # "read" => old'[t] = old[t]
    BY <1>0, <1>4 DEF ReadCell, WriteCell, WriteIndex, LoadRecorder, AppendRecord, Goto,
                      Publishing, TypeOK
  <2>2. At(c, Holding) = {t} /\ At(c, Holding)' = {t}
    BY <1>0, <1>4, <2>1, AtOwn, AtAlone DEF Holding
  <2>3. Unpublished(c)' = {t}
    BY <2>1, <2>2 DEF Unpublished, At, Publishing, Holding
  <2>4. IF pc[t] = "read" THEN Unpublished(c) = {} ELSE Unpublished(c) = {t}
    BY <2>1, <2>2 DEF Unpublished, At, Publishing, Holding
  <2>5. QED
    BY <2>1, <2>3, <2>4, ValueOf, ValueOfNext
<1>5. ASSUME NEW t \in Txn, c = Current(t), Unlock(t) PROVE AbstractValue'[c] = AbstractValue[c]
  <2>1. pc[t] = "unlock" /\ pc'[t] \in {"done", "next"} /\ value' = value
    BY <1>0, <1>5 DEF Unlock, Goto, TypeOK, store
  <2>2. At(c, Holding) = {t}
    BY <1>0, <1>5, <2>1, AtAlone DEF Holding
  <2>3. Unpublished(c) = {}
    BY <2>1, <2>2 DEF Unpublished, At, Holding
  <2>4. \A u \in Txn \ {t} : u \in Unpublished(c)' <=> u \in Unpublished(c)
    BY <1>0, <1>5, OthersStay DEF Unpublished, At, WriterStep
  <2>5. Unpublished(c)' = {}
    BY <2>1, <2>3, <2>4 DEF Unpublished, At
  <2>6. QED
    BY <2>1, <2>3, <2>5, ValueOf, ValueOfNext
<1>6. QED
  BY <1>0, <1>1, <1>2, <1>3, <1>4, <1>5, StepCases DEF WriterStep

\* What is left of a transaction's plan, outside of Start and Send, stays.
LEMMA PlansStay ==
  ASSUME TypeOK, \A t \in Txn : Progress(t), [Next]_vars \/ Aside,
         NEW u \in Txn, ~Start(u), ~Send(u)
  PROVE  AbstractPlan'[u] = AbstractPlan[u]
<1>1. CASE todo'[u] = todo[u] /\ program'[u] = program[u]
           /\ (pc'[u] = "unlock" <=> pc[u] = "unlock")
  <2>1. Current(u)' = Current(u)
    BY <1>1 DEF Current
  <2>2. QED
    BY <1>1, <2>1 DEF AbstractPlan
<1>2. CASE Receive \/ Aside
  BY <1>1, <1>2 DEF Receive, Aside, local
<1>3. ASSUME NEW t \in Txn, Start(t) \/ WriterStep(t), t # u
      PROVE  AbstractPlan'[u] = AbstractPlan[u]
  BY <1>1, <1>3, OthersStay
<1>4. CASE NextID(u) \/ Lock(u) \/ ReadCell(u) \/ WriteCell(u) \/ WriteIndex(u)
           \/ LoadRecorder(u) \/ AppendRecord(u)
  BY <1>1, <1>4 DEF NextID, Lock, ReadCell, WriteCell, WriteIndex, LoadRecorder, AppendRecord,
                    Goto, TypeOK
<1>5. CASE Unlock(u)
  <2>1. /\ pc[u] = "unlock" /\ pc'[u] # "unlock" /\ program'[u] = program[u]
        /\ todo'[u] = todo[u] \ {Current(u)}
    BY <1>5 DEF Unlock, Goto, TypeOK
  <2>2. ASSUME NEW c \in Chunk
        PROVE  (c \in todo'[u] /\ ~(pc'[u] = "unlock" /\ c = Current(u)'))
                 <=> (c \in todo[u] /\ ~(pc[u] = "unlock" /\ c = Current(u)))
    BY <2>1
  <2>3. QED
    BY <2>1, <2>2 DEF AbstractPlan
<1>6. QED
  BY <1>2, <1>3, <1>4, <1>5, StepCases DEF WriterStep

Published == [txn : Txn, chunk : Chunk, val : Seq(Txn)]

StreamOK ==
  /\ AbstractStream \in Seq(Published)
  /\ Len(AbstractStream) = Len(Sent) /\ Len(Sent) \in Nat
  /\ DOMAIN AbstractStream = 1 .. Len(Sent)
  /\ \A i \in 1 .. Len(Sent) : AbstractStream[i] =
       [txn |-> Sent[i].txn, chunk |-> Sent[i].chunk,
        val |-> Sent[i].updates[Sent[i].chunk].val]

LEMMA StreamType == TypeOK => StreamOK
<1> SUFFICES ASSUME TypeOK PROVE StreamOK
  OBVIOUS
<1>1. Len(Sent) \in Nat /\ DOMAIN Sent = 1 .. Len(Sent)
  BY SentType, LenProperties
<1>2. AbstractStream = [i \in 1 .. Len(Sent) |->
        [txn |-> Sent[i].txn, chunk |-> Sent[i].chunk,
         val |-> Sent[i].updates[Sent[i].chunk].val]]
  BY <1>1 DEF AbstractStream, Sent
<1>3. \A i \in 1 .. Len(Sent) : Sent[i].txn \in Txn /\ Sent[i].chunk \in Chunk
                                /\ Sent[i].updates[Sent[i].chunk].val \in Seq(Txn)
  BY SentType DEF Update
<1>4. AbstractStream \in [1 .. Len(Sent) -> Published]
  BY <1>2, <1>3 DEF Published
<1>5. AbstractStream \in Seq(Published)
  BY <1>1, <1>4, SeqDef
<1>6. Len(AbstractStream) = Len(Sent)
  BY <1>1, <1>4, <1>5, LenOfDomain
<1>7. QED
  BY <1>1, <1>2, <1>5, <1>6 DEF StreamOK

LEMMA StreamTypeNext == TypeOK' => StreamOK'
BY StreamType, PTL

\* A transaction that starts takes a program for its plan.
LEMMA StartSimulates ==
  ASSUME CommitInv, CommitInv', StreamInv, NEW t \in Txn, Start(t)
  PROVE  Atomic!Start(t)
<1>0. /\ TypeOK /\ Progress(t) /\ LatchInv' /\ Next
      /\ \A u \in Txn : ~Send(u)
  <2>1. TypeOK /\ Progress(t) /\ LatchInv' /\ Next
    BY DEF CommitInv, Next, ClientStep
  <2>2. ASSUME NEW u \in Txn, Send(u) PROVE FALSE
    <3>1. pc[u] = "send" /\ pc'[u] = "unlock" /\ pc[t] = "idle"
      BY <2>1, <2>2 DEF Start, Send, Goto, TypeOK
    <3>2. pc'[u] = pc[u]
      BY <2>1, <3>1, OthersStay
    <3>3. QED
      BY <3>1, <3>2
  <2>3. QED
    BY <2>1, <2>2
<1>1. PICK p \in Programs :
        /\ program' = [program EXCEPT ![t] = p]
        /\ todo' = [todo EXCEPT ![t] = Dirty(p)]
  BY DEF Start
<1>2. pc[t] = "idle" /\ pc'[t] = "next" /\ program'[t] = p /\ todo'[t] = Dirty(p)
  BY <1>0, <1>1 DEF Start, Goto, TypeOK
<1>3. AbstractPlan[t] = Atomic!Nothing
  <2>1. todo[t] = {}
    BY <1>0, <1>2 DEF Progress, Working
  <2>2. QED
    BY <2>1 DEF AbstractPlan, Atomic!Nothing
<1>4. AbstractPlan'[t] = p
  <2>1. p \in [Chunk -> Ops]
    BY CommitAssumption
  <2>2. \A c \in Chunk : AbstractPlan'[t][c] = p[c]
    BY <1>2 DEF AbstractPlan, Dirty
  <2>3. AbstractPlan'[t] \in [Chunk -> Ops]
    BY <2>1, <2>2 DEF AbstractPlan
  <2>4. QED
    BY <2>1, <2>2, <2>3
<1>5. AbstractPlan' = [AbstractPlan EXCEPT ![t] = p]
  <2>1. \A u \in Txn \ {t} : AbstractPlan'[u] = AbstractPlan[u]
    <3>1. ASSUME NEW u \in Txn \ {t} PROVE AbstractPlan'[u] = AbstractPlan[u]
      <4>1. pc'[u] = pc[u]
        BY <1>0, OthersStay
      <4>2. todo'[u] = todo[u] /\ program'[u] = program[u] /\ Current(u)' = Current(u)
        BY <1>0, OthersStay
      <4>3. QED
        BY <4>1, <4>2 DEF AbstractPlan
    <3>2. QED
      BY <3>1
  <2>2. AbstractPlan' = [u \in Txn |-> AbstractPlan'[u]]
        /\ AbstractPlan = [u \in Txn |-> AbstractPlan[u]]
    BY DEF AbstractPlan
  <2>3. QED
    BY <1>4, <2>1, <2>2
<1>6. \A i \in DOMAIN AbstractStream : AbstractStream[i].txn # t
  <2>1. \A i \in 1 .. Len(Sent) : Sent[i].txn # t
    BY <1>2 DEF StreamInv, MessageInv
  <2>2. QED
    BY <1>0, <2>1, StreamType DEF StreamOK
<1>7. AbstractValue' = AbstractValue
  BY <1>0, ValuesStay
<1>8. AbstractStream' = AbstractStream
  BY DEF Start, stream, AbstractStream
<1>9. QED
  BY <1>3, <1>5, <1>6, <1>7, <1>8 DEF Atomic!Start

\* A chunk commit takes effect when it is sent.
LEMMA SendSimulates ==
  ASSUME CommitInv, CommitInv', StreamInv, NEW t \in Txn, Send(t), NEW c \in Chunk, c = Current(t)
  PROVE  Atomic!CommitChunk(t, c)
<1> SUFFICES ASSUME NEW n, n = Len(order[c]), NEW k, k = Len(Sent) + 1,
                    NEW j, j = Nth(c, Len(Sent))
             PROVE  Atomic!CommitChunk(t, c)
  OBVIOUS
<1>0. TypeOK /\ TypeOK' /\ LatchInv /\ Progress(t) /\ order[c] \in Seq(Entry) /\ Len(Sent) \in Nat
  BY SentType DEF CommitInv, TypeOK
<1>1. /\ program[t][c] # "none" /\ pc[t] = "send"
      /\ buffer[t][c] = [op |-> "put", val |-> value[c]]
      /\ value[c] = Serial(c, n) /\ order[c][n].txn = t
      /\ n = Nth(c, Len(Sent)) + 1 /\ At(c, Unsent) = {t}
  BY AboutToSend
<1>2. old[t] = Serial(c, j) /\ j \in Nat /\ n = j + 1
  BY <1>0, <1>1, NthType, AboutToSend
<1>3. /\ pc'[t] = "unlock" /\ UNCHANGED <<value, program, todo, old>>
  BY <1>0 DEF Send, Goto, TypeOK, store
<1>4. c \in todo[t]
  BY <1>0, <1>1, CurrentProperty DEF Progress, Working, Phases, TypeOK
<1>5. AbstractValue[c] = old[t]
  <2>1. Unpublished(c) = {t}
    BY <1>1 DEF Unpublished, At, Unsent, Holding
  <2>2. QED
    BY <2>1, ValueOf
<1>6. AbstractPlan[t][c] = program[t][c]
  BY <1>1, <1>4 DEF AbstractPlan
<1> DEFINE new == Atomic!Result(t, AbstractPlan[t][c], AbstractValue[c])
<1>7. new = value[c]
  <2>1. value[c] = Applied(UpdateOf(t, program[t][c]), old[t])
    <3>1. n <= Len(order[c])
      BY <1>0, LenProperties
    <3>2. j + 1 <= Len(order[c]) /\ order[c][j + 1].txn = t
      BY <1>1, <1>2, <3>1
    <3>3. Serial(c, j + 1) = Applied(UpdateOf(t, program[t][c]), Serial(c, j))
      <4>1. /\ TypeOK /\ c \in Chunk /\ t \in Txn /\ j \in Nat /\ program[t][c] # "none"
            /\ j + 1 <= Len(order[c]) /\ order[c][j + 1].txn = t
        BY <1>0, <1>1, <1>2, <3>2
      <4> HIDE DEF new
      <4>2. QED
        BY <4>1, SerialNext, SMTT(30)
    <3>4. Serial(c, n) = Applied(UpdateOf(t, program[t][c]), Serial(c, j))
      BY <1>2, <3>3
    <3>5. QED
      BY <1>1, <1>2, <3>4
  <2>2. program[t][c] \in {"put", "merge"}
    BY <1>0, <1>1 DEF TypeOK, Ops
  <2>3. Append(old[t], t) = old[t] \o <<t>>
    <3>1. old[t] \in Seq(Txn)
      BY <1>0 DEF TypeOK
    <3>2. QED
      BY <3>1, AppendIsConcat
  <2>4. QED
    BY <1>5, <1>6, <2>1, <2>2, <2>3 DEF Atomic!Result, Applied, UpdateOf
<1>8. AbstractValue' = [AbstractValue EXCEPT ![c] = value[c]]
  <2>1. At(c, Holding)' = {t}
    BY <1>0, AtOwn DEF CommitInv
  <2>2. Unpublished(c)' = {}
    BY <1>3, <2>1 DEF Unpublished, At, Holding
  <2>3. AbstractValue'[c] = value[c]
    BY <1>3, <2>2, ValueOfNext
  <2>4. ASSUME NEW d \in Chunk \ {c} PROVE AbstractValue'[d] = AbstractValue[d]
    <3>1. At(d, Publishing)' = At(d, Publishing) /\ t \notin At(d, Publishing)
      BY <1>0, AtStays DEF WriterStep, Publishing, Holding
    <3>2. Unpublished(d)' = Unpublished(d)
      BY <3>1 DEF Unpublished, Publishing
    <3>3. QED
      BY <1>3, <3>2, ValueStays
  <2>5. \A d \in Chunk : AbstractValue'[d] = IF d = c THEN value[c] ELSE AbstractValue[d]
    BY <2>3, <2>4
  <2>6. /\ AbstractValue = [d \in Chunk |-> AbstractValue[d]]
        /\ AbstractValue' = [d \in Chunk |-> AbstractValue'[d]]
    BY DEF AbstractValue
  <2>7. QED
    BY <2>5, <2>6
<1>9. AbstractPlan' = [AbstractPlan EXCEPT ![t][c] = "none"]
  <2>1. Current(t)' = c
    BY <1>3 DEF Current
  <2>2. AbstractPlan'[t][c] = "none"
    BY <1>3, <2>1 DEF AbstractPlan
  <2>3. \A d \in Chunk \ {c} : AbstractPlan'[t][d] = AbstractPlan[t][d]
    BY <1>1, <1>3, <2>1 DEF AbstractPlan
  <2>4. ASSUME NEW u \in Txn \ {t} PROVE AbstractPlan'[u] = AbstractPlan[u]
    <3>1. /\ pc'[u] = pc[u] /\ todo'[u] = todo[u] /\ program'[u] = program[u]
          /\ Current(u)' = Current(u)
      BY <1>0, OthersStay DEF WriterStep
    <3>2. QED
      BY <3>1 DEF AbstractPlan
  <2>5. AbstractPlan \in [Txn -> [Chunk -> Ops]] /\ AbstractPlan' \in [Txn -> [Chunk -> Ops]]
    <3>1. program \in [Txn -> [Chunk -> Ops]] /\ program' = program
      BY <1>0, <1>3 DEF TypeOK
    <3>2. /\ \A u \in Txn, d \in Chunk : AbstractPlan[u][d] \in Ops
          /\ \A u \in Txn, d \in Chunk : AbstractPlan'[u][d] \in Ops
      BY <3>1 DEF AbstractPlan, Ops
    <3>3. QED
      BY <3>2 DEF AbstractPlan
  <2> DEFINE plan == [AbstractPlan EXCEPT ![t][c] = "none"]
  <2>6. plan \in [Txn -> [Chunk -> Ops]]
    BY <2>5 DEF Ops
  <2>7. ASSUME NEW u \in Txn, NEW d \in Chunk PROVE plan[u][d] = AbstractPlan'[u][d]
    BY <2>2, <2>3, <2>4, <2>5
  <2> HIDE DEF plan
  <2>8. \A u \in Txn : plan[u] = AbstractPlan'[u]
    BY <2>5, <2>6, <2>7
  <2>9. plan = AbstractPlan'
    BY <2>5, <2>6, <2>8
  <2>10. QED
    BY <2>9 DEF plan
<1> DEFINE x == [txn |-> t, chunk |-> c, val |-> value[c]]
<1>10. AbstractStream' = Append(AbstractStream, x)
  <2>1. x \in Published
    BY <1>0 DEF Published, TypeOK
  <2>2. /\ Len(Sent') = k /\ Sent'[k] = [txn |-> t, chunk |-> c, updates |-> buffer[t]]
        /\ \A i \in 1 .. Len(Sent) : Sent'[i] = Sent[i]
    BY <1>0, SentSend
  <2>3. /\ AbstractStream \in Seq(Published) /\ Len(AbstractStream) = Len(Sent)
        /\ AbstractStream' \in Seq(Published) /\ Len(AbstractStream') = k
    BY <1>0, <2>2, StreamType, StreamTypeNext DEF StreamOK
  <2>4. ASSUME NEW i \in 1 .. Len(Sent) PROVE AbstractStream'[i] = AbstractStream[i]
    <3>1. i \in 1 .. Len(Sent') /\ Sent'[i] = Sent[i]
      BY <1>0, <2>2
    <3>2. AbstractStream'[i] = [txn |-> Sent'[i].txn, chunk |-> Sent'[i].chunk,
                                val |-> Sent'[i].updates[Sent'[i].chunk].val]
      BY <1>0, <3>1, StreamTypeNext DEF StreamOK
    <3>3. QED
      BY <1>0, <3>1, <3>2, StreamType DEF StreamOK
  <2>5. AbstractStream'[k] = x
    <3>1. k \in 1 .. Len(Sent')
      BY <1>0, <2>2
    <3>2. AbstractStream'[k] = [txn |-> Sent'[k].txn, chunk |-> Sent'[k].chunk,
                                val |-> Sent'[k].updates[Sent'[k].chunk].val]
      BY <1>0, <3>1, StreamTypeNext DEF StreamOK
    <3>3. QED
      BY <1>1, <2>2, <3>2
  <2> HIDE DEF x
  <2>6. /\ Append(AbstractStream, x) \in Seq(Published)
        /\ Len(Append(AbstractStream, x)) = k
        /\ \A i \in 1 .. Len(Sent) : Append(AbstractStream, x)[i] = AbstractStream[i]
        /\ Append(AbstractStream, x)[k] = x
    BY <2>1, <2>3, AppendProperties
  <2>7. \A i \in 1 .. k : AbstractStream'[i] = Append(AbstractStream, x)[i]
    BY <1>0, <2>4, <2>5, <2>6
  <2>8. QED
    BY <2>3, <2>6, <2>7, SeqEqual
<1>11. QED
  BY <1>1, <1>6, <1>7, <1>8, <1>9, <1>10 DEF Atomic!CommitChunk

LEMMA SimulationInit == TypeOK /\ Init => Atomic!Init
<1> SUFFICES ASSUME TypeOK, Init PROVE Atomic!Init
  OBVIOUS
<1>1. \A c \in Chunk : Unpublished(c) = {}
  BY DEF Init, Unpublished, At
<1>2. AbstractValue = [c \in Chunk |-> << >>]
  BY <1>1, ValueOf DEF Init, AbstractValue
<1>3. AbstractPlan = [t \in Txn |-> Atomic!Nothing]
  BY DEF Init, AbstractPlan, Atomic!Nothing
<1>4. AbstractStream = << >>
  <2>1. Len(AbstractStream) = 0 /\ AbstractStream \in Seq(Published)
    BY StreamType, EmptySeq, ConcatEmptySeq DEF StreamOK, Init, Sent, TypeOK
  <2>2. QED
    BY <2>1, EmptySeq
<1>5. QED
  BY <1>2, <1>3, <1>4 DEF Atomic!Init

LEMMA SimulationStep ==
  CommitInv /\ CommitInv' /\ StreamInv /\ ([Next]_vars \/ Aside)
    => [Atomic!Next]_(Atomic!vars)
<1> SUFFICES ASSUME CommitInv, CommitInv', StreamInv, [Next]_vars \/ Aside
             PROVE  Atomic!Next \/ UNCHANGED <<AbstractValue, AbstractPlan, AbstractStream>>
  BY DEF Atomic!vars
<1>0. TypeOK /\ (\A t \in Txn : Progress(t)) /\ LatchInv'
  BY DEF CommitInv
<1>1. ASSUME NEW t \in Txn, Start(t) PROVE Atomic!Next
  BY <1>1, StartSimulates DEF Atomic!Next
<1>2. ASSUME NEW t \in Txn, Send(t) PROVE Atomic!Next
  <2>1. Current(t) \in Chunk
    BY <1>0, <1>2, CurrentProperty DEF Progress, Working, Phases, TypeOK, Send, Goto
  <2>2. ASSUME NEW c \in Chunk, c = Current(t) PROVE Atomic!CommitChunk(t, c)
    BY <1>2, <2>2, SendSimulates
  <2>3. QED
    BY <2>1, <2>2 DEF Atomic!Next
<1>3. ASSUME \A t \in Txn : ~Start(t) /\ ~Send(t)
      PROVE  UNCHANGED <<AbstractValue, AbstractPlan, AbstractStream>>
  <2>1. AbstractValue' = AbstractValue
    BY <1>0, <1>3, ValuesStay
  <2>2. \A t \in Txn : AbstractPlan'[t] = AbstractPlan[t]
    BY <1>0, <1>3, PlansStay
  <2>3. AbstractPlan' = AbstractPlan
    <3>1. AbstractPlan' = [t \in Txn |-> AbstractPlan'[t]]
          /\ AbstractPlan = [t \in Txn |-> AbstractPlan[t]]
      BY DEF AbstractPlan
    <3>2. QED
      BY <2>2, <3>1
  <2>4. Sent' = Sent
    <3>1. CASE Aside
      BY <3>1 DEF Aside, Sent, stream
    <3>2. QED
      BY <1>0, <1>3, <3>1, StepCases, SentReceive, SentStays
  <2>5. AbstractStream' = AbstractStream
    BY <2>4 DEF AbstractStream, Sent
  <2>6. QED
    BY <2>1, <2>3, <2>5
<1>4. QED
  BY <1>1, <1>2, <1>3

-----------------------------------------------------------------------------
(* Theorems *)

\* txn.go, commit: the chunks of a transaction are committed one after the
\* other.  Each of these commits changes the values of its chunk and the change
\* stream in one step, in the order of the stream, and is one that a started
\* transaction has planned: the safety part of ImplementsAtomicCommit.
THEOREM AtomicSteps == Spec => Atomic!Init /\ [][Atomic!Next]_(Atomic!vars)
<1> DEFINE Inv == CommitInv /\ StreamInv
<1>1. Init => Inv /\ Atomic!Init
  BY CommitInvInit, TypingInit, StreamInit, SimulationInit
<1>2. Inv /\ [Next]_vars => Inv' /\ [Atomic!Next]_(Atomic!vars)
  BY CommitInvStep, StreamStep, SimulationStep
<1>3. QED
  BY <1>1, <1>2, PTL DEF Spec

\* The replica beside it does not disturb the commits: the same for the
\* specification that the run checks.
THEOREM AtomicStepsReplicated == RSpec => Atomic!Init /\ [][Atomic!Next]_(Atomic!vars)
<1>1. RInit => Atomic!Init
  BY TypingInit, SimulationInit DEF RInit
<1>2. RInv /\ RInv' /\ [RNext]_rvars => [Atomic!Next]_(Atomic!vars)
  <2>1. [RNext]_rvars => [Next]_vars
    BY DEF RNext, Replay, Next, rvars
  <2>2. QED
    BY <2>1, SimulationStep DEF RInv
<1>3. QED
  BY <1>1, <1>2, RInvInit, RInvStep, PTL DEF RSpec

\* Every variable of the primary and the replica has its type, a commit never
\* appends to a recorder that it has not loaded, and what the replica is given
\* are updates of its chunks.
THEOREM ReplicationTyping == RSpec => []RTypeOK
<1>1. RInv => RTypeOK
  BY DEF RInv
<1>2. QED
  BY <1>1, RInvInit, RInvStep, PTL DEF RSpec

\* txn_lock.go, rangeRead: readers of a primary with a replica see whole commits.
THEOREM WholeCommitsReplicated == RSpec => []ReadersSeeWholeCommits
<1>1. RInv => ReadersSeeWholeCommits
  BY CommitInvWhole DEF RInv
<1>2. QED
  BY <1>1, RInvInit, RInvStep, PTL DEF RSpec

\* snapshot.go, Replay: on the chunks that no transaction spans, the replica has
\* what the commits that it has received had made of the primary, however many
\* transactions commit meanwhile and in whatever order they take the latches.
THEOREM ReplicaFollowsPrimary == RSpec => []ReplicaFollows
BY Follows, RInvInit, RInvStep, PTL DEF RSpec

-----------------------------------------------------------------------------
(* Snapshots *)

Busy == {"count", "chunk", "inside", "close"}
SPhases == Busy \cup {"idle", "refused", "failed", "panicked", "copy", "done"}
Unrecorded == {"read", "write", "index", "record", "append"}

\* The state has a chunk, or is known to go without it.
Written(k, c) ==
  \/ spc[k] \in {"chunk", "inside"} /\ (c < next[k] \/ counted[k] <= c)
  \/ spc[k] \in {"close", "copy", "done"}

\* The commits that a snapshot has, or will have when it copies them.
LogOf(k) == IF spc[k] = "done" THEN file[k] ELSE recorded[k]

\* The commits of a chunk that have passed the recorder.
Settled(c) == IF At(c, Unrecorded) = {} THEN Len(order[c]) ELSE Len(order[c]) - 1

\* The commits that the log of the snapshot must have.
Due(k, c) == IF spc[k] \in Busy THEN Settled(c) ELSE closed[k][c]

IdAt(c, n) == IF n = 0 THEN 0 ELSE order[c][n].id

SnapType ==
  /\ filled \in 0 .. Chunks
  /\ spc \in [Snapper -> SPhases]
  /\ counted \in [Snapper -> 0 .. Chunks]
  /\ next \in [Snapper -> 0 .. Chunks]
  /\ state \in [Snapper -> [Chunk -> [last : Nat, val : Seq(Txn)]]]
  /\ file \in [Snapper -> Seq(Record)]
  /\ closed \in [Snapper -> [Chunk -> Int]]

\* Chunks behind the highest row are in no program and have no history.
FillInv ==
  /\ \A t \in Txn : Dirty(program[t]) \subseteq 0 .. filled - 1
  /\ \A c \in Chunk : \A i \in DOMAIN order[c] : program[order[c][i].txn][c] # "none"

\* IDs begin with 1.
IdInv ==
  /\ \A t \in Txn : pc[t] = "lock" => id[t] # 0
  /\ \A c \in Chunk : \A i \in 1 .. Len(order[c]) : order[c][i].id # 0

\* Where the snapshot of k is, and what it holds there.
PhaseInv(k) ==
  /\ recorder = k <=> spc[k] \in Busy \cup {"failed", "panicked"}
  /\ spc[k] \in {"idle", "count"} => next[k] = 0
  /\ spc[k] \in {"chunk", "inside"} => next[k] \in Chunk /\ next[k] < counted[k]
  /\ spc[k] = "inside" => k \in sharers[ShardOf(next[k])]
  /\ \A c \in Chunk :
       /\ spc[k] \in Busy \cup {"idle"} => closed[k][c] = 0
       /\ closed[k][c] <= Len(order[c])
       /\ spc[k] \in {"idle", "count"} => state[k][c] = NoCopy
       /\ spc[k] \in Busy /\ Written(k, c) => \A t \in At(c, {"append"}) : sink[t] = k

\* What is in the log.
RecordedInv(k, c) ==
  \A i \in DOMAIN LogOf(k) : LogOf(k)[i].chunk = c =>
    \E x \in 1 .. Settled(c) :
      /\ LogOf(k)[i].id = order[c][x].id
      /\ LogOf(k)[i].update = [op |-> "put", val |-> Serial(c, x)]

SortedInv(k, c) ==
  InLatchOrder(c) =>
    \A i, j \in DOMAIN LogOf(k) :
      i < j /\ LogOf(k)[i].chunk = c /\ LogOf(k)[j].chunk = c => LogOf(k)[i].id < LogOf(k)[j].id

\* What is in the state, and which commits are in the log behind it.
WrittenInv(k, c) ==
  Written(k, c) =>
    \E p \in 0 .. Len(order[c]) :
      /\ state[k][c] = [last |-> IdAt(c, p), val |-> Serial(c, p)]
      /\ \A x \in p + 1 .. Due(k, c) :
           \E i \in DOMAIN LogOf(k) : LogOf(k)[i].chunk = c /\ LogOf(k)[i].id = order[c][x].id

SnapInv ==
  /\ CommitInv /\ SnapType /\ FillInv /\ IdInv
  /\ \A k \in Snapper : PhaseInv(k)
  /\ \A k \in Snapper, c \in Chunk : RecordedInv(k, c) /\ SortedInv(k, c) /\ WrittenInv(k, c)

USE CommitAssumption

-----------------------------------------------------------------------------
(* Steps of a snapshot, as the commits see them *)

LEMMA SnapAside ==
  ASSUME TypeOK, NEW k \in Snapper, PhaseInv(k), SnapStep(k)
  PROVE  Aside
<1>1. CASE Open(k)
  BY <1>1 DEF Open, Aside, TypeOK, latches, log
<1>2. CASE EnterChunk(k)
  <2>1. next[k] \in Chunk /\ RLock(k, next[k])
    BY <1>2 DEF EnterChunk, SGoto, PhaseInv
  <2>2. QED
    BY <2>1, SharingAside
<1>3. CASE WriteChunk(k) \/ Panics(k) \/ WriteFails(k)
  <2>1. /\ sharers' = [s \in Shard |-> sharers[s] \ {k}]
        /\ UNCHANGED <<lastID, holder, store, log, stream, local, order>>
    BY <1>3 DEF WriteChunk, Panics, WriteFails, Leave
  <2>2. QED
    BY <2>1 DEF Aside, TypeOK, log
<1>4. CASE Close(k)
  BY <1>4 DEF Close, Aside, TypeOK, latches, log
<1>5. CASE Count(k) \/ Copy(k)
  BY <1>5 DEF Count, Copy, vars, Aside, TypeOK, latches, log
<1>6. QED
  BY <1>1, <1>2, <1>3, <1>4, <1>5 DEF SnapStep

LEMMA SnapCases ==
  ASSUME TypeOK, \A k \in Snapper : PhaseInv(k), [SNext]_allvars
  PROVE  /\ [Next]_vars \/ Aside
         /\ \/ [Next]_vars /\ UNCHANGED snapvars
            \/ \E k \in Snapper : SnapStep(k)
BY SnapAside DEF SNext, TxnStep, Reserve, GiveBack, allvars, vars, snapvars

-----------------------------------------------------------------------------
(* Types, IDs and phases *)

LEMMA SnapTypeInit == SInit => SnapType
<1> SUFFICES ASSUME SInit PROVE SnapType
  OBVIOUS
<1>1. NoCopy \in [last : Nat, val : Seq(Txn)]
  BY EmptySeq DEF NoCopy
<1>2. QED
  BY <1>1, EmptySeq DEF SInit, SnapType, SPhases, Busy

LEMMA FilledStep ==
  ASSUME SnapType, [SNext]_allvars
  PROVE  /\ filled' \in 0 .. Chunks
         /\ filled' = filled \/ Reserve \/ GiveBack
<1> USE CommitAssumption
<1>1. filled \in 0 .. Chunks
  BY DEF SnapType
<1>2. filled' = filled \/ Reserve \/ GiveBack
  <2>1. ASSUME NEW k \in Snapper, SnapStep(k) PROVE filled' = filled
    BY <2>1 DEF SnapStep, Open, Count, EnterChunk, WriteChunk, Panics, WriteFails, Close, Copy
  <2>2. QED
    BY <2>1 DEF SNext, TxnStep, allvars
<1>3. QED
  BY <1>1, <1>2 DEF Reserve, GiveBack

LEMMA SnapTypeStep ==
  ASSUME TypeOK, SnapType, \A k \in Snapper : PhaseInv(k), [SNext]_allvars
  PROVE  SnapType'
<1>0. filled' \in 0 .. Chunks /\ filled \in 0 .. Chunks
  BY FilledStep DEF SnapType
<1>1. CASE UNCHANGED snapvars
  BY <1>0, <1>1 DEF snapvars, SnapType
<1>2. ASSUME NEW k \in Snapper, Open(k) \/ EnterChunk(k) PROVE SnapType'
  BY <1>0, <1>2 DEF Open, EnterChunk, SGoto, SnapType, SPhases, Busy
<1>3. ASSUME NEW k \in Snapper, WriteChunk(k) PROVE SnapType'
  <2> DEFINE c == next[k]
             copy == [last |-> commits[c], val |-> value[c]]
  <2>1. c \in Chunk /\ c + 1 \in 0 .. Chunks
    BY <1>3 DEF WriteChunk, SGoto, PhaseInv, Chunk
  <2>2. copy \in [last : Nat, val : Seq(Txn)]
    BY <2>1 DEF TypeOK
  <2>3. /\ spc' = [spc EXCEPT ![k] = IF c = counted[k] - 1 THEN "close" ELSE "chunk"]
        /\ state' = [state EXCEPT ![k][c] = copy]
        /\ next' = [next EXCEPT ![k] = c + 1] /\ UNCHANGED <<counted, file, closed>>
    BY <1>3 DEF WriteChunk, SGoto
  <2> HIDE DEF copy, c
  <2>4. QED
    BY <1>0, <2>1, <2>2, <2>3 DEF SnapType, SPhases, Busy
<1>4. ASSUME NEW k \in Snapper, Close(k) PROVE SnapType'
  <2>1. ASSUME NEW c \in Chunk PROVE Completed(c) \in Int
    <3> DEFINE S == {t \in Txn : holder[ShardOf(c)] = t /\ Current(t) = c}
    <3>1. S \in SUBSET {holder[ShardOf(c)]}
      OBVIOUS
    <3>2. Cardinality(S) \in Nat
      BY <3>1, FS_Singleton, FS_Subset, FS_CardinalityType
    <3>3. QED
      BY <3>2, HistoryType DEF Completed
  <2>2. QED
    BY <1>0, <1>4, <2>1 DEF Close, Forget, SGoto, SnapType, SPhases, Busy
<1>5. ASSUME NEW k \in Snapper, Copy(k) PROVE SnapType'
  BY <1>0, <1>5 DEF Copy, SGoto, SnapType, SPhases, Busy, TypeOK
<1>6. ASSUME NEW k \in Snapper, Count(k) PROVE SnapType'
  BY <1>0, <1>6 DEF Count, SGoto, SnapType, SPhases, Busy
<1>7. ASSUME NEW k \in Snapper, Panics(k) \/ WriteFails(k) PROVE SnapType'
  <2>1. /\ spc' = [spc EXCEPT ![k] = "panicked"] \/ spc' = [spc EXCEPT ![k] = "failed"]
        /\ Forget(k) /\ UNCHANGED <<state, file, closed>>
    BY <1>7 DEF Panics, WriteFails, SGoto
  <2>2. spc' \in [Snapper -> SPhases]
    BY <2>1 DEF SnapType, SPhases
  <2>3. next' \in [Snapper -> 0 .. Chunks] /\ counted' \in [Snapper -> 0 .. Chunks]
    BY <2>1 DEF Forget, SnapType
  <2>4. QED
    BY <1>0, <2>1, <2>2, <2>3 DEF SnapType
<1>8. QED
  BY <1>1, <1>2, <1>3, <1>4, <1>5, <1>6, <1>7, SnapCases DEF SnapStep

\* The programs of transactions that have begun, and those that begin, stay below the
\* highest row.
LEMMA FillStep ==
  ASSUME CommitInv, SnapType, FillInv, \A k \in Snapper : PhaseInv(k), [SNext]_allvars
  PROVE  FillInv'
<1>0. TypeOK /\ OrderInv /\ (\A t \in Txn : Progress(t)) /\ ([Next]_vars \/ Aside)
  BY SnapCases DEF CommitInv
<1>1. ASSUME NEW t \in Txn, NEW d \in Dirty(program'[t])
      PROVE  d \in 0 .. filled' - 1
  <2>1. d \in Chunk /\ filled \in 0 .. Chunks /\ filled' \in 0 .. Chunks
    BY FilledStep DEF Dirty, SnapType
  <2>2. CASE TxnStep
    BY <1>1, <2>2 DEF TxnStep
  <2>3. CASE ~TxnStep
    <3>1. program' = program
      <4>1. ASSUME NEW k \in Snapper, SnapStep(k) PROVE program' = program
        BY <1>0, <4>1, SnapAside DEF Aside, local
      <4>2. QED
        BY <2>3, <4>1 DEF SNext, Reserve, GiveBack, allvars, vars, local
    <3>2. d \in Dirty(program[t]) /\ d \in 0 .. filled - 1
      BY <1>1, <3>1 DEF FillInv
    <3>3. CASE GiveBack
      <4>1. filled - 1 \in Chunk
        BY <2>1, <3>3 DEF GiveBack, Chunk
      <4>2. d # filled - 1
        BY <3>2, <3>3, <4>1 DEF GiveBack, IDs
      <4>3. QED
        BY <2>1, <3>2, <3>3, <4>2 DEF GiveBack
    <3>4. CASE Reserve
      BY <2>1, <3>2, <3>4 DEF Reserve
    <3>5. QED
      BY <3>2, <3>3, <3>4, FilledStep
  <2>4. QED
    BY <2>2, <2>3
<1>2. ASSUME NEW c \in Chunk, NEW i \in DOMAIN order'[c]
      PROVE  program'[order'[c][i].txn][c] # "none"
  <2>1. ASSUME i \in DOMAIN order[c], order'[c][i] = order[c][i]
        PROVE  program'[order'[c][i].txn][c] # "none"
    <3>1. order[c][i].txn \in Txn /\ pc[order[c][i].txn] # "idle"
      BY <1>0, <2>1, HistoryType DEF OrderInv
    <3>2. program'[order[c][i].txn][c] = program[order[c][i].txn][c]
      BY <1>0, <3>1, PhaseStep
    <3>3. QED
      BY <2>1, <3>2 DEF FillInv
  <2>2. CASE Receive \/ Aside
    BY <2>1, <2>2 DEF Receive, Aside
  <2>3. ASSUME NEW t \in Txn, Start(t) \/ WriterStep(t), ~(Lock(t) /\ c = Current(t))
        PROVE  program'[order'[c][i].txn][c] # "none"
    BY <1>0, <2>1, <2>3, OrderGrows
  <2>4. ASSUME NEW t \in Txn, Lock(t), c = Current(t)
        PROVE  program'[order'[c][i].txn][c] # "none"
    <3>1. /\ DOMAIN order[c] = 1 .. Len(order[c]) /\ Len(order[c]) \in Nat
          /\ DOMAIN order'[c] = 1 .. Len(order'[c])
      <4>1. order'[c] \in Seq(Entry)
        BY <1>0, TypingStep DEF TypeOK
      <4>2. QED
        BY <1>0, <4>1, HistoryType, LenProperties
    <3>2. program'[t][c] # "none"
      <4>1. todo[t] # {} /\ todo[t] \subseteq Dirty(program[t]) /\ program' = program
        BY <1>0, <2>4 DEF Lock, Goto, Progress, Working, Phases
      <4>2. c \in todo[t]
        BY <1>0, <2>4, <4>1, CurrentProperty DEF TypeOK
      <4>3. QED
        BY <4>1, <4>2 DEF Dirty
    <3>3. /\ Len(order'[c]) = Len(order[c]) + 1
          /\ order'[c][Len(order[c]) + 1] = [txn |-> t, id |-> id[t]]
          /\ \A j \in 1 .. Len(order[c]) : order'[c][j] = order[c][j]
      BY <1>0, <2>4, OrderAppended, Zenon
    <3>4. i \in DOMAIN order[c] \/ i = Len(order[c]) + 1
      BY <3>1, <3>3
    <3>5. QED
      BY <2>1, <3>1, <3>2, <3>3, <3>4
  <2>5. QED
    BY <1>0, <2>2, <2>3, <2>4, StepCases
<1>3. QED
  BY <1>1, <1>2 DEF FillInv

\* Where no row is, no transaction is, and the chunk is as it was at first.
LEMMA NothingBehind ==
  ASSUME CommitInv, SnapType, FillInv, NEW c \in Chunk, filled <= c
  PROVE  /\ order[c] = << >> /\ \A S : At(c, S \cap Working) = {}
         /\ Serial(c, 0) = << >>
<1>0. TypeOK /\ filled \in 0 .. Chunks /\ c \in Nat
  BY DEF CommitInv, SnapType, Chunk
<1>1. \A t \in Txn : c \notin Dirty(program[t])
  BY <1>0 DEF FillInv
<1>2. order[c] = << >>
  <2>1. ASSUME NEW i \in DOMAIN order[c] PROVE FALSE
    <3>1. order[c][i].txn \in Txn
      BY <1>0, HistoryType
    <3>2. QED
      BY <1>1, <2>1, <3>1 DEF FillInv, Dirty
  <2>2. Len(order[c]) \in Nat /\ DOMAIN order[c] = 1 .. Len(order[c]) /\ order[c] \in Seq(Entry)
    BY <1>0, HistoryType DEF TypeOK
  <2>3. Len(order[c]) = 0
    BY <2>1, <2>2
  <2>4. QED
    BY <2>2, <2>3, EmptySeq
<1>3. ASSUME NEW S, NEW t \in At(c, S \cap Working) PROVE FALSE
  <2>1. t \in Txn /\ pc[t] \in Working /\ Current(t) = c
    BY <1>3 DEF At
  <2>2. todo[t] # {} /\ todo[t] \subseteq Dirty(program[t])
    BY <2>1 DEF CommitInv, Progress
  <2>3. c \in todo[t]
    BY <1>0, <2>1, <2>2, CurrentProperty DEF TypeOK
  <2>4. QED
    BY <1>1, <2>1, <2>2, <2>3
<1>4. Serial(c, 0) = << >>
  <2>1. Puts(c, 0) = {}
    BY DEF Puts
  <2>2. From(c, 0) = 1
    BY <2>1 DEF From
  <2>3. Serial(c, 0) = [i \in 1 .. 0 |-> order[c][1 + i - 1].txn]
    BY <2>2, SerialFrom
  <2>4. QED
    BY <2>3
<1>5. QED
  BY <1>2, <1>3, <1>4

LEMMA IdStep ==
  ASSUME TypeOK, IdInv, [Next]_vars \/ Aside
  PROVE  IdInv'
<1>1. CASE Receive \/ Aside
  BY <1>1 DEF Receive, Aside, local, IdInv
<1>2. ASSUME NEW t \in Txn, Start(t) \/ WriterStep(t), NEW u \in Txn, pc'[u] = "lock"
      PROVE  id'[u] # 0
  <2>1. CASE u # t
    BY <1>2, <2>1, OthersStay DEF IdInv
  <2>2. CASE NextID(t) /\ u = t
    BY <2>2 DEF NextID, TypeOK
  <2>3. CASE u = t /\ ~NextID(t)
    <3>1. pc'[t] # "lock"
      BY <1>2, <2>3 DEF WriterStep, Start, Lock, ReadCell, WriteCell, WriteIndex, LoadRecorder,
                        AppendRecord, Send, Unlock, Goto, TypeOK
    <3>2. QED
      BY <1>2, <2>3, <3>1
  <2>4. QED
    BY <2>1, <2>2, <2>3
<1>3. ASSUME NEW t \in Txn, Start(t) \/ WriterStep(t), NEW c \in Chunk, NEW i \in 1 .. Len(order'[c])
      PROVE  order'[c][i].id # 0
  <2>1. CASE Lock(t) /\ c = Current(t)
    <3>1. /\ Len(order'[c]) = Len(order[c]) + 1 /\ Len(order[c]) \in Nat
          /\ order'[c][Len(order[c]) + 1] = [txn |-> t, id |-> id[t]]
          /\ \A j \in 1 .. Len(order[c]) : order'[c][j] = order[c][j]
      BY <2>1, OrderAppended, HistoryType
    <3>2. id[t] # 0
      BY <2>1 DEF Lock, Goto, IdInv
    <3>3. \A j \in 1 .. Len(order[c]) : order[c][j].id # 0
      BY DEF IdInv
    <3>4. i \in 1 .. Len(order[c]) \/ i = Len(order[c]) + 1
      BY <3>1
    <3>5. QED
      BY <3>1, <3>2, <3>3, <3>4
  <2>2. CASE ~(Lock(t) /\ c = Current(t))
    <3>1. order'[c] = order[c]
      BY <1>3, <2>2, OrderGrows
    <3>2. QED
      BY <3>1 DEF IdInv
  <2>3. QED
    BY <2>1, <2>2
<1>4. QED
  BY <1>1, <1>2, <1>3, StepCases DEF IdInv

LEMMA OrderLonger ==
  ASSUME TypeOK, [Next]_vars \/ Aside, NEW c \in Chunk
  PROVE  Len(order[c]) \in Nat /\ Len(order'[c]) \in {Len(order[c]), Len(order[c]) + 1}
<1>1. CASE Receive \/ Aside
  BY <1>1, HistoryType DEF Receive, Aside
<1>2. ASSUME NEW t \in Txn, Start(t) \/ WriterStep(t)
      PROVE  Len(order'[c]) \in {Len(order[c]), Len(order[c]) + 1}
  BY <1>2, OrderAppended, OrderGrows
<1>3. QED
  BY <1>1, <1>2, StepCases, HistoryType

\* The commits leave the recorder and the latches of a snapshot alone.
LEMMA CommitsLeave ==
  ASSUME TypeOK, [Next]_vars
  PROVE  /\ recorder' = recorder
         /\ \A k \in Snapper, s \in Shard : k \in sharers[s] => k \in sharers'[s]
<1>1. ASSUME NEW t \in Txn, Start(t) \/ WriterStep(t)
      PROVE  recorder' = recorder /\ sharers' = sharers
  BY <1>1 DEF WriterStep, Start, NextID, Lock, ReadCell, WriteCell, WriteIndex, LoadRecorder,
              AppendRecord, Send, Unlock, log, latches
<1>2. ASSUME NEW g \in Reader, NEW c \in Chunk, RLock(g, c)
      PROVE  /\ recorder' = recorder
             /\ \A k \in Snapper, s \in Shard : k \in sharers[s] => k \in sharers'[s]
  BY <1>2 DEF RLock, log, TypeOK
<1>3. ASSUME NEW g \in Reader, NEW r \in Shard, RUnlock(g, r)
      PROVE  /\ recorder' = recorder
             /\ \A k \in Snapper, s \in Shard : k \in sharers[s] => k \in sharers'[s]
  <2>1. g \notin Snapper
    BY SnapshotAssumption
  <2>2. QED
    BY <1>3, <2>1 DEF RUnlock, log, TypeOK
<1>4. CASE Receive
  BY <1>4 DEF Receive, log, latches
<1>5. CASE UNCHANGED vars
  BY <1>5 DEF vars, log, latches
<1>6. QED
  BY <1>1, <1>2, <1>3, <1>4, <1>5 DEF Next, ClientStep

LEMMA OthersLeave ==
  ASSUME SnapType, TypeOK, NEW k \in Snapper, NEW j \in Snapper, j # k, SnapStep(j), PhaseInv(j), PhaseInv(k)
  PROVE  /\ spc'[k] = spc[k] /\ next'[k] = next[k] /\ state'[k] = state[k]
         /\ file'[k] = file[k] /\ closed'[k] = closed[k] /\ counted'[k] = counted[k]
         /\ recorder' = k <=> recorder = k
         /\ \A s \in Shard : k \in sharers[s] => k \in sharers'[s]
<1> USE DEF SGoto, SnapType, TypeOK, latches, log
<1>1. CASE Open(j)
  BY <1>1 DEF Open
<1>2. CASE EnterChunk(j)
  BY <1>2 DEF EnterChunk, RLock
<1>3. CASE WriteChunk(j)
  BY <1>3 DEF WriteChunk, Leave
<1>4. CASE Panics(j) \/ WriteFails(j)
  <2>1. /\ spc' = [spc EXCEPT ![j] = "panicked"] \/ spc' = [spc EXCEPT ![j] = "failed"]
        /\ Leave(j) /\ Forget(j) /\ UNCHANGED <<log, state, file, closed>>
    BY <1>4 DEF Panics, WriteFails
  <2>2. QED
    BY <2>1 DEF Leave, Forget
<1>5. CASE Close(j)
  BY <1>5 DEF Close, Forget, PhaseInv, Busy
<1>6. CASE Count(j)
  <2>1. UNCHANGED <<latches, log>>
    BY <1>6 DEF Count, vars
  <2>2. QED
    BY <1>6, <2>1 DEF Count
<1>7. CASE Copy(j)
  BY <1>7 DEF Copy, vars
<1>8. QED
  BY <1>1, <1>2, <1>3, <1>4, <1>5, <1>6, <1>7 DEF SnapStep

\* Who appends to the log loaded the recorder in this chunk.
LEMMA AppendersStep ==
  ASSUME TypeOK, [Next]_vars, NEW c \in Chunk, NEW t \in Txn, t \in At(c, {"append"})'
  PROVE  \/ t \in At(c, {"append"}) /\ sink'[t] = sink[t]
         \/ LoadRecorder(t) /\ sink'[t] = recorder
<1>1. pc'[t] = "append" /\ Current(t)' = c
  BY DEF At
<1>2. CASE Receive \/ UNCHANGED vars
  BY <1>1, <1>2 DEF Receive, vars, local, At, Current
<1>4. CASE Start(t) \/ WriterStep(t)
  <2>1. ~Start(t) /\ ~NextID(t) /\ ~Lock(t)
    BY <1>1 DEF Start, NextID, Lock, Goto, TypeOK
  <2>2. ~ReadCell(t) /\ ~WriteCell(t) /\ ~WriteIndex(t)
    BY <1>1 DEF ReadCell, WriteCell, WriteIndex, Goto, TypeOK
  <2>3. ~AppendRecord(t) /\ ~Send(t)
    BY <1>1 DEF AppendRecord, Send, Goto, TypeOK
  <2>4. ~Unlock(t)
    BY <1>1 DEF Unlock, Goto, TypeOK
  <2>5. LoadRecorder(t)
    BY <1>4, <2>1, <2>2, <2>3, <2>4 DEF WriterStep
  <2>6. QED
    BY <2>5 DEF LoadRecorder, TypeOK
<1>5. ASSUME NEW u \in Txn, u # t, Start(u) \/ WriterStep(u)
      PROVE  t \in At(c, {"append"}) /\ sink'[t] = sink[t]
  <2>1. pc'[t] = pc[t] /\ sink'[t] = sink[t] /\ Current(t)' = Current(t)
    BY <1>5, OthersStay
  <2>2. QED
    BY <1>1, <2>1 DEF At
<1>6. ASSUME NEW g \in Reader, (\E d \in Chunk : RLock(g, d)) \/ (\E s \in Shard : RUnlock(g, s))
      PROVE  t \in At(c, {"append"}) /\ sink'[t] = sink[t]
  BY <1>1, <1>6 DEF RLock, RUnlock, local, At, Current
<1>7. QED
  BY <1>2, <1>4, <1>5, <1>6 DEF Next, ClientStep

LEMMA PhaseInit == SInit => \A k \in Snapper : PhaseInv(k)
<1> SUFFICES ASSUME SInit, NEW k \in Snapper PROVE PhaseInv(k)
  OBVIOUS
<1>1. /\ recorder = None /\ k # None /\ spc[k] = "idle" /\ next[k] = 0
      /\ \A c \in Chunk : closed[k][c] = 0 /\ order[c] = << >> /\ state[k][c] = NoCopy
  BY DEF SInit, Init
<1>2. QED
  BY <1>1, EmptySeq DEF PhaseInv, Written, Busy

LEMMA PhaseCommits ==
  ASSUME TypeOK, SnapType, NEW k \in Snapper, PhaseInv(k), [Next]_vars, UNCHANGED snapvars
  PROVE  PhaseInv(k)'
<1>1. UNCHANGED <<recorder, spc, counted, next, state, closed>>
  BY CommitsLeave DEF snapvars
<1>2. next[k] \in Chunk /\ k \in sharers[ShardOf(next[k])] => k \in sharers'[ShardOf(next[k])]
  BY CommitsLeave, ShardType
<1>3. ASSUME NEW c \in Chunk, closed[k][c] <= Len(order[c]) PROVE closed[k][c] <= Len(order'[c])
  <2>1. Len(order[c]) \in Nat /\ Len(order'[c]) \in {Len(order[c]), Len(order[c]) + 1}
    BY OrderLonger
  <2>2. closed[k][c] \in Int
    BY DEF SnapType
  <2>3. QED
    BY <1>3, <2>1, <2>2
<1>4. ASSUME NEW c \in Chunk, spc[k] \in Busy, Written(k, c), NEW t \in At(c, {"append"})'
      PROVE  sink'[t] = k
  <2>1. t \in Txn
    BY <1>4 DEF At
  <2>2. t \in At(c, {"append"}) => sink[t] = k
    BY <1>4 DEF PhaseInv
  <2>3. recorder = k
    BY <1>4 DEF PhaseInv
  <2>4. QED
    BY <1>4, <2>1, <2>2, <2>3, AppendersStep
<1>5. QED
  <2>1. \A c \in Chunk : Written(k, c)' <=> Written(k, c)
    BY <1>1 DEF Written
  <2>2. QED
    BY <1>1, <1>2, <1>3, <1>4, <2>1 DEF PhaseInv, Busy

LEMMA PhaseOthers ==
  ASSUME TypeOK, SnapType, NEW k \in Snapper, NEW j \in Snapper, j # k,
         PhaseInv(k), PhaseInv(j), SnapStep(j)
  PROVE  PhaseInv(k)'
<1>1. UNCHANGED <<order, pc, todo, sink>>
  BY SnapAside DEF Aside, local
<1>2. \A c \in Chunk : At(c, {"append"})' = At(c, {"append"})
  BY <1>1 DEF At, Current
<1>3. next[k] \in Chunk /\ k \in sharers[ShardOf(next[k])] => k \in sharers'[ShardOf(next[k])]
  BY OthersLeave, ShardType
<1>4. /\ spc'[k] = spc[k] /\ next'[k] = next[k] /\ closed'[k] = closed[k]
      /\ counted'[k] = counted[k] /\ state'[k] = state[k]
      /\ recorder' = k <=> recorder = k
  BY OthersLeave
<1>5. QED
  <2>1. \A c \in Chunk : Written(k, c)' <=> Written(k, c)
    BY <1>4 DEF Written
  <2>2. QED
    BY <1>1, <1>2, <1>3, <1>4, <2>1 DEF PhaseInv

\* The chunk that a snapshot writes has been left by the commits.
LEMMA ChunkIsVacant ==
  ASSUME LatchInv, NEW k \in Snapper, PhaseInv(k), spc[k] = "inside"
  PROVE  next[k] \in Chunk /\ At(next[k], Holding) = {}
<1>1. next[k] \in Chunk /\ k \in sharers[ShardOf(next[k])]
  BY DEF PhaseInv
<1>2. QED
  BY <1>1, ShardType, Vacant DEF LatchInv

\* Who holds the latch of a chunk and has it next is one at most; if somebody is in the
\* chunk, it is that one.
LEMMA CompletedProperty ==
  ASSUME TypeOK, LatchInv, NEW c \in Chunk
  PROVE  /\ Completed(c) \in Int /\ Completed(c) <= Len(order[c])
         /\ At(c, Holding) # {} => Completed(c) = Len(order[c]) - 1
<1> DEFINE S == {t \in Txn : holder[ShardOf(c)] = t /\ Current(t) = c}
<1>1. S \in SUBSET {holder[ShardOf(c)]} /\ At(c, Holding) \subseteq S
  BY DEF At, LatchInv
<1>2. S = {} \/ S = {holder[ShardOf(c)]}
  BY <1>1
<1>3. Cardinality(S) \in {0, 1} /\ (At(c, Holding) # {} => Cardinality(S) = 1)
  BY <1>1, <1>2, FS_Singleton, FS_EmptySet
<1>4. Len(order[c]) \in Nat
  BY HistoryType
<1>5. QED
  BY <1>3, <1>4 DEF Completed

LEMMA PhaseOwn ==
  ASSUME CommitInv, SnapType, FillInv, NEW k \in Snapper, PhaseInv(k), SnapStep(k)
  PROVE  PhaseInv(k)'
<1>0. TypeOK /\ LatchInv
  BY DEF CommitInv
<1>1. UNCHANGED <<order, pc, todo, sink>>
  BY <1>0, SnapAside DEF Aside, local
<1>2. \A c \in Chunk : At(c, {"append"})' = At(c, {"append"})
  BY <1>1 DEF At, Current
<1>3. k # None /\ 0 \in Chunk
  BY DEF Chunk
<1>4. CASE Open(k)
  <2>1. /\ spc[k] = "idle" /\ UNCHANGED <<counted, next, state, closed>>
        /\ \/ recorder = None /\ recorder' = k /\ spc'[k] = "count"
           \/ recorder # None /\ recorder' = recorder /\ spc'[k] = "refused"
    BY <1>4 DEF Open, SGoto, SnapType
  <2>2. \A c \in Chunk : ~Written(k, c)'
    BY <2>1 DEF Written
  <2>3. QED
    BY <1>1, <1>2, <1>3, <2>1, <2>2 DEF PhaseInv, Busy
<1>5. CASE Count(k)
  <2>1. /\ spc[k] = "count" /\ spc'[k] = IF filled = 0 THEN "close" ELSE "chunk"
        /\ counted'[k] = filled /\ next'[k] = 0 /\ recorder' = recorder
        /\ state' = state /\ closed' = closed /\ filled \in 0 .. Chunks
    BY <1>5 DEF Count, SGoto, SnapType, PhaseInv, vars, log
  <2>2. spc'[k] = "chunk" => 0 \in Chunk /\ 0 < filled
    BY <1>3, <2>1
  <2>3. ASSUME NEW c \in Chunk, Written(k, c)' PROVE At(c, {"append"})' = {}
    <3>1. filled <= c
      BY <2>1, <2>3 DEF Written, Chunk
    <3>2. At(c, {"append"} \cap Working) = {}
      BY <3>1, NothingBehind
    <3>3. {"append"} \cap Working = {"append"}
      BY DEF Working, Phases
    <3>4. QED
      BY <1>2, <3>2, <3>3
  <2>4. QED
    BY <1>1, <2>1, <2>2, <2>3 DEF PhaseInv, Busy
<1>6. CASE EnterChunk(k)
  <2>1. /\ spc[k] = "chunk" /\ spc'[k] = "inside" /\ recorder' = recorder
        /\ UNCHANGED <<counted, next, state, closed>>
    BY <1>6 DEF EnterChunk, RLock, SGoto, SnapType, log
  <2>2. next[k] \in Chunk /\ ShardOf(next[k]) \in Shard
    BY <2>1, ShardType DEF PhaseInv
  <2>3. k \in sharers'[ShardOf(next[k])]
    BY <1>0, <1>6, <2>2 DEF EnterChunk, RLock, TypeOK
  <2>4. \A c \in Chunk : Written(k, c)' <=> Written(k, c)
    BY <2>1 DEF Written
  <2>5. QED
    BY <1>1, <1>2, <2>1, <2>2, <2>3, <2>4 DEF PhaseInv, Busy
<1>7. CASE WriteChunk(k)
  <2> SUFFICES ASSUME NEW m, m = next[k] PROVE PhaseInv(k)'
    OBVIOUS
  <2>1. /\ spc[k] = "inside" /\ spc'[k] = IF m = counted[k] - 1 THEN "close" ELSE "chunk"
        /\ recorder' = recorder /\ next'[k] = m + 1 /\ UNCHANGED <<counted, closed>>
    BY <1>7 DEF WriteChunk, SGoto, SnapType, log
  <2>2. m \in Chunk /\ m < counted[k] /\ counted[k] \in 0 .. Chunks /\ At(m, Holding) = {}
    BY <1>0, <2>1, ChunkIsVacant DEF PhaseInv, SnapType
  <2>3. At(m, {"append"}) = {}
    BY <2>2 DEF At, Holding
  <2>4. \A c \in Chunk : Written(k, c)' => Written(k, c) \/ c = m
    BY <2>1, <2>2 DEF Written, Chunk
  <2>5. m # counted[k] - 1 => m + 1 \in Chunk /\ m + 1 < counted[k]
    BY <2>2 DEF Chunk
  <2>6. /\ spc[k] = "inside" /\ spc'[k] \in {"close", "chunk"}
        /\ recorder' = recorder /\ closed' = closed /\ order' = order /\ sink' = sink
        /\ spc'[k] = "chunk" => next'[k] \in Chunk /\ next'[k] < counted'[k]
    BY <1>1, <2>1, <2>5
  <2>7. \A c \in Chunk : Written(k, c)' => \A t \in At(c, {"append"})' : sink[t] = k
    BY <1>2, <2>1, <2>3, <2>4 DEF PhaseInv, Busy
  <2>8. QED
    BY <2>6, <2>7 DEF PhaseInv, Busy
<1>8. CASE Panics(k) \/ WriteFails(k)
  <2>1. /\ spc[k] \in Busy /\ spc'[k] \in {"failed", "panicked"} /\ recorder' = recorder
        /\ closed' = closed
    BY <1>8 DEF Panics, WriteFails, SGoto, SnapType, log, Busy
  <2>2. \A c \in Chunk : ~Written(k, c)'
    BY <2>1 DEF Written
  <2>3. QED
    BY <1>1, <2>1, <2>2 DEF PhaseInv, Busy
<1>9. CASE Close(k)
  <2>1. /\ spc[k] = "close" /\ spc'[k] = "copy" /\ recorder' = None
        /\ \A c \in Chunk : closed'[k][c] = Completed(c)
    BY <1>9 DEF Close, SGoto, SnapType
  <2>2. \A c \in Chunk : Completed(c) <= Len(order[c])
    BY <1>0, CompletedProperty
  <2>3. QED
    BY <1>1, <1>2, <1>3, <2>1, <2>2 DEF PhaseInv, Busy
<1>10. CASE Copy(k)
  <2>1. /\ spc[k] = "copy" /\ spc'[k] = "done" /\ recorder' = recorder
        /\ next' = next /\ closed' = closed
    BY <1>10 DEF Copy, SGoto, SnapType, vars, log
  <2>2. QED
    BY <1>1, <1>2, <2>1 DEF PhaseInv, Busy
<1>11. QED
  BY <1>4, <1>5, <1>6, <1>7, <1>8, <1>9, <1>10 DEF SnapStep

LEMMA PhaseStepAll ==
  ASSUME CommitInv, SnapType, FillInv, \A k \in Snapper : PhaseInv(k), [SNext]_allvars
  PROVE  \A k \in Snapper : PhaseInv(k)'
<1>1. TypeOK
  BY DEF CommitInv
<1>2. QED
  BY <1>1, SnapCases, PhaseCommits, PhaseOthers, PhaseOwn

-----------------------------------------------------------------------------
(* The commits that have passed the recorder *)

\* Transaction t takes its commit of chunk c past the recorder.
Passes(t, c) == c = Current(t) /\ (AppendRecord(t) \/ (LoadRecorder(t) /\ recorder = None))

LEMMA SettledType ==
  ASSUME CommitInv, NEW c \in Chunk
  PROVE  /\ Len(order[c]) \in Nat /\ Settled(c) \in 0 .. Len(order[c])
         /\ Completed(c) <= Settled(c)
<1>0. TypeOK /\ LatchInv /\ Cell(c)
  BY DEF CommitInv
<1>1. Len(order[c]) \in Nat /\ Completed(c) \in Int /\ Completed(c) <= Len(order[c])
  BY <1>0, HistoryType, CompletedProperty
<1>2. ASSUME NEW t \in At(c, Unrecorded)
      PROVE  Len(order[c]) # 0 /\ Completed(c) = Len(order[c]) - 1
  <2>1. t \in At(c, Holding)
    BY <1>2 DEF At, Unrecorded, Holding
  <2>2. Len(order[c]) # 0
    BY <1>0, <2>1 DEF Cell, Inside
  <2>3. QED
    BY <1>0, <2>1, <2>2, CompletedProperty
<1>3. QED
  BY <1>1, <1>2 DEF Settled

LEMMA SettledStays ==
  ASSUME CommitInv, LatchInv', [Next]_vars \/ Aside, NEW c \in Chunk,
         \A t \in Txn : ~Passes(t, c)
  PROVE  Settled(c)' = Settled(c)
<1>0. TypeOK /\ LatchInv /\ Cell(c)
  BY DEF CommitInv
<1>1. CASE Receive \/ Aside
  BY <1>1 DEF Receive, Aside, local, Settled, At, Current
<1>2. ASSUME NEW t \in Txn, Start(t) \/ WriterStep(t),
             c # Current(t) \/ Start(t) \/ NextID(t)
      PROVE  Settled(c)' = Settled(c)
  <2>1. At(c, Unrecorded)' = At(c, Unrecorded)
    BY <1>0, <1>2, AtStays DEF Unrecorded, Holding
  <2>2. order'[c] = order[c]
    <3>1. ~(Lock(t) /\ c = Current(t))
      BY <1>2 DEF Start, NextID, Lock, Goto
    <3>2. QED
      BY <1>0, <1>2, <3>1, OrderGrows
  <2>3. QED
    BY <2>1, <2>2 DEF Settled
<1>3. ASSUME NEW t \in Txn, Lock(t), c = Current(t)
      PROVE  Settled(c)' = Settled(c)
  <2>1. At(c, Holding)' = {t} /\ pc'[t] = "read"
    BY <1>0, <1>3, AtOwn DEF Lock, Goto, TypeOK
  <2>2. t \in At(c, Unrecorded)'
    BY <2>1 DEF At, Unrecorded
  <2>3. ShardOf(c) \in Shard /\ holder[ShardOf(c)] = None
    BY <1>3, ShardType DEF Lock, Free
  <2>4. At(c, Unrecorded) = {}
    BY <1>0, <2>3, Vacant DEF At, Unrecorded, Holding
  <2>5. Len(order'[c]) = Len(order[c]) + 1 /\ Len(order[c]) \in Nat
    BY <1>0, <1>3, OrderAppended, HistoryType
  <2>6. QED
    BY <2>2, <2>4, <2>5 DEF Settled
<1>4. ASSUME NEW t \in Txn, c = Current(t),
             ReadCell(t) \/ WriteCell(t) \/ WriteIndex(t) \/ (LoadRecorder(t) /\ recorder # None)
      PROVE  Settled(c)' = Settled(c)
  <2>1. /\ pc[t] \in Unrecorded /\ pc'[t] \in Unrecorded /\ todo' = todo /\ order' = order
    BY <1>0, <1>4 DEF ReadCell, WriteCell, WriteIndex, LoadRecorder, Goto, TypeOK, Unrecorded
  <2>2. Current(t)' = Current(t)
    BY <2>1 DEF Current
  <2>3. t \in At(c, Unrecorded) /\ t \in At(c, Unrecorded)'
    BY <1>4, <2>1, <2>2 DEF At
  <2>4. QED
    BY <2>1, <2>3 DEF Settled
<1>5. ASSUME NEW t \in Txn, c = Current(t), Send(t) \/ Unlock(t)
      PROVE  Settled(c)' = Settled(c)
  <2>1. /\ pc[t] \in Holding \ Unrecorded /\ pc'[t] \notin Unrecorded /\ order' = order
    <3>1. CASE Send(t)
      BY <1>0, <3>1 DEF Send, Goto, TypeOK, Unrecorded, Holding, store
    <3>2. CASE Unlock(t)
      BY <1>0, <3>2 DEF Unlock, Goto, TypeOK, Unrecorded, Holding
    <3>3. QED
      BY <1>5, <3>1, <3>2
  <2>2. At(c, Holding) = {t}
    BY <1>0, <1>5, <2>1, AtAlone
  <2>3. \A u \in Txn \ {t} : u \in At(c, Unrecorded)' => u \in At(c, Unrecorded)
    BY <1>0, <1>5, OthersStay DEF At, WriterStep
  <2>4. At(c, Unrecorded) = {} /\ At(c, Unrecorded)' = {}
    BY <2>1, <2>2, <2>3 DEF At, Unrecorded, Holding
  <2>5. QED
    BY <2>1, <2>4 DEF Settled
<1>6. ASSUME NEW t \in Txn, WriterStep(t), c = Current(t), ~NextID(t)
      PROVE  Settled(c)' = Settled(c)
  <2>1. ~AppendRecord(t) /\ (LoadRecorder(t) => recorder # None)
    BY <1>6 DEF Passes
  <2>2. QED
    BY <1>3, <1>4, <1>5, <1>6, <2>1 DEF WriterStep
<1>7. QED
  BY <1>0, <1>1, <1>2, <1>6, StepCases

LEMMA SettledPasses ==
  ASSUME CommitInv, LatchInv', NEW c \in Chunk, NEW t \in Txn, Passes(t, c)
  PROVE  /\ Settled(c)' = Len(order[c]) /\ Settled(c) = Len(order[c]) - 1
         /\ Len(order[c]) \in Nat \ {0} /\ Inside(t, c, Len(order[c])) /\ order' = order
<1>0. TypeOK /\ LatchInv /\ Cell(c)
  BY DEF CommitInv
<1>1. /\ pc[t] \in {"record", "append"} /\ pc'[t] = "send" /\ order' = order /\ c = Current(t)
  BY <1>0 DEF Passes, AppendRecord, LoadRecorder, Goto, TypeOK
<1>2. At(c, Holding) = {t}
  BY <1>0, <1>1, AtAlone DEF Holding
<1>3. At(c, Holding)' = {t}
  BY <1>0, <1>1, AtOwn DEF Passes
<1>4. t \in At(c, Unrecorded)
  BY <1>1 DEF At, Unrecorded
<1>5. At(c, Unrecorded)' = {}
  BY <1>1, <1>3 DEF At, Unrecorded, Holding
<1>6. Inside(t, c, Len(order[c]))
  BY <1>0, <1>2 DEF Cell
<1>7. Len(order[c]) \in Nat \ {0}
  BY <1>0, <1>6, HistoryType DEF Inside
<1>8. QED
  BY <1>1, <1>4, <1>5, <1>6, <1>7 DEF Settled

LEMMA SettledGrows ==
  ASSUME CommitInv, LatchInv', [Next]_vars \/ Aside, NEW c \in Chunk
  PROVE  Settled(c)' \in Int /\ Settled(c) <= Settled(c)'
<1>1. CASE \A t \in Txn : ~Passes(t, c)
  BY <1>1, SettledStays, SettledType
<1>2. ASSUME NEW t \in Txn, Passes(t, c)
      PROVE  Settled(c)' \in Int /\ Settled(c) <= Settled(c)'
  BY <1>2, SettledPasses
<1>3. QED
  BY <1>1, <1>2

-----------------------------------------------------------------------------
(* What a snapshot has does not change when the history grows *)

LEMMA LatchOrderStep ==
  ASSUME TypeOK, TypeOK', [Next]_vars \/ Aside, NEW c \in Chunk, InLatchOrder(c)'
  PROVE  InLatchOrder(c)
<1> SUFFICES ASSUME NEW i \in DOMAIN order[c], NEW j \in DOMAIN order[c], i < j
             PROVE  order[c][i].id < order[c][j].id
  BY DEF InLatchOrder
<1>1. DOMAIN order[c] = 1 .. Len(order[c]) /\ Len(order[c]) \in Nat
  BY HistoryType
<1>2. DOMAIN order'[c] = 1 .. Len(order'[c])
  <2>1. order'[c] \in Seq(Entry)
    BY DEF TypeOK
  <2>2. QED
    BY <2>1, LenProperties
<1>3. Len(order'[c]) \in {Len(order[c]), Len(order[c]) + 1}
  BY OrderLonger
<1>4. i \in DOMAIN order'[c] /\ j \in DOMAIN order'[c]
  BY <1>1, <1>2, <1>3
<1>5. order'[c][i] = order[c][i] /\ order'[c][j] = order[c][j]
  BY <1>1, OrderKeeps
<1>6. QED
  BY <1>4, <1>5 DEF InLatchOrder

LEMMA RecordedStays ==
  ASSUME CommitInv, LatchInv', [Next]_vars \/ Aside, NEW k \in Snapper, NEW c \in Chunk,
         RecordedInv(k, c), NEW i \in DOMAIN LogOf(k), LogOf(k)[i].chunk = c
  PROVE  \E x \in 1 .. Settled(c)' :
           /\ LogOf(k)[i].id = order'[c][x].id
           /\ LogOf(k)[i].update = [op |-> "put", val |-> Serial(c, x)']
<1>0. TypeOK /\ OrderInv
  BY DEF CommitInv
<1>1. PICK x \in 1 .. Settled(c) :
        /\ LogOf(k)[i].id = order[c][x].id
        /\ LogOf(k)[i].update = [op |-> "put", val |-> Serial(c, x)]
  BY DEF RecordedInv
<1>2. /\ Len(order[c]) \in Nat /\ Settled(c) \in 0 .. Len(order[c])
      /\ Settled(c)' \in Int /\ Settled(c) <= Settled(c)'
  BY SettledType, SettledGrows
<1>3. x \in 1 .. Settled(c)' /\ x \in 1 .. Len(order[c]) /\ x \in 0 .. Len(order[c])
  BY <1>2
<1>4. order'[c][x] = order[c][x] /\ Serial(c, x)' = Serial(c, x)
  BY <1>0, <1>3, OrderKeeps, SerialKeeps
<1>5. QED
  BY <1>1, <1>3, <1>4

LEMMA DueType ==
  ASSUME CommitInv, SnapType, NEW k \in Snapper, PhaseInv(k), NEW c \in Chunk
  PROVE  Due(k, c) \in Int /\ Due(k, c) <= Len(order[c])
BY SettledType DEF Due, SnapType, PhaseInv

LEMMA WrittenStays ==
  ASSUME CommitInv, SnapType, [Next]_vars \/ Aside, NEW k \in Snapper, PhaseInv(k),
         NEW c \in Chunk, WrittenInv(k, c), Written(k, c)
  PROVE  \E p \in 0 .. Len(order'[c]) :
           /\ state[k][c] = [last |-> IdAt(c, p)', val |-> Serial(c, p)']
           /\ \A x \in p + 1 .. Due(k, c) :
                \E i \in DOMAIN LogOf(k) : LogOf(k)[i].chunk = c /\ LogOf(k)[i].id = order'[c][x].id
<1>0. TypeOK /\ OrderInv
  BY DEF CommitInv
<1>1. PICK p \in 0 .. Len(order[c]) :
        /\ state[k][c] = [last |-> IdAt(c, p), val |-> Serial(c, p)]
        /\ \A x \in p + 1 .. Due(k, c) :
             \E i \in DOMAIN LogOf(k) : LogOf(k)[i].chunk = c /\ LogOf(k)[i].id = order[c][x].id
  BY DEF WrittenInv
<1>2. /\ Len(order[c]) \in Nat /\ Len(order'[c]) \in {Len(order[c]), Len(order[c]) + 1}
      /\ Due(k, c) \in Int /\ Due(k, c) <= Len(order[c])
  BY <1>0, OrderLonger, DueType
<1>3. p \in 0 .. Len(order'[c]) /\ \A x \in p + 1 .. Due(k, c) : x \in 1 .. Len(order[c])
  BY <1>2
<1>4. Serial(c, p)' = Serial(c, p)
  BY <1>0, SerialKeeps
<1>5. \A x \in 1 .. Len(order[c]) : order'[c][x] = order[c][x]
  BY <1>0, OrderKeeps
<1>6. IdAt(c, p)' = IdAt(c, p)
  <2>1. p = 0 \/ p \in 1 .. Len(order[c])
    BY <1>2
  <2>2. QED
    BY <1>5, <2>1 DEF IdAt
<1>7. state[k][c] = [last |-> IdAt(c, p)', val |-> Serial(c, p)']
  BY <1>1, <1>4, <1>6
<1>8. ASSUME NEW x \in p + 1 .. Due(k, c)
      PROVE  \E i \in DOMAIN LogOf(k) : LogOf(k)[i].chunk = c /\ LogOf(k)[i].id = order'[c][x].id
  <2>1. order'[c][x] = order[c][x]
    BY <1>3, <1>5
  <2>2. QED
    BY <1>1, <2>1
<1>9. QED
  BY <1>3, <1>7, <1>8

\* A step that leaves the log of a snapshot alone.
LEMMA LogStays ==
  ASSUME CommitInv, CommitInv', [Next]_vars \/ Aside, NEW k \in Snapper, NEW c \in Chunk,
         RecordedInv(k, c), SortedInv(k, c), LogOf(k)' = LogOf(k)
  PROVE  RecordedInv(k, c)' /\ SortedInv(k, c)'
<1>0. TypeOK /\ TypeOK' /\ LatchInv'
  BY DEF CommitInv
<1>1. RecordedInv(k, c)'
  <2>1. ASSUME NEW i \in DOMAIN LogOf(k), LogOf(k)[i].chunk = c
        PROVE  \E x \in 1 .. Settled(c)' :
                 /\ LogOf(k)[i].id = order'[c][x].id
                 /\ LogOf(k)[i].update = [op |-> "put", val |-> Serial(c, x)']
    BY <1>0, <2>1, RecordedStays
  <2>2. QED
    BY <2>1 DEF RecordedInv
<1>2. SortedInv(k, c)'
  BY <1>0, LatchOrderStep DEF SortedInv
<1>3. QED
  BY <1>1, <1>2

\* A step that leaves the log of a snapshot and the state of a chunk alone, and makes no
\* more commits due, keeps what is said of them.
LEMMA SnapStays ==
  ASSUME CommitInv, CommitInv', SnapType, [Next]_vars \/ Aside, NEW k \in Snapper, PhaseInv(k),
         NEW c \in Chunk, RecordedInv(k, c), SortedInv(k, c), WrittenInv(k, c),
         LogOf(k)' = LogOf(k), state'[k][c] = state[k][c],
         Written(k, c)' => Written(k, c) /\ Due(k, c)' \in Int /\ Due(k, c)' <= Due(k, c)
  PROVE  RecordedInv(k, c)' /\ SortedInv(k, c)' /\ WrittenInv(k, c)'
<1>1. RecordedInv(k, c)' /\ SortedInv(k, c)'
  BY LogStays
<1>2. WrittenInv(k, c)'
  <2>1. SUFFICES ASSUME Written(k, c)' PROVE WrittenInv(k, c)'
    BY DEF WrittenInv
  <2>2. PICK p \in 0 .. Len(order'[c]) :
          /\ state[k][c] = [last |-> IdAt(c, p)', val |-> Serial(c, p)']
          /\ \A x \in p + 1 .. Due(k, c) :
               \E i \in DOMAIN LogOf(k) : LogOf(k)[i].chunk = c /\ LogOf(k)[i].id = order'[c][x].id
    BY <2>1, WrittenStays
  <2>3. p \in Int /\ Due(k, c) \in Int /\ Due(k, c)' \in Int /\ Due(k, c)' <= Due(k, c)
    BY <2>1, DueType
  <2>4. \A x \in p + 1 .. Due(k, c)' : x \in p + 1 .. Due(k, c)
    BY <2>3
  <2>5. QED
    BY <2>2, <2>4 DEF WrittenInv
<1>3. QED
  BY <1>1, <1>2

-----------------------------------------------------------------------------
(* Commits beside a snapshot *)

\* A commit appends to the log of a snapshot that has not been copied yet.
Records(k, t) == AppendRecord(t) /\ sink[t] = k /\ spc[k] # "done"

LEMMA OnePasses ==
  ASSUME TypeOK, NEW t \in Txn, AppendRecord(t), NEW u \in Txn, NEW c \in Chunk, Passes(u, c)
  PROVE  u = t
<1>1. pc[u] \in {"record", "append"} /\ pc'[u] = "send"
  BY DEF Passes, AppendRecord, LoadRecorder, Goto, TypeOK
<1>2. u # t => pc'[u] = pc[u]
  BY OthersStay DEF WriterStep
<1>3. QED
  BY <1>1, <1>2

LEMMA RecordAppended ==
  ASSUME TypeOK, \A t \in Txn : Progress(t), NEW k \in Snapper, NEW t \in Txn, Records(k, t),
         UNCHANGED snapvars, NEW L, L = LogOf(k), NEW M, M = LogOf(k)'
  PROVE  /\ Len(L) \in Nat /\ DOMAIN L = 1 .. Len(L) /\ DOMAIN M = 1 .. Len(L) + 1
         /\ \A i \in DOMAIN L : M[i] = L[i]
         /\ M[Len(L) + 1].chunk = Current(t) /\ Current(t) \in Chunk
         /\ M[Len(L) + 1].id = id[t] /\ M[Len(L) + 1].update = buffer[t][Current(t)]
<1> DEFINE c == Current(t)
           record == [chunk |-> c, id |-> id[t], update |-> buffer[t][c]]
<1>1. c \in Chunk
  <2>1. todo[t] # {}
    BY DEF Records, AppendRecord, Goto, Progress, Working, Phases
  <2>2. QED
    BY <2>1, CurrentProperty DEF TypeOK
<1>2. L = recorded[k] /\ M = recorded'[k]
  BY DEF Records, LogOf, snapvars
<1>3. M = Append(L, record)
  BY <1>2 DEF Records, AppendRecord, TypeOK
<1>4. L \in Seq(Record) /\ record \in Record
  <2>1. id[t] \in Nat /\ buffer[t][c] \in Update
    BY <1>1 DEF TypeOK
  <2>2. record \in Record
    BY <1>1, <2>1 DEF Record
  <2>3. QED
    BY <1>2, <2>2 DEF TypeOK
<1>5. record.chunk = c /\ record.id = id[t] /\ record.update = buffer[t][c]
  OBVIOUS
<1> HIDE DEF record
<1>6. /\ Len(M) = Len(L) + 1 /\ M[Len(L) + 1] = record
      /\ \A i \in 1 .. Len(L) : M[i] = L[i]
  BY <1>3, <1>4, AppendProperties
<1>7. M \in Seq(Record)
  BY <1>3, <1>4, AppendProperties
<1>8. /\ Len(L) \in Nat /\ DOMAIN L = 1 .. Len(L) /\ DOMAIN M = 1 .. Len(M)
  BY <1>4, <1>7, LenProperties
<1>9. QED
  BY <1>1, <1>5, <1>6, <1>8

\* The record of the last commit of a chunk is what the cell is after it.
LEMMA RecordIsCell ==
  ASSUME CommitInv, CommitInv', NEW t \in Txn, AppendRecord(t), NEW c \in Chunk, c = Current(t),
         NEW n, n = Len(order[c])
  PROVE  /\ n \in Nat \ {0} /\ Settled(c) = n - 1 /\ Settled(c)' = n /\ order' = order
         /\ id[t] = order[c][n].id
         /\ buffer[t][c] = [op |-> "put", val |-> Serial(c, n)]
         /\ Serial(c, n)' = Serial(c, n)
<1>0. TypeOK /\ OrderInv /\ LatchInv' /\ [Next]_vars
  BY DEF CommitInv, Next, ClientStep, WriterStep
<1>1. Passes(t, c) /\ pc[t] = "append"
  BY DEF Passes, AppendRecord, Goto
<1>2. /\ Settled(c)' = n /\ Settled(c) = n - 1 /\ n \in Nat \ {0} /\ Inside(t, c, n)
      /\ order' = order
  BY <1>0, <1>1, SettledPasses
<1>3. n \in 0 .. Len(order[c])
  BY <1>2
<1>4. Serial(c, n)' = Serial(c, n)
  BY <1>0, <1>3, SerialKeeps
<1>5. QED
  BY <1>1, <1>2, <1>4 DEF Inside, Rewritten

LEMMA SnapRecords ==
  ASSUME CommitInv, CommitInv', SnapType, NEW k \in Snapper, PhaseInv(k),
         NEW c \in Chunk, RecordedInv(k, c), SortedInv(k, c), WrittenInv(k, c),
         NEW t \in Txn, Records(k, t), UNCHANGED snapvars
  PROVE  RecordedInv(k, c)' /\ SortedInv(k, c)' /\ WrittenInv(k, c)'
<1> SUFFICES ASSUME NEW L, L = LogOf(k), NEW M, M = LogOf(k)', NEW n, n = Len(order[c]),
                    NEW m, m = Len(L) + 1
             PROVE  RecordedInv(k, c)' /\ SortedInv(k, c)' /\ WrittenInv(k, c)'
  OBVIOUS
<1>0. /\ TypeOK /\ TypeOK' /\ LatchInv' /\ [Next]_vars /\ \A u \in Txn : Progress(u)
      /\ AppendRecord(t) /\ UNCHANGED <<spc, counted, next, state, file, closed>>
  BY DEF CommitInv, Records, Next, ClientStep, WriterStep, snapvars
<1>1. /\ m \in Nat /\ DOMAIN L = 1 .. m - 1 /\ DOMAIN M = 1 .. m
      /\ \A i \in DOMAIN L : M[i] = L[i]
      /\ M[m].chunk = Current(t) /\ M[m].id = id[t] /\ M[m].update = buffer[t][Current(t)]
  BY <1>0, RecordAppended
<1>2. ASSUME c = Current(t)
      PROVE  /\ n \in Nat \ {0} /\ Settled(c) = n - 1 /\ Settled(c)' = n /\ order' = order
             /\ M[m].id = order[c][n].id
             /\ M[m].update = [op |-> "put", val |-> Serial(c, n)']
  <2>1. /\ n \in Nat \ {0} /\ Settled(c) = n - 1 /\ Settled(c)' = n /\ order' = order
        /\ id[t] = order[c][n].id
        /\ buffer[t][c] = [op |-> "put", val |-> Serial(c, n)]
        /\ Serial(c, n)' = Serial(c, n)
    BY <1>0, <1>2, RecordIsCell
  <2>2. M[m].id = order[c][n].id
    BY <1>1, <2>1
  <2>3. M[m].update = [op |-> "put", val |-> Serial(c, n)']
    BY <1>1, <1>2, <2>1
  <2>4. QED
    BY <2>1, <2>2, <2>3
<1>3. \A i \in DOMAIN M : i \in DOMAIN L \/ i = m
  BY <1>1
<1>4. RecordedInv(k, c)'
  <2>1. ASSUME NEW i \in DOMAIN M, M[i].chunk = c
        PROVE  \E x \in 1 .. Settled(c)' :
                 /\ M[i].id = order'[c][x].id
                 /\ M[i].update = [op |-> "put", val |-> Serial(c, x)']
    <3>1. CASE i \in DOMAIN L
      <4>1. M[i] = L[i]
        BY <1>1, <3>1
      <4>2. \E x \in 1 .. Settled(c)' :
              /\ L[i].id = order'[c][x].id
              /\ L[i].update = [op |-> "put", val |-> Serial(c, x)']
        BY <1>0, <2>1, <3>1, <4>1, RecordedStays
      <4>3. QED
        BY <4>1, <4>2
    <3>2. CASE i = m
      <4>1. c = Current(t)
        BY <1>1, <2>1, <3>2
      <4>2. /\ n \in 1 .. Settled(c)' /\ M[i].id = order'[c][n].id
            /\ M[i].update = [op |-> "put", val |-> Serial(c, n)']
        BY <1>2, <3>2, <4>1
      <4>3. QED
        BY <4>2
    <3>3. QED
      BY <1>3, <3>1, <3>2
  <2>2. QED
    BY <2>1 DEF RecordedInv
<1>5. SortedInv(k, c)'
  <2>1. SUFFICES ASSUME InLatchOrder(c)', NEW i \in DOMAIN M, NEW j \in DOMAIN M,
                        i < j, M[i].chunk = c, M[j].chunk = c
                 PROVE  M[i].id < M[j].id
    BY DEF SortedInv
  <2>2. i \in DOMAIN L
    BY <1>1, <2>1
  <2>3. InLatchOrder(c)
    BY <1>0, <2>1, LatchOrderStep
  <2>4. CASE j \in DOMAIN L
    BY <1>1, <2>1, <2>2, <2>3, <2>4 DEF SortedInv
  <2>5. CASE j = m
    <3>1. c = Current(t)
      BY <1>1, <2>1, <2>5
    <3>2. PICK x \in 1 .. n - 1 : M[i].id = order[c][x].id
      <4>1. M[i] = L[i] /\ L[i].chunk = c
        BY <1>1, <2>1, <2>2
      <4>2. \E x \in 1 .. Settled(c) : L[i].id = order[c][x].id
        BY <2>2, <4>1 DEF RecordedInv
      <4>3. QED
        BY <1>2, <3>1, <4>1, <4>2
    <3>3. x \in DOMAIN order[c] /\ n \in DOMAIN order[c] /\ x < n
      BY <1>0, <1>2, <3>1, HistoryType
    <3>4. order[c][x].id < order[c][n].id
      BY <2>3, <3>3 DEF InLatchOrder
    <3>5. QED
      BY <1>2, <2>5, <3>1, <3>2, <3>4
  <2>6. QED
    BY <1>3, <2>4, <2>5
<1>6. WrittenInv(k, c)'
  <2>1. SUFFICES ASSUME Written(k, c) PROVE WrittenInv(k, c)'
    BY <1>0 DEF WrittenInv, Written
  <2>2. PICK p \in 0 .. Len(order'[c]) :
          /\ state[k][c] = [last |-> IdAt(c, p)', val |-> Serial(c, p)']
          /\ \A x \in p + 1 .. Due(k, c) :
               \E i \in DOMAIN L : L[i].chunk = c /\ L[i].id = order'[c][x].id
    BY <1>0, <2>1, WrittenStays
  <2>3. p \in Int /\ Due(k, c) \in Int
    BY DueType
  <2>4. Due(k, c)' = Due(k, c) \/ (c = Current(t) /\ Due(k, c)' = n /\ Due(k, c) = n - 1)
    <3>1. CASE c = Current(t)
      BY <1>0, <1>2, <3>1 DEF Due
    <3>2. CASE c # Current(t)
      <4>1. \A u \in Txn : ~Passes(u, c)
        BY <1>0, <3>2, OnePasses DEF Passes
      <4>2. Settled(c)' = Settled(c)
        BY <1>0, <4>1, SettledStays
      <4>3. QED
        BY <1>0, <4>2 DEF Due
    <3>3. QED
      BY <3>1, <3>2
  <2>5. ASSUME NEW x \in p + 1 .. Due(k, c)'
        PROVE  \E i \in DOMAIN M : M[i].chunk = c /\ M[i].id = order'[c][x].id
    <3>1. CASE x \in p + 1 .. Due(k, c)
      <4>1. PICK i \in DOMAIN L : L[i].chunk = c /\ L[i].id = order'[c][x].id
        BY <2>2, <3>1
      <4>2. i \in DOMAIN M /\ M[i] = L[i]
        BY <1>1
      <4>3. QED
        BY <4>1, <4>2
    <3>2. CASE x \notin p + 1 .. Due(k, c)
      <4>1. c = Current(t) /\ Due(k, c)' = n /\ Due(k, c) = n - 1
        BY <2>4, <2>5, <3>2
      <4>2. x = n
        BY <1>2, <2>3, <2>5, <3>2, <4>1
      <4>3. m \in DOMAIN M /\ M[m].chunk = c /\ M[m].id = order'[c][x].id
        BY <1>1, <1>2, <4>1, <4>2
      <4>4. QED
        BY <4>3
    <3>3. QED
      BY <3>1, <3>2
  <2>6. QED
    BY <1>0, <2>2, <2>5 DEF WrittenInv
<1>7. QED
  BY <1>4, <1>5, <1>6

LEMMA SnapCommits ==
  ASSUME CommitInv, CommitInv', SnapType, NEW k \in Snapper, PhaseInv(k),
         NEW c \in Chunk, RecordedInv(k, c), SortedInv(k, c), WrittenInv(k, c),
         [Next]_vars, UNCHANGED snapvars
  PROVE  RecordedInv(k, c)' /\ SortedInv(k, c)' /\ WrittenInv(k, c)'
<1>1. ASSUME NEW t \in Txn, Records(k, t)
      PROVE  RecordedInv(k, c)' /\ SortedInv(k, c)' /\ WrittenInv(k, c)'
  BY <1>1, SnapRecords
<1>2. ASSUME \A t \in Txn : ~Records(k, t)
      PROVE  RecordedInv(k, c)' /\ SortedInv(k, c)' /\ WrittenInv(k, c)'
  <2>0. /\ TypeOK /\ LatchInv' /\ \A t \in Txn : Progress(t)
        /\ UNCHANGED <<spc, counted, next, state, file, closed>>
    BY DEF CommitInv, snapvars
  <2>1. LogOf(k)' = LogOf(k)
    <3>1. recorded' = recorded \/ \E t \in Txn : AppendRecord(t)
      BY DEF Next, ClientStep, WriterStep, Start, NextID, Lock, ReadCell, WriteCell, WriteIndex,
             LoadRecorder, Send, Unlock, RLock, RUnlock, Receive, vars, log
    <3>2. ASSUME NEW t \in Txn, AppendRecord(t), sink[t] # k PROVE recorded'[k] = recorded[k]
      BY <2>0, <3>2 DEF AppendRecord, TypeOK
    <3>3. recorded'[k] = recorded[k] \/ spc[k] = "done"
      BY <1>2, <3>1, <3>2 DEF Records
    <3>4. QED
      BY <2>0, <3>3 DEF LogOf
  <2>2. ASSUME spc[k] \in Busy, Written(k, c), NEW t \in Txn PROVE ~Passes(t, c)
    <3>1. recorder = k /\ recorder # None
      BY <2>2 DEF PhaseInv
    <3>2. ASSUME AppendRecord(t), c = Current(t) PROVE FALSE
      <4>1. t \in At(c, {"append"})
        BY <3>2 DEF AppendRecord, Goto, At
      <4>2. sink[t] = k
        BY <2>2, <4>1 DEF PhaseInv
      <4>3. QED
        BY <1>2, <2>2, <3>2, <4>2 DEF Records, Busy
    <3>3. QED
      BY <3>1, <3>2 DEF Passes
  <2>3. ASSUME Written(k, c)' PROVE Written(k, c) /\ Due(k, c)' = Due(k, c)
    <3>1. Written(k, c)
      BY <2>0, <2>3 DEF Written
    <3>2. spc[k] \in Busy => Settled(c)' = Settled(c)
      BY <2>0, <2>2, <3>1, SettledStays
    <3>3. QED
      BY <2>0, <3>1, <3>2 DEF Due
  <2>4. Due(k, c) \in Int
    BY DueType
  <2>5. QED
    BY <2>0, <2>1, <2>3, <2>4, SnapStays
<1>3. QED
  BY <1>1, <1>2

-----------------------------------------------------------------------------
(* Steps of snapshots *)

LEMMA SettledAside ==
  ASSUME Aside, NEW c \in Chunk
  PROVE  /\ order' = order /\ recorded' = recorded /\ Settled(c)' = Settled(c)
         /\ \A n : Serial(c, n)' = Serial(c, n) /\ IdAt(c, n)' = IdAt(c, n)
<1>1. UNCHANGED <<order, recorded, pc, todo, program>>
  BY DEF Aside, local
<1>2. Settled(c)' = Settled(c)
  BY <1>1 DEF Settled, At, Current
<1>3. \A n : Serial(c, n)' = Serial(c, n) /\ IdAt(c, n)' = IdAt(c, n)
  BY <1>1 DEF Serial, IdAt
<1>4. QED
  BY <1>1, <1>2, <1>3

LEMMA SnapOthers ==
  ASSUME CommitInv, CommitInv', SnapType, NEW k \in Snapper, PhaseInv(k),
         NEW c \in Chunk, RecordedInv(k, c), SortedInv(k, c), WrittenInv(k, c),
         NEW j \in Snapper, j # k, PhaseInv(j), SnapStep(j)
  PROVE  RecordedInv(k, c)' /\ SortedInv(k, c)' /\ WrittenInv(k, c)'
<1>0. TypeOK /\ Aside
  BY SnapAside DEF CommitInv
<1>1. /\ spc'[k] = spc[k] /\ next'[k] = next[k] /\ state'[k] = state[k]
      /\ file'[k] = file[k] /\ closed'[k] = closed[k] /\ counted'[k] = counted[k]
  BY <1>0, OthersLeave
<1>2. recorded' = recorded /\ Settled(c)' = Settled(c)
  BY <1>0, SettledAside
<1>3. LogOf(k)' = LogOf(k) /\ Due(k, c)' = Due(k, c) /\ (Written(k, c)' <=> Written(k, c))
  BY <1>1, <1>2 DEF LogOf, Due, Written
<1>4. Due(k, c) \in Int
  BY DueType
<1>5. QED
  BY <1>0, <1>1, <1>3, <1>4, SnapStays

\* The chunk that a snapshot writes: all its commits are in the state.
LEMMA ChunkWritten ==
  ASSUME CommitInv, SnapType, NEW k \in Snapper, PhaseInv(k), NEW c \in Chunk, c = next[k],
         WriteChunk(k)
  PROVE  WrittenInv(k, c)'
<1> SUFFICES ASSUME NEW n, n = Len(order[c]) PROVE WrittenInv(k, c)'
  OBVIOUS
<1>0. TypeOK /\ LatchInv /\ Aside /\ Cell(c)
  BY SnapAside DEF CommitInv, SnapStep
<1>1. /\ spc[k] = "inside" /\ spc'[k] \in {"close", "chunk"}
      /\ state'[k][c] = [last |-> commits[c], val |-> value[c]]
  BY DEF WriteChunk, SGoto, SnapType
<1>2. At(c, Holding) = {}
  BY <1>0, <1>1, ChunkIsVacant
<1>3. value[c] = Serial(c, n) /\ commits[c] = IdAt(c, n)
  BY <1>0, <1>2 DEF Cell, IdAt
<1>4. Settled(c) = n /\ n \in Nat
  BY <1>0, <1>2, HistoryType DEF Settled, At, Unrecorded, Holding
<1>5. order' = order /\ Settled(c)' = n /\ Serial(c, n)' = Serial(c, n) /\ IdAt(c, n)' = IdAt(c, n)
  BY <1>0, <1>4, SettledAside
<1>6. Due(k, c)' = n
  BY <1>1, <1>5 DEF Due, Busy
<1>7. state'[k][c] = [last |-> IdAt(c, n)', val |-> Serial(c, n)'] /\ n \in 0 .. Len(order'[c])
  BY <1>1, <1>3, <1>4, <1>5
<1>8. \A x \in n + 1 .. Due(k, c)' : FALSE
  BY <1>4, <1>6
<1>9. QED
  BY <1>7, <1>8 DEF WrittenInv

\* A chunk that has no row when the chunks are counted: the state goes without it.
LEMMA ChunkSkipped ==
  ASSUME CommitInv, SnapType, FillInv, NEW k \in Snapper, PhaseInv(k), NEW c \in Chunk, filled <= c,
         Count(k)
  PROVE  WrittenInv(k, c)'
<1>0. Aside
  BY SnapAside DEF CommitInv, SnapStep
<1>1. /\ spc[k] = "count" /\ spc'[k] \in {"close", "chunk"} /\ state'[k][c] = NoCopy
  BY DEF Count, SGoto, SnapType, PhaseInv
<1>2. order[c] = << >> /\ Serial(c, 0) = << >> /\ At(c, Unrecorded \cap Working) = {}
  BY NothingBehind
<1>3. Unrecorded \cap Working = Unrecorded
  BY DEF Unrecorded, Working, Phases
<1>4. Settled(c) = 0 /\ Len(order[c]) = 0
  BY <1>2, <1>3, EmptySeq DEF Settled
<1>5. /\ order' = order /\ Settled(c)' = 0 /\ Serial(c, 0)' = << >> /\ IdAt(c, 0)' = 0
  BY <1>0, <1>2, <1>4, SettledAside DEF IdAt
<1>6. Due(k, c)' = 0
  BY <1>1, <1>5 DEF Due, Busy
<1>7. state'[k][c] = [last |-> IdAt(c, 0)', val |-> Serial(c, 0)'] /\ 0 \in 0 .. Len(order'[c])
  BY <1>1, <1>4, <1>5 DEF NoCopy
<1>8. \A x \in 0 + 1 .. Due(k, c)' : FALSE
  BY <1>6
<1>9. QED
  BY <1>7, <1>8 DEF WrittenInv

LEMMA SnapOwn ==
  ASSUME CommitInv, CommitInv', SnapType, FillInv, NEW k \in Snapper, PhaseInv(k),
         NEW c \in Chunk, RecordedInv(k, c), SortedInv(k, c), WrittenInv(k, c), SnapStep(k)
  PROVE  RecordedInv(k, c)' /\ SortedInv(k, c)' /\ WrittenInv(k, c)'
<1>0. TypeOK /\ Aside
  BY SnapAside DEF CommitInv
<1>1. recorded' = recorded /\ Settled(c)' = Settled(c)
  BY <1>0, SettledAside
<1>2. /\ Due(k, c) \in Int /\ Settled(c) \in Int
      /\ Completed(c) \in Int /\ Completed(c) <= Settled(c)
  BY DueType, SettledType, CompletedProperty DEF CommitInv
<1>3. CASE Open(k) \/ Panics(k) \/ WriteFails(k)
  <2>1. /\ spc[k] # "done" /\ spc'[k] \in {"count", "refused", "panicked", "failed"}
        /\ state' = state
    BY <1>3 DEF Open, Panics, WriteFails, SGoto, SnapType
  <2>2. LogOf(k)' = LogOf(k) /\ ~Written(k, c)'
    BY <1>1, <2>1 DEF LogOf, Written
  <2>3. QED
    BY <1>0, <2>1, <2>2, SnapStays
<1>4. CASE EnterChunk(k)
  <2>1. /\ spc[k] = "chunk" /\ spc'[k] = "inside" /\ UNCHANGED <<counted, next, state, file, closed>>
    BY <1>4 DEF EnterChunk, SGoto, SnapType
  <2>2. LogOf(k)' = LogOf(k) /\ Due(k, c)' = Due(k, c) /\ (Written(k, c)' <=> Written(k, c))
    BY <1>1, <2>1 DEF LogOf, Due, Busy, Written
  <2>3. QED
    BY <1>0, <1>2, <2>1, <2>2, SnapStays
<1>5. CASE Count(k)
  <2>1. /\ spc[k] = "count" /\ spc'[k] = IF filled = 0 THEN "close" ELSE "chunk"
        /\ counted'[k] = filled /\ next'[k] = 0 /\ state' = state /\ filled \in 0 .. Chunks
    BY <1>5 DEF Count, SGoto, SnapType, PhaseInv
  <2>2. LogOf(k)' = LogOf(k)
    BY <1>1, <2>1 DEF LogOf
  <2>3. CASE filled <= c
    BY <1>0, <1>5, <2>2, <2>3, LogStays, ChunkSkipped
  <2>4. CASE ~(filled <= c)
    <3>1. ~Written(k, c)'
      BY <2>1, <2>4 DEF Written, Chunk
    <3>2. QED
      BY <1>0, <2>1, <2>2, <3>1, SnapStays
  <2>5. QED
    BY <2>3, <2>4
<1>6. CASE Close(k)
  <2>1. /\ spc[k] = "close" /\ spc'[k] = "copy" /\ UNCHANGED <<state, file>>
        /\ closed'[k][c] = Completed(c)
    BY <1>6 DEF Close, SGoto, SnapType
  <2>2. LogOf(k)' = LogOf(k) /\ Written(k, c)
    BY <1>1, <2>1 DEF LogOf, Written
  <2>3. Due(k, c) = Settled(c) /\ Due(k, c)' = Completed(c)
    BY <2>1 DEF Due, Busy
  <2>4. QED
    BY <1>0, <1>2, <2>1, <2>2, <2>3, SnapStays
<1>7. CASE Copy(k)
  <2>1. /\ spc[k] = "copy" /\ spc'[k] = "done" /\ UNCHANGED <<state, closed>>
        /\ file'[k] = recorded[k]
    BY <1>7 DEF Copy, SGoto, SnapType
  <2>2. LogOf(k)' = LogOf(k) /\ Due(k, c)' = Due(k, c) /\ Written(k, c)
    BY <2>1 DEF LogOf, Due, Busy, Written
  <2>3. QED
    BY <1>0, <1>2, <2>1, <2>2, SnapStays
<1>8. CASE WriteChunk(k)
  <2> SUFFICES ASSUME NEW m, m = next[k]
               PROVE  RecordedInv(k, c)' /\ SortedInv(k, c)' /\ WrittenInv(k, c)'
    OBVIOUS
  <2>1. /\ spc[k] = "inside" /\ spc'[k] = IF m = counted[k] - 1 THEN "close" ELSE "chunk"
        /\ next'[k] = m + 1 /\ file' = file /\ closed' = closed /\ counted' = counted
        /\ c # m => state'[k][c] = state[k][c]
    BY <1>8 DEF WriteChunk, SGoto, SnapType
  <2>2. m \in Chunk /\ m < counted[k] /\ counted[k] \in 0 .. Chunks
    BY <2>1 DEF PhaseInv, SnapType
  <2>3. LogOf(k)' = LogOf(k) /\ Due(k, c)' = Due(k, c)
    BY <1>1, <2>1 DEF LogOf, Due, Busy
  <2>4. CASE c # m
    <3>1. Written(k, c)' => Written(k, c)
      BY <2>1, <2>2, <2>4 DEF Written, Chunk
    <3>2. state'[k][c] = state[k][c]
      BY <2>1, <2>4
    <3>3. QED
      BY <1>0, <1>2, <2>3, <3>1, <3>2, SnapStays
  <2>5. CASE c = m
    <3>1. WrittenInv(k, c)'
      BY <1>8, <2>5, ChunkWritten
    <3>2. QED
      BY <1>0, <2>3, <3>1, LogStays
  <2>6. QED
    BY <2>4, <2>5
<1>9. QED
  BY <1>3, <1>4, <1>5, <1>6, <1>7, <1>8 DEF SnapStep

-----------------------------------------------------------------------------
(* The invariant, and what follows from it *)

LEMMA SnapInvInit == SInit => SnapInv
<1> SUFFICES ASSUME SInit PROVE SnapInv
  OBVIOUS
<1>1. CommitInv /\ SnapType /\ \A k \in Snapper : PhaseInv(k)
  BY CommitInvInit, SnapTypeInit, PhaseInit DEF SInit
<1>2. IdInv
  <2>1. \A c \in Chunk : order[c] = << >>
    BY DEF SInit, Init
  <2>2. \A c \in Chunk : Len(order[c]) = 0
    BY <2>1, EmptySeq
  <2>3. QED
    BY <2>2 DEF SInit, Init, IdInv
<1>3. ASSUME NEW k \in Snapper, NEW c \in Chunk
      PROVE  RecordedInv(k, c) /\ SortedInv(k, c) /\ WrittenInv(k, c)
  <2>1. LogOf(k) = << >> /\ spc[k] = "idle"
    BY DEF SInit, Init, LogOf
  <2>2. DOMAIN LogOf(k) = {}
    BY <2>1
  <2>3. ~Written(k, c)
    BY <2>1 DEF Written
  <2>4. QED
    BY <2>2, <2>3 DEF RecordedInv, SortedInv, WrittenInv
<1>4. FillInv
  <2>1. /\ \A t \in Txn : Dirty(program[t]) = {}
        /\ \A c \in Chunk : DOMAIN order[c] = {}
    BY DEF SInit, Init, Dirty
  <2>2. QED
    BY <2>1 DEF FillInv
<1>5. QED
  BY <1>1, <1>2, <1>3, <1>4 DEF SnapInv

LEMMA SnapInvStep == SnapInv /\ [SNext]_allvars => SnapInv'
<1> SUFFICES ASSUME SnapInv, [SNext]_allvars PROVE SnapInv'
  OBVIOUS
<1>0. /\ CommitInv /\ TypeOK /\ LatchInv /\ SnapType /\ FillInv /\ IdInv
      /\ \A k \in Snapper : PhaseInv(k)
      /\ \A k \in Snapper, c \in Chunk : RecordedInv(k, c) /\ SortedInv(k, c) /\ WrittenInv(k, c)
  BY DEF SnapInv, CommitInv
<1>1. /\ [Next]_vars \/ Aside
      /\ \/ [Next]_vars /\ UNCHANGED snapvars
         \/ \E k \in Snapper : SnapStep(k)
  BY <1>0, SnapCases
<1>2. CommitInv' /\ IdInv'
  BY <1>0, <1>1, CommitInvStep, IdStep
<1>3. SnapType' /\ FillInv' /\ \A k \in Snapper : PhaseInv(k)'
  BY <1>0, SnapTypeStep, FillStep, PhaseStepAll
<1>4. ASSUME NEW k \in Snapper, NEW c \in Chunk
      PROVE  RecordedInv(k, c)' /\ SortedInv(k, c)' /\ WrittenInv(k, c)'
  <2>1. PhaseInv(k) /\ RecordedInv(k, c) /\ SortedInv(k, c) /\ WrittenInv(k, c)
    BY <1>0
  <2>2. CASE [Next]_vars /\ UNCHANGED snapvars
    BY <1>0, <1>2, <2>1, <2>2, SnapCommits
  <2>3. CASE SnapStep(k)
    BY <1>0, <1>2, <2>1, <2>3, SnapOwn
  <2>4. ASSUME NEW j \in Snapper, j # k, SnapStep(j)
        PROVE  RecordedInv(k, c)' /\ SortedInv(k, c)' /\ WrittenInv(k, c)'
    BY <1>0, <1>2, <2>1, <2>4, SnapOthers
  <2>5. QED
    BY <1>1, <2>2, <2>3, <2>4
<1>5. QED
  BY <1>2, <1>3, <1>4 DEF SnapInv

\* The record that restoring a chunk takes, if there is one.
LEMMA RestoredProperty ==
  ASSUME NEW k \in Snapper, NEW c \in Chunk, file[k] \in Seq(Record),
         NEW last, last = state[k][c].last
  PROVE  \/ /\ Restored(k, c) = state[k][c].val
            /\ \A i \in DOMAIN file[k] : file[k][i].chunk = c => ~(file[k][i].id > last)
         \/ \E g \in DOMAIN file[k] :
              /\ Restored(k, c) = file[k][g].update.val
              /\ file[k][g].chunk = c /\ file[k][g].id > last
              /\ \A i \in DOMAIN file[k] : file[k][i].chunk = c /\ file[k][i].id > last => i <= g
<1> DEFINE newer == {i \in DOMAIN file[k] : file[k][i].chunk = c /\ file[k][i].id > last}
           g == CHOOSE i \in newer : \A j \in newer : j <= i
<1>1. Restored(k, c) = IF newer = {} THEN state[k][c].val ELSE file[k][g].update.val
  BY DEF Restored
<1>2. ASSUME newer # {} PROVE g \in newer /\ \A j \in newer : j <= g
  <2>1. Len(file[k]) \in Nat /\ DOMAIN file[k] = 1 .. Len(file[k])
    BY LenProperties
  <2>2. newer \in SUBSET (0 .. Len(file[k]))
    BY <2>1
  <2> HIDE DEF newer
  <2>3. \E i \in newer : \A j \in newer : j <= i
    BY <1>2, <2>1, <2>2, GreatestExists
  <2>4. QED
    BY <2>3
<1>3. CASE newer = {}
  BY <1>1, <1>3
<1>4. CASE newer # {}
  <2>1. g \in newer /\ \A j \in newer : j <= g
    BY <1>2, <1>4
  <2>2. Restored(k, c) = file[k][g].update.val
    BY <1>1, <1>4
  <2> HIDE DEF g
  <2>3. QED
    BY <2>1, <2>2
<1>5. QED
  BY <1>3, <1>4

LEMMA SnapInvPoint == SnapInv => SnapshotIsPointInTime
<1> SUFFICES ASSUME SnapInv, NEW k \in Snapper, spc[k] = "done", NEW c \in Chunk, InLatchOrder(c),
                    NEW L, L = file[k], NEW z, z = closed[k][c], NEW last, last = state[k][c].last,
                    NEW len, len = Len(order[c])
             PROVE  \E n \in z .. len : Restored(k, c) = Serial(c, n)
  BY DEF SnapshotIsPointInTime, PointInTime
<1>0. /\ TypeOK /\ SnapType /\ CommitInv /\ IdInv /\ PhaseInv(k)
      /\ RecordedInv(k, c) /\ SortedInv(k, c) /\ WrittenInv(k, c) /\ LogOf(k) = L
  BY DEF SnapInv, CommitInv, LogOf
<1>1. /\ len \in Nat /\ DOMAIN order[c] = 1 .. len /\ L \in Seq(Record)
      /\ \A x \in 1 .. len : order[c][x].id \in Nat /\ order[c][x].id # 0
      /\ z \in Int /\ z <= len
  BY <1>0, HistoryType DEF SnapType, PhaseInv, IdInv
<1>2. \A x, y \in 1 .. len : x < y => order[c][x].id < order[c][y].id
  BY <1>1 DEF InLatchOrder
<1>3. Written(k, c) /\ Due(k, c) = z
  BY <1>0 DEF Written, Due, Busy
<1>4. PICK p \in 0 .. len :
        /\ state[k][c] = [last |-> IdAt(c, p), val |-> Serial(c, p)]
        /\ \A x \in p + 1 .. z :
             \E i \in DOMAIN L : L[i].chunk = c /\ L[i].id = order[c][x].id
  BY <1>0, <1>3 DEF WrittenInv
<1>5. last = IdAt(c, p) /\ state[k][c].val = Serial(c, p)
  BY <1>4
<1>6. ASSUME NEW x \in 1 .. len PROVE order[c][x].id > last <=> p < x
  <2>1. CASE p = 0
    BY <1>1, <1>5, <1>6, <2>1 DEF IdAt
  <2>2. CASE p # 0
    <3>1. last = order[c][p].id /\ p \in 1 .. len
      BY <1>1, <1>5, <2>2 DEF IdAt
    <3>2. x = p \/ x < p \/ p < x
      BY <1>1, <3>1
    <3>3. QED
      BY <1>1, <1>2, <3>1, <3>2
  <2>3. QED
    BY <2>1, <2>2
<1>7. ASSUME p < z
      PROVE  /\ z \in 1 .. len
             /\ \E i \in DOMAIN L : L[i].chunk = c /\ L[i].id = order[c][z].id
  <2>1. z \in p + 1 .. z /\ z \in 1 .. len
    BY <1>1, <1>7
  <2>2. QED
    BY <1>4, <2>1
<1>8. CASE /\ Restored(k, c) = Serial(c, p)
           /\ \A i \in DOMAIN L : L[i].chunk = c => ~(L[i].id > last)
  <2>1. ~(p < z)
    BY <1>6, <1>7, <1>8
  <2>2. p \in z .. len
    BY <1>1, <2>1
  <2>3. QED
    BY <1>8, <2>2
<1>9. ASSUME NEW g \in DOMAIN L, Restored(k, c) = L[g].update.val, L[g].chunk = c,
             L[g].id > last,
             \A i \in DOMAIN L : L[i].chunk = c /\ L[i].id > last => i <= g
      PROVE  \E n \in z .. len : Restored(k, c) = Serial(c, n)
  <2>1. PICK x \in 1 .. Settled(c) :
          /\ L[g].id = order[c][x].id
          /\ L[g].update = [op |-> "put", val |-> Serial(c, x)]
    BY <1>0, <1>9 DEF RecordedInv
  <2>2. x \in 1 .. len
    BY <1>0, <2>1, SettledType
  <2>3. p < x
    BY <1>6, <1>9, <2>1, <2>2
  <2>4. ASSUME x < z PROVE FALSE
    <3>1. p < z
      BY <1>1, <2>2, <2>3, <2>4
    <3>2. z \in 1 .. len
      BY <1>7, <3>1
    <3>3. PICK i \in DOMAIN L : L[i].chunk = c /\ L[i].id = order[c][z].id
      BY <1>7, <3>1
    <3>4. L[i].id > last
      BY <1>6, <3>1, <3>2, <3>3
    <3>5. i <= g
      BY <1>9, <3>3, <3>4
    <3>6. L[g].id < L[i].id
      BY <1>2, <2>1, <2>2, <2>4, <3>2, <3>3
    <3>7. i \in Nat /\ g \in Nat /\ L[i].id \in Nat /\ L[g].id \in Nat
      <4>1. i \in 1 .. Len(L) /\ g \in 1 .. Len(L) /\ Len(L) \in Nat
        BY <1>1, <1>9, <3>3, LenProperties
      <4>2. order[c][z].id \in Nat /\ order[c][x].id \in Nat
        BY <1>1, <2>2, <3>2
      <4>3. QED
        BY <2>1, <3>3, <4>1, <4>2
    <3>8. i < g
      BY <3>5, <3>6, <3>7
    <3>9. L[i].id < L[g].id
      BY <1>0, <1>9, <3>3, <3>8 DEF SortedInv
    <3>10. QED
      BY <3>6, <3>7, <3>9
  <2>5. x \in z .. len
    BY <1>1, <2>2, <2>4
  <2>6. QED
    BY <1>9, <2>1, <2>5
<1>10. \/ /\ Restored(k, c) = state[k][c].val
          /\ \A i \in DOMAIN L : L[i].chunk = c => ~(L[i].id > last)
       \/ \E g \in DOMAIN L :
            /\ Restored(k, c) = L[g].update.val
            /\ L[g].chunk = c /\ L[g].id > last
            /\ \A i \in DOMAIN L : L[i].chunk = c /\ L[i].id > last => i <= g
  <2>1. file[k] \in Seq(Record)
    BY <1>1
  <2>2. QED
    BY <2>1, RestoredProperty
<1>11. QED
  BY <1>5, <1>8, <1>9, <1>10

LEMMA SnapInvRefused ==
  ASSUME SnapInv, [SNext]_allvars, NEW k \in Snapper, spc[k] = "idle", spc'[k] = "refused"
  PROVE  \E j \in Snapper \ {k} : spc[j] \in {"count", "chunk", "inside", "close", "failed", "panicked"}
<1>0. TypeOK /\ SnapType /\ \A j \in Snapper : PhaseInv(j)
  BY DEF SnapInv, CommitInv
<1>1. PICK j \in Snapper : SnapStep(j)
  BY <1>0, SnapCases DEF snapvars
<1>2. j = k
  BY <1>0, <1>1, OthersLeave
<1>3. Open(k)
  BY <1>1, <1>2 DEF SnapStep, Count, EnterChunk, WriteChunk, Panics, WriteFails, Close, Copy, SGoto
<1>4. recorder # None
  BY <1>0, <1>3 DEF Open, SGoto, SnapType
<1>5. recorder \in Snapper /\ spc[recorder] \in Busy \cup {"failed", "panicked"}
  BY <1>0, <1>4 DEF TypeOK, PhaseInv
<1>6. QED
  BY <1>5 DEF Busy

\* snapshot.go, Snapshot and Restore: whatever commits while a snapshot is taken, each chunk
\* is restored as some number of its commits have left it, and at least those that had ended
\* when the recorder was closed, if the chunk was latched in the order of the commit IDs.
THEOREM PointInTimes == SSpec => []SnapshotIsPointInTime
BY SnapInvInit, SnapInvStep, SnapInvPoint, PTL DEF SSpec

\* snapshot.go, recorderOpen: who is refused finds another snapshot in progress, or one that
\* has failed or panicked and left its recorder behind.
THEOREM RefusedWhenBusy == SSpec => RefusedOnlyWhenBusy
<1>1. SnapInv /\ [SNext]_allvars =>
        [\A k \in Snapper : spc[k] = "idle" /\ spc'[k] = "refused" =>
           \E j \in Snapper \ {k} : spc[j] \in {"count", "chunk", "inside", "close", "failed", "panicked"}]_allvars
  BY SnapInvRefused
<1>2. QED
  BY <1>1, SnapInvInit, SnapInvStep, PTL DEF SSpec, RefusedOnlyWhenBusy

\* txn_lock.go, rangeRead: readers and snapshots see whole commits, too, while snapshots
\* register recorders and take shared latches.
THEOREM WholeCommitsSnapshot == SSpec => []ReadersSeeWholeCommits
<1>1. SnapInv => ReadersSeeWholeCommits
  BY CommitInvWhole DEF SnapInv
<1>2. QED
  BY <1>1, SnapInvInit, SnapInvStep, PTL DEF SSpec

\* Every variable of the commits and of the snapshots has its type.
THEOREM SnapshotTyping == SSpec => [](TypeOK /\ SnapType)
<1>1. SnapInv => TypeOK /\ SnapType
  BY DEF SnapInv, CommitInv
<1>2. QED
  BY <1>1, SnapInvInit, SnapInvStep, PTL DEF SSpec
=============================================================================
