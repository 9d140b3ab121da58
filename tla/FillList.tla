------------------------------ MODULE FillList ------------------------------
(***************************************************************************)
(* The fill list of a collection: which rows exist, how a transaction      *)
(* reserves a row for an insert, and how commits and rollbacks settle the  *)
(* reservations (collection.go: next, free, findFreeIndex; txn.go: insert, *)
(* DeleteAt, DeleteAll, rollback, commit, commitMarkers, commitCapacity).  *)
(*                                                                         *)
(* Every transaction runs in its own goroutine.  A step is what happens    *)
(* under one acquisition of Collection.lock.  The exclusive latch of a     *)
(* chunk is held from CommitMarkers to Recount and the shared one from     *)
(* EnterCallback to the callback's return, so both are read off pc.        *)
(*                                                                         *)
(* workload.ops is the repertoire of the clients: what the functions they  *)
(* pass to Query do.  "fail" is an insert callback that returns an error   *)
(* which the query function returns too, "swallow" one whose error it      *)
(* ignores, "rollback" a query function that returns an error of its own.  *)
(***************************************************************************)
EXTENDS Integers, Sequences, FiniteSets

CONSTANTS
  Txn,         \* the goroutines that run transactions
  WordBits,    \* bits of a bitmap word (64)
  ChunkRows,   \* rows of a chunk (chunkSize, 16384)
  MaxRows,     \* bound: rows are numbered below it
  Workloads    \* what the clients do, a set of Workload

AllOps == {"insert", "fail", "swallow", "delete", "rollback"}

\* Bounds: inserts and deletes of a transaction, rows, and transactions at once.
Workload == [ops : SUBSET AllOps, markers : Nat, rows : Nat, atOnce : Nat]

ASSUME FillListAssumption ==
  /\ WordBits \in Nat \ {0}
  /\ ChunkRows \in Nat \ {0}
  /\ MaxRows \in Nat

ASSUME WorkloadsAssumption == Workloads \subseteq Workload

VARIABLES
  workload,  \* one of Workloads; never changes
  fill,      \* Collection.fill: the rows whose bit is set
  words,     \* len(Collection.fill), in words
  count,     \* Collection.count
  chunks,    \* len(Collection.commits)
  pc,        \* where the goroutine of a transaction is
  row,       \* idx of the insert() it is in, 0 outside of one
  setup,     \* Txn.setup
  index,     \* Txn.index, the copy of the fill list it works on
  markers,   \* the "row" buffer: Insert and Delete operations in order
  todo,      \* dirty chunks that are still to be committed
  pending,   \* history: rows it inserted and has not settled yet
  committed  \* history: rows that commits made exist

store == <<fill, words, count, chunks>>
local == <<pc, row, setup, index, markers, todo>>
history == <<pending, committed>>
vars == <<workload, store, local, history>>

Rows == 0 .. MaxRows - 1
Marker == [op : {"insert", "delete"}, row : Rows]
Lowest(S) == CHOOSE x \in S : \A y \in S : x <= y
Larger(a, b) == IF a >= b THEN a ELSE b

ChunkAt(r) == r \div ChunkRows
LastRow(c) == (c + 1) * ChunkRows - 1

-----------------------------------------------------------------------------
(* The free-row search *)

Capacity == words * WordBits
FreeIn(S) == {r \in S : r \notin fill}
WordRows(w) == w * WordBits .. (w + 1) * WordBits - 1

\* The first zero bit, and the zero value when there is none: the caller
\* ignores the second result, which tells them apart.
MinZero ==
  LET zeros == FreeIn(0 .. Capacity - 1)
  IN  IF zeros = {} THEN 0 ELSE Lowest(zeros)

\* Mutant: the tail word is trusted to be filled in order.
FindFreeIndexByCount(n) == IF n > Capacity THEN Capacity ELSE n - 1

\* Mutant: a set bit of the tail word is looked up where a clear one is.
FindFreeIndexInverted(n) ==
  LET tail == WordRows((n - 1) \div WordBits) \cap fill
  IN  IF n > Capacity THEN Capacity
      ELSE IF tail # {} THEN Lowest(tail)
      ELSE MinZero

\* findFreeIndex(): a bit of the tail word, the one that the population should
\* end in, or else the first zero bit of all, or else the bit that grows the list.
FindFreeIndex(n) ==
  LET tail == FreeIn(WordRows((n - 1) \div WordBits))
  IN  IF n > Capacity THEN Capacity
      ELSE IF tail # {} THEN Lowest(tail)
      ELSE MinZero

\* Mutant: the word of the bit itself is not counted.
WordsForShort(r) == Larger(words, r \div WordBits)

\* What setting bit r does to the number of words.
WordsFor(r) == Larger(words, r \div WordBits + 1)

-----------------------------------------------------------------------------
(* Running the query function *)

Init ==
  /\ workload \in Workloads
  /\ fill = {} /\ words = 0 /\ count = 0 /\ chunks = 0
  /\ pc = [t \in Txn |-> "idle"]
  /\ row = [t \in Txn |-> 0]
  /\ setup = [t \in Txn |-> FALSE]
  /\ index = [t \in Txn |-> {}]
  /\ markers = [t \in Txn |-> << >>]
  /\ todo = [t \in Txn |-> {}]
  /\ pending = [t \in Txn |-> {}]
  /\ committed = {}

Goto(t, from, to) == pc[t] = from /\ pc' = [pc EXCEPT ![t] = to]

Begin(t) ==
  /\ Goto(t, "idle", "open")
  /\ Cardinality({u \in Txn : pc[u] # "idle"}) < workload.atOnce
  /\ UNCHANGED <<store, row, setup, index, markers, todo, history>>

RoomFor(t, n) == Len(markers[t]) + n <= workload.markers

\* next() and the insertion marker.
Insert(t) ==
  LET idx == FindFreeIndex(count + 1)
  IN  /\ workload.ops \cap {"insert", "fail", "swallow"} # {}
      /\ RoomFor(t, 1)
      /\ idx \in Rows /\ idx < workload.rows
      /\ Goto(t, "open", "reserved")
      /\ fill' = fill \cup {idx}
      /\ words' = WordsFor(idx)
      /\ count' = count + 1
      /\ row' = [row EXCEPT ![t] = idx]
      /\ markers' = [markers EXCEPT ![t] = Append(@, [op |-> "insert", row |-> idx])]
      /\ pending' = [pending EXCEPT ![t] = @ \cup {idx}]
      /\ UNCHANGED <<chunks, setup, index, todo, committed>>

\* The chunk that t commits now, when it holds the exclusive latch.
Current(t) == Lowest(todo[t])
Writing(c) == {t \in Txn : pc[t] = "latched" /\ Current(t) = c}
Reading(c) == {t \in Txn : pc[t] = "callback" /\ ChunkAt(row[t]) = c}

EnterCallback(t) ==
  /\ Goto(t, "reserved", "callback")
  /\ Writing(ChunkAt(row[t])) = {}
  /\ UNCHANGED <<store, row, setup, index, markers, todo, history>>

CallbackReturns(t) ==
  /\ "insert" \in workload.ops
  /\ Goto(t, "callback", "open")
  /\ row' = [row EXCEPT ![t] = 0]
  /\ UNCHANGED <<store, setup, index, markers, todo, history>>

CallbackFails(t) ==
  /\ workload.ops \cap {"fail", "swallow"} # {}
  /\ Goto(t, "callback", "failed")
  /\ UNCHANGED <<store, row, setup, index, markers, todo, history>>

\* Mutant: free() forgets the counter.
FreeUncounted(t) ==
  /\ \/ "fail" \in workload.ops /\ Goto(t, "failed", "abort")
     \/ "swallow" \in workload.ops /\ Goto(t, "failed", "open")
  /\ fill' = fill \ {row[t]}
  /\ pending' = [pending EXCEPT ![t] = @ \ {row[t]}]
  /\ row' = [row EXCEPT ![t] = 0]
  /\ UNCHANGED <<words, count, chunks, setup, index, markers, todo, committed>>

\* free(); the error then reaches the query function.
Free(t) ==
  /\ \/ "fail" \in workload.ops /\ Goto(t, "failed", "abort")
     \/ "swallow" \in workload.ops /\ Goto(t, "failed", "open")
  /\ fill' = fill \ {row[t]}
  /\ count' = Cardinality(fill')
  /\ pending' = [pending EXCEPT ![t] = @ \ {row[t]}]
  /\ row' = [row EXCEPT ![t] = 0]
  /\ UNCHANGED <<words, chunks, setup, index, markers, todo, committed>>

\* initialize(): the first use copies the fill list.
Selection(t) == IF setup[t] THEN index[t] ELSE fill

Initialize(t) ==
  /\ setup' = [setup EXCEPT ![t] = TRUE]
  /\ index' = [index EXCEPT ![t] = Selection(t)]

\* The rows of S differ, so the order of their markers is of no consequence.
Deletions(S) ==
  LET order == CHOOSE s \in [1 .. Cardinality(S) -> S] :
                 \A i, j \in DOMAIN s : s[i] = s[j] => i = j
  IN  [i \in DOMAIN order |-> [op |-> "delete", row |-> order[i]]]

\* DeleteAt marks r if the selection has it; DeleteAll marks the selection.
MarkDeleted(t, S) ==
  /\ "delete" \in workload.ops
  /\ pc[t] = "open"
  /\ RoomFor(t, Cardinality(S))
  /\ Initialize(t)
  /\ markers' = [markers EXCEPT ![t] = @ \o Deletions(S)]
  /\ UNCHANGED <<store, pc, row, todo, history>>

DeleteAt(t, r) == MarkDeleted(t, {r} \cap Selection(t))
DeleteAll(t) == MarkDeleted(t, Selection(t))

-----------------------------------------------------------------------------
(* Commit and rollback *)

Reset(t) ==
  /\ pc' = [pc EXCEPT ![t] = "idle"]
  /\ setup' = [setup EXCEPT ![t] = FALSE]
  /\ index' = [index EXCEPT ![t] = {}]
  /\ markers' = [markers EXCEPT ![t] = << >>]
  /\ pending' = [pending EXCEPT ![t] = {}]

Touched(t) == {markers[t][i].row : i \in DOMAIN markers[t]}
Dirty(t) == {ChunkAt(r) : r \in Touched(t)}

\* Mutant: a rollback frees the rows of its insertion markers, and with them
\* a row that a failed insert gave back and that another transaction has now.
RollbackFreesMarked(t) ==
  /\ pc[t] = "abort" \/ ("rollback" \in workload.ops /\ pc[t] = "open")
  /\ fill' = fill \ Touched(t)
  /\ count' = Cardinality(fill')
  /\ Reset(t)
  /\ UNCHANGED <<words, chunks, row, todo, committed>>

\* Inserted rows keep their bit: only the counter is refreshed.
Rollback(t) ==
  /\ pc[t] = "abort" \/ ("rollback" \in workload.ops /\ pc[t] = "open")
  /\ count' = Cardinality(fill)
  /\ Reset(t)
  /\ UNCHANGED <<fill, words, chunks, row, todo, committed>>

CommitNothing(t) ==
  /\ pc[t] = "open" /\ markers[t] = << >>
  /\ Reset(t)
  /\ UNCHANGED <<store, row, todo, committed>>

\* Mutant: the commits array lacks the entry of the highest chunk.
StartCommitShort(t) ==
  LET last == CHOOSE c \in Dirty(t) : \A d \in Dirty(t) : d <= c
      grows == chunks < last
  IN  /\ markers[t] # << >>
      /\ Goto(t, "open", "commit")
      /\ todo' = [todo EXCEPT ![t] = Dirty(t)]
      /\ chunks' = IF grows THEN last ELSE chunks
      /\ words' = IF grows THEN WordsFor(LastRow(last)) ELSE words
      /\ UNCHANGED <<fill, count, row, setup, index, markers, history>>

\* The dirty chunks, and commitCapacity() for the highest of them.
StartCommit(t) ==
  LET last == CHOOSE c \in Dirty(t) : \A d \in Dirty(t) : d <= c
      grows == chunks < last + 1
  IN  /\ markers[t] # << >>
      /\ Goto(t, "open", "commit")
      /\ todo' = [todo EXCEPT ![t] = Dirty(t)]
      /\ chunks' = IF grows THEN last + 1 ELSE chunks
      /\ words' = IF grows THEN WordsFor(LastRow(last)) ELSE words
      /\ UNCHANGED <<fill, count, row, setup, index, markers, history>>

LastOp(t, r) ==
  LET on == {i \in DOMAIN markers[t] : markers[t][i].row = r}
  IN  markers[t][CHOOSE i \in on : \A j \in on : j <= i].op

\* Mutant: the fill list keeps the rows that a commit deletes.
CommitKeepsDeleted(t) ==
  LET touched == {r \in Touched(t) : ChunkAt(r) = Current(t)}
      set == {r \in touched : LastOp(t, r) = "insert"}
  IN  /\ Goto(t, "commit", "latched")
      /\ Writing(Current(t)) = {} /\ Reading(Current(t)) = {}
      /\ fill' = fill \cup set
      /\ committed' = (committed \ touched) \cup set
      /\ pending' = [pending EXCEPT ![t] = @ \ touched]
      /\ UNCHANGED <<words, count, chunks, row, setup, index, markers, todo>>

\* Latches the lowest dirty chunk and applies its markers to the fill list:
\* the last operation on a row decides.
CommitMarkers(t) ==
  LET touched == {r \in Touched(t) : ChunkAt(r) = Current(t)}
      set == {r \in touched : LastOp(t, r) = "insert"}
  IN  /\ Goto(t, "commit", "latched")
      /\ Writing(Current(t)) = {} /\ Reading(Current(t)) = {}
      /\ fill' = (fill \ touched) \cup set
      /\ committed' = (committed \ touched) \cup set
      /\ pending' = [pending EXCEPT ![t] = @ \ touched]
      /\ UNCHANGED <<words, count, chunks, row, setup, index, markers, todo>>

\* Mutant: the commit does not recount the rows.
RecountSkipped(t) ==
  /\ pc[t] = "latched"
  /\ todo' = [todo EXCEPT ![t] = @ \ {Current(t)}]
  /\ IF todo'[t] = {}
     THEN Reset(t)
     ELSE /\ pc' = [pc EXCEPT ![t] = "commit"]
          /\ UNCHANGED <<setup, index, markers, pending>>
  /\ UNCHANGED <<fill, words, count, chunks, row, committed>>

\* The second lock of commitMarkers(), and the release of the latch.
Recount(t) ==
  /\ pc[t] = "latched"
  /\ count' = Cardinality(fill)
  /\ todo' = [todo EXCEPT ![t] = @ \ {Current(t)}]
  /\ IF todo'[t] = {}
     THEN Reset(t)
     ELSE /\ pc' = [pc EXCEPT ![t] = "commit"]
          /\ UNCHANGED <<setup, index, markers, pending>>
  /\ UNCHANGED <<fill, words, chunks, row, committed>>

Next ==
  /\ UNCHANGED workload
  /\ \E t \in Txn :
       \/ Begin(t) \/ Insert(t) \/ EnterCallback(t)
       \/ CallbackReturns(t) \/ CallbackFails(t) \/ Free(t)
       \/ \E r \in Rows : DeleteAt(t, r)
       \/ DeleteAll(t)
       \/ Rollback(t) \/ CommitNothing(t) \/ StartCommit(t)
       \/ CommitMarkers(t) \/ Recount(t)

Spec == Init /\ [][Next]_vars

-----------------------------------------------------------------------------
(* Properties *)

Phases == {"idle", "open", "reserved", "callback", "failed", "abort", "commit", "latched"}

Types ==
  /\ fill \subseteq Rows
  /\ words \in Nat /\ count \in Nat /\ chunks \in Nat
  /\ pc \in [Txn -> Phases]
  /\ row \in [Txn -> Nat]
  /\ setup \in [Txn -> BOOLEAN]
  /\ index \in [Txn -> SUBSET Rows]
  /\ markers \in [Txn -> Seq(Marker)]
  /\ todo \in [Txn -> SUBSET Nat]
  /\ pending \in [Txn -> SUBSET Rows]
  /\ committed \subseteq Rows

\* The types, and the fill list never outgrowing its words: the bits that are
\* set, and those a transaction selected or is still going to set or clear,
\* have a word to be in.
TypeOK ==
  /\ workload \in Workloads
  /\ Types
  /\ \A r \in fill : r < Capacity
  /\ \A t \in Txn : \A r \in Touched(t) \cup index[t] : r < Capacity

\* Some commit is between the two critical sections of commitMarkers().
Recounting == \E t \in Txn : pc[t] = "latched"

\* The counter that Count() returns and findFreeIndex() trusts is the number
\* of rows, except while some commit is between the two critical sections of
\* commitMarkers().
CountIsPopulation ==
  ~Recounting => count = Cardinality(fill)

\* Clients that insert, fail and roll back.
Inserting == workload.ops \subseteq {"insert", "fail", "rollback"}

\* "next finds the next free index": a row that is free at that moment, unless
\* a commit has changed the fill list and not counted it yet.  Clients that only
\* insert never make the counter lag.
FreshRow ==
  [][Inserting \/ ~Recounting =>
       \A t \in Txn : pc[t] = "open" /\ pc'[t] = "reserved" => row'[t] \notin fill]_vars

SoleOwners == \A s, t \in Txn : s # t => pending[s] \cap pending[t] = {}

\* Concurrent transactions never hold the same new row: each row that next()
\* reserved belongs to one of them until it commits, fails or rolls back.
OneOwner == Inserting => SoleOwners

Stays ==
  /\ committed \subseteq fill
  /\ \A t \in Txn : pending[t] \cap committed = {}

\* A committed row stays in the collection, and is never handed out again,
\* until a commit deletes it: no failing insert of anyone frees it.
CommittedStays == Inserting => Stays

\* Each chunk that is being committed, and each that has a committed row, has
\* an entry in Collection.commits, which rangeWrite() indexes without looking at
\* its length.  This says nothing of readChunk(), which goes by the highest bit of
\* the fill list: a row that is only reserved may be in a chunk without an entry,
\* as module Snapshot has it.
ChunksHaveIDs ==
  /\ \A t \in Txn : pc[t] \in {"commit", "latched"} => \A c \in todo[t] : c < chunks
  /\ \A r \in committed : ChunkAt(r) < chunks

\* Rows that exist because of some commit, or that some transaction answers for.
Owned == committed \cup UNION {pending[t] : t \in Txn}

\* Nothing but a rollback leaves a row behind that nobody owns: insertions that
\* fail, commits and deletions settle what they touch.
OnlyRollbacksAbandon ==
  [][\A r \in fill' \ Owned' :
       \/ r \in fill \ Owned
       \/ \E t \in Txn : Rollback(t) /\ r \in pending[t]]_vars

\* "If the provided function returns an error, the query will automatically
\* call txn.Rollback() so none of the changes will be applied": a rolled-back
\* transaction leaves none of its rows behind.
RollbackLeavesNothing ==
  [][\A t \in Txn : Rollback(t) => pending[t] \cap fill' = {}]_vars
=============================================================================
