------------------------------ MODULE Registry ------------------------------
(***************************************************************************)
(* The registry of columns (collection.go, type columns) and the           *)
(* operations that create and drop columns, indexes and triggers, beside   *)
(* commits that make room for new rows.                                    *)
(*                                                                         *)
(* The registry is a slice in an atomic.Value: an array of entries and a   *)
(* length.  Store() and DeleteIndex() load the slice, change entries of    *)
(* its array in place or append to it, and store the slice again; these    *)
(* are steps of their own here.  An entry has a name, a column, and the    *)
(* indexes and triggers that are fed from that column; it is read and      *)
(* written as a whole.  What an index has in it is module Index.           *)
(*                                                                         *)
(* Of the fill list only its population is kept, and the highest row that  *)
(* there has been.                                                         *)
(* Collections that are filled by commits of another one, or from a        *)
(* snapshot, are expected to have their columns by then.                   *)
(***************************************************************************)
EXTENDS Integers, Sequences, FiniteSets

CONSTANTS
  Admin,      \* goroutines that create and drop
  Names,      \* of columns
  Indexes,    \* names of indexes, sorted indexes and triggers
  Room,       \* entries that the first array has room for (8)
  ChunkRows,  \* rows of a chunk
  Capacity,   \* Options.Capacity, in rows
  Workloads,  \* what the goroutines do, a set of Workload
  None

Ops == {"createColumn", "dropColumn", "createIndex", "createSortIndex", "dropIndex"}

\* What clients do: a number of operations and of rows (bounds), whether inserts
\* fail, and whether they delete rows.
Workload == [ops : SUBSET Ops, total : Nat, rows : Nat, fails : BOOLEAN, deletes : BOOLEAN]

\* Operations that hold Collection.lock while they change the registry.
Locking == {"createIndex", "createSortIndex"}

ASSUME RegistryAssumption ==
  /\ Names \cap Indexes = {} /\ None \notin Names \cup Indexes \cup Admin
  /\ Room \in Nat \ {0} /\ ChunkRows \in Nat \ {0} /\ Capacity \in Nat
  /\ Workloads \subseteq Workload

VARIABLES
  workload,  \* never changes
  heap,      \* the arrays of entries there are
  head,      \* the slice in the atomic.Value
  object,    \* the columns and indexes there are
  lock,      \* who has Collection.lock
  op, pc,    \* what a goroutine does, and the step of it that is next
  slice,     \* the slice that it has loaded or made
  total,     \* how many operations there were
  count,     \* Collection.count
  top,       \* how far the rows have reached
  commits,   \* the length of Collection.commits
  catalog,   \* history: what was created, and not dropped since
  excused    \* history: columns that were created while a row below top was free,
             \* or beside a commit that made room for rows

admins == <<op, pc, slice, total>>
rows == <<count, top, commits>>
history == <<catalog, excused>>
vars == <<workload, heap, head, object, lock, admins, rows, history>>

ChunkAt(r) == r \div ChunkRows
Entry(name, cols) == [name |-> name, cols |-> cols]
Blank == Entry(None, << >>)
Array(size) == [i \in 1 .. size |-> Blank]

Idle == [kind |-> "none", name |-> None, on |-> None, col |-> 0, obj |-> 0]

\* The column of deadlines that NewCollection creates is left out.
Init ==
  /\ workload \in Workloads
  /\ heap = << Array(Room) >> /\ head = [array |-> 1, len |-> 0]
  /\ object = << >> /\ lock = None
  /\ op = [a \in Admin |-> Idle] /\ pc = [a \in Admin |-> 1]
  /\ slice = [a \in Admin |-> head] /\ total = 0
  /\ count = 0 /\ top = 0 /\ commits = 0
  /\ catalog = {} /\ excused = {}

-----------------------------------------------------------------------------
(* Reading the registry *)

At(s, name) == {i \in 1 .. s.len : heap[s.array][i].name = name}
First(S) == CHOOSE i \in S : \A j \in S : i <= j

\* LoadWithIndex() and Load(): the objects of an entry, and the first of them.
LoadWithIndex(name) ==
  IF At(head, name) = {} THEN << >> ELSE heap[head.array][First(At(head, name))].cols
Exists(name) == LoadWithIndex(name) # << >>
Load(name) == Head(LoadWithIndex(name))

-----------------------------------------------------------------------------
(* Operations, step by step *)

StoreIndex == <<"lock", "load", "put", "store", "load", "attach", "store", "unlock">>
Script ==
  [none            |-> << >>,
   createColumn    |-> <<"grow", "load", "put", "store">>,
   createIndex     |-> StoreIndex,
   createSortIndex |-> StoreIndex,
   dropColumn      |-> <<"load", "filter", "store">>,
   dropIndex       |-> <<"load", "detach", "store", "load", "filter", "store">>]

\* What an operation checks before it does anything.
Allowed(kind, name, on) ==
  CASE kind = "createColumn"    -> name \in Names /\ ~Exists(name)
    [] kind = "createIndex"     -> name \in Indexes /\ Exists(on)
    [] kind = "createSortIndex" -> name \in Indexes /\ Exists(on) /\ ~Exists(name)
    [] kind = "dropColumn"      -> name \in Names
    [] kind = "dropIndex"       -> name \in Indexes /\ Exists(name)

\* Clients create columns, and drop anything, one at a time: these operations
\* take no lock and lose what another one stores between their steps.
Alone(a, kind) ==
  \A b \in Admin \ {a} : op[b].kind \in {"none"} \cup (IF kind \in Locking THEN Locking ELSE {})

\* Clients give no two indexes one name, which CreateIndex does not check.
Fresh(name) == (\A e \in catalog : e.name # name) /\ (\A a \in Admin : op[a].name # name)

Begin(a, kind, name, on) ==
  /\ op[a].kind = "none" /\ kind \in workload.ops /\ Alone(a, kind)
  /\ total < workload.total
  /\ Allowed(kind, name, on)
  /\ kind \in Locking => Fresh(name)
  /\ LET creates == kind \in Locking \cup {"createColumn"}
     IN  /\ op' = [op EXCEPT ![a] =
                [kind |-> kind, name |-> name,
                 on  |-> IF kind = "dropIndex" THEN object[Load(name)].on ELSE on,
                 col |-> IF kind \in Locking THEN Load(on) ELSE 0,
                 obj |-> IF creates THEN Len(object) + 1 ELSE 0]]
         /\ object' = IF creates THEN Append(object, [kind |-> kind, on |-> on, chunks |-> 0])
                      ELSE object
         /\ catalog' = IF creates THEN catalog ELSE {e \in catalog : e.name # name}
  /\ pc' = [pc EXCEPT ![a] = 1]
  /\ total' = total + 1
  /\ UNCHANGED <<workload, heap, head, lock, slice, rows, excused>>

Turn(a, step) == pc[a] <= Len(Script[op[a].kind]) /\ Script[op[a].kind][pc[a]] = step

\* The next step; after the last one the operation returns.
Advance(a) ==
  IF pc[a] < Len(Script[op[a].kind])
  THEN pc' = [pc EXCEPT ![a] = @ + 1] /\ UNCHANGED <<op, catalog>>
  ELSE /\ pc' = [pc EXCEPT ![a] = 1] /\ op' = [op EXCEPT ![a] = Idle]
       /\ catalog' = IF op[a].obj = 0 THEN catalog
                     ELSE catalog \cup {[name |-> op[a].name, on |-> op[a].on,
                                         col |-> op[a].col, obj |-> op[a].obj]}

Elsewhere == <<workload, total, rows>>

\* Mutant of Grow: a column grows to the capacity that was asked for, whatever
\* rows there are.
GrowToCapacity(a) ==
  /\ Turn(a, "grow") /\ Advance(a)
  /\ object' = [object EXCEPT ![op[a].obj].chunks = ChunkAt(Capacity) + 1]
  /\ excused' = IF count < top THEN excused \cup {op[a].obj} ELSE excused
  /\ UNCHANGED <<Elsewhere, heap, head, lock, slice>>

\* CreateColumn() grows the column to the number of rows, or the capacity.
Grow(a) ==
  /\ Turn(a, "grow") /\ Advance(a)
  /\ object' = [object EXCEPT ![op[a].obj].chunks =
                  ChunkAt(IF Capacity > count THEN Capacity ELSE count) + 1]
  /\ excused' = IF count < top THEN excused \cup {op[a].obj} ELSE excused
  /\ UNCHANGED <<Elsewhere, heap, head, lock, slice>>

\* Mutant of Lock: indexes are created without the lock.
LockNothing(a) ==
  /\ Turn(a, "lock") /\ Advance(a)
  /\ UNCHANGED <<Elsewhere, heap, head, object, lock, slice, excused>>

Lock(a) ==
  /\ Turn(a, "lock") /\ lock = None /\ lock' = a /\ Advance(a)
  /\ UNCHANGED <<Elsewhere, heap, head, object, slice, excused>>

Unlock(a) ==
  /\ Turn(a, "unlock") /\ lock' = None /\ Advance(a)
  /\ UNCHANGED <<Elsewhere, heap, head, object, slice, excused>>

LoadSlice(a) ==
  /\ Turn(a, "load") /\ slice' = [slice EXCEPT ![a] = head] /\ Advance(a)
  /\ UNCHANGED <<Elsewhere, heap, head, object, lock, excused>>

\* The first entries of a larger or another array.
Filled(entries, size) ==
  [i \in 1 .. size |-> IF i <= Len(entries) THEN entries[i] ELSE Blank]

\* Mutant of AppendEntry: the slice is extended whatever room there is.
AppendBeyond(a, e) ==
  /\ heap' = [heap EXCEPT ![slice[a].array][slice[a].len + 1] = e]
  /\ slice' = [slice EXCEPT ![a].len = @ + 1]

\* append() writes behind the slice while the array has room, and copies it to
\* a larger one otherwise.
AppendEntry(a, e) ==
  LET s == slice[a]
      array == heap[s.array]
  IN  IF s.len < Len(array)
      THEN /\ heap' = [heap EXCEPT ![s.array][s.len + 1] = e]
           /\ slice' = [slice EXCEPT ![a].len = s.len + 1]
      ELSE /\ heap' = Append(heap, Filled(Append(array, e), 2 * s.len))
           /\ slice' = [slice EXCEPT ![a] = [array |-> Len(heap) + 1, len |-> s.len + 1]]

\* Store(): an entry of that name gets the column and one more index, in place.
Store(a, name, main, index) ==
  LET s == slice[a]
      i == First(At(s, name))
  IN  IF At(s, name) = {} THEN AppendEntry(a, Entry(name, <<main>> \o index))
      ELSE /\ heap' = [heap EXCEPT ![s.array][i].cols = <<main>> \o Tail(@) \o index]
           /\ UNCHANGED slice

Put(a) ==
  /\ Turn(a, "put") /\ Advance(a)
  /\ Store(a, op[a].name, op[a].obj, << >>)
  /\ UNCHANGED <<Elsewhere, head, object, lock, excused>>

Attach(a) ==
  /\ Turn(a, "attach") /\ Advance(a)
  /\ Store(a, op[a].on, op[a].col, <<op[a].obj>>)
  /\ UNCHANGED <<Elsewhere, head, object, lock, excused>>

\* What is at some positions of a sequence, in the same order.
Picked(s, S) ==
  [k \in 1 .. Cardinality(S) |->
     s[CHOOSE i \in S : Cardinality({j \in S : j <= i}) = k]]

\* DeleteIndex(): the entry of the index's column gets a list without it.
Detach(a) ==
  LET s == slice[a]
      index == Load(op[a].name)
      Without(cols) == Picked(cols, {i \in DOMAIN cols : i = 1 \/ cols[i] # index})
  IN  /\ Turn(a, "detach") /\ Advance(a)
      /\ heap' = [heap EXCEPT ![s.array] =
           [i \in DOMAIN @ |-> IF i <= s.len /\ @[i].name = op[a].on
                               THEN Entry(@[i].name, Without(@[i].cols)) ELSE @[i]]]
      /\ UNCHANGED <<Elsewhere, head, slice, object, lock, excused>>

\* DeleteColumn(): a new array of the same size, without the entry.
Filter(a) ==
  LET s == slice[a]
      array == heap[s.array]
      left == Picked(array, {i \in 1 .. s.len : array[i].name # op[a].name})
  IN  /\ Turn(a, "filter") /\ Advance(a)
      /\ heap' = Append(heap, Filled(left, Len(array)))
      /\ slice' = [slice EXCEPT ![a] = [array |-> Len(heap) + 1, len |-> Len(left)]]
      /\ UNCHANGED <<Elsewhere, head, object, lock, excused>>

StoreSlice(a) ==
  /\ Turn(a, "store") /\ head' = slice[a] /\ Advance(a)
  /\ UNCHANGED <<Elsewhere, heap, slice, object, lock, excused>>

-----------------------------------------------------------------------------
(* Transactions *)

Rest == <<workload, heap, head, lock, admins, catalog>>

\* next(): a free row below top is taken, if it is seen, and else the next one.
Insert ==
  /\ count < workload.rows /\ lock = None
  /\ count' = count + 1
  /\ \/ count < top /\ top' = top
     \/ top < workload.rows /\ top' = top + 1
  /\ UNCHANGED <<Rest, object, commits, excused>>

\* One row is free again, and no chunk goes away.
Shrink ==
  /\ count > 0 /\ lock = None /\ count' = count - 1
  /\ UNCHANGED <<Rest, object, top, commits, excused>>

\* free(): an insert has failed.
Free == workload.fails /\ Shrink

\* commitMarkers(): a row is deleted.
Delete == workload.deletes /\ Shrink

Registered == {Head(heap[head.array][i].cols) : i \in 1 .. head.len}

\* Columns that have grown and are not in the registry yet.
Awaited == {op[a].obj : a \in {a \in Admin : op[a].kind = "createColumn" /\ pc[a] > 1}}
             \ Registered

\* commitCapacity() of a transaction whose last row is r: every column in the
\* registry grows, but only if the chunk is new.
CommitCapacity(r) ==
  /\ lock = None /\ ChunkAt(r) >= commits /\ r < top
  /\ commits' = ChunkAt(r) + 1
  /\ object' = [o \in DOMAIN object |->
       IF o \in Registered /\ object[o].chunks < ChunkAt(r) + 1
       THEN [object[o] EXCEPT !.chunks = ChunkAt(r) + 1] ELSE object[o]]
  /\ excused' = excused \cup Awaited
  /\ UNCHANGED <<Rest, count, top>>

Next ==
  \/ \E a \in Admin :
       \/ \E kind \in Ops, name \in Names \cup Indexes, on \in Names \cup {None} :
            (on = None <=> kind \notin Locking) /\ Begin(a, kind, name, on)
       \/ Grow(a) \/ Lock(a) \/ Unlock(a) \/ LoadSlice(a) \/ Put(a) \/ Attach(a) \/ Detach(a)
       \/ Filter(a) \/ StoreSlice(a)
  \/ Insert \/ Free \/ Delete \/ \E r \in 0 .. top : CommitCapacity(r)

Spec == Init /\ [][Next]_vars

-----------------------------------------------------------------------------
(* Properties *)

\* Types; a slice lies in its array, and what is behind it is not read.
TypeOK ==
  /\ workload \in Workloads /\ total \in 0 .. workload.total
  /\ \A s \in {head} \cup {slice[a] : a \in Admin} :
       s.array \in DOMAIN heap /\ s.len \in 0 .. Len(heap[s.array])
  /\ \A i \in 1 .. head.len : heap[head.array][i].name \in Names \cup Indexes
  /\ \A a \in Admin : op[a].kind \in Ops \cup {"none"} /\ pc[a] \in 1 .. 9
  /\ lock \in Admin \cup {None} /\ top \in 0 .. workload.rows /\ count \in 0 .. top
  /\ \A o \in DOMAIN object : object[o].kind \in Ops /\ object[o].chunks \in Nat

Attached(name) == IF Exists(name) THEN Tail(LoadWithIndex(name)) ELSE << >>
Occurrences(o, s) == Cardinality({i \in DOMAIN s : s[i] = o})

\* "columns represents a concurrent column registry": however the steps of
\* operations alternate, what was created and not dropped is registered once,
\* an index is fed once by its column as long as the column is there, and a
\* column feeds nothing else when no operation is under way.
RegistryIsCatalog ==
  /\ \A e \in catalog :
       /\ Cardinality(At(head, e.name)) = 1 /\ Load(e.name) = e.obj
       /\ (\E c \in catalog : c.name = e.on /\ c.obj = e.col) =>
            Occurrences(e.obj, Attached(e.on)) = 1
  /\ (\A a \in Admin : op[a].kind = "none") =>
       /\ head.len = Cardinality(catalog)
       /\ \A c \in catalog : \A i \in DOMAIN Attached(c.name) :
            \E e \in catalog : e.obj = Attached(c.name)[i] /\ e.col = c.obj

\* A registered column has every chunk that a transaction may commit or read,
\* whichever of the two grew first: chunkAt() is never out of range, unless
\* the column was created while a row was free below the highest that there had
\* been, as failed inserts and deletions leave them, or beside a commit that made
\* room.
ColumnsReachRows ==
  \A o \in Registered \ excused :
    object[o].kind = "createColumn" => object[o].chunks >= commits
=============================================================================
