----------------------------- MODULE PrimaryKey -----------------------------
(***************************************************************************)
(* Rows that are found by their primary key (txn.go: InsertKey, UpsertKey, *)
(* QueryKey, DeleteKey, insert, commitMarkers; column_strings.go:          *)
(* columnKey, rwKey).                                                      *)
(*                                                                         *)
(* The lookup table only changes when a commit applies its updates, so     *)
(* what a transaction finds in it says nothing of its own updates or of    *)
(* those of others that are pending.  All rows are in one chunk here: a    *)
(* commit holds its latch from the first marker to the last key.  Lookups  *)
(* take no latch.  next() is the one of FillList, where a row is free.     *)
(***************************************************************************)
EXTENDS Integers, Sequences, FiniteSets

CONSTANTS
  Txn,       \* goroutines, each runs one transaction after the other
  Key,       \* primary keys
  MaxRows,   \* bound: rows that are ever used
  Workloads, \* bound: what clients do, a set of Workload
  None       \* no goroutine, no row, no key

KeyOps == {"insert", "fail", "upsert", "query", "setkey", "delete"}

\* The operations, whether transactions run one at a time, and how many updates
\* one of them makes at most.
Workload == [ops : SUBSET KeyOps, serial : BOOLEAN, size : Nat]

Row == 0 .. MaxRows - 1

ASSUME PrimaryKeyAssumption ==
  /\ MaxRows \in Nat \ {0}
  /\ Workloads \subseteq Workload
  /\ None \notin Txn \cup Row \cup Key

VARIABLES
  workload, \* what the clients do; never changes
  fill,    \* Collection.fill: rows that exist or are reserved
  seek,    \* columnKey.seek: the row of a key
  data,    \* columnKey.data: the key of a row; a deletion does not erase it
  present, \* columnKey.fill: the rows that have a key
  latch,   \* who commits
  pc,      \* where the goroutine is
  visit,   \* the row that QueryKey or UpsertKey found, and its key
  marks,   \* Txn.updates of the row column: insertions and deletions
  puts     \* Txn.updates of the key column

store == <<fill, seek, data, present>>
pending == <<marks, puts>>
vars == <<workload, store, latch, pc, visit, pending>>

Found(k) == seek[k] # None
NoVisit == [row |-> None, key |-> None]

Init ==
  /\ workload \in Workloads
  /\ fill = {} /\ present = {}
  /\ seek = [k \in Key |-> None]
  /\ data = [r \in Row |-> None]
  /\ latch = None
  /\ pc = [t \in Txn |-> "open"]
  /\ visit = [t \in Txn |-> NoVisit]
  /\ marks = [t \in Txn |-> << >>]
  /\ puts = [t \in Txn |-> << >>]

Goto(t, from, to) == pc[t] = from /\ pc' = [pc EXCEPT ![t] = to]

\* When transactions run one at a time, the others have nothing pending.
AtRest(t) == pc[t] = "open" /\ marks[t] = << >> /\ puts[t] = << >>
Turn(t) == workload.serial => \A s \in Txn \ {t} : AtRest(s)
RoomFor(t) == Len(marks[t]) + Len(puts[t]) < workload.size

-----------------------------------------------------------------------------
(* The query function *)

\* Mutant of FirstFree: reserved rows are not taken into account.
NextCommitted(r) ==
  r \notin present /\ \A q \in Row : q < r => q \in present

\* next(): the first free row.
FirstFree(r) ==
  r \notin fill /\ \A q \in Row : q < r => q \in fill

\* Insertion marker and key; the callback has returned nil.
InsertRow(t, k) ==
  \E r \in Row :
    /\ FirstFree(r)
    /\ fill' = fill \cup {r}
    /\ marks' = [marks EXCEPT ![t] = Append(@, [op |-> "insert", row |-> r, key |-> k])]
    /\ puts' = [puts EXCEPT ![t] = Append(@, [row |-> r, key |-> k])]

\* Mutant of InsertKey: nobody looks for the key.
InsertKeyUnchecked(t, k) ==
  /\ "insert" \in workload.ops /\ pc[t] = "open" /\ Turn(t) /\ RoomFor(t)
  /\ InsertRow(t, k)
  /\ UNCHANGED <<workload, seek, data, present, latch, pc, visit>>

\* InsertKey.  If the key is found, an error is returned and nothing is done.
InsertKey(t, k) ==
  /\ "insert" \in workload.ops /\ pc[t] = "open" /\ Turn(t) /\ RoomFor(t)
  /\ ~Found(k)
  /\ InsertRow(t, k)
  /\ UNCHANGED <<workload, seek, data, present, latch, pc, visit>>

\* InsertKey, when the callback fails and the query function goes on: the row
\* is free again, its marker and its key are still pending.  (The moment at
\* which the row is reserved is in FillList.)
InsertKeyFails(t, k) ==
  /\ "fail" \in workload.ops /\ pc[t] = "open" /\ Turn(t) /\ RoomFor(t)
  /\ ~Found(k)
  /\ \E r \in Row :
       /\ FirstFree(r)
       /\ marks' = [marks EXCEPT ![t] = Append(@, [op |-> "insert", row |-> r, key |-> k])]
       /\ puts' = [puts EXCEPT ![t] = Append(@, [row |-> r, key |-> k])]
  /\ UNCHANGED <<workload, store, latch, pc, visit>>

\* Mutant of Lookup: a key that is not found is not noticed.
LookupUnchecked(t, k) ==
  /\ workload.ops \cap {"query", "upsert"} # {}
  /\ Turn(t) /\ Goto(t, "open", "visit")
  /\ visit' = [visit EXCEPT ![t] = [row |-> seek[k], key |-> k]]
  /\ UNCHANGED <<workload, store, latch, pending>>

\* QueryKey and UpsertKey find the row, and then wait for the latch.
Lookup(t, k) ==
  /\ workload.ops \cap {"query", "upsert"} # {} /\ Found(k)
  /\ Turn(t) /\ Goto(t, "open", "visit")
  /\ visit' = [visit EXCEPT ![t] = [row |-> seek[k], key |-> k]]
  /\ UNCHANGED <<workload, store, latch, pending>>

UpsertKey(t, k) ==
  /\ "upsert" \in workload.ops /\ pc[t] = "open" /\ Turn(t) /\ RoomFor(t)
  /\ ~Found(k)
  /\ InsertRow(t, k)
  /\ UNCHANGED <<workload, seek, data, present, latch, pc, visit>>

\* The callback runs under the shared latch, and it may set another key.
Visit(t) ==
  /\ latch = None
  /\ Goto(t, "visit", "open")
  /\ \/ UNCHANGED puts
     \/ \E k \in Key :
          /\ "setkey" \in workload.ops /\ ~Found(k) /\ RoomFor(t)
          /\ puts' = [puts EXCEPT ![t] = Append(@, [row |-> visit[t].row, key |-> k])]
  /\ visit' = [visit EXCEPT ![t] = NoVisit]
  /\ UNCHANGED <<workload, store, latch, marks>>

DeleteKey(t, k) ==
  /\ "delete" \in workload.ops /\ pc[t] = "open" /\ Turn(t) /\ RoomFor(t)
  /\ Found(k)
  /\ marks' = [marks EXCEPT ![t] = Append(@, [op |-> "delete", row |-> seek[k], key |-> k])]
  /\ UNCHANGED <<workload, store, latch, pc, visit, puts>>

-----------------------------------------------------------------------------
(* Commit and rollback *)

LastOn(t, r) ==
  LET on == {i \in DOMAIN marks[t] : marks[t][i].row = r}
  IN  marks[t][CHOOSE i \in on : \A j \in on : j <= i].op

\* The latch, and the markers on the fill list.
CommitMarkers(t) ==
  LET touched == {marks[t][i].row : i \in DOMAIN marks[t]}
  IN  /\ latch = None /\ latch' = t
      /\ Goto(t, "open", "deletes")
      /\ marks[t] # << >> \/ puts[t] # << >>
      /\ fill' = (fill \ touched) \cup {r \in touched : LastOn(t, r) = "insert"}
      /\ UNCHANGED <<workload, seek, data, present, visit, pending>>

\* Mutant of CommitDeletes: the key of the row stays in the lookup table.
CommitDeletesRowOnly(t) ==
  /\ Goto(t, "deletes", "keys")
  /\ present' = present \ {marks[t][i].row : i \in {j \in DOMAIN marks[t] : marks[t][j].op = "delete"}}
  /\ UNCHANGED <<workload, fill, seek, data, latch, visit, pending>>

\* columnKey.Apply on the deletions: the key that the row has by now goes.
CommitDeletes(t) ==
  LET gone == {marks[t][i].row : i \in {j \in DOMAIN marks[t] : marks[t][j].op = "delete"}}
  IN  /\ Goto(t, "deletes", "keys")
      /\ present' = present \ gone
      /\ seek' = [k \in Key |-> IF \E r \in gone : data[r] = k THEN None ELSE seek[k]]
      /\ UNCHANGED <<workload, fill, data, latch, visit, pending>>

Done(t) ==
  /\ pc' = [pc EXCEPT ![t] = "open"]
  /\ marks' = [marks EXCEPT ![t] = << >>]
  /\ puts' = [puts EXCEPT ![t] = << >>]

\* columnKey.Apply on the keys, one after the other, and the end.
CommitKey(t) ==
  /\ pc[t] = "keys" /\ puts[t] # << >>
  /\ LET p == Head(puts[t])
     IN  /\ present' = present \cup {p.row}
         /\ data' = [data EXCEPT ![p.row] = p.key]
         /\ seek' = [seek EXCEPT ![p.key] = p.row]
  /\ puts' = [puts EXCEPT ![t] = Tail(@)]
  /\ UNCHANGED <<workload, fill, latch, pc, visit, marks>>

Unlatch(t) ==
  /\ pc[t] = "keys" /\ puts[t] = << >>
  /\ latch' = None
  /\ Done(t)
  /\ UNCHANGED <<workload, store, visit>>

\* Reserved rows stay reserved.
Rollback(t) ==
  /\ pc[t] = "open" /\ (marks[t] # << >> \/ puts[t] # << >>)
  /\ Done(t)
  /\ UNCHANGED <<workload, store, latch, visit>>

Next ==
  \E t \in Txn :
    \/ \E k \in Key : \/ InsertKey(t, k) \/ InsertKeyFails(t, k) \/ UpsertKey(t, k)
                      \/ Lookup(t, k) \/ DeleteKey(t, k)
    \/ Visit(t)
    \/ CommitMarkers(t) \/ CommitDeletes(t) \/ CommitKey(t) \/ Unlatch(t)
    \/ Rollback(t)

Spec == Init /\ [][Next]_vars

-----------------------------------------------------------------------------
(* Properties *)

Mark == [op : {"insert", "delete"}, row : Row, key : Key]

TypeOK ==
  /\ workload \in Workloads
  /\ fill \subseteq Row /\ present \subseteq Row
  /\ seek \in [Key -> Row \cup {None}]
  /\ data \in [Row -> Key \cup {None}]
  /\ latch \in Txn \cup {None}
  /\ pc \in [Txn -> {"open", "visit", "deletes", "keys"}]
  /\ visit \in [Txn -> [row : Row, key : Key] \cup {NoVisit}]
  /\ marks \in [Txn -> Seq(Mark)]
  /\ puts \in [Txn -> Seq([row : Row, key : Key])]

\* Transactions that run one at a time, each of which gives one row a key at
\* most.  Where keys change, none deletes: DeleteKey of a key that its row had
\* once deletes the row, and of a row that is gone it takes the last key out of
\* the table, whichever row has that key by now.
OneByOne ==
  /\ workload.serial /\ workload.size <= 2
  /\ "setkey" \in workload.ops => workload.size <= 1 /\ "delete" \notin workload.ops

\* Keys that are never changed, by transactions that run one at a time or, if
\* they run concurrently, delete nothing and fail nowhere.
KeysStay ==
  /\ "setkey" \notin workload.ops
  /\ OneByOne \/ workload.ops \cap {"delete", "fail"} = {}

\* A lookup finds the row that has the key: never a deleted one, nor one
\* that has been given another key.
LookupFindsItsKey ==
  KeysStay => \A k \in Key : Found(k) => seek[k] \in present /\ data[seek[k]] = k

\* "QueryKey queries/updates a row given its corresponding primary key", and
\* "DeleteKey deletes a row for a given primary key": the row that a callback
\* sees or a commit deletes has that key, though the key was looked up before
\* the latch of the row was acquired.
ActsOnItsKey ==
  [][\A t \in Txn : KeysStay =>
       /\ Visit(t) => visit[t].row \in present /\ data[visit[t].row] = visit[t].key
       /\ CommitDeletes(t) =>
            \A i \in DOMAIN marks[t] :
              marks[t][i].op = "delete" /\ marks[t][i].row \in present =>
                data[marks[t][i].row] = marks[t][i].key]_vars

\* Between commits, each row that exists is found by its key.
KeysAreReachable ==
  OneByOne /\ latch = None => \A r \in present \cap fill : seek[data[r]] = r
=============================================================================
