------------------------------- MODULE Index -------------------------------
(***************************************************************************)
(* What is computed from a column: a bitmap index (column_index.go:        *)
(* columnIndex) and a sorted index (columnSortIndex).  Commits maintain    *)
(* both (txn.go: commitUpdates, commitMarkers); CreateIndex and            *)
(* CreateSortIndex (collection.go) register them and then go through the   *)
(* values that are there already.                                          *)
(*                                                                         *)
(* All rows are in one chunk, so one commit at a time has the exclusive    *)
(* latch; merges have become stores when they get here (module Buffer).    *)
(* The goroutine that creates the indexes takes no latch.  Both indexes    *)
(* are created by the same steps.  From its copy of the column to the end  *)
(* of the backfill it shares memory with any commit that runs: raced notes *)
(* such an overlap, and nothing is claimed of what follows.                *)
(***************************************************************************)
EXTENDS Integers, FiniteSets

CONSTANTS
  Row,      \* rows
  Val,      \* values
  Rule,     \* the values for which the predicate of the bitmap index is true
  Zero,     \* the value that is the empty string
  Workloads,  \* bound: what clients do, a set of Workload
  None      \* no value

\* What commits do, and whether no two rows are ever given the same value.
Workload == [ops : SUBSET {"put", "delete"}, unique : BOOLEAN]

ASSUME IndexAssumption ==
  /\ Row \subseteq Nat /\ Rule \subseteq Val /\ Zero \in Val
  /\ Workloads \subseteq Workload
  /\ None \notin Val

VARIABLES
  workload, \* what the clients do; never changes
  cell,     \* the column
  bits,     \* columnIndex.fill
  tree,     \* columnSortIndex.btree: items [key, row], no two with one key
  back,     \* columnSortIndex.backMap: the key that a row had last
  commit,   \* what the commit that holds the latch does; idle if there is none
  phase,    \* where that commit is
  sees,     \* whether it found the indexes in the registry
  builder,  \* where the goroutine that creates the indexes is
  copy,     \* what its buffer has of the column
  raced     \* history: whether a commit overlapped the copy or the backfill

indexes == <<bits, tree, back>>
transaction == <<commit, phase, sees>>
vars == <<workload, cell, indexes, transaction, builder, copy, raced>>

Idle == [op |-> "none", row |-> None, val |-> None]
Empty == [r \in Row |-> None]

Init ==
  /\ workload \in Workloads
  /\ cell = Empty
  /\ bits = {} /\ tree = {} /\ back = Empty
  /\ commit = Idle /\ phase = "load" /\ sees = FALSE
  /\ builder = "start" /\ copy = Empty /\ raced = FALSE

-----------------------------------------------------------------------------
(* Apply of the two indexes *)

Without(items, k) == {i \in items : i.key # k}

\* Items are compared by key alone.
Items(items, r, k) == Without(items, k) \cup {[key |-> k, row |-> r]}

\* Mutant of SetRow: the old key of the row is not looked up.
SetRowOnly(items, keys, r, v) == Items(items, r, v)

SetRow(items, keys, r, v) ==
  Items(IF keys[r] = None THEN items ELSE Without(items, keys[r]), r, v)

ApplyPut(r, v) ==
  /\ bits' = IF v \in Rule THEN bits \cup {r} ELSE bits \ {r}
  /\ tree' = SetRow(tree, back, r, v)
  /\ back' = [back EXCEPT ![r] = v]

\* The row stays in backMap.  A row that is not there is looked up as the
\* empty string.
ApplyDelete(r) ==
  /\ bits' = bits \ {r}
  /\ tree' = Without(tree, IF back[r] = None THEN Zero ELSE back[r])
  /\ UNCHANGED back

-----------------------------------------------------------------------------
(* A commit *)

Others(r) == {cell[q] : q \in Row \ {r}}

Latch(op, r, v) ==
  /\ commit = Idle
  /\ op \in workload.ops
  /\ op = "put" /\ workload.unique => v \notin Others(r)
  /\ commit' = [op |-> op, row |-> r, val |-> v]
  /\ raced' = (raced \/ builder = "copied")
  /\ UNCHANGED <<workload, cell, indexes, phase, sees, builder, copy>>

\* Which indexes does the commit find in the registry?  Stores reach those
\* listed with the column, deletions all that have an entry of their own.
Registered(op) ==
  builder \notin IF op = "put" THEN {"start", "named"} ELSE {"start"}

\* LoadWithIndex, or cols.Range for a deletion: one atomic load.
Load ==
  /\ commit # Idle /\ phase = "load"
  /\ phase' = "column"
  /\ sees' = Registered(commit.op)
  /\ UNCHANGED <<workload, cell, indexes, commit, builder, copy, raced>>

ApplyColumn ==
  /\ phase = "column"
  /\ phase' = "indexes"
  /\ cell' = [cell EXCEPT ![commit.row] = commit.val]
  /\ UNCHANGED <<workload, indexes, commit, sees, builder, copy, raced>>

\* Mutant of ApplyIndexes: computed columns are left out of deletions.
ApplyStores ==
  /\ phase = "indexes"
  /\ IF sees /\ commit.op = "put" THEN ApplyPut(commit.row, commit.val)
                                   ELSE UNCHANGED indexes
  /\ commit' = Idle /\ phase' = "load" /\ sees' = FALSE
  /\ UNCHANGED <<workload, cell, builder, copy, raced>>

\* Apply of the indexes, and the release of the latch.
ApplyIndexes ==
  /\ phase = "indexes"
  /\ \/ ~sees /\ UNCHANGED indexes
     \/ sees /\ commit.op = "put" /\ ApplyPut(commit.row, commit.val)
     \/ sees /\ commit.op = "delete" /\ ApplyDelete(commit.row)
  /\ commit' = Idle /\ phase' = "load" /\ sees' = FALSE
  /\ UNCHANGED <<workload, cell, builder, copy, raced>>

-----------------------------------------------------------------------------
(* CreateIndex and CreateSortIndex *)

Step(from, to) == builder = from /\ builder' = to
Overlap == raced' = (raced \/ commit # Idle)

\* The entry of the index, and then its place behind the column.
StoreIndex ==
  /\ Step("start", "named")
  /\ UNCHANGED <<workload, cell, indexes, transaction, copy, raced>>

StoreColumn ==
  /\ Step("named", "listed")
  /\ UNCHANGED <<workload, cell, indexes, transaction, copy, raced>>

\* Snapshot of the column into a buffer; no latch is taken.
CopyColumn ==
  /\ Step("listed", "copied")
  /\ copy' = cell
  /\ Overlap
  /\ UNCHANGED <<workload, cell, indexes, transaction>>

\* The keys that Apply to a row of the buffer removes or replaces.
Replaces(r) == {copy[r], back[r]}

\* Apply of that buffer: its rows in ascending order.  An item stays if no row
\* replaces its key, and a row has an item if no later row does.
Backfill ==
  LET filled == {r \in Row : copy[r] # None}
      placed == {r \in filled : \A q \in filled : q > r => copy[r] \notin Replaces(q)}
  IN  /\ Step("copied", "done")
      /\ bits' = {r \in Row : IF r \in filled THEN copy[r] \in Rule ELSE r \in bits}
      /\ tree' = {i \in tree : \A r \in filled : i.key \notin Replaces(r)}
                 \cup {[key |-> copy[r], row |-> r] : r \in placed}
      /\ back' = [r \in Row |-> IF r \in filled THEN copy[r] ELSE back[r]]
      /\ copy' = Empty
      /\ Overlap
      /\ UNCHANGED <<workload, cell, transaction>>

Next ==
  \/ \E r \in Row, v \in Val : Latch("put", r, v)
  \/ \E r \in Row : Latch("delete", r, None)
  \/ Load \/ ApplyColumn \/ ApplyIndexes
  \/ StoreIndex \/ StoreColumn \/ CopyColumn \/ Backfill

Spec == Init /\ [][Next]_vars

-----------------------------------------------------------------------------
(* Properties *)

\* Between commits, once the indexes have been created, and created while no
\* commit ran beside the copy or the backfill.
Settled == builder = "done" /\ commit = Idle /\ ~raced

\* "this computation being applied every time (a) an object is inserted into
\* the collection and (b) an value of the dependent column is updated": the
\* bitmap index has the rows whose value satisfies the predicate, wherever the
\* registration of the index fell between the steps of a commit.
BitmapIsExact == Settled => bits = {r \in Row : cell[r] \in Rule}

\* "collections support consistently sorted indexes": Ascend never visits a row
\* in the place of a value that it no longer has, and visits every row that has
\* a value as long as values are unique and rows are not deleted.  (An equal
\* value of another row takes the item's place, and the key that a deleted row
\* leaves in backMap makes the next use of the row drop the item of whichever
\* row has that value now.)
SortedFollowsColumn ==
  Settled =>
    /\ \A i \in tree : cell[i.row] = i.key
    /\ workload.unique /\ "delete" \notin workload.ops =>
         {r \in Row : cell[r] # None} \subseteq {i.row : i \in tree}
=============================================================================
