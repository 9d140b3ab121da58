------------------------------- MODULE Query -------------------------------
(***************************************************************************)
(* A transaction that queries (txn.go: With, Without, Union, WithUnion,    *)
(* WithInt; txn_lock.go: initialize, rangeRead, rangeReadPair;             *)
(* column_numeric.go: Sum, Avg, Min) while others insert, update and       *)
(* delete rows (txn.go: insert, commit, commitMarkers, commitUpdates;      *)
(* column_numbers.go: Apply).                                              *)
(*                                                                         *)
(* The query copies the fill list once and then goes through its copy,     *)
(* call by call, name by name and chunk by chunk, under the shared latch   *)
(* of the chunk only.  The collection has one numeric column and bitmap    *)
(* indexes of it.  A word of a bitmap is a chunk here, so the copy ends    *)
(* with a chunk.                                                           *)
(***************************************************************************)
EXTENDS Integers, Sequences, FiniteSets, SequencesExt

CONSTANTS
  Writer,     \* the goroutines that change rows
  Rows,       \* the rows, 0 .. n
  ChunkRows,  \* rows of a chunk (chunkSize, 16384)
  Width,      \* bits of a number
  Column,     \* the name of the column
  Rule,       \* for each index, the values that its predicate holds for
  Written,    \* the values that clients write
  Calls,      \* the calls that a query makes
  Predicate,  \* the values that the predicate of WithInt holds for
  Workloads,  \* what the clients do, a set of Workload
  None        \* no call, no result

\* What a transaction does to its row, in the order in which it is committed.
Change == {"none", "insert", "delete"} \X {"none", "put", "merge"}

\* Bounds: transactions at once and in all, and calls of the query.
Workload == [changes : SUBSET Change, atOnce : Nat, txns : Nat, calls : Nat]

Wrap(n) == n % 2^Width
Values == 0 .. 2^Width - 1

Called(c, fresh) == [op |-> c.op, names |-> c.names, fresh |-> fresh]

ASSUME QueryAssumption ==
  /\ Rows \subseteq Nat /\ ChunkRows \in Nat \ {0} /\ Width \in Nat \ {0}
  /\ \A n \in DOMAIN Rule : n # Column /\ Rule[n] \subseteq Values
  /\ 2^Width \in Nat \ {0} /\ None \notin Values
  /\ Written \subseteq Values /\ Workloads \subseteq Workload
  /\ \A c \in Calls : /\ c.op \in {"With", "Without", "Union", "WithUnion", "WithInt", "Aggregate"}
                      /\ c.names \in Seq(ToSet(c.names))
                      /\ \A fresh \in BOOLEAN : Called(c, fresh) # None

VARIABLES
  workload,  \* never changes
  fill,      \* Collection.fill
  length,    \* its length, in chunks
  has, data, \* the fill list and the values of the column
  grown,     \* how many chunks the column and the indexes have
  bits,      \* the fill lists of the indexes
  wpc,       \* where a writer is
  change,    \* what it does: to which row, with which value
  txns,      \* how many transactions the writers have begun
  setup,     \* Txn.setup
  index,     \* Txn.index
  span,      \* its length, in chunks
  call,      \* the call that the query is in
  passes,    \* the passes over the chunks that are left of it
  chunk,     \* the chunk that the pass is at
  calls,     \* how many calls the query has made
  agg,       \* the aggregates, once they have been asked for
  meant,     \* history: the rows that the calls should have selected
  misread,   \* history: whether a call was one that does not do what it says
  touched    \* history: the rows changed since the query copied the fill list

rows == <<fill, length>>
columns == <<has, data, grown, bits>>
writers == <<wpc, change, txns>>
query == <<setup, index, span, call, passes, chunk, calls, agg, meant, misread>>
vars == <<workload, rows, columns, writers, query, touched>>

ChunkAt(r) == r \div ChunkRows
Larger(a, b) == IF a >= b THEN a ELSE b

NoChange == [marker |-> "none", update |-> "none", row |-> 0, val |-> 0]

Init ==
  /\ workload \in Workloads
  /\ fill = {} /\ length = 0
  /\ has = {} /\ data = [r \in Rows |-> 0] /\ grown = 1
  /\ bits = [n \in DOMAIN Rule |-> {}]
  /\ wpc = [w \in Writer |-> "idle"] /\ change = [w \in Writer |-> NoChange] /\ txns = 0
  /\ setup = FALSE /\ index = {} /\ span = 0
  /\ call = None /\ passes = << >> /\ chunk = 0 /\ calls = 0
  /\ agg = None /\ meant = {} /\ misread = FALSE /\ touched = {}

-----------------------------------------------------------------------------
(* Transactions that change rows *)

Goto(w, from, to) == wpc[w] = from /\ wpc' = [wpc EXCEPT ![w] = to]
Latched(c) == \E w \in Writer : wpc[w] = "latched" /\ ChunkAt(change[w].row) = c
Touch(S) == touched' = IF setup THEN touched \cup S ELSE touched

\* Module FillList says which free row next() takes; here it is any that the
\* list has, or the first one behind a full list.
FreeRows ==
  LET covered == {r \in Rows : ChunkAt(r) < length}
  IN  IF covered \subseteq fill THEN {r \in Rows : r = length * ChunkRows}
      ELSE covered \ fill

\* The function that is passed to Query: an insertion reserves its row, other
\* changes are made to a row that exists at this moment.
Choose(w, marker, update, r, v) ==
  /\ Goto(w, "idle", "chosen")
  /\ <<marker, update>> \in workload.changes
  /\ Cardinality({u \in Writer : wpc[u] # "idle"}) < workload.atOnce
  /\ txns < workload.txns
  /\ IF update = "none" THEN v = 0 ELSE v \in Written
  /\ \/ /\ marker = "insert"
        /\ r \in FreeRows
        /\ fill' = fill \cup {r} /\ length' = Larger(length, ChunkAt(r) + 1)
        /\ Touch({r})
     \/ /\ marker # "insert"
        /\ r \in fill
        /\ UNCHANGED <<rows, touched>>
  /\ change' = [change EXCEPT ![w] =
                  [marker |-> marker, update |-> update, row |-> r, val |-> v]]
  /\ txns' = txns + 1
  /\ UNCHANGED <<workload, columns, query>>

\* commitCapacity()
Grow(w) ==
  LET chunks == ChunkAt(change[w].row) + 1
  IN  /\ Goto(w, "chosen", "commit")
      /\ grown' = Larger(grown, chunks) /\ length' = Larger(length, chunks)
      /\ Touch({r \in Rows : grown <= ChunkAt(r) /\ ChunkAt(r) < chunks})
      /\ UNCHANGED <<workload, fill, has, data, bits, change, txns, query>>

\* The exclusive latch, and the first half of commitMarkers().
Mark(w) ==
  LET r == change[w].row
  IN  /\ ~Latched(ChunkAt(r))
      /\ Goto(w, "commit", "latched")
      /\ fill' = CASE change[w].marker = "insert" -> fill \cup {r}
                   [] change[w].marker = "delete" -> fill \ {r}
                   [] OTHER -> fill
      /\ Touch({r})
      /\ UNCHANGED <<workload, length, columns, change, txns, query>>

Evaluated(r, v) == [n \in DOMAIN Rule |-> IF v \in Rule[n] THEN bits[n] \cup {r} ELSE bits[n] \ {r}]

\* Mutant of Applied: a merge is not cut to the width of the column.
AppliedWide(old, update, v) == IF update = "put" THEN v ELSE old + v

\* Put or Merge; a merge does not look whether there is a value.
Applied(old, update, v) == IF update = "put" THEN v ELSE Wrap(old + v)

\* Mutant of Apply: deletions are left out.
ApplyUpdates(w) ==
  LET c == change[w]
      new == Applied(data[c.row], c.update, c.val)
  IN  /\ Goto(w, "latched", "idle")
      /\ IF c.update # "none"
         THEN /\ has' = has \cup {c.row}
              /\ data' = [data EXCEPT ![c.row] = new]
              /\ bits' = Evaluated(c.row, new)
         ELSE UNCHANGED <<has, data, bits>>
      /\ Touch({c.row})
      /\ change' = [change EXCEPT ![w] = NoChange]
      /\ UNCHANGED <<workload, rows, grown, txns, query>>

\* The second half of commitMarkers(), which applies deletions to all columns
\* and keeps the data; commitUpdates(); and the release of the latch.
Apply(w) ==
  LET c == change[w]
      new == Applied(data[c.row], c.update, c.val)
  IN  /\ Goto(w, "latched", "idle")
      /\ \/ /\ c.update # "none"
            /\ has' = has \cup {c.row}
            /\ data' = [data EXCEPT ![c.row] = new]
            /\ bits' = Evaluated(c.row, new)
         \/ /\ c.update = "none" /\ c.marker = "delete"
            /\ has' = has \ {c.row}
            /\ bits' = [n \in DOMAIN Rule |-> bits[n] \ {c.row}]
            /\ UNCHANGED data
         \/ /\ c.update = "none" /\ c.marker # "delete"
            /\ UNCHANGED <<has, data, bits>>
      /\ Touch({c.row})
      /\ change' = [change EXCEPT ![w] = NoChange]
      /\ UNCHANGED <<workload, rows, grown, txns, query>>

-----------------------------------------------------------------------------
(* The query *)

Exists(n) == n = Column \/ n \in DOMAIN Rule

\* Index of a column: its fill list, as a set of rows.
Bits(n) == IF n = Column THEN has ELSE bits[n]

Over(op, names) == [op |-> op, names |-> names]

\* One pass over the chunks for each name.  A name that is not known empties
\* the selection of With, and is skipped by the others.
Each(op, names, unknown) ==
  [i \in DOMAIN names |->
     IF Exists(names[i]) THEN Over(op, {names[i]}) ELSE Over(unknown, {})]

\* Mutant: the first name of a fresh query is added to all rows.
UnionPassesAdding(names, fresh) == Each("or", names, "skip")

\* On a fresh query the first name restricts all rows; the others are added.
UnionPasses(names, fresh) ==
  [i \in DOMAIN names |->
     IF fresh /\ i = 1 THEN Each("and", names, "skip")[i] ELSE Each("or", names, "skip")[i]]

WithUnionPasses(names, fresh) ==
  IF fresh \/ Len(names) = 1 THEN UnionPasses(names, fresh)
  ELSE << Over("and", {n \in ToSet(names) : Exists(n)}) >>

Passes(c, fresh) ==
  CASE c.op = "With"      -> Each("and", c.names, "clear")
    [] c.op = "Without"   -> Each("andnot", c.names, "skip")
    [] c.op = "Union"     -> UnionPasses(c.names, fresh)
    [] c.op = "WithUnion" -> WithUnionPasses(c.names, fresh)
    [] c.op = "WithInt"   -> << Over("filter", {}) >>
    [] c.op = "Aggregate" -> << Over("aggregate", {}) >>

NoRows == [sum |-> 0, count |-> 0, min |-> None]

\* Calls that do not do what they say: a fresh union that does not begin with a
\* known name takes all rows, and WithUnion of one name adds its rows.
Misread(c, fresh) ==
  \/ c.op \in {"Union", "WithUnion"} /\ fresh /\ (c.names = << >> \/ ~Exists(Head(c.names)))
  \/ c.op = "WithUnion" /\ ~fresh /\ Len(c.names) = 1

\* initialize() at the first call, and the beginning of the call.
Enter(c) ==
  /\ call = None /\ calls < workload.calls
  /\ setup' = TRUE
  /\ index' = IF setup THEN index ELSE fill
  /\ span' = IF setup THEN span ELSE length
  /\ meant' = IF setup THEN meant ELSE fill
  /\ call' = Called(c, ~setup)
  /\ passes' = Passes(c, ~setup) /\ chunk' = 0
  /\ agg' = IF c.op = "Aggregate" THEN NoRows ELSE None
  /\ calls' = calls + 1
  /\ misread' = (misread \/ Misread(c, ~setup))
  /\ UNCHANGED <<workload, rows, columns, writers, touched>>

\* The rows of the chunk that the selection covers; the last chunk of a pass,
\* span itself, has none.
Covered == {r \in Rows : ChunkAt(r) = chunk /\ chunk < span}

\* What a pass leaves of the selection in this chunk.  Where the column has no
\* chunk there is nothing to filter by.
Selected(pass) ==
  LET here == index \cap Covered
      on == (UNION {Bits(n) : n \in pass.names}) \cap Covered
  IN  CASE pass.op = "and"       -> here \cap on
        [] pass.op = "andnot"    -> here \ on
        [] pass.op = "or"        -> here \cup on
        [] pass.op = "filter"    -> IF chunk < grown
                                    THEN {r \in here \cap has : data[r] \in Predicate}
                                    ELSE here
        [] pass.op = "aggregate" -> here

Total(S) ==
  LET sum[T \in SUBSET S] ==
        IF T = {} THEN 0 ELSE LET r == CHOOSE r \in T : TRUE IN data[r] + sum[T \ {r}]
  IN  sum[S]

Smallest(S, old) ==
  LET all == {data[r] : r \in S} \cup ({old} \ {None})
  IN  IF all = {} THEN None ELSE CHOOSE v \in all : \A u \in all : v <= u

\* Mutant of Aggregate: what is not selected is taken in as well.
AggregateAll(S) ==
  LET all == has \cap Covered
  IN  [sum |-> Wrap(agg.sum + Total(all)), count |-> agg.count + Cardinality(all),
       min |-> Smallest(all, agg.min)]

\* Sum, Min and the two parts of Avg: of the data of the selected rows, whether
\* they have a value or not.
Aggregate(S) ==
  IF chunk >= grown THEN agg
  ELSE [sum |-> Wrap(agg.sum + Total(S)), count |-> agg.count + Cardinality(S),
        min |-> Smallest(S, agg.min)]

\* rangeRead and rangeReadPair: one chunk, under its shared latch.
Visit ==
  LET pass == Head(passes)
      selected == Selected(pass)
  IN  /\ passes # << >> /\ pass.op \notin {"clear", "skip"}
      /\ ~Latched(chunk)
      /\ index' = (index \ Covered) \cup selected
      /\ agg' = IF pass.op = "aggregate" THEN Aggregate(selected) ELSE agg
      /\ chunk' = IF chunk < span THEN chunk + 1 ELSE 0
      /\ passes' = IF chunk < span THEN passes ELSE Tail(passes)
      /\ UNCHANGED <<workload, rows, columns, writers, setup, span, call, calls, meant, misread, touched>>

\* A name that is not known.
Clear ==
  /\ passes # << >>
  /\ \/ Head(passes).op = "clear" /\ index' = {}
     \/ Head(passes).op = "skip" /\ UNCHANGED index
  /\ passes' = Tail(passes)
  /\ UNCHANGED <<workload, rows, columns, writers, setup, span, call, chunk, calls, agg, meant, misread, touched>>

\* What the documentation says of a call, for row r.
In(n, r) == Exists(n) /\ r \in Bits(n)
Meant(r) ==
  LET some == \E n \in ToSet(call.names) : In(n, r)
      all == \A n \in ToSet(call.names) : In(n, r)
  IN  CASE call.op = "With"      -> r \in meant /\ all
        [] call.op = "Without"   -> r \in meant /\ ~some
        [] call.op = "Union"     -> (r \in meant /\ ~call.fresh) \/ some
        [] call.op = "WithUnion" -> r \in meant /\ some
        [] call.op = "WithInt"   -> r \in meant \cap has /\ data[r] \in Predicate
        [] call.op = "Aggregate" -> r \in meant

Return ==
  /\ call # None /\ passes = << >>
  /\ call' = None
  /\ meant' = {r \in Rows : Meant(r)}
  /\ UNCHANGED <<workload, rows, columns, writers, setup, index, span, passes, chunk, calls, agg, misread, touched>>

Next ==
  \/ \E w \in Writer :
       \/ \E ch \in Change, r \in Rows, v \in Written \cup {0} : Choose(w, ch[1], ch[2], r, v)
       \/ Grow(w) \/ Mark(w) \/ Apply(w)
  \/ \E c \in Calls : Enter(c)
  \/ Visit \/ Clear \/ Return

Spec == Init /\ [][Next]_vars

-----------------------------------------------------------------------------
(* Properties *)

TypeOK ==
  /\ workload \in Workloads
  /\ fill \subseteq Rows /\ has \subseteq Rows /\ data \in [Rows -> Values]
  /\ length \in Nat /\ grown \in Nat
  /\ \A r \in fill \cup has : ChunkAt(r) < length
  /\ \A r \in has : ChunkAt(r) < grown
  /\ bits \in [DOMAIN Rule -> SUBSET Rows]
  /\ wpc \in [Writer -> {"idle", "chosen", "commit", "latched"}]
  /\ setup \in BOOLEAN /\ span \in Nat /\ span <= length
  /\ index \subseteq {r \in Rows : ChunkAt(r) < span}
  /\ chunk \in 0 .. span /\ calls \in 0 .. workload.calls
  /\ agg # None => agg.sum \in Values /\ agg.min \in Values \cup {None}
  /\ meant \subseteq Rows /\ touched \subseteq Rows

Deleting == \E ch \in workload.changes : ch[1] = "delete"

\* Nobody updates a row that is deleted meanwhile: there are no deletions, or
\* transactions run one at a time and do not update what they delete.
Orderly ==
  Deleting => /\ workload.atOnce = 1
              /\ \A ch \in workload.changes : ch[1] = "delete" => ch[2] = "none"

Busy == {change[w].row : w \in {w \in Writer : wpc[w] = "latched"}}

\* Only rows that exist have values, and the indexes say of each value whether
\* it satisfies their predicate, except for rows that are being committed.
ValuesBelongToRows ==
  Orderly =>
    /\ has \ Busy \subseteq fill
    /\ \A n \in DOMAIN Rule : bits[n] \ Busy = {r \in has : data[r] \in Rule[n]} \ Busy

\* A row that no commit has touched since the query began is selected if and
\* only if the calls select it, however commits of other rows fall between the
\* chunks and the calls.  (A row that is only reserved, in a chunk that the
\* column has not got yet, passes every filter.)
SelectionIsExact ==
  Orderly /\ call = None /\ ~misread =>
    \A r \in Rows \ touched : ChunkAt(r) < grown => (r \in index <=> r \in meant)

\* An aggregate is that of the values of the selected rows, if nothing was
\* committed meanwhile and no row was ever deleted; the sum also if some of the
\* rows have no value.
AggregatesAreExact ==
  agg # None /\ call = None /\ touched = {} /\ ~Deleting =>
    LET valued == index \cap has
    IN  /\ agg.sum = Wrap(Total(valued))
        /\ index \subseteq has =>
             agg.count = Cardinality(index) /\ agg.min = Smallest(index, None)
=============================================================================
