----------------------------- MODULE IndexProofs -----------------------------
(***************************************************************************)
(* Theorems about the bitmap index and the sorted index of a column, for   *)
(* every number of rows and values and every predicate.                    *)
(*                                                                         *)
(* As long as no commit has overlapped the copy or the backfill, a commit  *)
(* that has missed the indexes found them empty and leaves them so         *)
(* (UnseenInv), and what the indexes say of a row agrees with the column   *)
(* (BitsInv, TreeInv) but for the row of a commit that has changed the     *)
(* column and not the indexes yet.                                         *)
(***************************************************************************)
EXTENDS Index, TLAPS

USE IndexAssumption

-----------------------------------------------------------------------------
(* The invariant *)

Cells == [Row -> Val \cup {None}]
Item == [key : Val, row : Row]
Commits ==
  {Idle} \cup [op : {"put"}, row : Row, val : Val]
         \cup [op : {"delete"}, row : Row, val : {None}]

Types ==
  /\ workload \in Workloads
  /\ cell \in Cells /\ back \in Cells /\ copy \in Cells
  /\ bits \subseteq Row /\ tree \subseteq Item
  /\ commit \in Commits /\ commit.op \in workload.ops \cup {"none"}
  /\ phase \in {"load", "column", "indexes"} /\ (phase # "load" => commit # Idle)
  /\ phase = "indexes" => cell[commit.row] = commit.val
  /\ sees \in BOOLEAN /\ (phase = "load" => ~sees)
  /\ builder \in {"start", "named", "listed", "copied", "done"}

Blank == bits = {} /\ tree = {} /\ back = Empty

\* What the goroutine that creates the indexes has done, and what commits that
\* began before that leave to it.
UnseenInv ==
  /\ builder \in {"start", "named"} => Blank /\ (sees => commit.op = "delete")
  /\ phase # "load" /\ ~sees => Blank /\ builder \in {"start", "named", "listed"}
  /\ builder = "copied" => commit = Idle /\ copy = cell

\* The row whose cell is ahead of the indexes.
Ahead(r) == phase = "indexes" /\ commit.row = r

BitsInv ==
  \A r \in Row : ~Ahead(r) =>
    /\ r \in bits => cell[r] \in Rule
    /\ builder = "done" /\ cell[r] \in Rule => r \in bits

TreeInv ==
  \A i \in tree : back[i.row] = i.key /\ (~Ahead(i.row) => cell[i.row] = i.key)

\* Values are unique and are only overwritten.
Plain == workload.unique /\ "delete" \notin workload.ops

PlainInv ==
  /\ \A r, q \in Row : r # q /\ cell[r] # None => cell[r] # cell[q]
  /\ commit # Idle => commit.val \notin Others(commit.row)
  /\ \A r, q \in Row : r # q /\ back[r] # None => back[r] # cell[q]
  /\ \A r \in Row : ~Ahead(r) /\ back[r] # None => back[r] = cell[r]
  /\ builder = "done" =>
       \A r \in Row : ~Ahead(r) /\ cell[r] # None => [key |-> cell[r], row |-> r] \in tree

Inv == Types /\ (~raced => UnseenInv /\ BitsInv /\ TreeInv /\ (Plain => PlainInv))


LEMMA InitInv == ASSUME Init PROVE Inv
<1>1. Types
  BY DEF Init, Types, Empty, Cells, Commits, Idle
<1>2. UnseenInv /\ BitsInv /\ TreeInv /\ PlainInv
  BY DEF Init, UnseenInv, Blank, BitsInv, TreeInv, PlainInv, Ahead, Empty
<1>3. QED
  BY <1>1, <1>2 DEF Inv

\* A commit is a store or a deletion.
LEMMA CommitTypes ==
  ASSUME Types, commit # Idle
  PROVE  /\ commit.row \in Row
         /\ \/ commit.op = "put" /\ commit.val \in Val
            \/ commit.op = "delete" /\ commit.val = None
BY DEF Types, Commits

-----------------------------------------------------------------------------
(* The steps of a commit *)

LEMMA LatchStep ==
  ASSUME Inv, NEW r \in Row,
         NEW op, NEW v, Latch(op, r, v), (op = "put" /\ v \in Val) \/ (op = "delete" /\ v = None)
  PROVE  Inv'
<1>0. /\ commit = Idle /\ commit' = [op |-> op, row |-> r, val |-> v] /\ op \in workload.ops
      /\ op = "put" /\ workload.unique => v \notin Others(r)
      /\ raced' = (raced \/ builder = "copied")
      /\ UNCHANGED <<workload, cell, bits, tree, back, phase, sees, builder, copy>>
  BY DEF Latch, indexes
<1>1. commit' \in Commits /\ commit' # Idle /\ commit'.op \in workload.ops /\ phase = "load"
  BY <1>0 DEF Commits, Idle, Inv, Types
<1>2. Types'
  BY <1>0, <1>1 DEF Inv, Types
<1>3. ASSUME ~raced' PROVE UnseenInv' /\ BitsInv' /\ TreeInv' /\ (Plain => PlainInv)'
  <2>1. ~raced /\ builder # "copied"
    BY <1>3, <1>0 DEF Inv, Types
  <2>2. UnseenInv'
    BY <2>1, <1>0, <1>1 DEF Inv, Types, UnseenInv, Blank
  <2>3. BitsInv' /\ TreeInv'
    BY <2>1, <1>0, <1>1 DEF Inv, BitsInv, TreeInv, Ahead
  <2>4. ASSUME Plain PROVE PlainInv'
    <3>1. op = "put" /\ v \notin Others(r) /\ PlainInv
      BY <2>1, <2>4, <1>0 DEF Inv, Plain
    <3>2. QED
      BY <3>1, <1>0, <1>1 DEF PlainInv, Others, Ahead
  <2>5. Plain' = Plain
    BY <1>0 DEF Plain
  <2>6. QED
    BY <2>2, <2>3, <2>4, <2>5
<1>4. QED
  BY <1>2, <1>3 DEF Inv

LEMMA LoadStep == ASSUME Inv, Load PROVE Inv'
<1>0. /\ commit # Idle /\ phase = "load" /\ phase' = "column"
      /\ sees' = Registered(commit.op)
      /\ UNCHANGED <<workload, cell, bits, tree, back, commit, builder, copy, raced>>
  BY DEF Load, indexes
<1>1. sees' \in BOOLEAN
  BY <1>0 DEF Registered
<1>2. Types'
  BY <1>0, <1>1 DEF Inv, Types
<1>3. ASSUME ~raced PROVE UnseenInv' /\ BitsInv' /\ TreeInv' /\ (Plain => PlainInv)'
  <2>1. UnseenInv'
    BY <1>0, <1>3, CommitTypes DEF Inv, Types, UnseenInv, Blank, Registered
  <2>2. BitsInv' /\ TreeInv'
    BY <1>0, <1>3 DEF Inv, BitsInv, TreeInv, Ahead
  <2>3. (Plain => PlainInv)'
    BY <1>0, <1>3 DEF Inv, Plain, PlainInv, Others, Ahead
  <2>4. QED
    BY <2>1, <2>2, <2>3
<1>4. QED
  BY <1>0, <1>2, <1>3 DEF Inv

LEMMA ApplyColumnStep == ASSUME Inv, ApplyColumn PROVE Inv'
<1>0. /\ phase = "column" /\ phase' = "indexes"
      /\ cell' = [cell EXCEPT ![commit.row] = commit.val]
      /\ UNCHANGED <<workload, bits, tree, back, commit, sees, builder, copy, raced>>
  BY DEF ApplyColumn, indexes
<1>1. /\ commit # Idle /\ commit.row \in Row /\ commit.val \in Val \cup {None}
      /\ cell \in Cells
  BY <1>0, CommitTypes DEF Inv, Types
<1>2. cell' \in Cells /\ \A r \in Row : cell'[r] = IF r = commit.row THEN commit.val ELSE cell[r]
  BY <1>0, <1>1 DEF Cells
<1>3. Types'
  BY <1>0, <1>1, <1>2 DEF Inv, Types
<1>4. ASSUME ~raced PROVE UnseenInv' /\ BitsInv' /\ TreeInv' /\ (Plain => PlainInv)'
  <2>1. UnseenInv'
    BY <1>0, <1>1, <1>4 DEF Inv, UnseenInv, Blank
  <2>2. BitsInv'
    BY <1>0, <1>2, <1>4 DEF Inv, BitsInv, Ahead
  <2>3. TreeInv'
    BY <1>0, <1>2, <1>4 DEF Inv, Types, Item, TreeInv, Ahead
  <2>4. ASSUME Plain PROVE PlainInv'
    <3>1. PlainInv
      BY <2>4, <1>4 DEF Inv
    <3>2. \A q \in Row : q # commit.row => cell[q] # commit.val
      BY <3>1, <1>1 DEF PlainInv, Others
    <3>3. commit'.val \notin Others(commit.row)'
      <4>1. \A q \in Row \ {commit.row} : cell'[q] # commit.val
        BY <3>2, <1>2
      <4>2. commit' = commit
        BY <1>0
      <4>3. QED
        BY <4>1, <4>2 DEF Others
    <3>5. \A r \in Row : ~Ahead(r)
      BY <1>0 DEF Ahead
    <3>6. \A r, q \in Row : r # q /\ cell'[r] # None => cell'[r] # cell'[q]
      BY <3>1, <3>2, <1>2 DEF PlainInv
    <3>7. \A r, q \in Row : r # q /\ back[r] # None => back[r] # cell'[q]
      BY <3>1, <3>2, <3>5, <1>2 DEF PlainInv
    <3>8. \A r \in Row : ~Ahead(r)' => r # commit.row
      BY <1>0 DEF Ahead
    <3>9. \A r \in Row : ~Ahead(r)' /\ back[r] # None => back[r] = cell'[r]
      BY <1>2, <3>1, <3>5, <3>8 DEF PlainInv
    <3>10. builder = "done" =>
             \A r \in Row : ~Ahead(r)' /\ cell'[r] # None => [key |-> cell'[r], row |-> r] \in tree
      BY <1>2, <3>1, <3>5, <3>8 DEF PlainInv
    <3>11. QED
      BY <1>0, <3>3, <3>6, <3>7, <3>9, <3>10 DEF PlainInv
  <2>5. Plain' = Plain
    BY <1>0 DEF Plain
  <2>6. QED
    BY <2>1, <2>2, <2>3, <2>4, <2>5
<1>5. QED
  BY <1>0, <1>3, <1>4 DEF Inv

\* Apply of the indexes to a store.
LEMMA ApplyPutStep ==
  ASSUME Inv, phase = "indexes", sees, commit.op = "put", ApplyPut(commit.row, commit.val),
         commit' = Idle, phase' = "load", sees' = FALSE,
         UNCHANGED <<workload, cell, builder, copy, raced>>
  PROVE  Inv'
<1> DEFINE r == commit.row
           v == commit.val
<1>0. r \in Row /\ v \in Val /\ commit # Idle /\ workload \in Workloads /\ raced' = raced
  BY CommitTypes DEF Inv, Types
<1>1. cell \in Cells /\ back \in Cells /\ tree \subseteq Item /\ bits \subseteq Row
  BY DEF Inv, Types
<1>2. /\ bits' = IF v \in Rule THEN bits \cup {r} ELSE bits \ {r}
      /\ tree' = {i \in tree : (back[r] # None => i.key # back[r]) /\ i.key # v}
                   \cup {[key |-> v, row |-> r]}
      /\ back' = [back EXCEPT ![r] = v]
  BY DEF ApplyPut, SetRow, Items, Without
<1> HIDE DEF r, v
<1>3. Types'
  <2>1. tree' \subseteq Item /\ bits' \subseteq Row /\ back' \in Cells
    BY <1>0, <1>1, <1>2 DEF Item, Cells
  <2>2. QED
    BY <2>1, <1>0 DEF Inv, Types, Commits, Idle
<1>4. ASSUME ~raced PROVE UnseenInv' /\ BitsInv' /\ TreeInv' /\ (Plain => PlainInv)'
  <2>0. builder \in {"listed", "done"} /\ cell[r] = v /\ UnseenInv /\ BitsInv /\ TreeInv
    BY <1>0, <1>4 DEF Inv, Types, UnseenInv, r, v
  <2>1. UnseenInv'
    BY <2>0 DEF UnseenInv
  <2>2. BitsInv'
    BY <2>0, <1>0, <1>2 DEF BitsInv, Ahead, r
  <2>3. TreeInv'
    BY <2>0, <1>0, <1>1, <1>2 DEF TreeInv, Ahead, Item, Cells, r
  <2>4. ASSUME Plain PROVE PlainInv'
    <3>1. PlainInv
      BY <2>4, <1>4 DEF Inv
    <3>2. \A q \in Row : q # r => cell[q] # v
      BY <3>1, <1>0 DEF PlainInv, Others, r, v
    <3>3. /\ \A q \in Row : q # r => back'[q] = back[q] /\ ~Ahead(q)
          /\ back'[r] = v
      BY <1>0, <1>1, <1>2 DEF Cells, Ahead, r
    <3>4. \A p, q \in Row : p # q /\ back'[p] # None => back'[p] # cell[q]
      BY <3>1, <3>2, <3>3, <1>0 DEF PlainInv
    <3>5. \A q \in Row : back'[q] # None => back'[q] = cell[q]
      BY <3>1, <3>3, <2>0 DEF PlainInv
    <3>6. ASSUME builder = "done", NEW q \in Row, cell[q] # None
          PROVE  [key |-> cell[q], row |-> q] \in tree'
      <4>1. CASE q = r
        BY <4>1, <2>0, <1>2
      <4>2. CASE q # r
        <5>1. [key |-> cell[q], row |-> q] \in tree
          BY <4>2, <3>1, <3>3, <3>6 DEF PlainInv
        <5>2. cell[q] # v /\ (back[r] # None => cell[q] # back[r])
          BY <4>2, <3>1, <3>2, <1>0 DEF PlainInv
        <5>3. QED
          BY <5>1, <5>2, <1>2
      <4>3. QED
        BY <4>1, <4>2
    <3>7. \A p, q \in Row : p # q /\ cell[p] # None => cell[p] # cell[q]
      BY <3>1 DEF PlainInv
    <3>8. QED
      BY <3>4, <3>5, <3>6, <3>7 DEF PlainInv
  <2>5. Plain' = Plain
    BY DEF Plain
  <2>6. QED
    BY <2>1, <2>2, <2>3, <2>4, <2>5
<1>5. QED
  BY <1>0, <1>3, <1>4 DEF Inv

\* Apply of the indexes to a deletion.
LEMMA ApplyDeleteStep ==
  ASSUME Inv, phase = "indexes", sees, commit.op = "delete", ApplyDelete(commit.row),
         commit' = Idle, phase' = "load", sees' = FALSE,
         UNCHANGED <<workload, cell, builder, copy, raced>>
  PROVE  Inv'
<1> DEFINE r == commit.row
<1>0. r \in Row /\ commit.val = None /\ commit # Idle /\ raced' = raced
  BY CommitTypes DEF Inv, Types
<1>1. cell \in Cells /\ back \in Cells /\ tree \subseteq Item /\ bits \subseteq Row
  BY DEF Inv, Types
<1>2. /\ bits' = bits \ {r} /\ back' = back
      /\ tree' = {i \in tree : i.key # (IF back[r] = None THEN Zero ELSE back[r])}
  BY DEF ApplyDelete, Without
<1>a. cell[r] = None
  BY <1>0 DEF Inv, Types
<1> HIDE DEF r
<1>3. Types'
  BY <1>0, <1>1, <1>2 DEF Inv, Types, Commits, Idle
<1>4. ASSUME ~raced PROVE UnseenInv' /\ BitsInv' /\ TreeInv' /\ (Plain => PlainInv)'
  <2>0. UnseenInv /\ BitsInv /\ TreeInv
    BY <1>4 DEF Inv
  <2>1. UnseenInv'
    BY <2>0, <1>0, <1>2 DEF UnseenInv, Blank
  <2>2. BitsInv'
    BY <2>0, <1>a, <1>2 DEF BitsInv, Ahead, r
  <2>3. \A i \in tree' : i \in tree /\ i.row # r
    BY <2>0, <1>0, <1>1, <1>2 DEF TreeInv, Item
  <2>4. TreeInv'
    BY <2>0, <2>3, <1>2 DEF TreeInv, Ahead, r
  <2>5. ~Plain'
    BY <1>0 DEF Plain, Inv, Types
  <2>6. QED
    BY <2>1, <2>2, <2>4, <2>5
<1>5. QED
  BY <1>0, <1>3, <1>4 DEF Inv

LEMMA ApplyIndexesStep == ASSUME Inv, ApplyIndexes PROVE Inv'
<1>0. /\ phase = "indexes" /\ commit' = Idle /\ phase' = "load" /\ sees' = FALSE
      /\ UNCHANGED <<workload, cell, builder, copy, raced>>
  BY DEF ApplyIndexes
<1>1. CASE ~sees /\ UNCHANGED indexes
  <2>0. UNCHANGED <<bits, tree, back>>
    BY <1>1 DEF indexes
  <2>1. Types'
    BY <1>0, <2>0 DEF Inv, Types, Commits, Idle
  <2>2. ASSUME ~raced PROVE UnseenInv' /\ BitsInv' /\ TreeInv' /\ (Plain => PlainInv)'
    <3>1. Blank /\ builder \in {"start", "named", "listed"}
      BY <2>2, <1>0, <1>1 DEF Inv, UnseenInv
    <3>2. UnseenInv' /\ BitsInv' /\ TreeInv'
      BY <3>1, <1>0, <2>0 DEF UnseenInv, BitsInv, TreeInv, Blank
    <3>3. (Plain => PlainInv)'
      BY <3>1, <2>2, <1>0, <2>0 DEF Inv, Plain, PlainInv, Blank, Empty
    <3>4. QED
      BY <3>2, <3>3
  <2>3. QED
    BY <1>0, <2>1, <2>2 DEF Inv
<1>2. CASE sees /\ commit.op = "put" /\ ApplyPut(commit.row, commit.val)
  BY <1>0, <1>2, ApplyPutStep
<1>3. CASE sees /\ commit.op = "delete" /\ ApplyDelete(commit.row)
  BY <1>0, <1>3, ApplyDeleteStep
<1>4. QED
  BY <1>1, <1>2, <1>3 DEF ApplyIndexes

-----------------------------------------------------------------------------
(* The steps of CreateIndex and CreateSortIndex *)

LEMMA StoreStep == ASSUME Inv, StoreIndex \/ StoreColumn \/ UNCHANGED vars PROVE Inv'
<1>0. /\ UNCHANGED <<workload, cell, bits, tree, back, commit, phase, sees, copy, raced>>
      /\ builder' = builder \/ (builder = "start" /\ builder' = "named")
           \/ (builder = "named" /\ builder' = "listed")
  BY DEF StoreIndex, StoreColumn, Step, vars, indexes, transaction
<1>1. Types'
  BY <1>0 DEF Inv, Types
<1>2. ASSUME ~raced PROVE UnseenInv' /\ BitsInv' /\ TreeInv' /\ (Plain => PlainInv)'
  BY <1>0, <1>2 DEF Inv, UnseenInv, Blank, BitsInv, TreeInv, Plain, PlainInv, Others, Ahead
<1>3. QED
  BY <1>0, <1>1, <1>2 DEF Inv

LEMMA CopyColumnStep == ASSUME Inv, CopyColumn PROVE Inv'
<1>0. /\ builder = "listed" /\ builder' = "copied" /\ copy' = cell
      /\ raced' = (raced \/ commit # Idle)
      /\ UNCHANGED <<workload, cell, bits, tree, back, commit, phase, sees>>
  BY DEF CopyColumn, Step, Overlap, indexes, transaction
<1>1. Types'
  BY <1>0 DEF Inv, Types
<1>2. ASSUME ~raced' PROVE UnseenInv' /\ BitsInv' /\ TreeInv' /\ (Plain => PlainInv)'
  <2>1. ~raced /\ commit = Idle /\ phase = "load"
    BY <1>0, <1>2 DEF Inv, Types
  <2>2. UnseenInv'
    BY <1>0, <2>1 DEF UnseenInv
  <2>3. BitsInv' /\ TreeInv' /\ (Plain => PlainInv)'
    BY <1>0, <2>1 DEF Inv, BitsInv, TreeInv, Plain, PlainInv, Others, Ahead
  <2>4. QED
    BY <2>2, <2>3
<1>3. QED
  BY <1>1, <1>2 DEF Inv

LEMMA BackfillStep == ASSUME Inv, Backfill PROVE Inv'
<1> DEFINE filled == {r \in Row : copy[r] # None}
           placed == {r \in filled : \A q \in filled : q > r => copy[r] \notin Replaces(q)}
<1>0. /\ builder = "copied" /\ builder' = "done"
      /\ bits' = {r \in Row : IF r \in filled THEN copy[r] \in Rule ELSE r \in bits}
      /\ tree' = {i \in tree : \A r \in filled : i.key \notin Replaces(r)}
                   \cup {[key |-> copy[r], row |-> r] : r \in placed}
      /\ back' = [r \in Row |-> IF r \in filled THEN copy[r] ELSE back[r]]
      /\ copy' = Empty
      /\ raced' = (raced \/ commit # Idle)
      /\ UNCHANGED <<workload, cell, commit, phase, sees>>
  BY DEF Backfill, Step, Overlap, transaction
<1>1. /\ cell \in Cells /\ back \in Cells /\ copy \in Cells /\ tree \subseteq Item
      /\ placed \subseteq filled /\ filled \subseteq Row
      /\ \A r \in Row : r \in filled <=> copy[r] # None
      /\ \A r \in filled : copy[r] \in Val
  BY DEF Inv, Types, Cells
<1>a. \A r \in filled : r \in placed \/ \E q \in filled : q > r /\ copy[r] \in Replaces(q)
  OBVIOUS
<1> HIDE DEF filled, placed
<1>2. Types'
  <2>1. tree' \subseteq Item
    BY <1>0, <1>1 DEF Item
  <2>2. back' \in Cells /\ copy' \in Cells /\ bits' \subseteq Row
    BY <1>0, <1>1 DEF Cells, Empty
  <2>3. QED
    BY <1>0, <2>1, <2>2 DEF Inv, Types
<1>3. ASSUME ~raced' PROVE UnseenInv' /\ BitsInv' /\ TreeInv' /\ (Plain => PlainInv)'
  <2>1. ~raced /\ commit = Idle /\ phase = "load" /\ copy = cell
    BY <1>0, <1>3 DEF Inv, Types, UnseenInv
  <2>2. BitsInv /\ TreeInv /\ (\A r \in Row : ~Ahead(r) /\ ~Ahead(r)')
    BY <1>0, <2>1 DEF Inv, Ahead
  <2>3. UnseenInv'
    BY <1>0, <2>1 DEF UnseenInv
  <2>4. BitsInv'
    BY <1>0, <1>1, <2>1, <2>2 DEF BitsInv
  <2>5. \A i \in tree' : i.row \in filled /\ i.key = copy[i.row]
    <3>1. ASSUME NEW i \in tree, \A r \in filled : i.key \notin Replaces(r) PROVE FALSE
      <4>1. i.row \in Row /\ i.key \in Val /\ back[i.row] = i.key /\ cell[i.row] = i.key
        BY <1>1, <2>2 DEF TreeInv, Item
      <4>2. i.row \in filled /\ i.key \in Replaces(i.row)
        BY <4>1, <1>1, <2>1 DEF Replaces
      <4>3. QED
        BY <3>1, <4>2
    <3>2. QED
      BY <3>1, <1>0, <1>1
  <2>6. TreeInv'
    BY <2>5, <1>0, <1>1, <2>1 DEF TreeInv
  <2>7. ASSUME Plain PROVE PlainInv'
    <3>1. PlainInv
      BY <2>7, <2>1 DEF Inv
    <3>2. placed = filled
      <4>1. ASSUME NEW r \in filled, NEW q \in filled, q > r PROVE copy[r] \notin Replaces(q)
        <5>1. q # r /\ q \in Row /\ r \in Row
          BY <4>1, <1>1
        <5>2. cell[r] # cell[q] /\ cell[r] # back[q]
          BY <5>1, <3>1, <1>1, <2>1 DEF PlainInv
        <5>3. QED
          BY <5>2, <2>1 DEF Replaces
      <4>2. QED
        BY <4>1, <1>1, <1>a
    <3>3. \A r \in Row : cell[r] # None => [key |-> cell[r], row |-> r] \in tree'
      BY <3>2, <1>0, <1>1, <2>1
    <3>4. \A r \in Row : back'[r] # None => back'[r] = cell[r]
      BY <3>1, <1>0, <1>1, <2>1, <2>2 DEF PlainInv
    <3>5. \A r, q \in Row : r # q /\ cell[r] # None => cell[r] # cell[q]
      BY <3>1 DEF PlainInv
    <3>6. QED
      BY <3>3, <3>4, <3>5, <1>0, <2>1 DEF PlainInv
  <2>8. Plain' = Plain
    BY <1>0 DEF Plain
  <2>9. QED
    BY <2>3, <2>4, <2>6, <2>7, <2>8
<1>4. QED
  BY <1>2, <1>3 DEF Inv

LEMMA NextInv == ASSUME Inv, [Next]_vars PROVE Inv'
<1>1. ASSUME NEW r \in Row, NEW v \in Val, Latch("put", r, v) PROVE Inv'
  BY <1>1, LatchStep
<1>2. ASSUME NEW r \in Row, Latch("delete", r, None) PROVE Inv'
  BY <1>2, LatchStep
<1>3. QED
  BY <1>1, <1>2, LoadStep, ApplyColumnStep, ApplyIndexesStep, StoreStep, CopyColumnStep,
     BackfillStep DEF Next

-----------------------------------------------------------------------------
(* The theorems *)

\* The invariant holds throughout.
THEOREM Invariance == Spec => []Inv
<1>1. Init => Inv
  BY InitInv
<1>2. Inv /\ [Next]_vars => Inv'
  BY NextInv
<1>3. QED
  BY <1>1, <1>2, PTL DEF Spec

\* A bitmap index has the rows whose value satisfies the predicate, wherever its
\* registration fell between the steps of commits.
THEOREM BitmapsAreExact == Spec => []BitmapIsExact
<1>1. Inv => BitmapIsExact
  <2>1. ASSUME Inv, Settled PROVE bits = {r \in Row : cell[r] \in Rule}
    <3>1. phase = "load" /\ bits \subseteq Row /\ BitsInv /\ builder = "done"
      BY <2>1 DEF Inv, Types, Settled
    <3>2. QED
      BY <3>1 DEF BitsInv, Ahead
  <2>2. QED
    BY <2>1 DEF BitmapIsExact
<1>2. QED
  BY <1>1, Invariance, PTL

\* A sorted index visits no row in the place of a value that it no longer has,
\* and every row as long as values are unique and only overwritten.
THEOREM SortedFollows == Spec => []SortedFollowsColumn
<1>1. Inv => SortedFollowsColumn
  <2>1. ASSUME Inv, Settled
        PROVE  /\ \A i \in tree : cell[i.row] = i.key
               /\ Plain => {r \in Row : cell[r] # None} \subseteq {i.row : i \in tree}
    <3>1. phase = "load" /\ TreeInv /\ (Plain => PlainInv) /\ builder = "done"
      BY <2>1 DEF Inv, Types, Settled
    <3>2. \A i \in tree : cell[i.row] = i.key
      BY <3>1 DEF TreeInv, Ahead
    <3>3. ASSUME Plain, NEW r \in Row, cell[r] # None PROVE r \in {i.row : i \in tree}
      <4>1. [key |-> cell[r], row |-> r] \in tree
        BY <3>1, <3>3 DEF PlainInv, Ahead
      <4>2. QED
        BY <4>1
    <3>4. QED
      BY <3>2, <3>3
  <2>2. QED
    BY <2>1 DEF SortedFollowsColumn, Plain
<1>2. QED
  BY <1>1, Invariance, PTL
=============================================================================
