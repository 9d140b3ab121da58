--------------------------- MODULE FillListProofs ---------------------------
(* Theorems about the fill list, for every number of transactions and rows.  *)
EXTENDS FillList, TLAPS, FiniteSetTheorems, WellFoundedInduction, SequenceTheorems

USE FillListAssumption

-----------------------------------------------------------------------------
(* Numbers *)

\* A non-empty set of numbers has a least element.
LEMMA LeastExists ==
  ASSUME NEW S \in SUBSET Nat, S # {}
  PROVE  \E x \in S : \A y \in S : x <= y
<1>1. PICK x \in S : \A y \in S : ~(<<y, x>> \in OpToRel(<, Nat))
  BY NatLessThanWellFounded, WFMin, Zenon
<1>2. ASSUME NEW y \in S, y < x PROVE FALSE
  <2>1. <<y, x>> \in Nat \X Nat /\ <<y, x>>[1] < <<y, x>>[2]
    BY <1>2
  <2>2. <<y, x>> \in OpToRel(<, Nat)
    BY <2>1, Zenon DEF OpToRel
  <2>3. QED
    BY <1>1, <2>2, Zenon
<1>3. QED
  BY <1>2

\* A bounded one has a greatest element.
LEMMA GreatestExists ==
  ASSUME NEW n \in Nat, NEW S \in SUBSET (0 .. n), S # {}
  PROVE  \E x \in S : \A y \in S : y <= x
<1> DEFINE T == {n - x : x \in S}
<1>1. T \in SUBSET Nat /\ T # {}
  <2>1. \A x \in S : n - x \in Nat
    OBVIOUS
  <2>2. QED
    BY <2>1, Zenon
<1>2. PICK z \in T : \A y \in T : z <= y
  BY <1>1, LeastExists
<1>3. PICK x \in S : z = n - x
  OBVIOUS
<1>4. \A y \in S : n - x <= n - y
  BY <1>2, <1>3
<1>5. \A y \in S : y <= x
  BY <1>4
<1>6. QED
  BY <1>5

\* Division of a row number by the size of a word or of a chunk.
LEMMA Division ==
  ASSUME NEW n \in Nat, NEW d \in Nat \ {0}
  PROVE  n \div d \in Nat /\ (n \div d) * d <= n /\ n < (n \div d + 1) * d
OBVIOUS

\* A set of numbers below n that lacks none of them has n elements.
LEMMA FullPrefix ==
  ASSUME NEW n \in Nat, NEW S, IsFiniteSet(S), 0 .. n - 1 \subseteq S
  PROVE  n <= Cardinality(S)
<1>1. Cardinality(0 .. n - 1) = n
  BY FS_Interval
<1>2. QED
  BY <1>1, FS_Subset, FS_CardinalityType

-----------------------------------------------------------------------------
(* The operators of the free-row search *)

LEMMA LowestProperty ==
  ASSUME NEW S \in SUBSET Nat, S # {}
  PROVE  Lowest(S) \in S /\ \A y \in S : Lowest(S) <= y
BY LeastExists DEF Lowest

LEMMA RowsFinite == IsFiniteSet(Rows)
<1>1. 0 \in Int /\ MaxRows - 1 \in Int
  OBVIOUS
<1>2. QED
  BY <1>1, FS_Interval DEF Rows

\* Setting a bit never shrinks the bitmap and always makes room for the bit.
LEMMA WordsForCovers ==
  ASSUME words \in Nat, NEW r \in Nat
  PROVE  /\ WordsFor(r) \in Nat /\ words <= WordsFor(r)
         /\ Capacity <= WordsFor(r) * WordBits
         /\ r < WordsFor(r) * WordBits
<1> DEFINE w == r \div WordBits + 1
<1>1. w \in Nat /\ r < w * WordBits
  BY Division
<1>2. WordsFor(r) \in {words, w} /\ words <= WordsFor(r) /\ w <= WordsFor(r)
  BY <1>1 DEF WordsFor, Larger
<1>3. \A a, b \in Nat : a <= b => a * WordBits <= b * WordBits
  OBVIOUS
<1>4. QED
  BY <1>1, <1>2, <1>3 DEF Capacity

\* The search finds a free row whenever the counter is the population.  The
\* case that matters is the last one: MinZero cannot come back empty-handed
\* and send the caller to row 0, since a full bitmap holds Capacity rows.
LEMMA FindsFreeRow ==
  ASSUME TypeOK, count = Cardinality(fill)
  PROVE  FindFreeIndex(count + 1) \notin fill
<1> DEFINE n == count + 1
           tail == FreeIn(WordRows((n - 1) \div WordBits))
           zeros == FreeIn(0 .. Capacity - 1)
<1>1. n \in Nat /\ Capacity \in Nat /\ IsFiniteSet(fill)
  BY RowsFinite, FS_Subset DEF TypeOK, Types, Capacity
<1>2. CASE n > Capacity
  <2>1. FindFreeIndex(n) = Capacity
    BY <1>2 DEF FindFreeIndex
  <2>2. Capacity \notin fill
    BY <1>1 DEF TypeOK, Types, Rows
  <2>3. QED
    BY <2>1, <2>2
<1>3. CASE ~(n > Capacity) /\ tail # {}
  <2>1. tail \in SUBSET Nat
    <3>1. (n - 1) \div WordBits \in Nat
      BY <1>1, Division DEF TypeOK, Types
    <3>2. \A w \in Nat : w * WordBits \in Nat
      OBVIOUS
    <3>3. QED
      BY <3>1, <3>2 DEF FreeIn, WordRows
  <2>2. FindFreeIndex(n) = Lowest(tail)
    BY <1>3 DEF FindFreeIndex
  <2>3. QED
    BY <1>3, <2>1, <2>2, LowestProperty DEF FreeIn
<1>4. CASE ~(n > Capacity) /\ tail = {}
  <2>1. zeros # {}
    <3>1. SUFFICES ASSUME zeros = {} PROVE FALSE
      OBVIOUS
    <3>2. 0 .. Capacity - 1 \subseteq fill
      BY <3>1 DEF FreeIn
    <3>3. Capacity <= Cardinality(fill)
      BY <1>1, <3>2, FullPrefix
    <3>4. QED
      BY <1>1, <1>4, <3>3 DEF TypeOK, Types
  <2>2. zeros \in SUBSET Nat
    BY DEF FreeIn
  <2>3. FindFreeIndex(n) = Lowest(zeros)
    BY <1>4, <2>1 DEF FindFreeIndex, MinZero
  <2>4. QED
    BY <2>1, <2>2, <2>3, LowestProperty DEF FreeIn
<1>5. QED
  BY <1>2, <1>3, <1>4
-----------------------------------------------------------------------------
(* Markers *)

\* The markers that DeleteAt and DeleteAll add: a sequence of deletions of
\* the rows that were selected.
LEMMA DeletionsType ==
  ASSUME NEW S \in SUBSET Rows
  PROVE  /\ Deletions(S) \in Seq(Marker)
         /\ \A i \in DOMAIN Deletions(S) : Deletions(S)[i].row \in S
<1> DEFINE n == Cardinality(S)
           Numbering(s) == /\ s \in [1 .. n -> S]
                           /\ \A i, j \in DOMAIN s : s[i] = s[j] => i = j
           order == CHOOSE s \in [1 .. n -> S] :
                      \A i, j \in DOMAIN s : s[i] = s[j] => i = j
<1>1. IsFiniteSet(S)
  BY RowsFinite, FS_Subset
<1>2. n \in Nat
  BY <1>1, FS_CardinalityType
<1>3. \E s : Numbering(s)
  BY <1>1, FS_CardinalityType DEF ExistsBijection, Bijection, Injection, IsInjective
<1>4. order \in [1 .. n -> S]
  BY <1>3
<1>5. Deletions(S) = [i \in 1 .. n |-> [op |-> "delete", row |-> order[i]]]
  BY <1>4 DEF Deletions
<1>6. \A i \in 1 .. n : [op |-> "delete", row |-> order[i]] \in Marker
  BY <1>4 DEF Marker
<1>7. QED
  <2>1. Deletions(S) \in [1 .. n -> Marker]
    BY <1>5, <1>6
  <2>2. Deletions(S) \in Seq(Marker)
    BY <1>2, <2>1, SeqDef
  <2>3. \A i \in 1 .. n : Deletions(S)[i].row = order[i] /\ order[i] \in S
    <3> HIDE DEF order, n
    <3>1. QED
      BY <1>4, <1>5
  <2>4. QED
    BY <2>1, <2>2, <2>3

\* Adding one marker, or the deletions of some rows, touches their rows too.
LEMMA TouchedByOne ==
  ASSUME NEW t \in Txn, markers \in [Txn -> Seq(Marker)], NEW m \in Marker,
         markers' = [markers EXCEPT ![t] = Append(@, m)]
  PROVE  /\ markers' \in [Txn -> Seq(Marker)]
         /\ Touched(t)' = Touched(t) \cup {m.row}
         /\ \A s \in Txn \ {t} : Touched(s)' = Touched(s)
<1>1. markers'[t] = Append(markers[t], m) /\ markers[t] \in Seq(Marker)
  OBVIOUS
<1>2. \A i \in DOMAIN markers'[t] :
        markers'[t][i] = IF i = Len(markers[t]) + 1 THEN m ELSE markers[t][i]
  BY <1>1
<1>3. DOMAIN markers'[t] = DOMAIN markers[t] \cup {Len(markers[t]) + 1}
  BY <1>1
<1>4. Len(markers[t]) + 1 \notin DOMAIN markers[t]
  BY <1>1
<1>5. Touched(t)' = Touched(t) \cup {m.row}
  BY <1>2, <1>3, <1>4 DEF Touched
<1>6. \A s \in Txn \ {t} : markers'[s] = markers[s]
  OBVIOUS
<1>7. markers' \in [Txn -> Seq(Marker)]
  <2>1. Append(markers[t], m) \in Seq(Marker)
    BY <1>1
  <2>2. QED
    BY <2>1
<1>8. \A s \in Txn \ {t} : Touched(s)' = Touched(s)
  BY <1>6 DEF Touched
<1>9. QED
  BY <1>5, <1>7, <1>8

LEMMA TouchedByDeletions ==
  ASSUME NEW t \in Txn, markers \in [Txn -> Seq(Marker)], NEW S \in SUBSET Rows,
         markers' = [markers EXCEPT ![t] = @ \o Deletions(S)]
  PROVE  /\ markers' \in [Txn -> Seq(Marker)]
         /\ Touched(t)' \subseteq Touched(t) \cup S
         /\ \A s \in Txn \ {t} : Touched(s)' = Touched(s)
<1> DEFINE old == markers[t]
           new == Deletions(S)
<1>1. markers'[t] = old \o new /\ old \in Seq(Marker) /\ new \in Seq(Marker)
  BY DeletionsType
<1>2. \A i \in DOMAIN new : new[i].row \in S
  BY DeletionsType
<1> HIDE DEF new, old
<1>3. ASSUME NEW i \in DOMAIN markers'[t]
      PROVE  markers'[t][i].row \in {old[j].row : j \in DOMAIN old} \cup S
  <2>1. CASE i \in DOMAIN old
    BY <1>1, <2>1
  <2>2. CASE i \notin DOMAIN old
    <3>1. DOMAIN old = 1 .. Len(old) /\ DOMAIN new = 1 .. Len(new)
      BY <1>1, LenProperties
    <3>2. i \in 1 .. Len(old) + Len(new) /\ Len(old) \in Nat /\ Len(new) \in Nat
      BY <1>1, <1>3, ConcatProperties, LenProperties
    <3>3. markers'[t][i] = new[i - Len(old)]
      BY <1>1, <2>2, <3>1, <3>2, ConcatProperties
    <3>4. i - Len(old) \in DOMAIN new
      BY <2>2, <3>1, <3>2
    <3>5. QED
      BY <1>2, <3>3, <3>4
  <2>3. QED
    BY <2>1, <2>2
<1>4. markers' \in [Txn -> Seq(Marker)]
  <2>1. old \o new \in Seq(Marker)
    BY <1>1, ConcatProperties
  <2>2. QED
    BY <2>1 DEF old, new
<1>5. QED
  BY <1>3, <1>4 DEF Touched, old
-----------------------------------------------------------------------------
(* The type invariant *)

LEMMA ChunkOfRow == \A r \in Nat : ChunkAt(r) \in Nat
BY Division DEF ChunkAt

LEMMA TouchedRows == Types => \A t \in Txn : Touched(t) \subseteq Rows
<1> SUFFICES ASSUME Types, NEW t \in Txn PROVE Touched(t) \subseteq Rows
  OBVIOUS
<1>1. markers[t] \in Seq(Marker)
  BY DEF Types
<1>2. \A i \in DOMAIN markers[t] : markers[t][i] \in Marker
  BY <1>1
<1>3. QED
  BY <1>2 DEF Touched, Marker

\* The highest dirty chunk exists: the CHOOSE of StartCommit picks it.
LEMMA DirtyProperty ==
  ASSUME Types, NEW t \in Txn, markers[t] # << >>
  PROVE  /\ Dirty(t) \in SUBSET Nat
         /\ \E c \in Dirty(t) : \A d \in Dirty(t) : d <= c
<1>1. markers[t] \in Seq(Marker) /\ DOMAIN markers[t] # {}
  <2>1. markers[t] \in Seq(Marker)
    BY DEF Types
  <2>2. Len(markers[t]) \in Nat /\ Len(markers[t]) # 0
    BY <2>1, EmptySeq, LenProperties
  <2>3. 1 \in DOMAIN markers[t]
    BY <2>1, <2>2, LenProperties
  <2>4. QED
    BY <2>1, <2>3
<1>2. Touched(t) \subseteq Rows /\ Touched(t) # {}
  BY <1>1, TouchedRows DEF Touched
<1>3. \A r \in Rows : ChunkAt(r) \in 0 .. MaxRows
  <2>1. \A r \in Nat : ChunkAt(r) \in Nat /\ ChunkAt(r) <= r
    BY Division DEF ChunkAt
  <2>2. QED
    BY <2>1 DEF Rows
<1>4. Dirty(t) \in SUBSET (0 .. MaxRows) /\ Dirty(t) # {}
  BY <1>2, <1>3 DEF Dirty
<1>5. Dirty(t) \in SUBSET Nat
  BY <1>4
<1>6. \E c \in Dirty(t) : \A d \in Dirty(t) : d <= c
  BY <1>4, GreatestExists
<1>7. QED
  BY <1>5, <1>6

LEMMA TypingInit == Init => TypeOK
BY DEF Init, TypeOK, Types, Phases, Touched

LEMMA TypingStep == TypeOK /\ [Next]_vars => TypeOK'
<1> SUFFICES ASSUME TypeOK, [Next]_vars PROVE TypeOK'
  OBVIOUS
<1>0. workload' = workload
  BY DEF Next, vars
<1> USE <1>0 DEF TypeOK
<1>1. ASSUME NEW t \in Txn, Begin(t) PROVE TypeOK'
  BY <1>1 DEF Types, Begin, Goto, Phases, store, history, Touched, Capacity
<1>2. ASSUME NEW t \in Txn, Insert(t) PROVE TypeOK'
  <2> DEFINE idx == FindFreeIndex(count + 1)
             m == [op |-> "insert", row |-> idx]
  <2>1. /\ idx \in Rows /\ fill' = fill \cup {idx}
        /\ words' = WordsFor(idx) /\ count' = count + 1
        /\ Goto(t, "open", "reserved")
        /\ row' = [row EXCEPT ![t] = idx]
        /\ markers' = [markers EXCEPT ![t] = Append(@, m)]
        /\ pending' = [pending EXCEPT ![t] = @ \cup {idx}]
        /\ UNCHANGED <<chunks, setup, index, todo, committed>>
    BY <1>2 DEF Insert
  <2>2. idx \in Nat /\ m \in Marker /\ m.row = idx
    BY <2>1 DEF Marker, Rows
  <2> HIDE DEF idx, m
  <2>3. /\ markers' \in [Txn -> Seq(Marker)]
        /\ Touched(t)' = Touched(t) \cup {idx}
        /\ \A s \in Txn \ {t} : Touched(s)' = Touched(s)
    BY <2>1, <2>2, TouchedByOne DEF Types
  <2>4. WordsFor(idx) \in Nat /\ Capacity <= WordsFor(idx) * WordBits
        /\ idx < WordsFor(idx) * WordBits
    BY <2>2, WordsForCovers DEF Types
  <2>5. Types'
    BY <2>1, <2>2, <2>3, <2>4 DEF Types, Goto, Phases
  <2>6. Capacity \in Nat /\ Capacity' \in Nat
        /\ Capacity <= Capacity' /\ idx < Capacity'
    BY <2>1, <2>4 DEF Capacity, Types
  <2>7. \A r \in fill' : r < Capacity'
    BY <2>1, <2>2, <2>6 DEF Types, Rows
  <2>8. \A s \in Txn : Touched(s) \cup index[s] \in SUBSET Nat
    BY TouchedRows DEF Types, Rows
  <2>9. \A s \in Txn : \A r \in Touched(s)' \cup index'[s] : r < Capacity'
    <3>1. \A s \in Txn : Touched(s)' \cup index'[s] \subseteq Touched(s) \cup index[s] \cup {idx}
      BY <2>1, <2>2, <2>3
    <3>2. \A s \in Txn : \A r \in Touched(s) \cup index[s] : r \in Nat /\ r < Capacity
      BY <2>2, <2>8
    <3>3. \A r \in Nat : r < Capacity => r < Capacity'
      BY <2>6
    <3>4. QED
      BY <2>6, <3>1, <3>2, <3>3
  <2>10. QED
    BY <2>5, <2>7, <2>9
<1>3. ASSUME NEW t \in Txn, EnterCallback(t) PROVE TypeOK'
  BY <1>3 DEF Types, EnterCallback, Goto, Phases, store, history, Touched, Capacity
<1>4. ASSUME NEW t \in Txn, CallbackReturns(t) PROVE TypeOK'
  BY <1>4 DEF Types, CallbackReturns, Goto, Phases, store, history, Touched, Capacity
<1>5. ASSUME NEW t \in Txn, CallbackFails(t) PROVE TypeOK'
  BY <1>5 DEF Types, CallbackFails, Goto, Phases, store, history, Touched, Capacity
<1>6. ASSUME NEW t \in Txn, Free(t) PROVE TypeOK'
  <2>1. count' \in Nat
    BY <1>6, RowsFinite, FS_Subset, FS_CardinalityType DEF Types, Free
  <2>2. pc' \in [Txn -> Phases]
    BY <1>6 DEF Types, Free, Goto, Phases
  <2>3. /\ fill' \subseteq Rows /\ pending' \in [Txn -> SUBSET Rows]
        /\ row' \in [Txn -> Nat]
    BY <1>6 DEF Types, Free
  <2>4. Types'
    BY <1>6, <2>1, <2>2, <2>3 DEF Types, Free
  <2>5. QED
    BY <1>6, <2>4 DEF Free, Touched, Capacity
<1>7. ASSUME NEW t \in Txn, NEW S \in SUBSET Selection(t), MarkDeleted(t, S)
      PROVE  TypeOK'
  <2>1. Selection(t) \in SUBSET Rows
    BY DEF Selection, Types
  <2>2. /\ markers' \in [Txn -> Seq(Marker)]
        /\ Touched(t)' \subseteq Touched(t) \cup S
        /\ \A s \in Txn \ {t} : Touched(s)' = Touched(s)
    <3>1. markers' = [markers EXCEPT ![t] = @ \o Deletions(S)]
      BY <1>7 DEF MarkDeleted
    <3>2. QED
      BY <2>1, <3>1, TouchedByDeletions DEF Types
  <2>3. Types'
    BY <1>7, <2>1, <2>2 DEF Types, MarkDeleted, Initialize, store, history
  <2>4. \A r \in S : r < Capacity
    BY DEF Selection
  <2>5. \A s \in Txn : \A r \in index'[s] : r < Capacity
    BY <1>7 DEF MarkDeleted, Initialize, Selection, Types
  <2>6. QED
    BY <1>7, <2>2, <2>3, <2>4, <2>5 DEF MarkDeleted, store, Capacity
<1>8. ASSUME NEW t \in Txn, Rollback(t) PROVE TypeOK'
  <2>1. count' \in Nat
    BY <1>8, RowsFinite, FS_Subset, FS_CardinalityType DEF Types, Rollback
  <2>2. Types'
    BY <1>8, <2>1 DEF Types, Rollback, Reset, Phases
  <2>3. QED
    BY <1>8, <2>2 DEF Rollback, Reset, Touched, Capacity
<1>9. ASSUME NEW t \in Txn, CommitNothing(t) PROVE TypeOK'
  <2>1. Types'
    BY <1>9 DEF Types, CommitNothing, Reset, Phases, store
  <2>2. QED
    BY <1>9, <2>1 DEF CommitNothing, Reset, Touched, Capacity, store
<1>10. ASSUME NEW t \in Txn, StartCommit(t) PROVE TypeOK'
  <2> DEFINE last == CHOOSE c \in Dirty(t) : \A d \in Dirty(t) : d <= c
  <2>1. Dirty(t) \in SUBSET Nat /\ last \in Nat
    <3>1. markers[t] # << >>
      BY <1>10 DEF StartCommit
    <3>2. QED
      BY <3>1, DirtyProperty
  <2>2. /\ chunks' \in {chunks, last + 1}
        /\ words' \in {words, WordsFor(LastRow(last))}
        /\ todo' = [todo EXCEPT ![t] = Dirty(t)]
        /\ Goto(t, "open", "commit")
        /\ UNCHANGED <<fill, count, row, setup, index, markers, history>>
    BY <1>10 DEF StartCommit
  <2> HIDE DEF last
  <2>3. LastRow(last) \in Nat
    <3>1. \A c \in Nat : (c + 1) * ChunkRows \in Nat /\ (c + 1) * ChunkRows >= 1
      OBVIOUS
    <3>2. QED
      BY <2>1, <3>1 DEF LastRow
  <2>4. /\ WordsFor(LastRow(last)) \in Nat
        /\ Capacity <= WordsFor(LastRow(last)) * WordBits
    BY <2>3, WordsForCovers DEF Types
  <2>5. Types'
    BY <2>1, <2>2, <2>4 DEF Types, Goto, Phases, history
  <2>6. Capacity \in Nat /\ Capacity' \in Nat /\ Capacity <= Capacity'
    <3>1. \A a \in Nat : a * WordBits \in Nat
      OBVIOUS
    <3>2. Capacity \in Nat
      BY <3>1 DEF Capacity, Types
    <3>3. Capacity' = words' * WordBits
      BY DEF Capacity
    <3>4. CASE words' = words
      BY <3>2, <3>3, <3>4 DEF Capacity
    <3>5. CASE words' = WordsFor(LastRow(last))
      BY <2>4, <3>1, <3>2, <3>3, <3>5
    <3>6. QED
      BY <2>2, <3>4, <3>5
  <2>7. \A s \in Txn : Touched(s) \cup index[s] \in SUBSET Nat
    BY TouchedRows DEF Types, Rows
  <2>8. \A r \in fill : r \in Nat
    BY DEF Types, Rows
  <2>9. \A s \in Txn : Touched(s)' = Touched(s)
    BY <2>2 DEF Touched
  <2>10. QED
    BY <2>2, <2>5, <2>6, <2>7, <2>8, <2>9
<1>11. ASSUME NEW t \in Txn, CommitMarkers(t) PROVE TypeOK'
  <2>1. /\ fill' \subseteq fill \cup Touched(t)
        /\ committed' \subseteq committed \cup Touched(t)
        /\ Goto(t, "commit", "latched")
        /\ \E S : pending' = [pending EXCEPT ![t] = @ \ S]
        /\ UNCHANGED <<words, count, chunks, row, setup, index, markers, todo>>
    BY <1>11 DEF CommitMarkers
  <2>2. Touched(t) \subseteq Rows
    BY TouchedRows
  <2>3. Types'
    BY <2>1, <2>2 DEF Types, Goto, Phases
  <2>4. QED
    BY <2>1, <2>3 DEF Touched, Capacity
<1>12. ASSUME NEW t \in Txn, Recount(t) PROVE TypeOK'
  <2>1. count' \in Nat
    BY <1>12, RowsFinite, FS_Subset, FS_CardinalityType DEF Types, Recount
  <2>2. CASE todo'[t] = {}
    <3>1. /\ Reset(t) /\ todo' = [todo EXCEPT ![t] = @ \ {Current(t)}]
          /\ UNCHANGED <<fill, words, chunks, row, committed>>
      BY <1>12, <2>2 DEF Recount
    <3>2. Types'
      BY <2>1, <3>1 DEF Types, Reset, Phases
    <3>3. QED
      BY <3>1, <3>2 DEF Reset, Touched, Capacity
  <2>3. CASE todo'[t] # {}
    <3>1. Types'
      BY <1>12, <2>1, <2>3 DEF Types, Recount, Phases
    <3>2. QED
      BY <1>12, <2>3, <3>1 DEF Recount, Touched, Capacity
  <2>4. QED
    BY <2>2, <2>3
<1>13. CASE UNCHANGED vars
  BY <1>13 DEF Types, vars, store, local, history, Touched, Capacity
<1>14. QED
  <2>1. ASSUME NEW t \in Txn, NEW r \in Rows, DeleteAt(t, r) PROVE TypeOK'
    BY <1>7, <2>1 DEF DeleteAt
  <2>2. ASSUME NEW t \in Txn, DeleteAll(t) PROVE TypeOK'
    BY <1>7, <2>2 DEF DeleteAll
  <2>3. QED
    BY <1>1, <1>2, <1>3, <1>4, <1>5, <1>6, <1>8, <1>9, <1>10, <1>11, <1>12,
       <1>13, <2>1, <2>2 DEF Next

\* Every state is well typed, and no bit that is set, selected or about to be
\* written lies beyond the words of the fill list.
THEOREM Typing == Spec => []TypeOK
BY TypingInit, TypingStep, PTL DEF Spec
-----------------------------------------------------------------------------
(* The counter *)

\* The counter is the population whenever no commit is half-way through
\* commitMarkers(), whatever the clients do.  TypeOK makes it inductive: an
\* insert keeps it because the search then finds a free row, which needs the
\* bits to lie within the words.
THEOREM CounterIsPopulation == Spec => []CountIsPopulation
<1>1. Init => CountIsPopulation
  BY FS_EmptySet DEF Init, CountIsPopulation
<1>2. TypeOK /\ CountIsPopulation /\ [Next]_vars => CountIsPopulation'
  <2> SUFFICES ASSUME TypeOK, CountIsPopulation, [Next]_vars,
                      \A t \in Txn : pc'[t] # "latched"
               PROVE  count' = Cardinality(fill')
    BY DEF CountIsPopulation, Recounting
  <2> DEFINE Same(t) == /\ fill' = fill /\ count' = count
                        /\ pc[t] # "latched"
                        /\ \A s \in Txn \ {t} : pc'[s] = pc[s]
  <2>1. ASSUME NEW t \in Txn, Same(t) PROVE count' = Cardinality(fill')
    BY <2>1 DEF CountIsPopulation, Recounting
  <2>2. ASSUME NEW t \in Txn, Insert(t) PROVE count' = Cardinality(fill')
    <3> DEFINE idx == FindFreeIndex(count + 1)
    <3>1. fill' = fill \cup {idx} /\ count' = count + 1 /\ Goto(t, "open", "reserved")
      BY <2>2 DEF Insert
    <3>2. count = Cardinality(fill)
      BY <3>1 DEF CountIsPopulation, Recounting, Goto, TypeOK, Types
    <3>3. idx \notin fill
      BY <3>2, FindsFreeRow
    <3> HIDE DEF idx
    <3>4. IsFiniteSet(fill)
      BY RowsFinite, FS_Subset DEF TypeOK, Types
    <3>5. QED
      BY <3>1, <3>2, <3>3, <3>4, FS_AddElement
  <2>3. ASSUME NEW t \in Txn, NEW S, MarkDeleted(t, S) PROVE Same(t)
    BY <2>3 DEF MarkDeleted, store
  <2>4. ASSUME NEW t \in Txn,
               \/ Begin(t) \/ EnterCallback(t) \/ CallbackReturns(t)
               \/ CallbackFails(t) \/ StartCommit(t)
        PROVE  Same(t)
    BY <2>4 DEF Begin, EnterCallback, CallbackReturns, CallbackFails, StartCommit,
                Goto, store, TypeOK, Types
  <2>5. ASSUME NEW t \in Txn, CommitNothing(t) PROVE Same(t)
    BY <2>5 DEF CommitNothing, Reset, store, TypeOK, Types
  <2>6. ASSUME NEW t \in Txn, CommitMarkers(t) PROVE FALSE
    BY <2>6 DEF CommitMarkers, Goto, TypeOK, Types
  <2>7. ASSUME NEW t \in Txn, Free(t) \/ Rollback(t) \/ Recount(t)
        PROVE  count' = Cardinality(fill')
    BY <2>7 DEF Free, Rollback, Recount
  <2>8. CASE UNCHANGED vars
    BY <2>8 DEF vars, store, local, CountIsPopulation, Recounting
  <2>9. QED
    BY <2>1, <2>2, <2>3, <2>4, <2>5, <2>6, <2>7, <2>8 DEF Next, DeleteAt, DeleteAll
<1>3. QED
  BY <1>1, <1>2, Typing, PTL DEF Spec

\* A transaction that comes to hold a reservation has just run next().
LEMMA ReservedByInsert ==
  ASSUME Types, Next, NEW t \in Txn, pc[t] = "open", pc'[t] = "reserved"
  PROVE  row'[t] = FindFreeIndex(count + 1)
<1>1. ASSUME NEW s \in Txn, Insert(s) PROVE row'[t] = FindFreeIndex(count + 1)
  <2>1. /\ Goto(s, "open", "reserved")
        /\ row' = [row EXCEPT ![s] = FindFreeIndex(count + 1)]
    BY <1>1 DEF Insert
  <2>2. s = t
    BY <2>1 DEF Goto, Types
  <2>3. QED
    BY <2>1, <2>2 DEF Types
<1>2. ASSUME NEW s \in Txn,
             \/ Begin(s) \/ EnterCallback(s) \/ CallbackReturns(s)
             \/ CallbackFails(s) \/ Free(s) \/ StartCommit(s) \/ CommitMarkers(s)
             \/ \E S : MarkDeleted(s, S)
      PROVE  FALSE
  BY <1>2 DEF Begin, EnterCallback, CallbackReturns, CallbackFails, Free,
              StartCommit, CommitMarkers, MarkDeleted, Goto, Types
<1>3. ASSUME NEW s \in Txn, Rollback(s) \/ CommitNothing(s) \/ Recount(s)
      PROVE  FALSE
  BY <1>3 DEF Rollback, CommitNothing, Recount, Reset, Types
<1>4. QED
  BY <1>1, <1>2, <1>3 DEF Next, DeleteAt, DeleteAll

-----------------------------------------------------------------------------
(* The commits array *)

\* A transaction that commits has a chunk left to commit, so that Current is
\* one of those for which commitCapacity() made room.
Committing(t) == pc[t] \in {"commit", "latched"}
ChunksInv == ChunksHaveIDs /\ \A t \in Txn : Committing(t) => todo[t] # {}

LEMMA ChunksInit == Init => ChunksInv
BY DEF Init, ChunksInv, ChunksHaveIDs, Committing

LEMMA ChunksStep == TypeOK /\ ChunksInv /\ [Next]_vars => ChunksInv'
<1> SUFFICES ASSUME TypeOK, ChunksInv, [Next]_vars PROVE ChunksInv'
  OBVIOUS
<1> USE DEF Committing
<1>1. Types
  BY DEF TypeOK
<1>2. ASSUME NEW t \in Txn, UNCHANGED <<chunks, committed, todo>>, ~Committing(t)',
             \A s \in Txn \ {t} : pc'[s] = pc[s]
      PROVE  ChunksInv'
  BY <1>2 DEF ChunksInv, ChunksHaveIDs, ChunkAt
<1>3. ASSUME NEW t \in Txn,
             \/ Begin(t) \/ Insert(t) \/ EnterCallback(t) \/ CallbackReturns(t)
             \/ CallbackFails(t) \/ Free(t)
      PROVE  ChunksInv'
  <2>1. UNCHANGED <<chunks, committed, todo>>
    BY <1>3 DEF Begin, Insert, EnterCallback, CallbackReturns, CallbackFails, Free,
                store, history
  <2>2. ~Committing(t)' /\ \A s \in Txn \ {t} : pc'[s] = pc[s]
    BY <1>1, <1>3 DEF Begin, Insert, EnterCallback, CallbackReturns, CallbackFails,
                      Free, Goto, Types
  <2>3. QED
    BY <1>2, <2>1, <2>2
<1>4. ASSUME NEW t \in Txn, NEW S, MarkDeleted(t, S) PROVE ChunksInv'
  BY <1>2, <1>4 DEF MarkDeleted, store, history
<1>5. ASSUME NEW t \in Txn, Rollback(t) \/ CommitNothing(t) PROVE ChunksInv'
  <2>1. UNCHANGED <<chunks, committed, todo>> /\ Reset(t)
    BY <1>5 DEF Rollback, CommitNothing, store
  <2>2. QED
    BY <1>1, <1>2, <2>1 DEF Reset, Types
<1>6. ASSUME NEW t \in Txn, StartCommit(t) PROVE ChunksInv'
  <2> DEFINE last == CHOOSE c \in Dirty(t) : \A d \in Dirty(t) : d <= c
  <2>1. /\ markers[t] # << >> /\ Goto(t, "open", "commit")
        /\ todo' = [todo EXCEPT ![t] = Dirty(t)]
        /\ chunks' = IF chunks < last + 1 THEN last + 1 ELSE chunks
        /\ committed' = committed
    BY <1>6 DEF StartCommit, history
  <2>2. Dirty(t) \in SUBSET Nat /\ Dirty(t) # {} /\ last \in Nat /\ \A d \in Dirty(t) : d <= last
    BY <1>1, <2>1, DirtyProperty
  <2> HIDE DEF last
  <2>3. chunks <= chunks' /\ \A d \in Dirty(t) : d < chunks'
    BY <1>1, <2>1, <2>2 DEF Types
  <2>4. \A c \in Nat : c < chunks => c < chunks'
    BY <1>1, <2>1, <2>2, <2>3 DEF Types
  <2>5. \A r \in committed : ChunkAt(r) \in Nat /\ ChunkAt(r)' = ChunkAt(r)
    BY <1>1, ChunkOfRow DEF Types, Rows, ChunkAt
  <2>6. \A s \in Txn \ {t} : pc'[s] = pc[s] /\ todo'[s] = todo[s]
    BY <1>1, <2>1 DEF Goto, Types
  <2>7. todo'[t] = Dirty(t)
    BY <1>1, <2>1 DEF Types
  <2>8. \A s \in Txn : Committing(s)' => todo'[s] # {} /\ \A c \in todo'[s] : c < chunks'
    BY <1>1, <2>2, <2>3, <2>4, <2>6, <2>7 DEF ChunksInv, ChunksHaveIDs, Types
  <2>9. \A r \in committed' : ChunkAt(r)' < chunks'
    BY <2>1, <2>4, <2>5 DEF ChunksInv, ChunksHaveIDs
  <2>10. QED
    BY <2>8, <2>9 DEF ChunksInv, ChunksHaveIDs
<1>7. ASSUME NEW t \in Txn, CommitMarkers(t) PROVE ChunksInv'
  <2>1. /\ Goto(t, "commit", "latched")
        /\ committed' \subseteq committed \cup {r \in Touched(t) : ChunkAt(r) = Current(t)}
        /\ UNCHANGED <<chunks, todo>>
    BY <1>7 DEF CommitMarkers
  <2>2. Current(t) \in todo[t]
    BY <1>1, <2>1, LowestProperty DEF Goto, ChunksInv, Current, Types
  <2>3. Current(t) < chunks
    BY <2>1, <2>2 DEF Goto, ChunksInv, ChunksHaveIDs
  <2>4. \A r \in committed' : ChunkAt(r) < chunks
    BY <2>1, <2>3 DEF ChunksInv, ChunksHaveIDs
  <2>5. \A s \in Txn : Committing(s)' => Committing(s)
    BY <1>1, <2>1 DEF Goto, Types
  <2>6. QED
    BY <2>1, <2>4, <2>5 DEF ChunksInv, ChunksHaveIDs, ChunkAt
<1>8. ASSUME NEW t \in Txn, Recount(t) PROVE ChunksInv'
  <2>1. /\ pc[t] = "latched" /\ UNCHANGED <<chunks, committed>>
        /\ todo' = [todo EXCEPT ![t] = @ \ {Current(t)}]
    BY <1>8 DEF Recount
  <2>2. pc' = [pc EXCEPT ![t] = IF todo'[t] = {} THEN "idle" ELSE "commit"]
    BY <1>8 DEF Recount, Reset
  <2>3. \A s \in Txn : todo'[s] \subseteq todo[s] /\ (s # t => todo'[s] = todo[s])
    BY <1>1, <2>1 DEF Types
  <2>4. \A s \in Txn : Committing(s)' => Committing(s) /\ todo'[s] # {}
    BY <1>1, <2>1, <2>2, <2>3 DEF Types, ChunksInv
  <2>5. QED
    BY <2>1, <2>3, <2>4 DEF ChunksInv, ChunksHaveIDs, ChunkAt
<1>9. CASE UNCHANGED vars
  BY <1>9 DEF vars, store, local, history, ChunksInv, ChunksHaveIDs, ChunkAt
<1>10. QED
  BY <1>3, <1>4, <1>5, <1>6, <1>7, <1>8, <1>9 DEF Next, DeleteAt, DeleteAll

\* A commit never writes the ID of a chunk beyond the end of Collection.commits,
\* and each chunk with a committed row has an ID there.
THEOREM CommitsAreInRange == Spec => []ChunksHaveIDs
<1>1. ChunksInv => ChunksHaveIDs
  BY DEF ChunksInv
<1>2. QED
  BY <1>1, ChunksInit, ChunksStep, Typing, PTL DEF Spec

-----------------------------------------------------------------------------
(* Abandoned rows *)

\* What a transaction answers for it has a marker for, and while it commits the
\* rest of it lies in chunks that are still to come: so nothing is left of it
\* when the commit ends.
Answers(t) ==
  /\ pending[t] \subseteq Touched(t)
  /\ pc[t] = "commit" => \A r \in pending[t] : ChunkAt(r) \in todo[t]
  /\ pc[t] = "latched" => \A r \in pending[t] : ChunkAt(r) \in todo[t] \ {Current(t)}

AnswersInv == \A t \in Txn : Answers(t)

LEMMA TouchedGrows ==
  ASSUME NEW t \in Txn, markers \in [Txn -> Seq(Marker)], NEW S \in SUBSET Rows,
         markers' = [markers EXCEPT ![t] = @ \o Deletions(S)]
  PROVE  Touched(t) \subseteq Touched(t)'
<1> DEFINE old == markers[t]
           new == Deletions(S)
<1>1. markers'[t] = old \o new /\ old \in Seq(Marker) /\ new \in Seq(Marker)
  BY DeletionsType
<1> HIDE DEF new, old
<1>2. ASSUME NEW i \in DOMAIN old
      PROVE  i \in DOMAIN markers'[t] /\ markers'[t][i] = old[i]
  <2>1. i \in 1 .. Len(old) /\ Len(old) \in Nat /\ Len(new) \in Nat
    BY <1>1, <1>2, LenProperties
  <2>2. Len(old \o new) = Len(old) + Len(new)
        /\ DOMAIN (old \o new) = 1 .. Len(old) + Len(new)
        /\ (old \o new)[i] = old[i]
    BY <1>1, <2>1, ConcatProperties, LenProperties
  <2>3. i \in 1 .. Len(old) + Len(new)
    BY <2>1
  <2>4. QED
    BY <1>1, <2>2, <2>3
<1>3. QED
  BY <1>2 DEF Touched, old

\* A step of t on its own variables leaves the other transactions' part alone.
LEMMA AnswersOthers ==
  ASSUME AnswersInv, NEW t \in Txn, Answers(t)',
         \A s \in Txn \ {t} : /\ pending'[s] = pending[s] /\ markers'[s] = markers[s]
                              /\ pc'[s] = pc[s] /\ todo'[s] = todo[s]
  PROVE  AnswersInv'
BY DEF AnswersInv, Answers, Touched, Current, ChunkAt

LEMMA AnswersInit == Init => AnswersInv
BY DEF Init, AnswersInv, Answers, Touched

LEMMA AnswersStep == TypeOK /\ AnswersInv /\ [Next]_vars => AnswersInv'
<1> SUFFICES ASSUME TypeOK, AnswersInv, [Next]_vars PROVE AnswersInv'
  OBVIOUS
<1> DEFINE Others(t) == \A s \in Txn \ {t} :
                          /\ pending'[s] = pending[s] /\ markers'[s] = markers[s]
                          /\ pc'[s] = pc[s] /\ todo'[s] = todo[s]
<1>1. Types
  BY DEF TypeOK
<1>2. \A t \in Txn : Answers(t)
  BY DEF AnswersInv
<1>3. ASSUME NEW t \in Txn, Others(t), pc'[t] \notin {"commit", "latched"},
             pending'[t] \subseteq Touched(t)'
      PROVE  AnswersInv'
  <2>1. Answers(t)'
    BY <1>3 DEF Answers
  <2>2. QED
    BY <1>3, <2>1, AnswersOthers
<1>4. ASSUME NEW t \in Txn,
             Begin(t) \/ EnterCallback(t) \/ CallbackReturns(t) \/ CallbackFails(t)
      PROVE  AnswersInv'
  <2>1. UNCHANGED <<pending, markers, todo>>
    BY <1>4 DEF Begin, EnterCallback, CallbackReturns, CallbackFails, history
  <2>2. Others(t) /\ pc'[t] \notin {"commit", "latched"}
    BY <1>1, <1>4, <2>1 DEF Begin, EnterCallback, CallbackReturns, CallbackFails,
                            Goto, Types
  <2>3. pending'[t] \subseteq Touched(t)'
    BY <1>2, <2>1 DEF Answers, Touched
  <2>4. QED
    BY <1>3, <2>2, <2>3
<1>5. ASSUME NEW t \in Txn, Insert(t) PROVE AnswersInv'
  <2> DEFINE idx == FindFreeIndex(count + 1)
             m == [op |-> "insert", row |-> idx]
  <2>1. /\ idx \in Rows /\ Goto(t, "open", "reserved")
        /\ markers' = [markers EXCEPT ![t] = Append(@, m)]
        /\ pending' = [pending EXCEPT ![t] = @ \cup {idx}]
        /\ todo' = todo
    BY <1>5 DEF Insert
  <2>2. m \in Marker /\ m.row = idx
    BY <2>1 DEF Marker
  <2> HIDE DEF m, idx
  <2>3. Touched(t)' = Touched(t) \cup {idx}
    BY <1>1, <2>1, <2>2, TouchedByOne DEF Types
  <2>4. Others(t) /\ pc'[t] = "reserved" /\ pending'[t] = pending[t] \cup {idx}
    BY <1>1, <2>1 DEF Goto, Types
  <2>5. QED
    BY <1>2, <1>3, <2>3, <2>4 DEF Answers
<1>6. ASSUME NEW t \in Txn, Free(t) PROVE AnswersInv'
  <2>1. /\ Goto(t, "failed", "abort") \/ Goto(t, "failed", "open")
        /\ pending' = [pending EXCEPT ![t] = @ \ {row[t]}]
        /\ UNCHANGED <<markers, todo>>
    BY <1>6 DEF Free
  <2>2. Others(t) /\ pc'[t] \in {"abort", "open"} /\ pending'[t] \subseteq pending[t]
    BY <1>1, <2>1 DEF Goto, Types
  <2>3. Touched(t)' = Touched(t)
    BY <2>1 DEF Touched
  <2>4. QED
    BY <1>2, <1>3, <2>2, <2>3 DEF Answers
<1>7. ASSUME NEW t \in Txn, NEW S \in SUBSET Rows, MarkDeleted(t, S) PROVE AnswersInv'
  <2>1. /\ pc[t] = "open" /\ UNCHANGED <<pc, pending, todo>>
        /\ markers' = [markers EXCEPT ![t] = @ \o Deletions(S)]
    BY <1>7 DEF MarkDeleted, history
  <2>2. Touched(t) \subseteq Touched(t)'
    BY <1>1, <2>1, TouchedGrows DEF Types
  <2>3. Others(t)
    BY <1>1, <2>1 DEF Types
  <2>4. QED
    BY <1>2, <1>3, <2>1, <2>2, <2>3 DEF Answers
<1>8. ASSUME NEW t \in Txn, Reset(t), \A s \in Txn \ {t} : todo'[s] = todo[s]
      PROVE  AnswersInv'
  <2>1. Others(t) /\ pc'[t] = "idle" /\ pending'[t] = {}
    BY <1>1, <1>8 DEF Reset, Types
  <2>2. QED
    BY <1>3, <2>1
<1>9. ASSUME NEW t \in Txn, Rollback(t) \/ CommitNothing(t) PROVE AnswersInv'
  BY <1>8, <1>9 DEF Rollback, CommitNothing
<1>10. ASSUME NEW t \in Txn, StartCommit(t) PROVE AnswersInv'
  <2>1. /\ Goto(t, "open", "commit") /\ todo' = [todo EXCEPT ![t] = Dirty(t)]
        /\ UNCHANGED <<markers, pending>>
    BY <1>10 DEF StartCommit, history
  <2>2. Others(t) /\ pc'[t] = "commit" /\ todo'[t] = Dirty(t)
    BY <1>1, <2>1 DEF Goto, Types
  <2>3. \A r \in pending[t] : ChunkAt(r) \in Dirty(t)
    BY <1>2 DEF Answers, Dirty
  <2>4. Answers(t)'
    BY <1>2, <2>1, <2>2, <2>3 DEF Answers, Touched, ChunkAt
  <2>5. QED
    BY <2>2, <2>4, AnswersOthers
<1>11. ASSUME NEW t \in Txn, CommitMarkers(t) PROVE AnswersInv'
  <2> DEFINE touched == {r \in Touched(t) : ChunkAt(r) = Current(t)}
  <2>1. /\ Goto(t, "commit", "latched")
        /\ pending' = [pending EXCEPT ![t] = @ \ touched]
        /\ UNCHANGED <<markers, todo>>
    BY <1>11 DEF CommitMarkers
  <2>2. Others(t) /\ pc'[t] = "latched" /\ pending'[t] = pending[t] \ touched
    BY <1>1, <2>1 DEF Goto, Types
  <2>3. /\ pending[t] \subseteq Touched(t)
        /\ \A r \in pending[t] : ChunkAt(r) \in todo[t]
    BY <1>2, <2>1 DEF Answers, Goto
  <2>4. Answers(t)'
    BY <2>1, <2>2, <2>3 DEF Answers, Touched, ChunkAt, Current
  <2>5. QED
    BY <2>2, <2>4, AnswersOthers
<1>12. ASSUME NEW t \in Txn, Recount(t) PROVE AnswersInv'
  <2>1. /\ pc[t] = "latched" /\ todo' = [todo EXCEPT ![t] = @ \ {Current(t)}]
    BY <1>12 DEF Recount
  <2>2. todo'[t] = todo[t] \ {Current(t)} /\ \A s \in Txn \ {t} : todo'[s] = todo[s]
    BY <1>1, <2>1 DEF Types
  <2>3. CASE todo'[t] = {}
    BY <1>8, <1>12, <2>2, <2>3 DEF Recount
  <2>4. CASE todo'[t] # {}
    <3>1. pc' = [pc EXCEPT ![t] = "commit"] /\ UNCHANGED <<markers, pending>>
      BY <1>12, <2>4 DEF Recount
    <3>2. Others(t) /\ pc'[t] = "commit"
      BY <1>1, <2>2, <3>1 DEF Types
    <3>3. Answers(t)'
      BY <1>2, <2>1, <2>2, <3>1, <3>2 DEF Answers, Touched, ChunkAt
    <3>4. QED
      BY <3>2, <3>3, AnswersOthers
  <2>5. QED
    BY <2>3, <2>4
<1>13. CASE UNCHANGED vars
  BY <1>13 DEF vars, local, history, AnswersInv, Answers, Touched, Current, ChunkAt
<1>14. \A t \in Txn : Selection(t) \subseteq Rows
  BY <1>1 DEF Selection, Types
<1>15. QED
  BY <1>4, <1>5, <1>6, <1>7, <1>9, <1>10, <1>11, <1>12, <1>13, <1>14
     DEF Next, DeleteAt, DeleteAll

\* Whatever the clients do, a row that nobody owns any more is one that a
\* rollback has left behind.
THEOREM OnlyRollbacksAbandonRows == Spec => OnlyRollbacksAbandon
<1> DEFINE Left(r) == \/ r \in fill \ Owned
                      \/ \E t \in Txn : Rollback(t) /\ r \in pending[t]
           Kept == \A r \in fill' \ Owned' : Left(r)
<1>1. TypeOK /\ AnswersInv /\ [Next]_vars => [Kept]_vars
  <2> SUFFICES ASSUME TypeOK, AnswersInv, Next, NEW r \in fill', r \notin Owned'
               PROVE  Left(r)
    OBVIOUS
  <2>1. Types
    BY DEF TypeOK
  <2>2. ASSUME r \in fill, committed \subseteq committed',
               \A t \in Txn : pending[t] \subseteq pending'[t]
        PROVE  Left(r)
    BY <2>2 DEF Owned
  <2>3. ASSUME NEW t \in Txn,
               \/ Begin(t) \/ EnterCallback(t) \/ CallbackReturns(t)
               \/ CallbackFails(t) \/ StartCommit(t) \/ \E S : MarkDeleted(t, S)
        PROVE  Left(r)
    <3>1. UNCHANGED <<fill, committed, pending>>
      BY <2>3 DEF Begin, EnterCallback, CallbackReturns, CallbackFails, StartCommit,
                  MarkDeleted, store, history
    <3>2. QED
      BY <2>2, <3>1
  <2>4. ASSUME NEW t \in Txn, Insert(t) PROVE Left(r)
    <3> DEFINE idx == FindFreeIndex(count + 1)
    <3>1. /\ fill' = fill \cup {idx} /\ committed' = committed
          /\ pending' = [pending EXCEPT ![t] = @ \cup {idx}]
      BY <2>4 DEF Insert
    <3> HIDE DEF idx
    <3>2. r # idx /\ \A s \in Txn : pending[s] \subseteq pending'[s]
      BY <2>1, <3>1 DEF Types, Owned
    <3>3. QED
      BY <2>2, <3>1, <3>2
  <2>5. ASSUME NEW t \in Txn, Free(t) PROVE Left(r)
    <3>1. /\ fill' = fill \ {row[t]} /\ committed' = committed
          /\ pending' = [pending EXCEPT ![t] = @ \ {row[t]}]
      BY <2>5 DEF Free
    <3>2. \A s \in Txn : r \in pending[s] => r \in pending'[s]
      BY <2>1, <3>1 DEF Types
    <3>3. QED
      BY <3>1, <3>2 DEF Owned
  <2>6. ASSUME NEW t \in Txn, Reset(t), pending[t] = {}, UNCHANGED <<fill, committed>>
        PROVE  Left(r)
    <3>1. \A s \in Txn : pending[s] \subseteq pending'[s]
      BY <2>1, <2>6 DEF Reset, Types
    <3>2. QED
      BY <2>2, <2>6, <3>1
  <2>7. ASSUME NEW t \in Txn, Rollback(t) PROVE Left(r)
    <3>1. UNCHANGED <<fill, committed>> /\ pending' = [pending EXCEPT ![t] = {}]
      BY <2>7 DEF Rollback, Reset
    <3>2. \A s \in Txn \ {t} : pending'[s] = pending[s]
      BY <2>1, <3>1 DEF Types
    <3>3. r \in Owned => r \in pending[t]
      BY <3>1, <3>2 DEF Owned
    <3>4. QED
      BY <2>7, <3>1, <3>3
  <2>8. ASSUME NEW t \in Txn, CommitNothing(t) PROVE Left(r)
    <3>1. /\ markers[t] = << >> /\ Reset(t)
          /\ UNCHANGED <<fill, committed>>
      BY <2>8 DEF CommitNothing, store
    <3>2. pending[t] = {}
      BY <3>1 DEF AnswersInv, Answers, Touched
    <3>3. QED
      BY <2>6, <3>1, <3>2
  <2>9. ASSUME NEW t \in Txn, CommitMarkers(t) PROVE Left(r)
    <3> DEFINE touched == {x \in Touched(t) : ChunkAt(x) = Current(t)}
               set == {x \in touched : LastOp(t, x) = "insert"}
    <3>1. /\ fill' = (fill \ touched) \cup set
          /\ committed' = (committed \ touched) \cup set
          /\ pending' = [pending EXCEPT ![t] = @ \ touched]
      BY <2>9 DEF CommitMarkers
    <3> HIDE DEF touched, set
    <3>2. r \in fill \ touched
      BY <3>1 DEF Owned
    <3>3. \A s \in Txn : r \in pending[s] => r \in pending'[s]
      BY <2>1, <3>1, <3>2 DEF Types
    <3>4. QED
      BY <3>1, <3>2, <3>3 DEF Owned
  <2>10. ASSUME NEW t \in Txn, Recount(t) PROVE Left(r)
    <3>1. /\ pc[t] = "latched" /\ todo' = [todo EXCEPT ![t] = @ \ {Current(t)}]
          /\ UNCHANGED <<fill, committed>>
      BY <2>10 DEF Recount
    <3>2. CASE todo'[t] = {}
      <4>1. pending[t] = {}
        BY <2>1, <3>1, <3>2 DEF AnswersInv, Answers, Types
      <4>2. QED
        BY <2>6, <2>10, <3>1, <3>2, <4>1 DEF Recount
    <3>3. CASE todo'[t] # {}
      BY <2>2, <2>10, <3>1, <3>3 DEF Recount
    <3>4. QED
      BY <3>2, <3>3
  <2>11. QED
    BY <2>3, <2>4, <2>5, <2>7, <2>8, <2>9, <2>10 DEF Next, DeleteAt, DeleteAll
<1>2. QED
  BY <1>1, AnswersInit, AnswersStep, Typing, PTL DEF Spec, OnlyRollbacksAbandon

-----------------------------------------------------------------------------
(* Clients that only insert *)

(* Their reserved rows have one owner: nothing but the commit of a deletion  *)
(* takes a row from a transaction that still holds it, and no transaction    *)
(* carries on after a failed insert.                                         *)

\* What a transaction is still going to commit, it holds.
Holds(t) ==
  /\ \A i \in DOMAIN markers[t] : markers[t][i].op = "insert"
  /\ pc[t] \in {"idle", "open", "reserved", "callback", "failed"} =>
       Touched(t) \subseteq pending[t]
  /\ pc[t] \in {"reserved", "callback", "failed"} => row[t] \in pending[t]
  /\ pc[t] \in {"commit", "latched"} => todo[t] # {}
  /\ pc[t] = "commit" =>
       \A r \in Touched(t) : ChunkAt(r) \in todo[t] => r \in pending[t]
  /\ pc[t] = "latched" =>
       \A r \in Touched(t) :
         ChunkAt(r) \in todo[t] \ {Current(t)} => r \in pending[t]

InsertInv ==
  /\ TypeOK
  /\ count = Cardinality(fill)
  /\ SoleOwners
  /\ Stays
  /\ \A t \in Txn : pending[t] \subseteq fill
  /\ \A t \in Txn : Holds(t)

LEMMA InsertInit == Init => InsertInv
BY TypingInit, FS_EmptySet
   DEF Init, InsertInv, SoleOwners, Stays, Holds, Touched

\* When every marker of a transaction is an insertion, so is the last one on
\* a row.
LEMMA LastIsInsert ==
  ASSUME Types, NEW t \in Txn, Holds(t), NEW r \in Touched(t)
  PROVE  LastOp(t, r) = "insert"
<1> DEFINE on == {i \in DOMAIN markers[t] : markers[t][i].row = r}
           last == CHOOSE i \in on : \A j \in on : j <= i
<1>1. on # {}
  BY DEF Touched
<1>2. markers[t] \in Seq(Marker)
  BY DEF Types
<1>3. Len(markers[t]) \in Nat /\ DOMAIN markers[t] = 1 .. Len(markers[t])
  BY <1>2, LenProperties
<1>4. on \in SUBSET (0 .. Len(markers[t]))
  BY <1>3
<1>5. \E i \in on : \A j \in on : j <= i
  <2> HIDE DEF on
  <2>1. QED
    BY <1>1, <1>3, <1>4, GreatestExists
<1>6. last \in on
  BY <1>5
<1>7. markers[t][last].op = "insert"
  BY <1>6 DEF Holds
<1>8. QED
  BY <1>7 DEF LastOp

LEMMA InsertStep == Inserting /\ InsertInv /\ [Next]_vars => InsertInv'
<1> SUFFICES ASSUME Inserting, InsertInv, [Next]_vars PROVE InsertInv'
  OBVIOUS
<1> DEFINE Rest == /\ count' = Cardinality(fill')
                   /\ SoleOwners'
                   /\ Stays'
                   /\ \A t \in Txn : pending'[t] \subseteq fill'
                   /\ \A t \in Txn : Holds(t)'
           Others(t) == \A s \in Txn \ {t} : /\ pc'[s] = pc[s] /\ row'[s] = row[s]
                                             /\ markers'[s] = markers[s]
                                             /\ todo'[s] = todo[s]
                                             /\ pending'[s] = pending[s]
<1>1. Types
  BY DEF InsertInv, TypeOK
<1>2. TypeOK'
  BY TypingStep DEF InsertInv
<1>3. "delete" \notin workload.ops /\ "swallow" \notin workload.ops
  BY DEF Inserting
\* A transaction whose state is untouched keeps what it holds.
<1>4. ASSUME NEW t \in Txn, Others(t) PROVE \A s \in Txn \ {t} : Holds(s)'
  BY <1>4 DEF InsertInv, Holds, Touched, Current
\* What the steps that leave the rows alone have in common.
<1>5. ASSUME NEW t \in Txn, fill' = fill, count' = count, committed' = committed,
             pending' = pending, Others(t), Holds(t)'
      PROVE  Rest
  BY <1>4, <1>5 DEF InsertInv, SoleOwners, Stays
<1>6. ASSUME NEW t \in Txn, Begin(t) PROVE Rest
  <2>1. Holds(t)'
    BY <1>1, <1>6 DEF InsertInv, Holds, Begin, Goto, store, history, Types, Touched, Current
  <2>2. QED
    BY <1>1, <1>5, <1>6, <2>1 DEF Begin, Goto, store, history, Types
<1>7. ASSUME NEW t \in Txn, Insert(t) PROVE Rest
  <2> DEFINE idx == FindFreeIndex(count + 1)
             m == [op |-> "insert", row |-> idx]
  <2>1. /\ idx \in Rows /\ fill' = fill \cup {idx} /\ count' = count + 1
        /\ Goto(t, "open", "reserved")
        /\ row' = [row EXCEPT ![t] = idx]
        /\ markers' = [markers EXCEPT ![t] = Append(@, m)]
        /\ pending' = [pending EXCEPT ![t] = @ \cup {idx}]
        /\ UNCHANGED <<todo, committed>>
    BY <1>7 DEF Insert
  <2>2. idx \notin fill
    BY FindsFreeRow DEF InsertInv
  <2>3. m \in Marker /\ m.row = idx /\ m.op = "insert"
    BY <2>1 DEF Marker
  <2> HIDE DEF idx, m
  <2>4. Others(t)
    BY <1>1, <2>1 DEF Goto, Types
  <2>5. count' = Cardinality(fill')
    <3>1. IsFiniteSet(fill)
      BY <1>1, RowsFinite, FS_Subset DEF Types
    <3>2. QED
      BY <2>1, <2>2, <3>1, FS_AddElement DEF InsertInv
  <2>6. Holds(t)'
    <3>1. Touched(t)' = Touched(t) \cup {idx}
      BY <1>1, <2>1, <2>3, TouchedByOne DEF Types
    <3>2. \A i \in DOMAIN markers'[t] : markers'[t][i].op = "insert"
      <4>1. markers[t] \in Seq(Marker) /\ markers'[t] = Append(markers[t], m)
        BY <1>1, <2>1 DEF Types
      <4>2. \A i \in DOMAIN markers[t] : markers[t][i].op = "insert"
        BY DEF InsertInv, Holds
      <4>3. QED
        BY <2>3, <4>1, <4>2
    <3>3. Touched(t) \subseteq pending[t]
      BY <2>1 DEF Goto, InsertInv, Holds
    <3>4. /\ pc'[t] = "reserved" /\ row'[t] = idx
          /\ pending'[t] = pending[t] \cup {idx}
      BY <1>1, <2>1 DEF Goto, Types
    <3>5. QED
      BY <3>1, <3>2, <3>3, <3>4 DEF Holds
  <2>7. \A s \in Txn : idx \notin pending[s]
    BY <2>2 DEF InsertInv
  <2>8. SoleOwners'
    BY <1>1, <2>1, <2>7 DEF InsertInv, SoleOwners, Types
  <2>9. Stays' /\ \A s \in Txn : pending'[s] \subseteq fill'
    BY <1>1, <2>1, <2>2 DEF InsertInv, Stays, Types
  <2>10. QED
    BY <1>4, <2>4, <2>5, <2>6, <2>8, <2>9
<1>8. ASSUME NEW t \in Txn, EnterCallback(t) \/ CallbackReturns(t) \/ CallbackFails(t)
      PROVE  Rest
  <2>1. Holds(t)'
    BY <1>1, <1>8 DEF InsertInv, Holds, EnterCallback, CallbackReturns, CallbackFails,
                      Goto, store, history, Types, Touched, Current
  <2>2. QED
    BY <1>1, <1>5, <1>8, <2>1
       DEF EnterCallback, CallbackReturns, CallbackFails, Goto, store, history, Types
<1>9. ASSUME NEW t \in Txn, Free(t) PROVE Rest
  <2>1. /\ Goto(t, "failed", "abort")
        /\ fill' = fill \ {row[t]} /\ count' = Cardinality(fill')
        /\ pending' = [pending EXCEPT ![t] = @ \ {row[t]}]
        /\ row' = [row EXCEPT ![t] = 0]
        /\ UNCHANGED <<markers, todo, committed>>
    BY <1>3, <1>9 DEF Free
  <2>2. row[t] \in pending[t]
    BY <2>1 DEF InsertInv, Holds, Goto
  <2>3. Others(t)
    BY <1>1, <2>1 DEF Goto, Types
  <2>4. Holds(t)'
    BY <1>1, <2>1 DEF InsertInv, Holds, Goto, Types
  <2>5. \A s \in Txn \ {t} : row[t] \notin pending[s]
    BY <2>2 DEF InsertInv, SoleOwners
  <2>6. SoleOwners'
    BY <1>1, <2>1 DEF InsertInv, SoleOwners, Types
  <2>7. Stays' /\ \A s \in Txn : pending'[s] \subseteq fill'
    BY <1>1, <2>1, <2>2, <2>5 DEF InsertInv, Stays, Types
  <2>8. QED
    BY <1>4, <2>1, <2>3, <2>4, <2>6, <2>7
<1>10. ASSUME NEW t \in Txn, Reset(t), fill' = fill, count' = Cardinality(fill),
              committed' = committed, row' = row,
              \A s \in Txn \ {t} : todo'[s] = todo[s]
       PROVE  Rest
  <2>1. Others(t)
    BY <1>1, <1>10 DEF Reset, Types
  <2>2. Holds(t)'
    <3>1. pc'[t] = "idle" /\ markers'[t] = << >>
      BY <1>1, <1>10 DEF Reset, Types
    <3>2. QED
      BY <3>1 DEF Holds, Touched
  <2>3. SoleOwners' /\ Stays' /\ \A s \in Txn : pending'[s] \subseteq fill'
    BY <1>1, <1>10 DEF InsertInv, SoleOwners, Stays, Types, Reset
  <2>4. QED
    BY <1>4, <1>10, <2>1, <2>2, <2>3
<1>11. ASSUME NEW t \in Txn, Rollback(t) \/ CommitNothing(t) PROVE Rest
  <2>1. /\ Reset(t) /\ fill' = fill /\ count' = Cardinality(fill)
        /\ UNCHANGED <<committed, row, todo>>
    BY <1>11 DEF Rollback, CommitNothing, store, InsertInv
  <2>2. QED
    BY <1>10, <2>1
<1>12. ASSUME NEW t \in Txn, StartCommit(t) PROVE Rest
  <2>1. /\ markers[t] # << >> /\ Goto(t, "open", "commit")
        /\ todo' = [todo EXCEPT ![t] = Dirty(t)]
        /\ UNCHANGED <<fill, count, row, markers, pending, committed>>
    BY <1>12 DEF StartCommit, history
  <2>2. Dirty(t) # {}
    BY <1>1, <2>1, DirtyProperty
  <2>3. Touched(t) \subseteq pending[t]
    BY <2>1 DEF Goto, InsertInv, Holds
  <2>4. Holds(t)'
    BY <1>1, <2>1, <2>2, <2>3 DEF InsertInv, Holds, Goto, Types, Touched
  <2>5. Others(t)
    BY <1>1, <2>1 DEF Goto, Types
  <2>6. QED
    BY <1>5, <2>1, <2>4, <2>5
<1>13. ASSUME NEW t \in Txn, CommitMarkers(t) PROVE Rest
  <2> DEFINE touched == {r \in Touched(t) : ChunkAt(r) = Current(t)}
  <2>1. /\ Goto(t, "commit", "latched")
        /\ fill' = (fill \ touched) \cup {r \in touched : LastOp(t, r) = "insert"}
        /\ committed' = (committed \ touched) \cup {r \in touched : LastOp(t, r) = "insert"}
        /\ pending' = [pending EXCEPT ![t] = @ \ touched]
        /\ UNCHANGED <<count, row, markers, todo>>
    BY <1>13 DEF CommitMarkers
  <2>2. \A r \in touched : LastOp(t, r) = "insert"
    BY <1>1, LastIsInsert DEF InsertInv
  <2>3. Current(t) \in todo[t]
    BY <1>1, <2>1, LowestProperty DEF Goto, InsertInv, Holds, Current, Types
  <2>4. touched \subseteq pending[t]
    BY <2>1, <2>3 DEF Goto, InsertInv, Holds
  <2>5. /\ \A i \in DOMAIN markers[t] : markers[t][i].op = "insert"
        /\ todo[t] # {}
        /\ \A r \in Touched(t) : ChunkAt(r) \in todo[t] => r \in pending[t]
    BY <2>1 DEF Goto, InsertInv, Holds
  <2>6. \A r \in Touched(t) : ChunkAt(r) \in todo[t] \ {Current(t)} =>
          r \in pending[t] /\ r \notin touched
    BY <2>5
  <2> HIDE DEF touched
  <2>7. fill' = fill /\ committed' = committed \cup touched
    BY <2>1, <2>2, <2>4 DEF InsertInv
  <2>8. Others(t) /\ pc'[t] = "latched" /\ pending'[t] = pending[t] \ touched
    BY <1>1, <2>1 DEF Goto, Types
  <2>9. Touched(t)' = Touched(t) /\ Current(t)' = Current(t)
    BY <2>1 DEF Touched, Current
  <2>10. Holds(t)'
    BY <2>1, <2>5, <2>6, <2>8, <2>9 DEF Holds
  <2>11. \A s \in Txn \ {t} : pending[s] \cap touched = {}
    BY <2>4 DEF InsertInv, SoleOwners
  <2>12. SoleOwners'
    BY <1>1, <2>1, <2>8 DEF InsertInv, SoleOwners
  <2>13. Stays' /\ \A s \in Txn : pending'[s] \subseteq fill'
    BY <2>4, <2>7, <2>8, <2>11 DEF InsertInv, Stays
  <2>14. count' = Cardinality(fill')
    BY <2>1, <2>7 DEF InsertInv
  <2>15. QED
    BY <1>4, <2>8, <2>10, <2>12, <2>13, <2>14
<1>14. ASSUME NEW t \in Txn, Recount(t) PROVE Rest
  <2>1. /\ pc[t] = "latched" /\ count' = Cardinality(fill)
        /\ todo' = [todo EXCEPT ![t] = @ \ {Current(t)}]
        /\ UNCHANGED <<fill, row, committed>>
    BY <1>14 DEF Recount
  <2>2. todo'[t] = todo[t] \ {Current(t)} /\ \A s \in Txn \ {t} : todo'[s] = todo[s]
    BY <1>1, <2>1 DEF Types
  <2>3. CASE todo'[t] = {}
    <3>1. Reset(t)
      BY <1>14, <2>3 DEF Recount
    <3>2. QED
      BY <1>10, <2>1, <2>2, <3>1
  <2>4. CASE todo'[t] # {}
    <3>1. /\ pc' = [pc EXCEPT ![t] = "commit"]
          /\ UNCHANGED <<markers, pending>>
      BY <1>14, <2>4 DEF Recount
    <3>2. Others(t) /\ pc'[t] = "commit"
      BY <1>1, <2>1, <2>2, <3>1 DEF Types
    <3>3. \A r \in Touched(t) : ChunkAt(r) \in todo'[t] => r \in pending[t]
      BY <2>1, <2>2 DEF InsertInv, Holds
    <3>4. Holds(t)'
      BY <2>4, <3>1, <3>2, <3>3 DEF Holds, InsertInv, Touched
    <3>5. count' = count
      BY <2>1 DEF InsertInv
    <3>6. QED
      BY <1>5, <2>1, <3>1, <3>2, <3>4, <3>5
  <2>5. QED
    BY <2>3, <2>4
<1>15. ASSUME UNCHANGED vars PROVE Rest
  BY <1>15 DEF vars, store, local, history, InsertInv, SoleOwners, Stays,
               Holds, Touched, Current
<1>16. ASSUME NEW t \in Txn, NEW S, MarkDeleted(t, S) PROVE FALSE
  BY <1>3, <1>16 DEF MarkDeleted
<1>17. Rest
  BY <1>6, <1>7, <1>8, <1>9, <1>11, <1>12, <1>13, <1>14, <1>15, <1>16
     DEF Next, DeleteAt, DeleteAll
<1>18. QED
  BY <1>2, <1>17 DEF InsertInv

\* The part of the invariant for inserting clients: the workload never changes.
InsertsOnly == Inserting => InsertInv

LEMMA InsertsOnlyStep == InsertsOnly /\ [Next]_vars => InsertsOnly'
<1>1. [Next]_vars => workload' = workload
  BY DEF Next, vars
<1>2. QED
  BY <1>1, InsertStep DEF InsertsOnly, Inserting

\* Concurrent inserting transactions, some of which fail or roll back, never
\* hold the same new row.
THEOREM NewRowsHaveOneOwner == Spec => []OneOwner
<1>1. Init => InsertsOnly
  BY InsertInit DEF InsertsOnly
<1>2. InsertsOnly => OneOwner
  BY DEF InsertsOnly, InsertInv, OneOwner
<1>3. QED
  BY <1>1, <1>2, InsertsOnlyStep, PTL DEF Spec

\* Nothing they do removes a committed row or hands it out again.
THEOREM CommittedRowsStay == Spec => []CommittedStays
<1>1. Init => InsertsOnly
  BY InsertInit DEF InsertsOnly
<1>2. InsertsOnly => CommittedStays
  BY DEF InsertsOnly, InsertInv, CommittedStays
<1>3. QED
  BY <1>1, <1>2, InsertsOnlyStep, PTL DEF Spec

\* next() hands out a free row unless a commit is half-way through
\* commitMarkers(), and at any moment when clients only insert.
THEOREM InsertsGetFreshRows == Spec => FreshRow
<1> DEFINE Fresh == Inserting \/ ~Recounting =>
                      \A t \in Txn :
                        pc[t] = "open" /\ pc'[t] = "reserved" => row'[t] \notin fill
<1>1. Init => InsertsOnly
  BY InsertInit DEF InsertsOnly
<1>2. TypeOK /\ CountIsPopulation /\ InsertsOnly /\ [Next]_vars => [Fresh]_vars
  <2> SUFFICES ASSUME TypeOK, CountIsPopulation, InsertsOnly, Next,
                      Inserting \/ ~Recounting, NEW t \in Txn,
                      pc[t] = "open", pc'[t] = "reserved"
               PROVE  row'[t] \notin fill
    OBVIOUS
  <2>1. row'[t] = FindFreeIndex(count + 1)
    BY ReservedByInsert DEF TypeOK
  <2>2. count = Cardinality(fill)
    BY DEF InsertsOnly, InsertInv, CountIsPopulation
  <2>3. QED
    BY <2>1, <2>2, FindsFreeRow
<1>3. QED
  BY <1>1, <1>2, InsertsOnlyStep, Typing, CounterIsPopulation, PTL DEF Spec, FreshRow
=============================================================================
