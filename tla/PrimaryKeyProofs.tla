-------------------------- MODULE PrimaryKeyProofs --------------------------
(***************************************************************************)
(* What PrimaryKey promises, for any number of goroutines, keys and rows.  *)
(* The lookup table, the keys of the rows and the fill lists change in     *)
(* three steps of a commit, and transactions decide by what they read      *)
(* before: the invariant says what pending markers and keys may rely on.   *)
(***************************************************************************)
EXTENDS PrimaryKey, TLAPS, FiniteSetTheorems, WellFoundedInduction

-----------------------------------------------------------------------------
(* Numbers *)

\* A non-empty set of numbers has a least element.
LEMMA LeastExists ==
  ASSUME NEW S \in SUBSET Nat, S # {}
  PROVE  \E x \in S : \A y \in S : x <= y
<1>1. PICK x \in S : \A y \in S : ~(<<y, x>> \in OpToRel(<, Nat))
  BY NatLessThanWellFounded, WFMin, Zenon
<1>2. ASSUME NEW y \in S, y < x PROVE FALSE
  <2>1. <<y, x>> \in Nat \X Nat /\ <<y, x>>[1] < <<y, x>>[2]
    BY <1>2
  <2>2. <<y, x>> \in OpToRel(<, Nat)
    BY <2>1, Zenon DEF OpToRel
  <2>3. QED
    BY <1>1, <2>2, Zenon
<1>3. QED
  BY <1>2

\* A bounded one has a greatest element.
LEMMA GreatestExists ==
  ASSUME NEW n \in Nat, NEW S \in SUBSET (0 .. n), S # {}
  PROVE  \E x \in S : \A y \in S : y <= x
<1> DEFINE T == {n - x : x \in S}
<1>1. T \in SUBSET Nat /\ T # {}
  <2>1. \A x \in S : n - x \in Nat
    OBVIOUS
  <2>2. QED
    BY <2>1, Zenon
<1>2. PICK z \in T : \A y \in T : z <= y
  BY <1>1, LeastExists
<1>3. PICK x \in S : z = n - x
  OBVIOUS
<1>4. \A y \in S : n - x <= n - y
  BY <1>2, <1>3
<1>5. \A y \in S : y <= x
  BY <1>4
<1>6. QED
  BY <1>5

-----------------------------------------------------------------------------
(* What transactions have collected *)

Put == [row : Row, key : Key]

Entries(s) == {s[i] : i \in DOMAIN s}
Deletions(ms) == {m \in Entries(ms) : m.op = "delete"}
Deleted(ms) == {m.row : m \in Deletions(ms)}
Inserted(ms) == {m.row : m \in {e \in Entries(ms) : e.op = "insert"}}
PutRows(ps) == {p.row : p \in Entries(ps)}
OnePerRow(ps) == \A i, j \in DOMAIN ps : i # j => ps[i].row # ps[j].row

Committing == {"deletes", "keys"}

\* The clients of which something is promised.
Orderly == KeysStay \/ OneByOne

\* Concurrent clients that keep their rows.
Grows == KeysStay /\ workload.ops \cap {"delete", "fail"} = {}

-----------------------------------------------------------------------------
(* The inductive invariant *)

\* One goroutine commits; a goroutine visits the row that it has found.
Latching ==
  /\ \A t \in Txn : pc[t] \in Committing <=> latch = t
  /\ \A t \in Txn : pc[t] = "visit" => visit[t] \in Put

\* One transaction at a time.
Turns == workload.serial => \A s, t \in Txn : s # t => AtRest(s) \/ AtRest(t)

NoDeletions == "delete" \notin workload.ops => \A t \in Txn : Deletions(marks[t]) = {}

\* One key at most is pending, which a transaction that inserts has a marker for.
OnePut ==
  OneByOne => \A t \in Txn :
    /\ Len(puts[t]) <= 1
    /\ "setkey" \notin workload.ops /\ puts[t] # << >> => marks[t] # << >>

Keyed == \A r \in present : data[r] \in Key

SeekRow == Orderly => \A k \in Key : Found(k) => seek[k] \in present

SeekKey == KeysStay => \A k \in Key : Found(k) => data[seek[k]] = k

\* A row with a key is taken, but for the rows that a commit is about to clear.
Inside ==
  Orderly => \A r \in present \ fill :
    \E t \in Txn : pc[t] = "deletes" /\ r \in Deleted(marks[t])

\* No transaction deletes a row and gives it a key.
Separate == Orderly => \A t \in Txn : Deleted(marks[t]) \cap PutRows(puts[t]) = {}

\* A row that waits for its key is taken, by its marker at the latest.
PutsInside ==
  Orderly => \A t \in Txn : \A r \in PutRows(puts[t]) :
    r \in fill \/ (pc[t] \notin Committing /\ r \in Inserted(marks[t]))

PutsReserved == Grows => \A t \in Txn : PutRows(puts[t]) \subseteq fill

\* What QueryKey found is still there when it gets the latch.
VisitRow == Orderly => \A t \in Txn : pc[t] = "visit" => visit[t].row \in present
VisitKey == KeysStay => \A t \in Txn : pc[t] = "visit" => data[visit[t].row] = visit[t].key

\* So is what DeleteKey found, when the commit deletes it.
DeletionKey ==
  KeysStay => \A t \in Txn : pc[t] # "keys" => \A m \in Deletions(marks[t]) :
    m.row \in present /\ data[m.row] = m.key

\* Keys are pending for rows that have none, each for a row of its own.
Fresh ==
  KeysStay =>
    /\ \A t \in Txn : PutRows(puts[t]) \cap present = {} /\ OnePerRow(puts[t])
    /\ \A s, t \in Txn : s # t => PutRows(puts[s]) \cap PutRows(puts[t]) = {}

Reach == OneByOne => \A r \in present : seek[data[r]] = r

\* A pending key is not in use.
Unused == OneByOne => \A t \in Txn : \A p \in Entries(puts[t]) : ~Found(p.key)

KeyInv ==
  /\ TypeOK /\ Latching /\ Turns /\ NoDeletions /\ OnePut /\ Keyed
  /\ SeekRow /\ SeekKey /\ Inside /\ Separate /\ PutsInside /\ PutsReserved
  /\ VisitRow /\ VisitKey /\ DeletionKey /\ Fresh /\ Reach /\ Unused

-----------------------------------------------------------------------------
(* Markers and keys *)

LEMMA AppendEntries ==
  ASSUME NEW S, NEW s \in Seq(S), NEW e \in S
  PROVE  /\ Append(s, e) \in Seq(S) /\ Append(s, e) # << >>
         /\ Len(Append(s, e)) = Len(s) + 1
         /\ Entries(Append(s, e)) = Entries(s) \cup {e}
         /\ e \in Entries(Append(s, e))
<1> DEFINE u == Append(s, e)
<1>1. u \in Seq(S) /\ Len(u) = Len(s) + 1 /\ u # << >> /\ DOMAIN u = 1 .. Len(s) + 1
      /\ DOMAIN s = 1 .. Len(s) /\ Len(s) \in Nat
  OBVIOUS
<1>2. u[Len(s) + 1] = e /\ \A i \in DOMAIN s : u[i] = s[i]
  OBVIOUS
<1> HIDE DEF u
<1>3. Entries(u) = Entries(s) \cup {e}
  BY <1>1, <1>2 DEF Entries
<1>4. QED
  BY <1>1, <1>3 DEF u

LEMMA AppendMark ==
  ASSUME NEW ms \in Seq(Mark), NEW m \in Mark
  PROVE  /\ Append(ms, m) \in Seq(Mark) /\ Append(ms, m) # << >>
         /\ m.op = "insert" => Deletions(Append(ms, m)) = Deletions(ms)
                               /\ Deleted(Append(ms, m)) = Deleted(ms)
                               /\ Inserted(Append(ms, m)) = Inserted(ms) \cup {m.row}
         /\ m.op = "delete" => Deletions(Append(ms, m)) = Deletions(ms) \cup {m}
                               /\ Deleted(Append(ms, m)) = Deleted(ms) \cup {m.row}
                               /\ Inserted(Append(ms, m)) = Inserted(ms)
<1> DEFINE u == Append(ms, m)
<1>1. u \in Seq(Mark) /\ u # << >> /\ Entries(u) = Entries(ms) \cup {m}
  BY AppendEntries
<1> HIDE DEF u
<1>2. CASE m.op = "insert"
  <2>1. Deletions(u) = Deletions(ms)
    BY <1>1, <1>2 DEF Deletions
  <2>2. Inserted(u) = Inserted(ms) \cup {m.row}
    BY <1>1, <1>2 DEF Inserted
  <2>3. QED
    BY <1>1, <1>2, <2>1, <2>2 DEF Deleted, u
<1>3. CASE m.op = "delete"
  <2>1. Deletions(u) = Deletions(ms) \cup {m}
    BY <1>1, <1>3 DEF Deletions
  <2>2. Inserted(u) = Inserted(ms)
    BY <1>1, <1>3 DEF Inserted
  <2>3. Deleted(u) = Deleted(ms) \cup {m.row}
    BY <2>1 DEF Deleted
  <2>4. QED
    BY <1>1, <1>3, <2>1, <2>2, <2>3 DEF u
<1>4. QED
  BY <1>1, <1>2, <1>3 DEF Mark, u

LEMMA AppendPut ==
  ASSUME NEW ps \in Seq(Put), NEW p \in Put
  PROVE  /\ Append(ps, p) \in Seq(Put) /\ Len(Append(ps, p)) = Len(ps) + 1
         /\ PutRows(Append(ps, p)) = PutRows(ps) \cup {p.row}
         /\ Entries(Append(ps, p)) = Entries(ps) \cup {p}
         /\ OnePerRow(ps) /\ p.row \notin PutRows(ps) => OnePerRow(Append(ps, p))
<1> DEFINE u == Append(ps, p)
<1>1. u \in Seq(Put) /\ Len(u) = Len(ps) + 1 /\ Entries(u) = Entries(ps) \cup {p}
  BY AppendEntries
<1>2. DOMAIN u = 1 .. Len(ps) + 1 /\ DOMAIN ps = 1 .. Len(ps) /\ Len(ps) \in Nat
  OBVIOUS
<1>3. u[Len(ps) + 1] = p /\ \A i \in DOMAIN ps : u[i] = ps[i]
  OBVIOUS
<1> HIDE DEF u
<1>4. PutRows(u) = PutRows(ps) \cup {p.row}
  BY <1>1 DEF PutRows
<1>5. ASSUME OnePerRow(ps), p.row \notin PutRows(ps) PROVE OnePerRow(u)
  <2>1. \A i \in DOMAIN ps : ps[i].row # p.row
    BY <1>5 DEF PutRows, Entries
  <2>2. \A i, j \in DOMAIN ps : i # j => u[i].row # u[j].row
    BY <1>3, <1>5 DEF OnePerRow
  <2>3. \A i \in DOMAIN u : i \in DOMAIN ps \/ i = Len(ps) + 1
    BY <1>2
  <2>4. \A i \in DOMAIN ps : u[i].row # u[Len(ps) + 1].row
    BY <1>3, <2>1
  <2>5. QED
    BY <2>2, <2>3, <2>4 DEF OnePerRow
<1>6. QED
  BY <1>1, <1>4, <1>5 DEF u

LEMMA TailPuts ==
  ASSUME NEW ps \in Seq(Put), ps # << >>
  PROVE  /\ Head(ps) \in Put /\ Head(ps) \in Entries(ps) /\ Head(ps).row \in PutRows(ps)
         /\ Tail(ps) \in Seq(Put) /\ Len(ps) \in Nat /\ Len(Tail(ps)) = Len(ps) - 1
         /\ Entries(Tail(ps)) \subseteq Entries(ps)
         /\ PutRows(Tail(ps)) \subseteq PutRows(ps)
         /\ Len(ps) <= 1 => Entries(Tail(ps)) = {}
         /\ OnePerRow(ps) => Head(ps).row \notin PutRows(Tail(ps)) /\ OnePerRow(Tail(ps))
<1> DEFINE u == Tail(ps)
<1>1. /\ u \in Seq(Put) /\ Len(u) = Len(ps) - 1 /\ Len(ps) \in Nat \ {0}
      /\ DOMAIN u = 1 .. Len(ps) - 1 /\ DOMAIN ps = 1 .. Len(ps)
      /\ \A i \in DOMAIN u : u[i] = ps[i + 1] /\ i + 1 \in DOMAIN ps
      /\ Head(ps) = ps[1] /\ 1 \in DOMAIN ps /\ Head(ps) \in Put
  OBVIOUS
<1> HIDE DEF u
<1>2. Head(ps) \in Entries(ps)
  BY <1>1 DEF Entries
<1>3. Entries(u) \subseteq Entries(ps)
  BY <1>1 DEF Entries
<1>4. Len(ps) <= 1 => Entries(u) = {}
  BY <1>1 DEF Entries
<1>5. ASSUME OnePerRow(ps) PROVE Head(ps).row \notin PutRows(u) /\ OnePerRow(u)
  <2>1. \A i \in DOMAIN u : u[i].row # ps[1].row
    <3>1. \A i \in DOMAIN u : i + 1 # 1
      BY <1>1
    <3>2. QED
      BY <1>1, <1>5, <3>1 DEF OnePerRow
  <2>2. Head(ps).row \notin PutRows(u)
    BY <1>1, <2>1 DEF PutRows, Entries
  <2>3. \A i, j \in DOMAIN u : i # j => i + 1 # j + 1
    BY <1>1
  <2>4. OnePerRow(u)
    BY <1>1, <1>5, <2>3 DEF OnePerRow
  <2>5. QED
    BY <2>2, <2>4
<1>6. QED
  BY <1>1, <1>2, <1>3, <1>4, <1>5 DEF PutRows, u

LEMMA NothingPending ==
  /\ Deletions(<< >>) = {} /\ Deleted(<< >>) = {} /\ Inserted(<< >>) = {}
  /\ PutRows(<< >>) = {} /\ Entries(<< >>) = {} /\ OnePerRow(<< >>)
BY DEF Deletions, Deleted, Inserted, PutRows, Entries, OnePerRow

\* The clients stay what they are.
LEMMA SameClients ==
  ASSUME workload' = workload
  PROVE  /\ KeysStay' <=> KeysStay
         /\ OneByOne' <=> OneByOne
         /\ Orderly' <=> Orderly
         /\ Grows' <=> Grows
BY DEF KeysStay, OneByOne, Orderly, Grows

\* Orderly clients run one at a time, or delete nothing and fail nowhere.
LEMMA OrderlyClients ==
  /\ Orderly => KeysStay \/ "delete" \notin workload.ops
  /\ Orderly => OneByOne \/ Grows
  /\ Grows => KeysStay /\ "delete" \notin workload.ops /\ "fail" \notin workload.ops
  /\ OneByOne => workload.serial /\ Orderly
  /\ KeysStay => Orderly /\ "setkey" \notin workload.ops
  /\ Orderly /\ "setkey" \in workload.ops =>
       OneByOne /\ workload.size <= 1 /\ "delete" \notin workload.ops
BY DEF Orderly, Grows, KeysStay, OneByOne

-----------------------------------------------------------------------------
(* Steps *)

Step(t) ==
  \/ \E k \in Key : \/ InsertKey(t, k) \/ InsertKeyFails(t, k) \/ UpsertKey(t, k)
                    \/ Lookup(t, k) \/ DeleteKey(t, k)
  \/ Visit(t)
  \/ CommitMarkers(t) \/ CommitDeletes(t) \/ CommitKey(t) \/ Unlatch(t)
  \/ Rollback(t)

Insertion(t, k) == InsertKey(t, k) \/ InsertKeyFails(t, k) \/ UpsertKey(t, k)

\* An insertion takes a row that is free, for its key or just for its marker.
LEMMA InsertionStep ==
  ASSUME TypeOK, NEW t \in Txn, NEW k \in Key, Insertion(t, k)
  PROVE  /\ pc[t] = "open" /\ Turn(t) /\ RoomFor(t) /\ ~Found(k)
         /\ UNCHANGED <<workload, seek, data, present, latch, pc, visit>>
         /\ \E r \in Row :
              /\ r \notin fill
              /\ fill' = fill \cup {r} \/ (fill' = fill /\ "fail" \in workload.ops)
              /\ marks' = [marks EXCEPT ![t] = Append(@, [op |-> "insert", row |-> r, key |-> k])]
              /\ puts' = [puts EXCEPT ![t] = Append(@, [row |-> r, key |-> k])]
<1>1. CASE InsertKey(t, k) \/ UpsertKey(t, k)
  BY <1>1 DEF InsertKey, UpsertKey, InsertRow, FirstFree
<1>2. CASE InsertKeyFails(t, k)
  BY <1>2 DEF InsertKeyFails, FirstFree, store
<1>3. QED
  BY <1>1, <1>2 DEF Insertion

\* What a commit deletes.
LEMMA GoneProperty ==
  ASSUME NEW t \in Txn
  PROVE  {marks[t][i].row : i \in {j \in DOMAIN marks[t] : marks[t][j].op = "delete"}}
           = Deleted(marks[t])
BY DEF Deleted, Deletions, Entries

LEMMA CommitDeletesStep ==
  ASSUME NEW t \in Txn, CommitDeletes(t)
  PROVE  /\ Goto(t, "deletes", "keys")
         /\ present' = present \ Deleted(marks[t])
         /\ seek' = [k \in Key |-> IF \E r \in Deleted(marks[t]) : data[r] = k
                                   THEN None ELSE seek[k]]
         /\ UNCHANGED <<workload, fill, data, latch, visit, pending>>
BY GoneProperty DEF CommitDeletes

LEMMA LastOnInsert ==
  ASSUME TypeOK, NEW t \in Txn, NEW r,
         r \in {marks[t][i].row : i \in DOMAIN marks[t]}, r \notin Deleted(marks[t])
  PROVE  LastOn(t, r) = "insert"
<1> DEFINE ms == marks[t]
           on == {i \in DOMAIN ms : ms[i].row = r}
<1>1. ms \in Seq(Mark) /\ Len(ms) \in Nat /\ DOMAIN ms = 1 .. Len(ms)
  BY DEF TypeOK
<1>2. \A i \in DOMAIN ms : ms[i] \in Mark
  BY <1>1
<1> HIDE DEF ms
<1>3. \A i \in on : ms[i].op = "insert"
  <2>1. ASSUME NEW i \in on, ms[i].op = "delete" PROVE FALSE
    BY <2>1 DEF Deleted, Deletions, Entries, ms
  <2>2. QED
    BY <1>2, <2>1 DEF Mark
<1>4. on \in SUBSET (0 .. Len(ms)) /\ on # {}
  BY <1>1 DEF ms
<1> HIDE DEF on
<1>5. \E i \in on : \A j \in on : j <= i
  BY <1>1, <1>4, GreatestExists
<1>6. LastOn(t, r) = ms[CHOOSE i \in on : \A j \in on : j <= i].op
  BY Zenon DEF LastOn, ms, on
<1>7. (CHOOSE i \in on : \A j \in on : j <= i) \in on
  BY <1>5, Zenon
<1>8. QED
  BY <1>3, <1>6, <1>7

\* Only what it deletes is free after a commit, and nothing that it inserts.
LEMMA CommitMarkersStep ==
  ASSUME TypeOK, NEW t \in Txn, CommitMarkers(t)
  PROVE  /\ latch = None /\ latch' = t
         /\ Goto(t, "open", "deletes")
         /\ ~AtRest(t)
         /\ fill' \subseteq Row
         /\ \A r \in fill : r \notin Deleted(marks[t]) => r \in fill'
         /\ \A r \in Inserted(marks[t]) : r \notin Deleted(marks[t]) => r \in fill'
         /\ UNCHANGED <<workload, seek, data, present, visit, pending>>
<1> DEFINE touched == {marks[t][i].row : i \in DOMAIN marks[t]}
<1>1. /\ latch = None /\ latch' = t
      /\ Goto(t, "open", "deletes")
      /\ marks[t] # << >> \/ puts[t] # << >>
      /\ fill' = (fill \ touched) \cup {r \in touched : LastOn(t, r) = "insert"}
      /\ UNCHANGED <<workload, seek, data, present, visit, pending>>
  BY DEF CommitMarkers
<1>2. \A r \in touched : r \notin Deleted(marks[t]) => LastOn(t, r) = "insert"
  BY LastOnInsert
<1>3. Inserted(marks[t]) \subseteq touched
  BY DEF Inserted, Entries
<1>4. touched \subseteq Row
  <2>1. \A i \in DOMAIN marks[t] : marks[t][i] \in Mark
    BY DEF TypeOK
  <2>2. QED
    BY <2>1 DEF Mark
<1> HIDE DEF touched
<1>5. QED
  BY <1>1, <1>2, <1>3, <1>4 DEF AtRest, TypeOK

-----------------------------------------------------------------------------
(* Typing *)

LEMMA KeyTypingStep == TypeOK /\ Latching /\ [Next]_vars => TypeOK'
<1> SUFFICES ASSUME TypeOK, Latching, [Next]_vars PROVE TypeOK'
  OBVIOUS
<1>1. ASSUME NEW t \in Txn, NEW k \in Key, Insertion(t, k) PROVE TypeOK'
  <2>1. PICK r \in Row :
          /\ fill' = fill \cup {r} \/ fill' = fill
          /\ marks' = [marks EXCEPT ![t] = Append(@, [op |-> "insert", row |-> r, key |-> k])]
          /\ puts' = [puts EXCEPT ![t] = Append(@, [row |-> r, key |-> k])]
    BY <1>1, InsertionStep
  <2>2. UNCHANGED <<workload, seek, data, present, latch, pc, visit>>
    BY <1>1, InsertionStep
  <2>3. /\ [op |-> "insert", row |-> r, key |-> k] \in Mark
        /\ [row |-> r, key |-> k] \in [row : Row, key : Key]
    BY DEF Mark
  <2>4. /\ Append(marks[t], [op |-> "insert", row |-> r, key |-> k]) \in Seq(Mark)
        /\ Append(puts[t], [row |-> r, key |-> k]) \in Seq([row : Row, key : Key])
    BY <2>3, AppendMark, AppendPut DEF TypeOK, Put
  <2>5. /\ marks' \in [Txn -> Seq(Mark)]
        /\ puts' \in [Txn -> Seq([row : Row, key : Key])]
    BY <2>1, <2>4 DEF TypeOK
  <2>6. QED
    BY <2>1, <2>2, <2>5 DEF TypeOK
<1>2. ASSUME NEW t \in Txn, NEW k \in Key, Lookup(t, k) PROVE TypeOK'
  BY <1>2 DEF Lookup, Goto, Found, TypeOK, store, pending
<1>3. ASSUME NEW t \in Txn, NEW k \in Key, DeleteKey(t, k) PROVE TypeOK'
  <2>1. [op |-> "delete", row |-> seek[k], key |-> k] \in Mark
    BY <1>3 DEF DeleteKey, Found, TypeOK, Mark
  <2>2. marks' \in [Txn -> Seq(Mark)]
    BY <1>3, <2>1 DEF DeleteKey, TypeOK
  <2>3. QED
    BY <1>3, <2>2 DEF DeleteKey, TypeOK, store
<1>4. ASSUME NEW t \in Txn, Visit(t) PROVE TypeOK'
  <2>1. puts' \in [Txn -> Seq([row : Row, key : Key])]
    <3>1. CASE UNCHANGED puts
      BY <3>1 DEF TypeOK
    <3>2. CASE \E k \in Key :
                 puts' = [puts EXCEPT ![t] = Append(@, [row |-> visit[t].row, key |-> k])]
      <4>1. visit[t].row \in Row
        BY <1>4 DEF Latching, Visit, Goto, Put
      <4>2. PICK k \in Key :
              puts' = [puts EXCEPT ![t] = Append(@, [row |-> visit[t].row, key |-> k])]
        BY <3>2
      <4>3. Append(puts[t], [row |-> visit[t].row, key |-> k]) \in Seq([row : Row, key : Key])
        BY <4>1, AppendPut DEF TypeOK, Put
      <4>4. QED
        BY <4>2, <4>3 DEF TypeOK
    <3>3. QED
      BY <1>4, <3>1, <3>2 DEF Visit
  <2>2. QED
    BY <1>4, <2>1 DEF Visit, Goto, TypeOK, store
<1>5. ASSUME NEW t \in Txn, CommitMarkers(t) PROVE TypeOK'
  BY <1>5, CommitMarkersStep DEF Goto, TypeOK, pending
<1>6. ASSUME NEW t \in Txn, CommitDeletes(t) PROVE TypeOK'
  BY <1>6 DEF CommitDeletes, Goto, TypeOK, pending
<1>7. ASSUME NEW t \in Txn, CommitKey(t) PROVE TypeOK'
  <2>1. Head(puts[t]) \in Put /\ Tail(puts[t]) \in Seq(Put)
    BY <1>7, TailPuts DEF CommitKey, TypeOK, Put
  <2>2. puts' \in [Txn -> Seq(Put)]
    BY <1>7, <2>1 DEF CommitKey, TypeOK, Put
  <2>3. QED
    BY <1>7, <2>1, <2>2 DEF CommitKey, TypeOK, Put
<1>8. ASSUME NEW t \in Txn, Unlatch(t) \/ Rollback(t) PROVE TypeOK'
  <2>1. << >> \in Seq(Mark) /\ << >> \in Seq([row : Row, key : Key])
    OBVIOUS
  <2>2. Done(t) /\ latch' \in {latch, None} /\ UNCHANGED <<workload, store, visit>>
    BY <1>8 DEF Unlatch, Rollback
  <2>3. /\ marks' \in [Txn -> Seq(Mark)]
        /\ puts' \in [Txn -> Seq([row : Row, key : Key])]
        /\ pc' \in [Txn -> {"open", "visit", "deletes", "keys"}]
    BY <2>1, <2>2 DEF Done, TypeOK
  <2>4. QED
    BY <2>2, <2>3 DEF TypeOK, store
<1>9. CASE UNCHANGED vars
  BY <1>9 DEF vars, store, pending, TypeOK
<1>10. QED
  BY <1>1, <1>2, <1>3, <1>4, <1>5, <1>6, <1>7, <1>8, <1>9 DEF Next, Insertion

-----------------------------------------------------------------------------
(* One transaction at a time *)

LEMMA OthersStay ==
  ASSUME TypeOK, NEW t \in Txn, Step(t), NEW s \in Txn \ {t}
  PROVE  /\ pc'[s] = pc[s] /\ visit'[s] = visit[s]
         /\ marks'[s] = marks[s] /\ puts'[s] = puts[s]
<1> DEFINE Stays == /\ pc'[s] = pc[s] /\ visit'[s] = visit[s]
                    /\ marks'[s] = marks[s] /\ puts'[s] = puts[s]
<1>1. ASSUME NEW k \in Key, Insertion(t, k) PROVE Stays
  <2>1. PICK r \in Row :
          /\ marks' = [marks EXCEPT ![t] = Append(@, [op |-> "insert", row |-> r, key |-> k])]
          /\ puts' = [puts EXCEPT ![t] = Append(@, [row |-> r, key |-> k])]
    BY <1>1, InsertionStep
  <2>2. pc' = pc /\ visit' = visit
    BY <1>1, InsertionStep
  <2>3. QED
    BY <2>1, <2>2 DEF TypeOK
<1>2. ASSUME NEW k \in Key, Lookup(t, k) \/ DeleteKey(t, k) PROVE Stays
  BY <1>2 DEF Lookup, DeleteKey, Goto, TypeOK, pending
<1>3. ASSUME Visit(t) PROVE Stays
  BY <1>3 DEF Visit, Goto, TypeOK
<1>4. ASSUME CommitMarkers(t) \/ CommitDeletes(t) PROVE Stays
  BY <1>4 DEF CommitMarkers, CommitDeletes, Goto, TypeOK, pending
<1>5. ASSUME CommitKey(t) PROVE Stays
  BY <1>5 DEF CommitKey, TypeOK
<1>6. ASSUME Unlatch(t) \/ Rollback(t) PROVE Stays
  BY <1>6 DEF Unlatch, Rollback, Done, TypeOK
<1>7. QED
  BY <1>1, <1>2, <1>3, <1>4, <1>5, <1>6 DEF Step, Insertion

LEMMA SameWorkload ==
  ASSUME NEW t \in Txn, Step(t)
  PROVE  workload' = workload
BY DEF Step, InsertKey, InsertKeyFails, UpsertKey, Lookup, DeleteKey, Visit, CommitMarkers,
       CommitDeletes, CommitKey, Unlatch, Rollback

\* Who makes a step is alone in it, if transactions run one at a time.
LEMMA Alone ==
  ASSUME TypeOK, Turns, NEW t \in Txn, Step(t), workload.serial, NEW s \in Txn \ {t}
  PROVE  AtRest(s)
<1>1. CASE Turn(t)
  BY <1>1 DEF Turn
<1>2. CASE ~AtRest(t)
  BY <1>2 DEF Turns
<1>3. Turn(t) \/ ~AtRest(t)
  <2>1. ASSUME NEW k \in Key, Insertion(t, k) \/ Lookup(t, k) \/ DeleteKey(t, k)
        PROVE  Turn(t)
    BY <2>1, InsertionStep DEF Lookup, DeleteKey
  <2>2. ASSUME \/ Visit(t) \/ CommitMarkers(t) \/ CommitDeletes(t) \/ CommitKey(t)
               \/ Unlatch(t) \/ Rollback(t)
        PROVE  ~AtRest(t)
    BY <2>2 DEF Visit, CommitMarkers, CommitDeletes, CommitKey, Unlatch, Rollback, Goto, AtRest
  <2>3. QED
    BY <2>1, <2>2 DEF Step, Insertion
<1>4. QED
  BY <1>1, <1>2, <1>3

LEMMA TurnsStep ==
  ASSUME TypeOK, Turns, NEW t \in Txn, Step(t)
  PROVE  Turns'
<1> SUFFICES ASSUME workload.serial
             PROVE  \A r, s \in Txn : r # s => AtRest(r)' \/ AtRest(s)'
  BY SameWorkload DEF Turns
<1>1. \A s \in Txn \ {t} : AtRest(s)'
  BY Alone, OthersStay DEF AtRest
<1>2. QED
  BY <1>1

LEMMA LatchingStep ==
  ASSUME TypeOK, Latching, NEW t \in Txn, Step(t)
  PROVE  Latching'
<1>0. /\ \A s \in Txn : pc[s] \in Committing <=> latch = s
      /\ \A s \in Txn : pc[s] = "visit" => visit[s] \in Put
      /\ None \notin Txn
  BY PrimaryKeyAssumption DEF Latching
<1>1. \A s \in Txn \ {t} : pc'[s] = pc[s] /\ visit'[s] = visit[s]
  BY OthersStay
<1>2. ASSUME NEW k \in Key, Insertion(t, k) PROVE Latching'
  BY <1>0, <1>2, InsertionStep DEF Latching
<1>3. ASSUME NEW k \in Key, Lookup(t, k) PROVE Latching'
  <2>1. /\ pc[t] = "open" /\ pc'[t] = "visit" /\ latch' = latch
        /\ visit'[t] = [row |-> seek[k], key |-> k] /\ seek[k] \in Row
    BY <1>3 DEF Lookup, Goto, Found, TypeOK, store
  <2>2. visit'[t] \in Put
    BY <2>1 DEF Put
  <2>3. QED
    BY <1>0, <1>1, <2>1, <2>2 DEF Latching, Committing
<1>4. ASSUME NEW k \in Key, DeleteKey(t, k) PROVE Latching'
  BY <1>0, <1>4 DEF DeleteKey, Latching, store
<1>5. ASSUME Visit(t) \/ Rollback(t) PROVE Latching'
  <2>1. pc'[t] = "open" /\ pc[t] \notin Committing /\ latch' = latch
    BY <1>5 DEF Visit, Rollback, Done, Goto, TypeOK, store, Committing
  <2>2. QED
    BY <1>0, <1>1, <2>1 DEF Latching, Committing
<1>6. ASSUME CommitMarkers(t) PROVE Latching'
  <2>1. pc'[t] = "deletes" /\ pc[t] = "open" /\ latch = None /\ latch' = t
    BY <1>6 DEF CommitMarkers, Goto, TypeOK
  <2>2. QED
    BY <1>0, <1>1, <2>1 DEF Latching, Committing
<1>7. ASSUME CommitDeletes(t) \/ CommitKey(t) PROVE Latching'
  <2>1. pc'[t] = "keys" /\ pc[t] \in Committing /\ latch' = latch
    BY <1>7 DEF CommitDeletes, CommitKey, Goto, TypeOK, Committing
  <2>2. QED
    BY <1>0, <1>1, <2>1 DEF Latching, Committing
<1>8. ASSUME Unlatch(t) PROVE Latching'
  <2>1. pc'[t] = "open" /\ pc[t] \in Committing /\ latch' = None
    BY <1>8 DEF Unlatch, Done, TypeOK, Committing
  <2>2. QED
    BY <1>0, <1>1, <2>1 DEF Latching, Committing
<1>9. QED
  BY <1>2, <1>3, <1>4, <1>5, <1>6, <1>7, <1>8 DEF Step, Insertion

-----------------------------------------------------------------------------
(* What is pending *)

\* What the invariant says of clients that run one at a time, or keep all rows.
LEMMA Quiet ==
  ASSUME KeyInv, NEW t \in Txn, NEW u \in Txn, Orderly
  PROVE  /\ "delete" \notin workload.ops => Deletions(marks[u]) = {} /\ Deleted(marks[u]) = {}
         /\ AtRest(u) => /\ pc[u] = "open"
                         /\ Deletions(marks[u]) = {} /\ Deleted(marks[u]) = {}
                         /\ PutRows(puts[u]) = {} /\ Entries(puts[u]) = {}
<1>1. "delete" \notin workload.ops => Deletions(marks[u]) = {} /\ Deleted(marks[u]) = {}
  BY DEF KeyInv, NoDeletions, Deleted
<1>2. QED
  BY <1>1, NothingPending DEF AtRest

\* Where there is room for little, nothing is pending yet.
LEMMA NoRoom ==
  ASSUME TypeOK, NEW t \in Txn, RoomFor(t), puts[t] # << >>
  PROVE  /\ ~(workload.size <= 1)
         /\ ~(workload.size <= 2 /\ marks[t] # << >>)
<1>1. puts[t] \in Seq(Put) /\ marks[t] \in Seq(Mark)
  BY DEF TypeOK, Put
<1>2. workload \in Workload
  BY PrimaryKeyAssumption DEF TypeOK
<1>3. workload.size \in Nat
  BY <1>2 DEF Workload
<1>4. \A n, m, size \in Nat :
        n # 0 /\ m + n < size => ~(size <= 1) /\ ~(size <= 2 /\ m # 0)
  OBVIOUS
<1>5. /\ Len(puts[t]) \in Nat /\ Len(puts[t]) # 0
      /\ Len(marks[t]) \in Nat /\ (marks[t] # << >> => Len(marks[t]) # 0)
  BY <1>1
<1>6. Len(marks[t]) + Len(puts[t]) < workload.size
  BY DEF RoomFor
<1>7. QED
  BY <1>3, <1>4, <1>5, <1>6, Zenon

\* A key of each row, a row of each key, and nothing else, between two steps.
Rest ==
  /\ NoDeletions /\ OnePut /\ Keyed
  /\ SeekRow /\ SeekKey /\ Inside /\ Separate /\ PutsInside /\ PutsReserved
  /\ VisitRow /\ VisitKey /\ DeletionKey /\ Fresh /\ Reach /\ Unused

LEMMA InsertionKeeps ==
  ASSUME KeyInv, NEW t \in Txn, NEW k \in Key, Insertion(t, k)
  PROVE  Rest'
<1>0. TypeOK /\ Latching /\ Turns /\ Rest
  BY DEF KeyInv, Rest
<1>1. /\ pc[t] = "open" /\ Turn(t) /\ RoomFor(t) /\ ~Found(k)
      /\ UNCHANGED <<workload, seek, data, present, latch, pc, visit>>
  BY <1>0, InsertionStep
<1>2. PICK r \in Row :
        /\ r \notin fill
        /\ fill' = fill \cup {r} \/ (fill' = fill /\ "fail" \in workload.ops)
        /\ marks' = [marks EXCEPT ![t] = Append(@, [op |-> "insert", row |-> r, key |-> k])]
        /\ puts' = [puts EXCEPT ![t] = Append(@, [row |-> r, key |-> k])]
  BY <1>0, InsertionStep
<1>3. /\ KeysStay' <=> KeysStay
      /\ OneByOne' <=> OneByOne
      /\ Orderly' <=> Orderly
      /\ Grows' <=> Grows
  BY <1>1, SameClients
<1>4. \A s \in Txn \ {t} : marks'[s] = marks[s] /\ puts'[s] = puts[s]
  BY <1>0, <1>2 DEF TypeOK
<1>5. /\ marks'[t] # << >>
      /\ Deletions(marks'[t]) = Deletions(marks[t])
      /\ Deleted(marks'[t]) = Deleted(marks[t])
      /\ Inserted(marks'[t]) = Inserted(marks[t]) \cup {r}
  <2> DEFINE m == [op |-> "insert", row |-> r, key |-> k]
  <2>1. m \in Mark /\ m.op = "insert" /\ m.row = r
    BY DEF Mark
  <2>2. marks'[t] = Append(marks[t], m) /\ marks[t] \in Seq(Mark)
    BY <1>0, <1>2 DEF TypeOK
  <2> HIDE DEF m
  <2>3. QED
    BY <2>1, <2>2, AppendMark
<1>6. /\ Len(puts'[t]) = Len(puts[t]) + 1
      /\ PutRows(puts'[t]) = PutRows(puts[t]) \cup {r}
      /\ \A p \in Entries(puts'[t]) : p \in Entries(puts[t]) \/ p.key = k
      /\ OnePerRow(puts[t]) /\ r \notin PutRows(puts[t]) => OnePerRow(puts'[t])
  <2> DEFINE p == [row |-> r, key |-> k]
  <2>1. p \in Put /\ p.row = r /\ p.key = k
    BY DEF Put
  <2>2. puts'[t] = Append(puts[t], p) /\ puts[t] \in Seq(Put)
    BY <1>0, <1>2 DEF TypeOK, Put
  <2> HIDE DEF p
  <2>3. QED
    BY <2>1, <2>2, AppendPut
<1>7. \A s \in Txn : /\ Deletions(marks'[s]) = Deletions(marks[s])
                     /\ Deleted(marks'[s]) = Deleted(marks[s])
                     /\ Inserted(marks[s]) \subseteq Inserted(marks'[s])
  BY <1>4, <1>5
<1>8. OneByOne => \A s \in Txn \ {t} : AtRest(s)
  BY <1>1, OrderlyClients DEF Turn
<1>9. Orderly => r \notin present
  <2> SUFFICES ASSUME Orderly, r \in present PROVE FALSE
    OBVIOUS
  <2>1. PICK u \in Txn : pc[u] = "deletes" /\ r \in Deleted(marks[u])
    BY <1>0, <1>2 DEF Rest, Inside
  <2>2. CASE OneByOne
    BY <1>1, <1>8, <2>1, <2>2 DEF AtRest
  <2>3. CASE Grows
    BY <2>1, <2>3, Quiet, OrderlyClients
  <2>4. QED
    BY <2>2, <2>3, OrderlyClients
<1>10. OneByOne => puts[t] = << >>
  <2> SUFFICES ASSUME OneByOne, puts[t] # << >> PROVE FALSE
    OBVIOUS
  <2>1. "setkey" \in workload.ops => workload.size <= 1
    BY DEF OneByOne
  <2>2. "setkey" \notin workload.ops => workload.size <= 2 /\ marks[t] # << >>
    BY <1>0 DEF OneByOne, Rest, OnePut
  <2>3. QED
    BY <1>0, <1>1, <2>1, <2>2, NoRoom, Zenon
<1>11. NoDeletions'
  BY <1>0, <1>1, <1>7 DEF Rest, NoDeletions
<1>12. OnePut'
  <2> SUFFICES ASSUME OneByOne, NEW s \in Txn
               PROVE  /\ Len(puts'[s]) <= 1
                      /\ "setkey" \notin workload.ops /\ puts'[s] # << >> => marks'[s] # << >>
    BY <1>1, <1>3 DEF OnePut
  <2>1. CASE s = t
    BY <1>5, <1>6, <1>10, <2>1
  <2>2. CASE s # t
    BY <1>0, <1>4, <2>2 DEF Rest, OnePut
  <2>3. QED
    BY <2>1, <2>2
<1>13. Keyed' /\ SeekRow' /\ SeekKey' /\ Reach'
  BY <1>0, <1>1, <1>3 DEF Rest, Keyed, SeekRow, SeekKey, Reach, Found
<1>14. Inside'
  BY <1>0, <1>1, <1>2, <1>3, <1>7 DEF Rest, Inside
<1>15. Orderly => r \notin Deleted(marks[t])
  <2>1. CASE KeysStay
    BY <1>0, <1>1, <1>9, <2>1, OrderlyClients DEF Rest, DeletionKey, Deleted
  <2>2. QED
    BY <2>1, Quiet, OrderlyClients
<1>16. Separate'
  <2> SUFFICES ASSUME Orderly, NEW s \in Txn
               PROVE  Deleted(marks'[s]) \cap PutRows(puts'[s]) = {}
    BY <1>3 DEF Separate
  <2>1. Deleted(marks[s]) \cap PutRows(puts[s]) = {}
    BY <1>0 DEF Rest, Separate
  <2>2. QED
    BY <1>4, <1>5, <1>6, <1>15, <2>1
<1>17. PutsInside'
  <2> SUFFICES ASSUME Orderly, NEW s \in Txn, NEW q \in PutRows(puts'[s])
               PROVE  q \in fill' \/ (pc'[s] \notin Committing /\ q \in Inserted(marks'[s]))
    BY <1>3 DEF PutsInside
  <2>1. CASE q \in PutRows(puts[s])
    BY <1>0, <1>1, <1>2, <1>7, <2>1 DEF Rest, PutsInside
  <2>2. CASE q \notin PutRows(puts[s])
    <3>1. s = t /\ q = r
      BY <1>4, <1>6, <2>2
    <3>2. QED
      BY <1>1, <1>5, <3>1 DEF Committing
  <2>3. QED
    BY <2>1, <2>2
<1>18. PutsReserved'
  <2> SUFFICES ASSUME Grows, NEW s \in Txn PROVE PutRows(puts'[s]) \subseteq fill'
    BY <1>3 DEF PutsReserved
  <2>1. fill' = fill \cup {r}
    BY <1>2, OrderlyClients
  <2>2. PutRows(puts[s]) \subseteq fill
    BY <1>0 DEF Rest, PutsReserved
  <2>3. QED
    BY <1>4, <1>6, <2>1, <2>2
<1>19. VisitRow' /\ VisitKey'
  BY <1>0, <1>1, <1>3 DEF Rest, VisitRow, VisitKey
<1>20. DeletionKey'
  BY <1>0, <1>1, <1>3, <1>7 DEF Rest, DeletionKey
<1>21. Fresh'
  <2> SUFFICES ASSUME KeysStay PROVE Fresh'
    BY <1>3 DEF Fresh
  <2>1. /\ \A s \in Txn : PutRows(puts[s]) \cap present = {} /\ OnePerRow(puts[s])
        /\ \A s, u \in Txn : s # u => PutRows(puts[s]) \cap PutRows(puts[u]) = {}
    BY <1>0 DEF Rest, Fresh
  <2>2. r \notin present
    BY <1>9, OrderlyClients
  <2>3. \A s \in Txn : r \notin PutRows(puts[s])
    <3>1. CASE Grows
      BY <1>0, <1>2, <3>1 DEF Rest, PutsReserved
    <3>2. CASE OneByOne
      BY <1>8, <1>10, <3>2, NothingPending DEF AtRest
    <3>3. QED
      BY <3>1, <3>2, OrderlyClients
  <2>4. \A s \in Txn : PutRows(puts'[s]) \cap present' = {} /\ OnePerRow(puts'[s])
    BY <1>1, <1>4, <1>6, <2>1, <2>2, <2>3
  <2>5. \A s, u \in Txn : s # u => PutRows(puts'[s]) \cap PutRows(puts'[u]) = {}
    <3>1. \A s \in Txn : PutRows(puts'[s]) = PutRows(puts[s]) \cup (IF s = t THEN {r} ELSE {})
      BY <1>4, <1>6
    <3>2. QED
      BY <2>1, <2>3, <3>1
  <2>6. QED
    BY <2>4, <2>5 DEF Fresh
<1>22. Unused'
  <2> SUFFICES ASSUME OneByOne, NEW s \in Txn, NEW p \in Entries(puts'[s])
               PROVE  ~Found(p.key)
    BY <1>1, <1>3 DEF Unused, Found
  <2>1. CASE p \in Entries(puts[s])
    BY <1>0, <2>1 DEF Rest, Unused
  <2>2. CASE p \notin Entries(puts[s])
    BY <1>1, <1>4, <1>6, <2>2
  <2>3. QED
    BY <2>1, <2>2
<1>23. QED
  BY <1>11, <1>12, <1>13, <1>14, <1>16, <1>17, <1>18, <1>19, <1>20, <1>21, <1>22 DEF Rest

LEMMA LookupKeeps ==
  ASSUME KeyInv, NEW t \in Txn, NEW k \in Key, Lookup(t, k)
  PROVE  Rest'
<1>0. TypeOK /\ Rest
  BY DEF KeyInv, Rest
<1>1. /\ Found(k) /\ pc[t] = "open" /\ pc'[t] = "visit"
      /\ visit'[t] = [row |-> seek[k], key |-> k]
      /\ UNCHANGED <<workload, fill, seek, data, present, latch, marks, puts>>
  BY <1>0 DEF Lookup, Goto, TypeOK, store, pending
<1>2. /\ KeysStay' <=> KeysStay
      /\ OneByOne' <=> OneByOne
      /\ Orderly' <=> Orderly
      /\ Grows' <=> Grows
  BY <1>1, SameClients
<1>3. \A s \in Txn \ {t} : pc'[s] = pc[s] /\ visit'[s] = visit[s]
  BY <1>0 DEF Lookup, Goto, TypeOK
<1>4. NoDeletions' /\ OnePut' /\ Keyed' /\ SeekRow' /\ SeekKey' /\ Separate' /\ PutsReserved'
  BY <1>0, <1>1, <1>2
     DEF Rest, NoDeletions, OnePut, Keyed, SeekRow, SeekKey, Found, Separate, PutsReserved
<1>5. Inside'
  BY <1>0, <1>1, <1>2, <1>3 DEF Rest, Inside
<1>6. PutsInside'
  BY <1>0, <1>1, <1>2, <1>3 DEF Rest, PutsInside, Committing
<1>7. VisitRow'
  BY <1>0, <1>1, <1>2, <1>3 DEF Rest, VisitRow, SeekRow
<1>8. VisitKey'
  BY <1>0, <1>1, <1>2, <1>3 DEF Rest, VisitKey, SeekKey
<1>9. DeletionKey'
  BY <1>0, <1>1, <1>2, <1>3 DEF Rest, DeletionKey
<1>10. Fresh' /\ Reach' /\ Unused'
  BY <1>0, <1>1, <1>2 DEF Rest, Fresh, Reach, Unused, Found
<1>11. QED
  BY <1>4, <1>5, <1>6, <1>7, <1>8, <1>9, <1>10 DEF Rest

\* A row whose key is to be changed is in no commit, and nothing else is pending.
LEMMA SetKeyStep ==
  ASSUME KeyInv, NEW t \in Txn, pc[t] = "visit", RoomFor(t), "setkey" \in workload.ops, Orderly
  PROVE  /\ OneByOne /\ puts[t] = << >>
         /\ visit[t].row \in fill /\ \A s \in Txn : Deleted(marks[s]) = {}
<1>0. TypeOK /\ Rest
  BY DEF KeyInv, Rest
<1>1. OneByOne /\ workload.size <= 1 /\ "delete" \notin workload.ops
  BY OrderlyClients
<1>2. \A s \in Txn : Deleted(marks[s]) = {}
  BY <1>1, Quiet
<1>3. visit[t].row \in fill
  BY <1>0, <1>2 DEF Rest, VisitRow, Inside
<1>4. puts[t] = << >>
  BY <1>0, <1>1, NoRoom, Zenon
<1>5. QED
  BY <1>1, <1>2, <1>3, <1>4

LEMMA VisitKeeps ==
  ASSUME KeyInv, NEW t \in Txn, Visit(t)
  PROVE  Rest'
<1>0. TypeOK /\ Latching /\ Rest
  BY DEF KeyInv, Rest
<1>1. /\ pc[t] = "visit" /\ pc'[t] = "open"
      /\ UNCHANGED <<workload, fill, seek, data, present, latch, marks>>
  BY <1>0 DEF Visit, Goto, TypeOK, store
<1>2. /\ KeysStay' <=> KeysStay
      /\ OneByOne' <=> OneByOne
      /\ Orderly' <=> Orderly
      /\ Grows' <=> Grows
  BY <1>1, SameClients
<1>3. \A s \in Txn \ {t} : pc'[s] = pc[s] /\ visit'[s] = visit[s] /\ puts'[s] = puts[s]
  BY <1>0 DEF Visit, Goto, TypeOK
<1>4. NoDeletions' /\ Keyed' /\ SeekRow' /\ SeekKey' /\ Reach'
  BY <1>0, <1>1, <1>2 DEF Rest, NoDeletions, Keyed, SeekRow, SeekKey, Found, Reach
<1>5. Inside'
  BY <1>0, <1>1, <1>2, <1>3 DEF Rest, Inside
<1>6. VisitRow'
  BY <1>0, <1>1, <1>2, <1>3 DEF Rest, VisitRow
<1>7. VisitKey'
  BY <1>0, <1>1, <1>2, <1>3 DEF Rest, VisitKey
<1>8. DeletionKey'
  BY <1>0, <1>1, <1>2, <1>3 DEF Rest, DeletionKey
<1>9. CASE UNCHANGED puts
  <2>1. OnePut' /\ Separate' /\ PutsReserved'
    BY <1>0, <1>1, <1>2, <1>9 DEF Rest, OnePut, Separate, PutsReserved
  <2>2. PutsInside'
    BY <1>0, <1>1, <1>2, <1>3, <1>9 DEF Rest, PutsInside, Committing
  <2>3. Fresh' /\ Unused'
    BY <1>0, <1>1, <1>2, <1>9 DEF Rest, Fresh, Unused, Found
  <2>4. QED
    BY <1>4, <1>5, <1>6, <1>7, <1>8, <2>1, <2>2, <2>3 DEF Rest
<1>10. CASE ~UNCHANGED puts
  <2>1. PICK k \in Key :
          /\ "setkey" \in workload.ops /\ ~Found(k) /\ RoomFor(t)
          /\ puts' = [puts EXCEPT ![t] = Append(@, [row |-> visit[t].row, key |-> k])]
    BY <1>10 DEF Visit
  <2>2. ~KeysStay /\ ~Grows
    BY <2>1, OrderlyClients
  <2>3. Orderly => /\ OneByOne /\ puts[t] = << >>
                   /\ visit[t].row \in fill /\ \A s \in Txn : Deleted(marks[s]) = {}
    BY <1>1, <2>1, SetKeyStep
  <2>4. /\ Len(puts'[t]) = Len(puts[t]) + 1
        /\ PutRows(puts'[t]) = PutRows(puts[t]) \cup {visit[t].row}
        /\ \A p \in Entries(puts'[t]) : p \in Entries(puts[t]) \/ p.key = k
    <3> DEFINE p == [row |-> visit[t].row, key |-> k]
    <3>1. visit[t] \in Put
      BY <1>0, <1>1 DEF Latching
    <3>2. p \in Put /\ p.row = visit[t].row /\ p.key = k
      BY <3>1 DEF Put
    <3>3. puts'[t] = Append(puts[t], p) /\ puts[t] \in Seq(Put)
      BY <1>0, <2>1 DEF TypeOK, Put
    <3> HIDE DEF p
    <3>4. QED
      BY <3>2, <3>3, AppendPut
  <2>5. OnePut'
    <3> SUFFICES ASSUME OneByOne, NEW s \in Txn PROVE Len(puts'[s]) <= 1
      BY <1>1, <1>2, <2>1 DEF OnePut
    <3>1. CASE s = t
      BY <2>3, <2>4, <3>1, OrderlyClients
    <3>2. CASE s # t
      BY <1>0, <1>3, <3>2 DEF Rest, OnePut
    <3>3. QED
      BY <3>1, <3>2
  <2>6. Separate'
    BY <1>1, <1>2, <2>3 DEF Separate
  <2>7. PutsInside'
    <3> SUFFICES ASSUME Orderly, NEW s \in Txn, NEW q \in PutRows(puts'[s])
                 PROVE  q \in fill \/ (pc'[s] \notin Committing /\ q \in Inserted(marks[s]))
      BY <1>1, <1>2 DEF PutsInside
    <3>1. CASE q \in PutRows(puts[s])
      BY <1>0, <1>1, <1>3, <3>1 DEF Rest, PutsInside, Committing
    <3>2. CASE q \notin PutRows(puts[s])
      BY <1>3, <2>3, <2>4, <3>2
    <3>3. QED
      BY <3>1, <3>2
  <2>8. PutsReserved' /\ Fresh'
    BY <1>2, <2>2 DEF PutsReserved, Fresh
  <2>9. Unused'
    <3> SUFFICES ASSUME OneByOne, NEW s \in Txn, NEW p \in Entries(puts'[s])
                 PROVE  ~Found(p.key)
      BY <1>1, <1>2 DEF Unused, Found
    <3>1. CASE p \in Entries(puts[s])
      BY <1>0, <3>1 DEF Rest, Unused
    <3>2. CASE p \notin Entries(puts[s])
      BY <1>3, <2>1, <2>4, <3>2
    <3>3. QED
      BY <3>1, <3>2
  <2>10. QED
    BY <1>4, <1>5, <1>6, <1>7, <1>8, <2>5, <2>6, <2>7, <2>8, <2>9 DEF Rest
<1>11. QED
  BY <1>9, <1>10

LEMMA DeleteKeyKeeps ==
  ASSUME KeyInv, NEW t \in Txn, NEW k \in Key, DeleteKey(t, k)
  PROVE  Rest'
<1>0. TypeOK /\ Rest
  BY DEF KeyInv, Rest
<1>1. /\ "delete" \in workload.ops /\ pc[t] = "open" /\ Found(k)
      /\ UNCHANGED <<workload, fill, seek, data, present, latch, pc, visit, puts>>
  BY DEF DeleteKey, store
<1>2. /\ KeysStay' <=> KeysStay
      /\ OneByOne' <=> OneByOne
      /\ Orderly' <=> Orderly
      /\ Grows' <=> Grows
  BY <1>1, SameClients
<1>3. \A s \in Txn \ {t} : marks'[s] = marks[s]
  BY <1>0 DEF DeleteKey, TypeOK
<1>4. /\ marks'[t] # << >>
      /\ \A m \in Deletions(marks'[t]) :
           m \in Deletions(marks[t]) \/ (m.row = seek[k] /\ m.key = k)
      /\ Deleted(marks'[t]) = Deleted(marks[t]) \cup {seek[k]}
      /\ Inserted(marks'[t]) = Inserted(marks[t])
  <2> DEFINE m == [op |-> "delete", row |-> seek[k], key |-> k]
  <2>1. m \in Mark /\ m.op = "delete" /\ m.row = seek[k] /\ m.key = k
    BY <1>0, <1>1 DEF Mark, TypeOK, Found
  <2>2. marks'[t] = Append(marks[t], m) /\ marks[t] \in Seq(Mark)
    BY <1>0 DEF DeleteKey, TypeOK
  <2> HIDE DEF m
  <2>3. QED
    BY <2>1, <2>2, AppendMark
<1>5. Orderly => KeysStay
  BY <1>1, OrderlyClients
<1>6. NoDeletions'
  BY <1>1 DEF NoDeletions
<1>7. OnePut'
  BY <1>0, <1>1, <1>2, <1>3, <1>4 DEF Rest, OnePut
<1>8. Keyed' /\ SeekRow' /\ SeekKey' /\ PutsReserved' /\ VisitRow' /\ VisitKey'
  BY <1>0, <1>1, <1>2
     DEF Rest, Keyed, SeekRow, SeekKey, Found, PutsReserved, VisitRow, VisitKey
<1>9. Fresh' /\ Reach' /\ Unused'
  BY <1>0, <1>1, <1>2 DEF Rest, Fresh, Reach, Unused, Found
<1>10. Inside'
  BY <1>0, <1>1, <1>2, <1>3 DEF Rest, Inside
<1>11. Separate'
  <2> SUFFICES ASSUME Orderly, NEW s \in Txn
               PROVE  Deleted(marks'[s]) \cap PutRows(puts[s]) = {}
    BY <1>1, <1>2 DEF Separate
  <2>1. Deleted(marks[s]) \cap PutRows(puts[s]) = {}
    BY <1>0 DEF Rest, Separate
  <2>2. seek[k] \notin PutRows(puts[s])
    BY <1>0, <1>1, <1>5 DEF Rest, SeekRow, Fresh
  <2>3. QED
    BY <1>3, <1>4, <2>1, <2>2
<1>12. PutsInside'
  BY <1>0, <1>1, <1>2, <1>3, <1>4 DEF Rest, PutsInside
<1>13. DeletionKey'
  <2> SUFFICES ASSUME KeysStay, NEW s \in Txn, pc[s] # "keys", NEW m \in Deletions(marks'[s])
               PROVE  m.row \in present /\ data[m.row] = m.key
    BY <1>1, <1>2 DEF DeletionKey
  <2>1. CASE m \in Deletions(marks[s])
    BY <1>0, <2>1 DEF Rest, DeletionKey
  <2>2. CASE m \notin Deletions(marks[s])
    <3>1. m.row = seek[k] /\ m.key = k
      BY <1>3, <1>4, <2>2
    <3>2. QED
      BY <1>0, <1>1, <3>1, OrderlyClients DEF Rest, SeekRow, SeekKey
  <2>3. QED
    BY <2>1, <2>2
<1>14. QED
  BY <1>6, <1>7, <1>8, <1>9, <1>10, <1>11, <1>12, <1>13 DEF Rest

-----------------------------------------------------------------------------
(* What is committed *)

LEMMA CommitMarkersKeeps ==
  ASSUME KeyInv, NEW t \in Txn, CommitMarkers(t)
  PROVE  Rest'
<1>0. TypeOK /\ Latching /\ Turns /\ Rest /\ Step(t)
  BY DEF KeyInv, Rest, Step
<1>1. /\ latch = None /\ pc[t] = "open" /\ pc'[t] = "deletes"
      /\ \A r \in fill : r \notin Deleted(marks[t]) => r \in fill'
      /\ \A r \in Inserted(marks[t]) : r \notin Deleted(marks[t]) => r \in fill'
      /\ UNCHANGED <<workload, seek, data, present, visit, marks, puts>>
  BY <1>0, CommitMarkersStep DEF Goto, TypeOK, pending
<1>2. /\ KeysStay' <=> KeysStay
      /\ OneByOne' <=> OneByOne
      /\ Orderly' <=> Orderly
      /\ Grows' <=> Grows
  BY <1>1, SameClients
<1>3. /\ \A s \in Txn \ {t} : pc'[s] = pc[s]
      /\ \A s \in Txn : pc[s] \notin Committing
  BY <1>0, <1>1, OthersStay, PrimaryKeyAssumption DEF Latching
<1>4. NoDeletions' /\ OnePut' /\ Keyed' /\ SeekRow' /\ SeekKey' /\ Separate'
  BY <1>0, <1>1, <1>2
     DEF Rest, NoDeletions, OnePut, Keyed, SeekRow, SeekKey, Found, Separate
<1>5. Inside'
  <2> SUFFICES ASSUME Orderly, NEW r \in present, r \notin fill'
               PROVE  r \in Deleted(marks[t])
    BY <1>1, <1>2 DEF Inside
  <2>1. r \in fill
    BY <1>0, <1>3 DEF Rest, Inside, Committing
  <2>2. QED
    BY <1>1, <2>1
<1>6. PutsReserved'
  <2>1. Grows => Deleted(marks[t]) = {}
    BY Quiet, OrderlyClients
  <2>2. QED
    BY <1>0, <1>1, <1>2, <2>1 DEF Rest, PutsReserved
<1>7. PutsInside'
  <2> SUFFICES ASSUME Orderly, NEW s \in Txn, NEW q \in PutRows(puts[s])
               PROVE  q \in fill'
    BY <1>1, <1>2 DEF PutsInside
  <2>1. CASE s = t
    <3>1. q \notin Deleted(marks[t])
      BY <1>0, <2>1 DEF Rest, Separate
    <3>2. q \in fill \/ q \in Inserted(marks[t])
      BY <1>0, <2>1 DEF Rest, PutsInside
    <3>3. QED
      BY <1>1, <3>1, <3>2
  <2>2. CASE s # t /\ OneByOne
    <3>1. AtRest(s)
      BY <1>0, <2>2, Alone, OrderlyClients
    <3>2. QED
      BY <3>1, Quiet
  <2>3. CASE Grows
    BY <1>1, <1>2, <1>6, <2>3 DEF PutsReserved
  <2>4. QED
    BY <2>1, <2>2, <2>3, OrderlyClients
<1>8. VisitRow' /\ VisitKey'
  BY <1>0, <1>1, <1>2, <1>3 DEF Rest, VisitRow, VisitKey
<1>9. DeletionKey'
  BY <1>0, <1>1, <1>2, <1>3 DEF Rest, DeletionKey
<1>10. Fresh' /\ Reach' /\ Unused'
  BY <1>0, <1>1, <1>2 DEF Rest, Fresh, Reach, Unused, Found
<1>11. QED
  BY <1>4, <1>5, <1>6, <1>7, <1>8, <1>9, <1>10 DEF Rest

LEMMA CommitDeletesKeeps ==
  ASSUME KeyInv, NEW t \in Txn, CommitDeletes(t)
  PROVE  Rest'
<1>0. TypeOK /\ Latching /\ Turns /\ Rest /\ Step(t)
  BY DEF KeyInv, Rest, Step
<1> DEFINE gone == Deleted(marks[t])
<1>1. /\ pc[t] = "deletes" /\ pc'[t] = "keys" /\ latch = t
      /\ present' = present \ gone
      /\ \A k \in Key : seek'[k] = IF \E r \in gone : data[r] = k THEN None ELSE seek[k]
      /\ UNCHANGED <<workload, fill, data, latch, visit, marks, puts>>
  BY <1>0, CommitDeletesStep DEF Goto, TypeOK, pending, Latching, Committing
<1> HIDE DEF gone
<1>2. /\ KeysStay' <=> KeysStay
      /\ OneByOne' <=> OneByOne
      /\ Orderly' <=> Orderly
      /\ Grows' <=> Grows
  BY <1>1, SameClients
<1>3. /\ \A s \in Txn \ {t} : pc'[s] = pc[s]
      /\ \A s \in Txn \ {t} : pc[s] # "deletes"
  <2>1. \A s \in Txn : pc[s] \in Committing => s = t
    BY <1>0, <1>1 DEF Latching
  <2>2. QED
    BY <1>0, <2>1, OthersStay DEF Committing
<1>4. OneByOne => \A s \in Txn \ {t} : AtRest(s)
  BY <1>0, Alone, OrderlyClients
<1>5. Orderly /\ ~KeysStay => gone = {}
  BY Quiet, OrderlyClients DEF gone
<1>6. Grows => gone = {} /\ \A s \in Txn : Deletions(marks[s]) = {}
  BY Quiet, OrderlyClients DEF gone
<1>7. NoDeletions' /\ OnePut' /\ Keyed' /\ Separate' /\ PutsReserved'
  BY <1>0, <1>1, <1>2 DEF Rest, NoDeletions, OnePut, Keyed, Separate, PutsReserved
<1>8. ASSUME NEW k \in Key, Found(k)'
      PROVE  seek'[k] = seek[k] /\ Found(k) /\ \A r \in gone : data[r] # k
  BY <1>1, <1>8 DEF Found
<1>9. SeekRow'
  <2> SUFFICES ASSUME Orderly, NEW k \in Key, Found(k)'
               PROVE  seek[k] \in present \ gone
    BY <1>1, <1>2, <1>8 DEF SeekRow
  <2>1. seek[k] \in present /\ (KeysStay => data[seek[k]] = k)
    BY <1>0, <1>8 DEF Rest, SeekRow, SeekKey
  <2>2. QED
    BY <1>5, <1>8, <2>1
<1>10. SeekKey'
  BY <1>0, <1>1, <1>2, <1>8 DEF Rest, SeekKey
<1>11. Inside'
  <2> SUFFICES ASSUME Orderly, NEW r \in present, r \notin gone, r \notin fill
               PROVE  FALSE
    BY <1>1, <1>2 DEF Inside
  <2>1. PICK u \in Txn : pc[u] = "deletes" /\ r \in Deleted(marks[u])
    BY <1>0 DEF Rest, Inside
  <2>2. QED
    BY <1>3, <2>1 DEF gone
<1>12. PutsInside'
  BY <1>0, <1>1, <1>2, <1>3 DEF Rest, PutsInside, Committing
<1>13. VisitRow'
  <2> SUFFICES ASSUME Orderly, NEW s \in Txn, pc'[s] = "visit"
               PROVE  visit[s].row \in present \ gone
    BY <1>1, <1>2 DEF VisitRow
  <2>1. s # t /\ pc[s] = "visit" /\ visit[s].row \in present
    BY <1>0, <1>1, <1>3 DEF Rest, VisitRow
  <2>2. ~OneByOne
    BY <1>4, <2>1 DEF AtRest
  <2>3. QED
    BY <1>6, <2>1, <2>2, OrderlyClients
<1>14. VisitKey'
  BY <1>0, <1>1, <1>2, <1>3 DEF Rest, VisitKey
<1>15. DeletionKey'
  <2> SUFFICES ASSUME KeysStay, NEW s \in Txn, pc'[s] # "keys", NEW m \in Deletions(marks[s])
               PROVE  FALSE
    BY <1>1, <1>2 DEF DeletionKey
  <2>1. s # t
    BY <1>1
  <2>2. OneByOne => Deletions(marks[s]) = {}
    BY <1>4, <2>1, Quiet, OrderlyClients
  <2>3. QED
    BY <1>6, <2>2, OrderlyClients
<1>16. Fresh'
  BY <1>0, <1>1, <1>2 DEF Rest, Fresh
<1>17. Reach'
  <2> SUFFICES ASSUME OneByOne, NEW r \in present, r \notin gone
               PROVE  seek'[data[r]] = r
    BY <1>1, <1>2 DEF Reach
  <2>1. data[r] \in Key /\ seek[data[r]] = r
    BY <1>0 DEF Rest, Keyed, Reach
  <2>2. ASSUME NEW q \in gone, data[q] = data[r] PROVE FALSE
    <3>1. KeysStay
      BY <1>5, <2>2, OrderlyClients
    <3>2. q \in present
      BY <1>0, <1>1, <2>2, <3>1 DEF Rest, DeletionKey, Deleted, gone
    <3>3. seek[data[q]] = q
      BY <1>0, <3>2 DEF Rest, Reach
    <3>4. QED
      BY <2>1, <2>2, <3>3
  <2>3. QED
    BY <1>1, <2>1, <2>2
<1>18. Unused'
  <2> SUFFICES ASSUME OneByOne, NEW s \in Txn, NEW p \in Entries(puts[s]), Found(p.key)'
               PROVE  FALSE
    BY <1>1, <1>2 DEF Unused
  <2>1. p.key \in Key
    <3>1. puts[s] \in Seq(Put)
      BY <1>0 DEF TypeOK, Put
    <3>2. p \in Put
      BY <3>1 DEF Entries
    <3>3. QED
      BY <3>2 DEF Put
  <2>2. QED
    BY <1>0, <1>8, <2>1 DEF Rest, Unused
<1>19. QED
  BY <1>7, <1>9, <1>10, <1>11, <1>12, <1>13, <1>14, <1>15, <1>16, <1>17, <1>18 DEF Rest

LEMMA CommitKeyKeeps ==
  ASSUME KeyInv, NEW t \in Txn, CommitKey(t)
  PROVE  Rest'
<1>0. TypeOK /\ Latching /\ Turns /\ Rest /\ Step(t)
  BY DEF KeyInv, Rest, Step
<1>1. puts[t] \in Seq(Put) /\ puts[t] # << >> /\ pc[t] = "keys"
  BY <1>0 DEF CommitKey, TypeOK, Put
<1> DEFINE p == Head(puts[t])
<1>2. /\ p \in Put /\ p \in Entries(puts[t]) /\ p.row \in PutRows(puts[t])
      /\ Len(puts[t]) \in Nat /\ Len(Tail(puts[t])) = Len(puts[t]) - 1
      /\ Entries(Tail(puts[t])) \subseteq Entries(puts[t])
      /\ PutRows(Tail(puts[t])) \subseteq PutRows(puts[t])
      /\ Len(puts[t]) <= 1 => Entries(Tail(puts[t])) = {}
      /\ OnePerRow(puts[t]) =>
           p.row \notin PutRows(Tail(puts[t])) /\ OnePerRow(Tail(puts[t]))
  BY <1>1, TailPuts
<1>3. /\ present' = present \cup {p.row}
      /\ data' = [data EXCEPT ![p.row] = p.key]
      /\ seek' = [seek EXCEPT ![p.key] = p.row]
      /\ puts'[t] = Tail(puts[t]) /\ \A s \in Txn \ {t} : puts'[s] = puts[s]
      /\ UNCHANGED <<workload, fill, latch, pc, visit, marks>>
  BY <1>0 DEF CommitKey, TypeOK
<1> HIDE DEF p
<1>4. /\ KeysStay' <=> KeysStay
      /\ OneByOne' <=> OneByOne
      /\ Orderly' <=> Orderly
      /\ Grows' <=> Grows
  BY <1>3, SameClients
<1>5. p.row \in Row /\ p.key \in Key
  BY <1>2 DEF Put
<1>6. /\ data'[p.row] = p.key /\ \A r \in Row \ {p.row} : data'[r] = data[r]
      /\ seek'[p.key] = p.row /\ \A k \in Key \ {p.key} : seek'[k] = seek[k]
      /\ present \subseteq Row
  BY <1>0, <1>3, <1>5 DEF TypeOK
<1>7. /\ \A s \in Txn : PutRows(puts'[s]) \subseteq PutRows(puts[s])
      /\ \A s \in Txn : Entries(puts'[s]) \subseteq Entries(puts[s])
  BY <1>2, <1>3
<1>8. KeysStay => p.row \notin present
  BY <1>0, <1>2 DEF Rest, Fresh
<1>9. NoDeletions' /\ VisitRow'
  BY <1>0, <1>3, <1>4 DEF Rest, NoDeletions, VisitRow
<1>10. OnePut'
  <2> SUFFICES ASSUME OneByOne, NEW s \in Txn
               PROVE  /\ Len(puts'[s]) <= 1
                      /\ "setkey" \notin workload.ops /\ puts'[s] # << >> => marks[s] # << >>
    BY <1>3, <1>4 DEF OnePut
  <2>1. /\ Len(puts[s]) <= 1
        /\ "setkey" \notin workload.ops /\ puts[s] # << >> => marks[s] # << >>
    BY <1>0 DEF Rest, OnePut
  <2>2. CASE s = t
    <3>1. Len(puts'[s]) = Len(puts[s]) - 1 /\ Len(puts[s]) \in Nat /\ puts[s] # << >>
      BY <1>1, <1>2, <1>3, <2>2
    <3>2. \A n \in Nat : n <= 1 => n - 1 <= 1
      OBVIOUS
    <3>3. QED
      BY <2>1, <3>1, <3>2, Zenon
  <2>3. CASE s # t
    BY <1>3, <2>1, <2>3
  <2>4. QED
    BY <2>2, <2>3
<1>11. Keyed'
  BY <1>0, <1>3, <1>5, <1>6 DEF Rest, Keyed
<1>12. SeekRow'
  BY <1>0, <1>3, <1>4, <1>6 DEF Rest, SeekRow, Found
<1>13. SeekKey'
  <2> SUFFICES ASSUME KeysStay, NEW k \in Key, Found(k)'
               PROVE  data'[seek'[k]] = k
    BY <1>4 DEF SeekKey
  <2>1. CASE k = p.key
    BY <1>6, <2>1
  <2>2. CASE k # p.key
    <3>1. seek'[k] = seek[k] /\ Found(k)
      BY <1>6, <2>2 DEF Found
    <3>2. seek[k] \in present /\ data[seek[k]] = k
      BY <1>0, <3>1, OrderlyClients DEF Rest, SeekRow, SeekKey
    <3>3. QED
      BY <1>6, <1>8, <3>1, <3>2
  <2>3. QED
    BY <2>1, <2>2
<1>14. Inside'
  <2>1. Orderly => p.row \in fill
    BY <1>0, <1>1, <1>2 DEF Rest, PutsInside, Committing
  <2>2. QED
    BY <1>0, <1>3, <1>4, <2>1 DEF Rest, Inside
<1>15. Separate' /\ PutsReserved'
  BY <1>0, <1>3, <1>4, <1>7 DEF Rest, Separate, PutsReserved
<1>16. PutsInside'
  BY <1>0, <1>3, <1>4, <1>7 DEF Rest, PutsInside
<1>17. VisitKey'
  <2> SUFFICES ASSUME KeysStay, NEW s \in Txn, pc[s] = "visit"
               PROVE  data'[visit[s].row] = visit[s].key
    BY <1>3, <1>4 DEF VisitKey
  <2>1. visit[s].row \in present /\ data[visit[s].row] = visit[s].key
    BY <1>0, OrderlyClients DEF Rest, VisitRow, VisitKey
  <2>2. QED
    BY <1>6, <1>8, <2>1
<1>18. DeletionKey'
  <2> SUFFICES ASSUME KeysStay, NEW s \in Txn, pc[s] # "keys", NEW m \in Deletions(marks[s])
               PROVE  m.row \in present' /\ data'[m.row] = m.key
    BY <1>3, <1>4 DEF DeletionKey
  <2>1. m.row \in present /\ data[m.row] = m.key
    BY <1>0 DEF Rest, DeletionKey
  <2>2. QED
    BY <1>3, <1>6, <1>8, <2>1
<1>19. Fresh'
  <2> SUFFICES ASSUME KeysStay PROVE Fresh'
    BY <1>4 DEF Fresh
  <2>1. /\ \A s \in Txn : PutRows(puts[s]) \cap present = {} /\ OnePerRow(puts[s])
        /\ \A s, u \in Txn : s # u => PutRows(puts[s]) \cap PutRows(puts[u]) = {}
    BY <1>0 DEF Rest, Fresh
  <2>2. \A s \in Txn : p.row \notin PutRows(puts'[s]) /\ OnePerRow(puts'[s])
    BY <1>2, <1>3, <2>1
  <2>3. \A s \in Txn : PutRows(puts'[s]) \cap present' = {}
    BY <1>3, <1>7, <2>1, <2>2
  <2>4. \A s, u \in Txn : s # u => PutRows(puts'[s]) \cap PutRows(puts'[u]) = {}
    BY <1>7, <2>1
  <2>5. QED
    BY <2>2, <2>3, <2>4 DEF Fresh
<1>20. Reach'
  <2> SUFFICES ASSUME OneByOne, NEW r \in present'
               PROVE  seek'[data'[r]] = r
    BY <1>4 DEF Reach
  <2>1. CASE r = p.row
    BY <1>6, <2>1
  <2>2. CASE r # p.row
    <3>1. r \in present /\ data'[r] = data[r]
      BY <1>3, <1>6, <2>2
    <3>2. data[r] \in Key /\ seek[data[r]] = r /\ r \in Row
      BY <1>0, <1>6, <3>1 DEF Rest, Keyed, Reach
    <3>3. data[r] # p.key
      BY <1>0, <1>2, <3>2, PrimaryKeyAssumption DEF Rest, Unused, Found
    <3>4. QED
      BY <1>6, <3>1, <3>2, <3>3
  <2>3. QED
    BY <2>1, <2>2
<1>21. Unused'
  <2> SUFFICES ASSUME OneByOne, NEW s \in Txn
               PROVE  Entries(puts'[s]) = {}
    BY <1>4 DEF Unused
  <2>1. CASE s = t
    BY <1>0, <1>2, <1>3, <2>1 DEF Rest, OnePut
  <2>2. CASE s # t
    <3>1. AtRest(s)
      BY <1>0, <2>2, Alone, OrderlyClients
    <3>2. QED
      BY <1>3, <2>2, <3>1, Quiet, OrderlyClients
  <2>3. QED
    BY <2>1, <2>2
<1>22. QED
  BY <1>9, <1>10, <1>11, <1>12, <1>13, <1>14, <1>15, <1>16, <1>17, <1>18, <1>19, <1>20,
     <1>21 DEF Rest

LEMMA DoneKeeps ==
  ASSUME KeyInv, NEW t \in Txn, Unlatch(t) \/ Rollback(t)
  PROVE  Rest'
<1>0. TypeOK /\ Rest /\ Step(t)
  BY DEF KeyInv, Rest, Step
<1>1. /\ pc[t] \in {"open", "keys"} /\ pc'[t] = "open"
      /\ marks'[t] = << >> /\ puts'[t] = << >>
      /\ UNCHANGED <<workload, fill, seek, data, present, visit>>
  BY <1>0 DEF Unlatch, Rollback, Done, TypeOK, store
<1>2. /\ KeysStay' <=> KeysStay
      /\ OneByOne' <=> OneByOne
      /\ Orderly' <=> Orderly
      /\ Grows' <=> Grows
  BY <1>1, SameClients
<1>3. \A s \in Txn \ {t} : pc'[s] = pc[s] /\ marks'[s] = marks[s] /\ puts'[s] = puts[s]
  BY <1>0, OthersStay
<1>4. /\ Deletions(marks'[t]) = {} /\ Deleted(marks'[t]) = {}
      /\ PutRows(puts'[t]) = {} /\ Entries(puts'[t]) = {} /\ OnePerRow(puts'[t])
  BY <1>1, NothingPending
<1>5. Keyed' /\ SeekRow' /\ SeekKey' /\ Reach'
  BY <1>0, <1>1, <1>2 DEF Rest, Keyed, SeekRow, SeekKey, Found, Reach
<1>6. NoDeletions' /\ Separate' /\ PutsReserved'
  BY <1>0, <1>1, <1>2, <1>3, <1>4 DEF Rest, NoDeletions, Separate, PutsReserved
<1>7. OnePut'
  <2>1. Len(puts'[t]) = 0
    BY <1>1
  <2>2. QED
    BY <1>0, <1>1, <1>2, <1>3, <2>1 DEF Rest, OnePut
<1>8. Inside'
  BY <1>0, <1>1, <1>2, <1>3 DEF Rest, Inside
<1>9. PutsInside'
  BY <1>0, <1>1, <1>2, <1>3, <1>4 DEF Rest, PutsInside
<1>10. VisitRow' /\ VisitKey'
  BY <1>0, <1>1, <1>2, <1>3 DEF Rest, VisitRow, VisitKey
<1>11. DeletionKey'
  BY <1>0, <1>1, <1>2, <1>3, <1>4 DEF Rest, DeletionKey
<1>12. Fresh'
  BY <1>0, <1>1, <1>2, <1>3, <1>4 DEF Rest, Fresh
<1>13. Unused'
  BY <1>0, <1>1, <1>2, <1>3, <1>4 DEF Rest, Unused, Found
<1>14. QED
  BY <1>5, <1>6, <1>7, <1>8, <1>9, <1>10, <1>11, <1>12, <1>13 DEF Rest

-----------------------------------------------------------------------------
(* The theorems *)

LEMMA KeyInvInit == Init => KeyInv
<1> SUFFICES ASSUME Init PROVE KeyInv
  OBVIOUS
<1>1. /\ workload \in Workloads /\ fill = {} /\ present = {} /\ latch = None
      /\ seek = [k \in Key |-> None] /\ data = [r \in Row |-> None]
      /\ pc = [t \in Txn |-> "open"] /\ visit = [t \in Txn |-> NoVisit]
      /\ marks = [t \in Txn |-> << >>] /\ puts = [t \in Txn |-> << >>]
  BY DEF Init
<1>2. TypeOK
  <2>1. << >> \in Seq(Mark) /\ << >> \in Seq([row : Row, key : Key])
    OBVIOUS
  <2>2. QED
    BY <1>1, <2>1 DEF TypeOK
<1>3. Latching /\ Turns
  BY <1>1, PrimaryKeyAssumption DEF Latching, Turns, AtRest, Committing
<1>4. OnePut
  <2>1. Len(<< >>) = 0
    OBVIOUS
  <2>2. \A t \in Txn : puts[t] = << >>
    BY <1>1
  <2>3. QED
    BY <2>1, <2>2 DEF OnePut
<1>5. Keyed /\ SeekRow /\ SeekKey /\ Inside /\ Reach
  BY <1>1 DEF Keyed, SeekRow, SeekKey, Inside, Reach, Found
<1>6. NoDeletions /\ Separate /\ PutsInside /\ PutsReserved /\ DeletionKey /\ Fresh /\ Unused
  BY <1>1, NothingPending
     DEF NoDeletions, Separate, PutsInside, PutsReserved, DeletionKey, Fresh, Unused
<1>7. VisitRow /\ VisitKey
  BY <1>1 DEF VisitRow, VisitKey
<1>8. QED
  BY <1>2, <1>3, <1>4, <1>5, <1>6, <1>7 DEF KeyInv

LEMMA KeyInvStep == KeyInv /\ [Next]_vars => KeyInv'
<1> SUFFICES ASSUME KeyInv, [Next]_vars PROVE KeyInv'
  OBVIOUS
<1>1. TypeOK'
  BY KeyTypingStep DEF KeyInv
<1>2. ASSUME NEW t \in Txn, Step(t) PROVE Latching' /\ Turns' /\ Rest'
  <2>1. Latching' /\ Turns'
    BY <1>2, LatchingStep, TurnsStep DEF KeyInv
  <2>2. ASSUME NEW k \in Key, Insertion(t, k) \/ Lookup(t, k) \/ DeleteKey(t, k) PROVE Rest'
    BY <2>2, InsertionKeeps, LookupKeeps, DeleteKeyKeeps
  <2>3. ASSUME \/ Visit(t) \/ CommitMarkers(t) \/ CommitDeletes(t) \/ CommitKey(t)
               \/ Unlatch(t) \/ Rollback(t)
        PROVE  Rest'
    BY <2>3, VisitKeeps, CommitMarkersKeeps, CommitDeletesKeeps, CommitKeyKeeps, DoneKeeps
  <2>4. QED
    BY <1>2, <2>1, <2>2, <2>3 DEF Step, Insertion
<1>3. CASE UNCHANGED vars
  <2>1. UNCHANGED <<workload, fill, seek, data, present, latch, pc, visit, marks, puts>>
    BY <1>3 DEF vars, store, pending
  <2>2. Latching' /\ Turns'
    BY <2>1 DEF KeyInv, Latching, Turns, AtRest
  <2>3. /\ KeysStay' <=> KeysStay
        /\ OneByOne' <=> OneByOne
        /\ Orderly' <=> Orderly
        /\ Grows' <=> Grows
    BY <2>1, SameClients
  <2>4. NoDeletions' /\ OnePut' /\ Keyed' /\ SeekRow' /\ SeekKey' /\ Inside' /\ Separate'
    BY <2>1, <2>3
       DEF KeyInv, NoDeletions, OnePut, Keyed, SeekRow, SeekKey, Found, Inside, Separate
  <2>5. PutsInside' /\ PutsReserved' /\ VisitRow' /\ VisitKey' /\ DeletionKey'
    BY <2>1, <2>3 DEF KeyInv, PutsInside, PutsReserved, VisitRow, VisitKey, DeletionKey
  <2>6. Fresh' /\ Reach' /\ Unused'
    BY <2>1, <2>3 DEF KeyInv, Fresh, Reach, Unused, Found
  <2>7. QED
    BY <1>1, <2>2, <2>4, <2>5, <2>6 DEF KeyInv
<1>4. CASE \E t \in Txn : Step(t)
  <2>1. Latching' /\ Turns' /\ Rest'
    BY <1>2, <1>4
  <2>2. QED
    BY <1>1, <2>1 DEF KeyInv, Rest
<1>5. QED
  BY <1>3, <1>4 DEF Next, Step

LEMMA KeysHold == Spec => []KeyInv
BY KeyInvInit, KeyInvStep, PTL DEF Spec

\* Markers, keys, rows and the lookup table are what they are meant to be.
THEOREM KeyTyping == Spec => []TypeOK
<1>1. KeyInv => TypeOK
  BY DEF KeyInv
<1>2. QED
  BY <1>1, KeysHold, PTL

\* OffsetOf never finds a row that is deleted or has another key, as long as
\* keys stay: columnKey.Apply takes out of the table what it takes off a row.
THEOREM LookupsFind == Spec => []LookupFindsItsKey
<1>1. KeyInv => LookupFindsItsKey
  BY OrderlyClients DEF KeyInv, SeekRow, SeekKey, LookupFindsItsKey
<1>2. QED
  BY <1>1, KeysHold, PTL

\* QueryKey, UpsertKey and DeleteKey act on the row with the key they were
\* given, although they look it up without the latch of the row.
THEOREM ActsOnKeys == Spec => ActsOnItsKey
<1> DEFINE Acts ==
      \A t \in Txn : KeysStay =>
        /\ Visit(t) => visit[t].row \in present /\ data[visit[t].row] = visit[t].key
        /\ CommitDeletes(t) =>
             \A i \in DOMAIN marks[t] :
               marks[t][i].op = "delete" /\ marks[t][i].row \in present =>
                 data[marks[t][i].row] = marks[t][i].key
<1>1. KeyInv /\ [Next]_vars => [Acts]_vars
  <2> SUFFICES ASSUME KeyInv, NEW t \in Txn, KeysStay
               PROVE  /\ Visit(t) =>
                           visit[t].row \in present /\ data[visit[t].row] = visit[t].key
                      /\ CommitDeletes(t) =>
                           \A i \in DOMAIN marks[t] :
                             marks[t][i].op = "delete" /\ marks[t][i].row \in present =>
                               data[marks[t][i].row] = marks[t][i].key
    OBVIOUS
  <2>1. ASSUME Visit(t)
        PROVE  visit[t].row \in present /\ data[visit[t].row] = visit[t].key
    BY <2>1, OrderlyClients DEF KeyInv, VisitRow, VisitKey, Visit, Goto
  <2>2. ASSUME CommitDeletes(t), NEW i \in DOMAIN marks[t], marks[t][i].op = "delete"
        PROVE  data[marks[t][i].row] = marks[t][i].key
    <3>1. marks[t][i] \in Deletions(marks[t])
      BY <2>2 DEF Deletions, Entries
    <3>2. pc[t] # "keys"
      BY <2>2 DEF CommitDeletes, Goto
    <3>3. QED
      BY <3>1, <3>2 DEF KeyInv, DeletionKey
  <2>3. QED
    BY <2>1, <2>2
<1>2. QED
  BY <1>1, KeysHold, PTL DEF Spec, ActsOnItsKey

\* Whoever knows the key of a row finds the row, between commits: no row loses
\* its entry to another, and none is left behind by a change of its key.
THEOREM KeysReachable == Spec => []KeysAreReachable
<1>1. KeyInv => KeysAreReachable
  BY DEF KeyInv, Reach, KeysAreReachable
<1>2. QED
  BY <1>1, KeysHold, PTL
=============================================================================
