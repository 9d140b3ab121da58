---------------------------- MODULE VacuumProofs ----------------------------
(***************************************************************************)
(* Theorems about expiration, for every number of clients, rows and        *)
(* chunks, all times to live and all workloads.                            *)
(*                                                                         *)
(* RowInv says that the column has what clients have been promised for a   *)
(* row, also while the chunk of the row is latched, unless the row is      *)
(* about to lose its values: the commit that deletes it is half done.      *)
(* MarkInv says why the vacuum marks a row.                                *)
(***************************************************************************)
EXTENDS Vacuum, TLAPS, FiniteSetTheorems, WellFoundedInduction

USE VacuumAssumption

-----------------------------------------------------------------------------
(* The invariant *)

Phases == {"asleep", "awake", "selects", "reads", "commits", "deletes", "stopped"}

Transaction ==
  [marker : {"none", "insert", "delete"}, updates : Updates, row : Nat, until : Nat, by : Nat]

\* What a transaction means to do to the deadline of its row.
ChangeInv(c) ==
  /\ cpc[c] # "idle" => change[c].row \in Rows
  /\ "set" \in change[c].updates => change[c].until # 0
  /\ "set" \notin change[c].updates => change[c].until = 0

Types ==
  /\ workload \in Workloads /\ clock \in Start .. MaxTime /\ closed \in BOOLEAN
  /\ fill \subseteq Rows /\ has \subseteq Rows /\ deadline \in [Rows -> Nat]
  /\ cpc \in [Client -> {"idle", "chosen", "latched"}]
  /\ change \in [Client -> Transaction]
  /\ \A c \in Client : ChangeInv(c)
  /\ txns \in 0 .. workload.txns
  /\ vpc \in Phases
  /\ now \in 0 .. clock /\ index \subseteq Rows /\ chunk \in 0 .. LastChunk /\ marks \subseteq index
  /\ promise \in [Rows -> Nat] /\ astray \subseteq Rows /\ touched \subseteq Rows
  /\ late \subseteq Client

\* The latch of a chunk is exclusive.
LatchInv ==
  /\ \A c, d \in Client :
       cpc[c] = "latched" /\ cpc[d] = "latched" /\ ChunkAt(change[c].row) = ChunkAt(change[d].row)
         => c = d
  /\ \A c \in Client : cpc[c] = "latched" => ~LatchedByVacuum(ChunkAt(change[c].row))

\* A transaction whose row is not there, or that has deleted it, is late.
LateInv ==
  /\ \A c \in Client : cpc[c] # "idle" /\ change[c].row \notin fill => c \in late
  /\ \A c \in Client : cpc[c] = "latched" /\ change[c].marker = "delete" => c \in late

\* The values of a row are about to be deleted.
GoingByClient(r) ==
  \E c \in Client : cpc[c] = "latched" /\ change[c].row = r /\ change[c].marker = "delete"
Going(r) == GoingByClient(r) \/ (vpc = "deletes" /\ r \in Marked)

Kept(r) ==
  IF r \in fill THEN (IF r \in has THEN deadline[r] ELSE 0) = promise[r]
  ELSE r \notin has /\ promise[r] = 0

RowInv == \A r \in Rows : r \notin astray /\ ~Going(r) => Kept(r)

\* The vacuum marks rows of its copy of the fill list whose deadline is over.
Resting == {"asleep", "awake", "stopped"}
MarkInv ==
  /\ vpc \in Resting \cup {"selects"} => marks = {}
  /\ vpc \in {"selects", "reads"} => index \subseteq fill \cup touched
  /\ \A r \in marks : r \in touched \cup astray \/ (promise[r] # 0 /\ promise[r] < now)

Inv == Types /\ LatchInv /\ LateInv /\ RowInv /\ MarkInv

-----------------------------------------------------------------------------
(* Chunks *)

\* A finite non-empty set of numbers has a greatest element.
LEMMA GreatestExists ==
  ASSUME NEW S \in SUBSET Nat, S # {}, IsFiniteSet(S)
  PROVE  \E x \in S : \A y \in S : y <= x
<1> DEFINE Above(x) == {y \in S : y > x}
           T == {Above(x) : x \in S}
<1>1. T \subseteq FiniteSubsetsOf(S)
  <2>1. \A x \in S : Above(x) \in SUBSET S /\ IsFiniteSet(Above(x))
    BY FS_Subset
  <2>2. QED
    BY <2>1, Zenon DEF FiniteSubsetsOf
<1>2. T # {}
  OBVIOUS
<1>3. PICK B \in T : \A A \in T : ~(<<A, B>> \in StrictSubsetOrdering(S))
  BY <1>1, <1>2, FS_StrictSubsetOrderingWellFounded, WFMin
<1>4. PICK x \in S : B = Above(x)
  OBVIOUS
<1>5. ASSUME NEW y \in S, y > x PROVE FALSE
  <2>0. x \in Nat /\ y \in Nat /\ \A z \in S : z \in Nat
    OBVIOUS
  <2>1. Above(y) \subseteq Above(x) /\ y \notin Above(y) /\ y \in Above(x)
    <3>1. \A z \in S : z > y => z > x
      BY <2>0, <1>5
    <3>2. ~(y > y)
      BY <2>0
    <3>3. QED
      BY <3>1, <3>2, <1>5, Zenon
  <2>2. Above(y) \in T /\ Above(y) \in SUBSET S /\ B \in SUBSET S
    BY <1>4
  <2>3. <<Above(y), B>> \in StrictSubsetOrdering(S)
    BY <1>4, <2>1, <2>2, Zenon DEF StrictSubsetOrdering
  <2>4. QED
    BY <1>3, <2>2, <2>3
<1>6. QED
  BY <1>5

\* The last chunk is one, and no row is in a later one.
LEMMA LastChunkIsLast == LastChunk \in Nat /\ \A r \in Rows : ChunkAt(r) \in 0 .. LastChunk
<1> DEFINE S == {ChunkAt(r) : r \in Rows}
<1>1. \A r \in Rows : ChunkAt(r) \in Nat
  BY DEF ChunkAt
<1>2. S \in SUBSET Nat /\ S # {}
  BY <1>1
<1>3. IsFiniteSet(S)
  <2> DEFINE f == [r \in Rows |-> ChunkAt(r)]
  <2>1. f \in Surjection(Rows, S)
    BY DEF Surjection
  <2>2. QED
    BY <2>1, FS_Surjection, Zenon
<1>4. \E c \in S : \A d \in S : d <= c
  BY <1>2, <1>3, GreatestExists
<1>5. \E c \in S : \A r \in Rows : ChunkAt(r) <= c
  BY <1>4
<1>6. LastChunk \in S /\ \A r \in Rows : ChunkAt(r) <= LastChunk
  BY <1>5, Zenon DEF LastChunk
<1>7. LastChunk \in Nat
  BY <1>2, <1>6, Zenon
<1> HIDE DEF S
<1>8. QED
  BY <1>1, <1>6, <1>7

-----------------------------------------------------------------------------
(* The steps *)

LEMMA InitInv == ASSUME Init PROVE Inv
<1>1. Types
  <2>1. NoChange \in Transaction
    BY DEF NoChange, Transaction, Updates
  <2>2. \A c \in Client : ChangeInv(c)
    BY DEF Init, ChangeInv, NoChange
  <2>3. chunk \in 0 .. LastChunk
    BY LastChunkIsLast DEF Init
  <2>4. txns \in 0 .. workload.txns
    BY DEF Init, Workload
  <2>5. clock \in Start .. MaxTime /\ now \in 0 .. clock
    BY DEF Init
  <2>6. QED
    BY <2>1, <2>2, <2>3, <2>4, <2>5 DEF Init, Types, Phases
<1>2. LatchInv /\ LateInv /\ RowInv /\ MarkInv
  BY DEF Init, LatchInv, LateInv, RowInv, MarkInv, Kept, Resting
<1>3. QED
  BY <1>1, <1>2 DEF Inv

\* What does not concern rows or the vacuum.
LEMMA AsideStep == ASSUME Inv, Tick \/ Close \/ UNCHANGED vars PROVE Inv'
<1>0. /\ UNCHANGED <<workload, fill, column, clients, query, history>>
      /\ clock' \in clock .. MaxTime /\ closed' \in BOOLEAN
  <2>1. clock \in 0 .. MaxTime /\ closed \in BOOLEAN
    BY DEF Inv, Types
  <2>2. CASE Tick
    BY <2>1, <2>2 DEF Tick
  <2>3. CASE Close
    BY <2>1, <2>3 DEF Close
  <2>4. CASE UNCHANGED vars
    BY <2>1, <2>4 DEF vars
  <2>5. QED
    BY <2>2, <2>3, <2>4
<1>1. Types'
  BY <1>0 DEF Inv, Types, column, clients, query, history, ChangeInv
<1>2. LatchInv' /\ LateInv'
  BY <1>0 DEF Inv, LatchInv, LateInv, LatchedByVacuum, ChunkAt, clients, query, column, history
<1>3. RowInv'
  BY <1>0 DEF Inv, RowInv, Kept, Going, GoingByClient, Marked, clients, query, column, history
<1>4. MarkInv'
  BY <1>0 DEF Inv, MarkInv, query, history
<1>5. QED
  BY <1>1, <1>2, <1>3, <1>4 DEF Inv

LEMMA ChooseStep ==
  ASSUME Inv, NEW c \in Client, NEW ch \in Change, NEW r \in Rows, NEW ttl \in TTLs,
         Choose(c, ch[1], ch[2], r, ttl)
  PROVE  Inv'
<1> DEFINE u == change'[c]
<1>0. /\ cpc[c] = "idle" /\ cpc' = [cpc EXCEPT ![c] = "chosen"]
      /\ fill' = fill \cup {r}
      /\ ch[1] = "insert" => r \notin fill
      /\ ch[1] # "insert" => r \in fill
      /\ txns < workload.txns /\ txns' = txns + 1
      /\ UNCHANGED <<workload, clock, column, query, closed, promise, astray, late>>
      /\ touched' \in {touched, touched \cup {r}, {}}
      /\ vpc \notin Resting => touched \subseteq touched'
  BY DEF Choose, Touch, Resting
<1>a. ch[1] \in {"none", "insert", "delete"} /\ ch[2] \in Updates
  BY DEF Change
<1>b. /\ change' = [change EXCEPT ![c] = u]
      /\ u \in Transaction /\ u.row = r
      /\ "set" \in u.updates => u.until # 0
      /\ "set" \notin u.updates => u.until = 0
  <2>1. change' = [change EXCEPT ![c] =
          [marker |-> ch[1], updates |-> ch[2], row |-> r,
           until |-> WriteTTL(IF "set" \in ch[2] THEN ttl ELSE 0), by |-> ttl]]
    BY DEF Choose
  <2>2. /\ WriteTTL(ttl) \in Nat \ {0} /\ WriteTTL(0) = 0
        /\ ttl \in Nat
    BY DEF WriteTTL, Inv, Types
  <2>3. change \in [Client -> Transaction]
    BY DEF Inv, Types
  <2>4. u = [marker |-> ch[1], updates |-> ch[2], row |-> r,
           until |-> WriteTTL(IF "set" \in ch[2] THEN ttl ELSE 0), by |-> ttl]
    BY <2>1, <2>3
  <2>5. QED
    BY <1>a, <2>1, <2>2, <2>3, <2>4 DEF Transaction
<1> HIDE DEF u
<1>1. Types'
  BY <1>0, <1>b DEF Inv, Types, column, query, ChangeInv, Workload
<1>2. LatchInv'
  BY <1>0, <1>b DEF Inv, Types, LatchInv, LatchedByVacuum, ChunkAt, query
<1>3. LateInv'
  BY <1>0, <1>b DEF Inv, Types, LateInv
<1>4. RowInv'
  <2>1. \A q \in Rows : Going(q)' <=> Going(q)
    BY <1>0, <1>b DEF Inv, Types, Going, GoingByClient, Marked, query
  <2>2. QED
    BY <1>0, <2>1 DEF Inv, Types, RowInv, Kept, column
<1>5. MarkInv'
  BY <1>0 DEF Inv, MarkInv, query, Resting
<1>6. QED
  BY <1>1, <1>2, <1>3, <1>4, <1>5 DEF Inv

LEMMA MarkStep == ASSUME Inv, NEW c \in Client, Mark(c) PROVE Inv'
<1> DEFINE u == change[c]
           r == u.row
<1>0. /\ cpc[c] = "chosen" /\ cpc' = [cpc EXCEPT ![c] = "latched"]
      /\ ~LatchedByClient(ChunkAt(r)) /\ ~LatchedByVacuum(ChunkAt(r))
      /\ u.marker = "insert" => fill' = fill \cup {r}
      /\ u.marker = "delete" => fill' = fill \ {r}
      /\ u.marker = "none" => fill' = fill
      /\ u.marker = "delete" => Deleted({r} \cap fill)
      /\ u.marker # "delete" => late' = late
      /\ UNCHANGED <<workload, clock, column, change, txns, query, closed, promise, astray>>
      /\ touched' \in {touched \cup {r}, {}}
      /\ vpc \notin Resting => touched' = touched \cup {r}
  BY DEF Mark, Touch, Resting
<1>a. /\ u \in Transaction /\ r \in Rows /\ u.marker \in {"none", "insert", "delete"}
      /\ change \in [Client -> Transaction]
      /\ cpc \in [Client -> {"idle", "chosen", "latched"}]
  BY <1>0 DEF Inv, Types, ChangeInv, Transaction
<1>b. /\ late \subseteq late' /\ late' \subseteq Client
      /\ \A d \in Client : cpc[d] # "idle" /\ change[d].row \in fill \ fill' => d \in late'
  BY <1>0, <1>a DEF Deleted, Inv, Types
<1> HIDE DEF u, r
<1>c. fill' \subseteq fill \cup {r} /\ fill \ {r} \subseteq fill' /\ fill' \subseteq Rows
  BY <1>0, <1>a DEF Inv, Types
<1>1. Types'
  BY <1>0, <1>a, <1>b, <1>c DEF Inv, Types, column, query, ChangeInv
<1>2. LatchInv'
  BY <1>0, <1>a DEF u, r, Inv, LatchInv, LatchedByVacuum, LatchedByClient, ChunkAt, query
<1>3. LateInv'
  BY <1>0, <1>a, <1>b, <1>c DEF u, r, Inv, LateInv
<1>4. RowInv'
  <2>1. \A q \in Rows : q # r \/ u.marker # "delete" => (Going(q)' <=> Going(q))
    BY <1>0, <1>a DEF u, r, Going, GoingByClient, Marked, query
  <2>2. \A q \in Rows : q = r /\ u.marker = "delete" => Going(q)'
    BY <1>0, <1>a DEF u, r, Going, GoingByClient
  <2>3. QED
    <3>1. ASSUME NEW q \in Rows, q \notin astray, ~Going(q)' PROVE Kept(q)'
      <4>1. ~(q = r /\ u.marker = "delete") /\ ~Going(q) /\ Kept(q)
        <5>1. ~(q = r /\ u.marker = "delete")
          BY <3>1, <2>2
        <5>2. ~Going(q)
          BY <3>1, <2>1, <5>1
        <5>3. q \notin astray
          BY <3>1
        <5>4. QED
          BY <3>1, <5>1, <5>2, <5>3 DEF Inv, RowInv
      <4>2. fill' = fill \/ (u.marker = "insert" /\ fill' = fill \cup {r})
              \/ (fill' = fill \ {r} /\ q # r)
        BY <4>1, <1>0, <1>a
      <4>3. QED
        BY <4>1, <4>2, <1>0 DEF Kept, column
    <3>2. astray' = astray
      BY <1>0
    <3>3. QED
      BY <3>1, <3>2, Zenon DEF RowInv
<1>5. MarkInv'
  BY <1>0, <1>c DEF Inv, MarkInv, query, Resting
<1>6. QED
  BY <1>1, <1>2, <1>3, <1>4, <1>5 DEF Inv

\* The row of a client that holds a latch loses nothing but by that client.
LEMMA OwnRow ==
  ASSUME Inv, NEW c \in Client, cpc[c] = "latched", change[c].marker # "delete"
  PROVE  ~Going(change[c].row)
<1> DEFINE r == change[c].row
<1>1. r \in Rows
  BY DEF Inv, Types, ChangeInv
<1>2. ~GoingByClient(r)
  BY DEF Inv, LatchInv, GoingByClient
<1>3. ~(vpc = "deletes" /\ r \in Marked)
  BY DEF Inv, LatchInv, LatchedByVacuum, Marked
<1>4. QED
  BY <1>2, <1>3 DEF Going

LEMMA ApplyStep == ASSUME Inv, NEW c \in Client, Apply(c) PROVE Inv'
<1> DEFINE u == change[c]
           r == u.row
<1>0. /\ cpc[c] = "latched" /\ cpc' = [cpc EXCEPT ![c] = "idle"]
      /\ u.updates # {} => has' = has \cup {r}
      /\ u.updates = {} /\ u.marker = "delete" => has' = has \ {r}
      /\ u.updates = {} /\ u.marker # "delete" => has' = has
      /\ deadline' = [deadline EXCEPT ![r] = Updated(u, deadline[r])]
      /\ promise' = [promise EXCEPT ![r] =
                       IF u.marker = "delete" THEN 0 ELSE Promised(u, promise[r])]
      /\ astray' = IF GoAstray(c) THEN astray \cup {r}
                   ELSE IF u.marker = "delete" THEN astray \ {r} ELSE astray
      /\ change' = [change EXCEPT ![c] = NoChange]
      /\ late' = late \ {c}
      /\ UNCHANGED <<workload, clock, fill, txns, query, closed>>
      /\ touched' \in {touched \cup {r}, {}}
      /\ vpc \notin Resting => touched' = touched \cup {r}
  BY DEF Apply, Touch, Resting, Inv, Types
<1>a. /\ u \in Transaction /\ r \in Rows /\ u.marker \in {"none", "insert", "delete"}
      /\ u.until \in Nat /\ u.by \in Nat /\ u.updates \in Updates
      /\ change \in [Client -> Transaction]
      /\ cpc \in [Client -> {"idle", "chosen", "latched"}]
      /\ deadline \in [Rows -> Nat] /\ promise \in [Rows -> Nat]
      /\ has \subseteq Rows /\ fill \subseteq Rows /\ astray \subseteq Rows
      /\ ChangeInv(c)
  BY <1>0 DEF Inv, Types, ChangeInv, Transaction
<1>b. NoChange \in Transaction /\ NoChange.updates = {} /\ NoChange.until = 0
  BY DEF NoChange, Transaction, Updates
<1> HIDE DEF u, r
<1>c. Updated(u, deadline[r]) \in Nat /\ Promised(u, promise[r]) \in Nat
  <2>1. \A d \in Nat : Stored(u, d) \in Nat
    BY <1>a DEF Stored
  <2>2. \A d \in Nat : Updated(u, d) \in Nat
    BY <1>a, <2>1 DEF Updated
  <2>3. QED
    BY <1>a, <2>2 DEF Promised
<1>1. Types'
  <2>1. \A d \in Client : ChangeInv(d)'
    BY <1>0, <1>a, <1>b DEF Inv, Types, ChangeInv
  <2>2. change' \in [Client -> Transaction] /\ cpc' \in [Client -> {"idle", "chosen", "latched"}]
    BY <1>0, <1>a, <1>b
  <2>3. deadline' \in [Rows -> Nat] /\ promise' \in [Rows -> Nat]
    BY <1>0, <1>a, <1>c
  <2>4. has' \subseteq Rows /\ astray' \subseteq Rows
    BY <1>0, <1>a
  <2>5. QED
    BY <1>0, <1>a, <2>1, <2>2, <2>3, <2>4 DEF Inv, Types, query
<1>2. LatchInv'
  BY <1>0, <1>a DEF Inv, LatchInv, LatchedByVacuum, ChunkAt, query
<1>3. LateInv'
  BY <1>0, <1>a DEF Inv, LateInv
<1>d. \A q \in Rows : q # r => (Going(q)' <=> Going(q))
  BY <1>0, <1>a DEF u, r, Going, GoingByClient, Marked, query
<1>4. RowInv'
  <2>1. ASSUME NEW q \in Rows, q \notin astray', ~Going(q)', q # r PROVE Kept(q)'
    <3>1. q \notin astray /\ ~Going(q)
      BY <2>1, <1>d, <1>0
    <3>2. Kept(q)
      BY <2>1, <3>1 DEF Inv, RowInv
    <3>3. /\ q \in has' <=> q \in has
          /\ deadline'[q] = deadline[q] /\ promise'[q] = promise[q] /\ fill' = fill
      BY <2>1, <1>0, <1>a
    <3>4. QED
      BY <3>2, <3>3 DEF Kept
  <2>2. ASSUME NEW q \in Rows, q = r, q \notin astray' PROVE Kept(q)'
    <3>0. ~GoAstray(c)
      BY <2>2, <1>0
    <3>1. CASE u.marker = "delete"
      <4>1. c \in late
        BY <3>1, <1>0 DEF u, Inv, LateInv
      <4>2. u.updates = {}
        BY <4>1, <3>0 DEF GoAstray, u
      <4>3. r \notin has' /\ promise'[r] = 0
        BY <4>2, <3>1, <1>0, <1>a
      <4>4. QED
        BY <4>3, <2>2 DEF Kept
    <3>2. CASE u.marker # "delete"
      <4>1. r \notin astray
        BY <3>0, <3>2, <2>2, <1>0
      <4>2. Kept(r)
        BY <4>1, <3>2, <1>0, <1>a, OwnRow DEF u, r, Inv, RowInv
      <4>3. promise'[r] = Promised(u, promise[r]) /\ deadline'[r] = Updated(u, deadline[r])
        BY <3>2, <1>0, <1>a
      <4>4. CASE u.updates = {}
        <5>1. promise'[r] = promise[r] /\ deadline'[r] = deadline[r] /\ has' = has /\ fill' = fill
          BY <4>3, <4>4, <3>2, <1>0, <1>a DEF Promised, Updated, Stored
        <5>2. QED
          BY <5>1, <4>2, <2>2 DEF Kept
      <4>5. CASE u.updates # {}
        <5>1. c \notin late /\ (u.updates = {"extend"} => promise[r] # 0)
          BY <3>0, <4>5 DEF GoAstray, u, r
        <5>2. r \in fill /\ fill' = fill /\ r \in has'
          BY <5>1, <4>5, <1>0 DEF u, r, Inv, LateInv
        <5>3. Updated(u, deadline[r]) = Promised(u, promise[r])
          <6>1. CASE u.updates = {"extend"}
            <7>1. r \in has /\ deadline[r] = promise[r] /\ promise[r] # 0
              BY <6>1, <5>1, <5>2, <4>2 DEF Kept
            <7>2. QED
              BY <7>1, <6>1 DEF Updated, Promised, Stored
          <6>2. CASE u.updates = {"set"} \/ u.updates = {"set", "extend"}
            <7>1. u.until # 0
              BY <6>2, <1>a DEF u, ChangeInv
            <7>2. QED
              BY <7>1, <6>2, <1>a DEF Updated, Promised, Stored
          <6>3. CASE u.updates = {"reset"}
            <7>1. u.until = 0
              BY <6>3, <1>a DEF u, ChangeInv
            <7>2. QED
              BY <7>1, <6>3, <1>a DEF Updated, Promised, Stored
          <6>4. QED
            BY <6>1, <6>2, <6>3, <4>5, <1>a DEF Updates
        <5>4. QED
          BY <5>2, <5>3, <4>3, <2>2 DEF Kept
      <4>6. QED
        BY <4>4, <4>5
    <3>3. QED
      BY <3>1, <3>2
  <2>3. QED
    BY <2>1, <2>2 DEF RowInv
<1>5. MarkInv'
  <2>1. ASSUME NEW q \in marks, q \notin touched', q \notin astray'
        PROVE  promise'[q] # 0 /\ promise'[q] < now
    <3>1. vpc \notin Resting /\ q \in Rows
      BY DEF Inv, Types, MarkInv
    <3>2. q # r /\ q \notin touched /\ q \notin astray
      BY <3>1, <2>1, <1>0
    <3>3. promise'[q] = promise[q]
      BY <3>1, <3>2, <1>0, <1>a
    <3>4. QED
      BY <3>2, <3>3 DEF Inv, MarkInv
  <2>2. UNCHANGED <<vpc, marks, now, index, fill>>
    BY <1>0 DEF query
  <2>3. vpc \in {"selects", "reads"} => index \subseteq fill \cup touched'
    BY <1>0 DEF Inv, MarkInv, Resting
  <2>4. QED
    BY <2>1, <2>2, <2>3 DEF Inv, MarkInv
<1>6. QED
  BY <1>1, <1>2, <1>3, <1>4, <1>5 DEF Inv

\* What a step of the vacuum leaves to the invariant when no row changes and no
\* latch is taken.
LEMMA QueryStep ==
  ASSUME Inv, UNCHANGED <<Others, fill, column, promise, astray, late>>,
         vpc' \in Phases, vpc # "deletes", vpc' # "deletes",
         now' \in 0 .. clock, index' \subseteq Rows, chunk' \in 0 .. LastChunk,
         marks' \subseteq index', touched' \subseteq Rows, MarkInv'
  PROVE  Inv'
<1>0. UNCHANGED <<workload, clock, closed, fill, has, deadline, promise, astray, late,
                  cpc, change, txns>>
  BY DEF Others, clients, column
<1>1. Types'
  BY <1>0 DEF Inv, Types, ChangeInv
<1>2. LatchInv' /\ LateInv'
  BY <1>0 DEF Inv, LatchInv, LateInv, LatchedByVacuum, ChunkAt
<1>3. RowInv'
  BY <1>0 DEF Inv, RowInv, Kept, Going, GoingByClient
<1>4. QED
  BY <1>1, <1>2, <1>3 DEF Inv

LEMMA NextChunkType ==
  ASSUME Inv, NEW p \in Phases, NextChunk(p)
  PROVE  chunk' \in 0 .. LastChunk /\ vpc' \in {vpc, p}
BY LastChunkIsLast DEF Inv, Types, NextChunk

LEMMA RestStep == ASSUME Inv, Wake \/ Stop \/ Initialize \/ NotDirty \/ Sleep PROVE Inv'
<1>1. CASE Wake
  <2>1. MarkInv'
    BY <1>1 DEF Inv, MarkInv, Wake, Resting, history
  <2>2. clock \in Nat
    BY DEF Inv, Types
  <2>3. QED
    BY <1>1, <2>1, <2>2, QueryStep DEF Wake, Inv, Types, Phases, history
<1>2. CASE Stop
  <2>1. MarkInv'
    BY <1>2 DEF Inv, MarkInv, Stop, Resting, history
  <2>2. QED
    BY <1>2, <2>1, QueryStep DEF Stop, Inv, Types, Phases, history
<1>3. CASE Initialize
  <2>1. MarkInv'
    BY <1>3 DEF Inv, MarkInv, Initialize, Resting
  <2>2. marks = {}
    BY <1>3 DEF Inv, MarkInv, Initialize, Resting
  <2>3. QED
    BY <1>3, <2>1, <2>2, QueryStep, LastChunkIsLast DEF Initialize, Inv, Types, Phases
<1>4. CASE NotDirty
  <2>1. MarkInv'
    BY <1>4 DEF Inv, MarkInv, NotDirty, Resting, history
  <2>2. chunk' \in 0 .. LastChunk
    BY <1>4, LastChunkIsLast DEF NotDirty, Inv, Types
  <2>3. QED
    BY <1>4, <2>1, <2>2, QueryStep DEF NotDirty, Inv, Types, Phases, history
<1>5. CASE Sleep
  <2>1. MarkInv'
    BY <1>5 DEF MarkInv, Sleep, Resting
  <2>2. clock \in Nat
    BY DEF Inv, Types
  <2>3. QED
    BY <1>5, <2>1, <2>2, QueryStep, LastChunkIsLast DEF Sleep, Phases
<1>6. QED
  BY <1>1, <1>2, <1>3, <1>4, <1>5

LEMMA SelectStep == ASSUME Inv, Select PROVE Inv'
<1>1. vpc = "selects" /\ vpc' \in {"selects", "reads"} /\ chunk' \in 0 .. LastChunk
  BY NextChunkType DEF Select, Phases
<1>2. /\ UNCHANGED <<Others, fill, column, now, marks, promise, astray, late, touched>>
      /\ index' = {r \in index : ChunkAt(r) = chunk => r \in has}
  BY DEF Select, history
<1>3. marks = {}
  BY <1>1 DEF Inv, MarkInv
<1>4. MarkInv'
  BY <1>1, <1>2, <1>3 DEF Inv, MarkInv, Resting
<1>5. QED
  BY <1>1, <1>2, <1>3, <1>4, QueryStep DEF Inv, Types, Phases, Others

\* A row that the vacuum marks is one whose deadline was promised and is over.
LEMMA ReadStep == ASSUME Inv, Read PROVE Inv'
<1> DEFINE R == {r \in index : ChunkAt(r) = chunk /\ ExpiresAt(r) /\ now > deadline[r]}
<1>1. /\ vpc = "reads" /\ vpc' \in {"reads", "commits"} /\ chunk' \in 0 .. LastChunk
      /\ ~LatchedByClient(chunk)
  BY NextChunkType DEF Read, Phases
<1>2. /\ UNCHANGED <<Others, fill, column, now, index, promise, astray, late, touched>>
      /\ marks' = marks \cup R
  BY DEF Read, history
<1>3. ASSUME NEW r \in R, r \notin touched, r \notin astray
      PROVE  promise[r] # 0 /\ promise[r] < now
  <2>1. r \in Rows /\ r \in fill /\ ChunkAt(r) = chunk
    BY <1>1, <1>3 DEF Inv, Types, MarkInv
  <2>2. ~Going(r)
    BY <1>1, <2>1 DEF Going, GoingByClient, LatchedByClient
  <2>3. Kept(r)
    BY <1>3, <2>1, <2>2 DEF Inv, RowInv
  <2>4. r \in has /\ deadline[r] # 0 /\ now > deadline[r] /\ deadline[r] \in Nat /\ now \in Nat
    BY <2>1 DEF ExpiresAt, Inv, Types
  <2>5. QED
    BY <2>1, <2>3, <2>4 DEF Kept
<1>4. R \subseteq index
  OBVIOUS
<1> HIDE DEF R
<1>5. MarkInv'
  BY <1>1, <1>2, <1>3 DEF Inv, MarkInv, Resting
<1>6. QED
  BY <1>1, <1>2, <1>4, <1>5, QueryStep DEF Inv, Types, Phases, Others

LEMMA MarkExpiredStep == ASSUME Inv, MarkExpired PROVE Inv'
<1>0. /\ vpc = "commits" /\ vpc' = "deletes" /\ ~LatchedByClient(chunk)
      /\ fill' = fill \ Marked
      /\ UNCHANGED <<workload, clock, closed, cpc, change, txns, has, deadline, now, index,
                     chunk, marks, promise, astray, touched>>
  BY DEF MarkExpired, Others, clients, column
<1>a. late' = late \cup {c \in Client : cpc[c] # "idle" /\ change[c].row \in Marked \cap fill}
  BY DEF MarkExpired, Deleted
<1>1. Types'
  BY <1>0, <1>a DEF Inv, Types, ChangeInv, Phases
<1>2. LatchInv'
  BY <1>0 DEF Inv, LatchInv, LatchedByVacuum, LatchedByClient, ChunkAt
<1>3. LateInv'
  BY <1>0, <1>a DEF Inv, LateInv
<1>4. RowInv'
  <2>1. ASSUME NEW r \in Rows, r \notin astray, ~Going(r)' PROVE Kept(r)'
    <3>1. r \notin Marked /\ ~Going(r)
      BY <2>1, <1>0 DEF Going, GoingByClient, Marked
    <3>2. Kept(r)
      BY <2>1, <3>1 DEF Inv, RowInv
    <3>3. QED
      BY <3>1, <3>2, <1>0 DEF Kept
  <2>2. QED
    BY <2>1, <1>0 DEF RowInv
<1>5. MarkInv'
  BY <1>0 DEF Inv, MarkInv, Resting
<1>6. QED
  BY <1>1, <1>2, <1>3, <1>4, <1>5 DEF Inv

LEMMA DeleteExpiredStep == ASSUME Inv, DeleteExpired PROVE Inv'
<1>0. /\ vpc = "deletes" /\ vpc' = "commits"
      /\ has' = has \ Marked /\ marks' = marks \ Marked
      /\ promise' = [r \in Rows |-> IF r \in Marked THEN 0 ELSE promise[r]]
      /\ astray' = astray \ Marked
      /\ UNCHANGED <<workload, clock, closed, cpc, change, txns, fill, deadline, now, index,
                     chunk, late, touched>>
  BY DEF DeleteExpired, Others, clients
<1>1. Types'
  BY <1>0 DEF Inv, Types, ChangeInv, Phases
<1>2. LatchInv' /\ LateInv'
  BY <1>0 DEF Inv, LatchInv, LateInv, LatchedByVacuum, ChunkAt
<1>4. RowInv'
  <2>1. ASSUME NEW r \in Rows, r \notin astray', ~Going(r)' PROVE Kept(r)'
    <3>1. CASE r \in Marked
      BY <3>1, <1>0 DEF Kept
    <3>2. CASE r \notin Marked
      <4>1. r \notin astray /\ ~Going(r)
        BY <2>1, <3>2, <1>0 DEF Going, GoingByClient
      <4>2. Kept(r)
        BY <4>1 DEF Inv, RowInv
      <4>3. QED
        BY <3>2, <4>2, <1>0 DEF Kept
    <3>3. QED
      BY <3>1, <3>2
  <2>2. QED
    BY <2>1 DEF RowInv
<1>5. MarkInv'
  <2>1. \A r \in Rows : r \notin Marked => promise'[r] = promise[r]
    BY <1>0
  <2>2. QED
    BY <2>1, <1>0 DEF Inv, Types, MarkInv, Resting
<1>6. QED
  BY <1>1, <1>2, <1>4, <1>5 DEF Inv

LEMMA NextInv == ASSUME Inv, [Next]_vars PROVE Inv'
<1>1. CASE Tick \/ Close \/ UNCHANGED vars
  BY <1>1, AsideStep
<1>2. ASSUME NEW c \in Client, NEW ch \in Change, NEW r \in Rows, NEW ttl \in TTLs,
             Choose(c, ch[1], ch[2], r, ttl)
      PROVE  Inv'
  BY <1>2, ChooseStep
<1>3. ASSUME NEW c \in Client, Mark(c) \/ Apply(c) PROVE Inv'
  BY <1>3, MarkStep, ApplyStep
<1>4. CASE VacuumStep
  BY <1>4, RestStep, SelectStep, ReadStep, MarkExpiredStep, DeleteExpiredStep DEF VacuumStep
<1>5. QED
  BY <1>1, <1>2, <1>3, <1>4 DEF Next

-----------------------------------------------------------------------------
(* The theorems *)

\* The invariant holds throughout.
THEOREM Invariance == Spec => []Inv
<1>1. Init => Inv
  BY InitInv
<1>2. Inv /\ [Next]_vars => Inv'
  BY NextInv
<1>3. QED
  BY <1>1, <1>2, PTL DEF Spec

\* All variables have their types; the vacuum marks rows of its copy of the fill
\* list only, and the chunk that it is at exists.
THEOREM VacuumTypes == Spec => []TypeOK
<1>1. Inv => TypeOK
  <2>1. ASSUME Inv, NEW c \in Client
        PROVE  <<change[c].marker, change[c].updates>> \in Change
    BY <2>1 DEF Inv, Types, Transaction, Change
  <2>2. QED
    BY <2>1 DEF Inv, Types, ChangeInv, TypeOK, Phases
<1>2. QED
  BY <1>1, Invariance, PTL

\* The column says of each row what clients have been promised, whatever commits,
\* deletions and passes of the vacuum there were.
THEOREM PromisesAreKept == Spec => []DeadlinesArePromises
<1>1. Inv => DeadlinesArePromises
  <2>1. ASSUME Inv, NEW r \in Rows \ astray, ~Latched(r) PROVE Kept(r)
    <3>1. ~Going(r)
      BY <2>1 DEF Latched, LatchedByClient, LatchedByVacuum, Going, GoingByClient, Marked
    <3>2. QED
      BY <2>1, <3>1 DEF Inv, RowInv
  <2>2. QED
    BY <2>1 DEF DeadlinesArePromises, Kept
<1>2. QED
  BY <1>1, Invariance, PTL

\* The vacuum deletes no row before its time.
THEOREM NoneBeforeItsTime == Spec => OnlyExpiredRowsAreVacuumed
<1> DEFINE A ==
      vpc' = "deletes" /\ vpc # "deletes" =>
        \A r \in fill \ fill' :
          r \in touched \cup astray \/ (promise[r] # 0 /\ promise[r] < clock)
<1>1. ASSUME Inv, [Next]_vars PROVE [A]_vars
  <2>1. ASSUME vpc' = "deletes", vpc # "deletes" PROVE MarkExpired
    <3>1. \A p \in Phases : NextChunk(p) => vpc' \in {vpc, p}
      BY <1>1, NextChunkType
    <3>2. ~Select /\ ~Read
      BY <2>1, <3>1 DEF Select, Read, Phases
    <3>3. CASE VacuumStep
      BY <3>3, <3>2, <2>1 DEF VacuumStep, Wake, Stop, Initialize, DeleteExpired, NotDirty, Sleep
    <3>4. CASE UNCHANGED <<vpc, now, index, chunk, marks>>
      BY <3>4, <2>1
    <3>5. QED
      BY <1>1, <3>3, <3>4 DEF Next, Tick, Close, Choose, Mark, Apply, query, vars
  <2>2. ASSUME MarkExpired, NEW r \in fill \ fill', r \notin touched \cup astray
        PROVE  promise[r] # 0 /\ promise[r] < clock
    <3>1. r \in marks /\ r \in Rows
      BY <2>2, <1>1 DEF MarkExpired, Marked, Inv, Types
    <3>2. promise[r] # 0 /\ promise[r] < now /\ now \in 0 .. clock
      BY <3>1, <2>2, <1>1 DEF Inv, Types, MarkInv
    <3>3. promise[r] \in Nat /\ clock \in Nat
      BY <3>1, <1>1 DEF Inv, Types
    <3>4. QED
      BY <3>2, <3>3
  <2>3. QED
    BY <2>1, <2>2
<1>2. QED
  BY <1>1, Invariance, PTL DEF Spec, OnlyExpiredRowsAreVacuumed
=============================================================================
