---------------------------- MODULE QueryProofs ----------------------------
(***************************************************************************)
(* What Query promises, for any number of writers, rows, chunks, indexes   *)
(* and names.  A query goes through its copy of the fill list pass by pass *)
(* and chunk by chunk while commits change other rows: the invariant says  *)
(* what the passes that are left make of each row that is not among them.  *)
(*                                                                         *)
(* A sum is defined by recursion over a set.  What is needed of it here,   *)
(* for finite sets, is shown with a smallest set that were an exception:   *)
(* there is such a function, any row may be taken first, and the sum of    *)
(* two disjoint sets is that of their sums.                                *)
(***************************************************************************)
EXTENDS Query, TLAPS, FiniteSetTheorems, WellFoundedInduction

\* Division of a row number by the size of a word or of a chunk.
LEMMA Division ==
  ASSUME NEW n \in Nat, NEW d \in Nat \ {0}
  PROVE  n \div d \in Nat /\ (n \div d) * d <= n /\ n < (n \div d + 1) * d
OBVIOUS

Latches == {w \in Writer : wpc[w] = "latched"}
Active == {w \in Writer : wpc[w] # "idle"}
RowOf(w) == change[w].row

PassOps == {"and", "andnot", "or", "filter", "aggregate", "clear", "skip"}
Known == {Column} \cup DOMAIN Rule
Pass == [op : PassOps, names : SUBSET Known]
Unvisited == {"clear", "skip"}

-----------------------------------------------------------------------------
(* What is left of a call, for one row *)

\* What a query can see of a row: the bitmaps that it is in, and its value.
View(r) ==
  [on |-> {n \in Known : r \in Bits(n)}, value |-> IF r \in has THEN {data[r]} ELSE {}]

On(p, v) == p.names \cap v.on # {}

\* The passes that put a row into the selection, and that take it out.
Sets(p, v) == p.op = "or" /\ On(p, v)
Drops(p, v) ==
  \/ p.op = "and" /\ ~On(p, v)
  \/ p.op = "andnot" /\ On(p, v)
  \/ p.op = "filter" /\ v.value \cap Predicate = {}
  \/ p.op = "clear"

After(b, p, v) == (b /\ ~Drops(p, v)) \/ Sets(p, v)

\* Whether a row is selected after a sequence of passes: it was and no pass
\* drops it, or a pass sets it and no later one drops it.
Result(b, ps, v) ==
  \/ b /\ \A i \in DOMAIN ps : ~Drops(ps[i], v)
  \/ \E i \in DOMAIN ps : Sets(ps[i], v) /\ \A j \in DOMAIN ps : i < j => ~Drops(ps[j], v)

\* Whether a call is to select a row that was selected before it, or was not.
Asked(c, b, v) ==
  LET some == \E n \in ToSet(c.names) : n \in v.on
      all == \A n \in ToSet(c.names) : n \in v.on
  IN  CASE c.op = "With"      -> b /\ all
        [] c.op = "Without"   -> b /\ ~some
        [] c.op = "Union"     -> (b /\ ~c.fresh) \/ some
        [] c.op = "WithUnion" -> b /\ some
        [] c.op = "WithInt"   -> b /\ v.value \cap Predicate # {}
        [] c.op = "Aggregate" -> b

\* The passes that have not come to the row yet.
Pending(r) == IF passes # << >> /\ ChunkAt(r) < chunk THEN Tail(passes) ELSE passes
Outcome(r) == Result(r \in index, Pending(r), View(r))

\* A commit holds the latch of the row since before the query began, and the
\* pass has to wait for it.
Awaited(r) ==
  /\ r \in Busy /\ passes # << >> /\ Head(passes).op \notin Unvisited
  /\ chunk <= ChunkAt(r) /\ ChunkAt(r) < span

-----------------------------------------------------------------------------
(* The inductive invariant *)

Types ==
  /\ workload \in Workloads
  /\ fill \subseteq Rows /\ has \subseteq Rows /\ DOMAIN data = Rows
  /\ bits \in [DOMAIN Rule -> SUBSET Rows]
  /\ length \in Nat /\ grown \in Nat /\ span \in Nat
  /\ wpc \in [Writer -> {"idle", "chosen", "commit", "latched"}] /\ DOMAIN change = Writer
  /\ setup \in BOOLEAN /\ chunk \in 0 .. span
  /\ index \subseteq {r \in Rows : ChunkAt(r) < span} /\ meant \subseteq Rows
  /\ passes \in Seq(Pass)
  /\ call # None => \E c \in Calls, fresh \in BOOLEAN : call = Called(c, fresh)

\* Rows lie in the chunks that there are; a commit has made room for its row.
Room ==
  /\ \A r \in fill \cup has : ChunkAt(r) < length
  /\ \A r \in has : ChunkAt(r) < grown
  /\ \A w \in Active :
       /\ RowOf(w) \in Rows /\ ChunkAt(RowOf(w)) < length
       /\ wpc[w] # "chosen" => ChunkAt(RowOf(w)) < grown
       /\ <<change[w].marker, change[w].update>> \in workload.changes

\* One commit per chunk; one transaction, if rows are deleted.
Exclusive ==
  /\ \A w, u \in Latches : ChunkAt(RowOf(w)) = ChunkAt(RowOf(u)) => w = u
  /\ IsFiniteSet(Active)
  /\ Orderly /\ Deleting => \A w, u \in Active : w = u

\* The row of a transaction exists until the transaction deletes it.
RowThere ==
  Orderly => \A w \in Active :
    RowOf(w) \in fill \/ (wpc[w] = "latched" /\ change[w].marker = "delete")

BitsFollow == \A n \in DOMAIN Rule : bits[n] = {r \in has : data[r] \in Rule[n]}

HasRow == Orderly => has \ Busy \subseteq fill

Calling ==
  /\ ~setup => call = None /\ index = {} /\ meant = {} /\ span = 0 /\ touched = {} /\ ~misread
  /\ call = None => passes = << >>
  /\ chunk # 0 => passes # << >> /\ Head(passes).op \notin Unvisited

\* Rows behind the copy of the fill list are not selected, nor should they be.
Beyond ==
  setup => \A r \in Rows \ touched :
    ChunkAt(r) >= span => r \notin meant /\ r \notin has

\* For a row that no commit has touched, what is left of the call makes of the
\* selection what the call means.
Exact ==
  Orderly /\ setup /\ ~misread =>
    \A r \in Rows \ touched : ChunkAt(r) < grown =>
      /\ call = None => (r \in index <=> r \in meant)
      /\ call # None => (Outcome(r) <=> Asked(call, r \in meant, View(r))) \/ Awaited(r)

QueryInv ==
  /\ Types /\ Room /\ Exclusive /\ RowThere /\ BitsFollow /\ HasRow
  /\ Calling /\ Beyond /\ Exact

-----------------------------------------------------------------------------
(* Passes *)

\* The first pass, and then the others.
LEMMA ResultTail ==
  ASSUME NEW ps \in Seq(Pass), ps # << >>, NEW b \in BOOLEAN, NEW v
  PROVE  Result(b, ps, v) <=> Result(After(b, Head(ps), v), Tail(ps), v)
<1> DEFINE u == Tail(ps)
           Left == \A i \in DOMAIN u : ~Drops(u[i], v)
           Later == \E i \in DOMAIN u :
                      Sets(u[i], v) /\ \A j \in DOMAIN u : i < j => ~Drops(u[j], v)
<1>1. /\ DOMAIN ps = 1 .. Len(ps) /\ DOMAIN u = 1 .. Len(ps) - 1 /\ Len(ps) \in Nat \ {0}
      /\ \A i \in DOMAIN u : u[i] = ps[i + 1]
      /\ Head(ps) = ps[1]
  OBVIOUS
<1> HIDE DEF u
<1>2. /\ 1 \in DOMAIN ps
      /\ \A i \in DOMAIN u : i + 1 \in DOMAIN ps /\ ps[i + 1] = u[i] /\ 1 < i + 1
      /\ \A i \in DOMAIN ps : i = 1 \/ (i - 1 \in DOMAIN u /\ ps[i] = u[i - 1])
  BY <1>1
<1>3. (\A i \in DOMAIN ps : ~Drops(ps[i], v)) <=> ~Drops(Head(ps), v) /\ Left
  <2>1. ASSUME \A i \in DOMAIN ps : ~Drops(ps[i], v) PROVE ~Drops(Head(ps), v) /\ Left
    BY <1>1, <1>2, <2>1
  <2>2. ASSUME ~Drops(Head(ps), v), Left, NEW i \in DOMAIN ps PROVE ~Drops(ps[i], v)
    BY <1>1, <1>2, <2>2
  <2>3. QED
    BY <2>1, <2>2
<1>4. (\A j \in DOMAIN ps : 1 < j => ~Drops(ps[j], v)) <=> Left
  <2>1. ASSUME \A j \in DOMAIN ps : 1 < j => ~Drops(ps[j], v) PROVE Left
    BY <1>2, <2>1
  <2>2. ASSUME Left, NEW j \in DOMAIN ps, 1 < j PROVE ~Drops(ps[j], v)
    BY <1>1, <1>2, <2>2
  <2>3. QED
    BY <2>1, <2>2
<1>5. ASSUME NEW i \in DOMAIN u
      PROVE  (\A j \in DOMAIN ps : i + 1 < j => ~Drops(ps[j], v))
               <=> (\A j \in DOMAIN u : i < j => ~Drops(u[j], v))
  <2>1. ASSUME \A j \in DOMAIN ps : i + 1 < j => ~Drops(ps[j], v), NEW j \in DOMAIN u, i < j
        PROVE  ~Drops(u[j], v)
    <3>1. i + 1 < j + 1
      BY <1>1, <2>1
    <3>2. QED
      BY <1>2, <2>1, <3>1
  <2>2. ASSUME \A j \in DOMAIN u : i < j => ~Drops(u[j], v), NEW j \in DOMAIN ps, i + 1 < j
        PROVE  ~Drops(ps[j], v)
    <3>1. j # 1 /\ i < j - 1
      BY <1>1, <2>2
    <3>2. QED
      BY <1>2, <2>2, <3>1
  <2>3. QED
    BY <2>1, <2>2
<1>6. (\E i \in DOMAIN ps : Sets(ps[i], v) /\ \A j \in DOMAIN ps : i < j => ~Drops(ps[j], v))
        <=> (Sets(Head(ps), v) /\ Left) \/ Later
  <2>1. ASSUME NEW i \in DOMAIN ps, Sets(ps[i], v),
               \A j \in DOMAIN ps : i < j => ~Drops(ps[j], v)
        PROVE  (Sets(Head(ps), v) /\ Left) \/ Later
    <3>1. CASE i = 1
      BY <1>1, <1>4, <2>1, <3>1
    <3>2. CASE i # 1
      <4>1. i - 1 \in DOMAIN u /\ ps[i] = u[i - 1] /\ (i - 1) + 1 = i
        BY <1>1, <1>2, <3>2
      <4>2. \A j \in DOMAIN u : i - 1 < j => ~Drops(u[j], v)
        BY <1>5, <2>1, <4>1
      <4>3. QED
        BY <2>1, <4>1, <4>2
    <3>3. QED
      BY <3>1, <3>2
  <2>2. ASSUME Sets(Head(ps), v), Left
        PROVE  \E i \in DOMAIN ps :
                 Sets(ps[i], v) /\ \A j \in DOMAIN ps : i < j => ~Drops(ps[j], v)
    BY <1>1, <1>2, <1>4, <2>2
  <2>3. ASSUME NEW i \in DOMAIN u, Sets(u[i], v), \A j \in DOMAIN u : i < j => ~Drops(u[j], v)
        PROVE  \E k \in DOMAIN ps :
                 Sets(ps[k], v) /\ \A j \in DOMAIN ps : k < j => ~Drops(ps[j], v)
    BY <1>2, <1>5, <2>3
  <2>4. QED
    BY <2>1, <2>2, <2>3
<1> HIDE DEF Left, Later
<1>7. Result(b, ps, v) <=> (b /\ ~Drops(Head(ps), v) /\ Left) \/ (Sets(Head(ps), v) /\ Left) \/ Later
  BY <1>3, <1>6 DEF Result
<1>8. Result(After(b, Head(ps), v), u, v) <=> (After(b, Head(ps), v) /\ Left) \/ Later
  BY DEF Result, Left, Later
<1>9. QED
  BY <1>7, <1>8 DEF After, u

LEMMA ResultNone == \A b \in BOOLEAN : \A v : Result(b, << >>, v) <=> b
BY DEF Result

\* The pass that a name makes, if it is known and if it is not.
LEMMA EachPass ==
  ASSUME NEW op, NEW names, NEW unknown, NEW i \in DOMAIN names,
         NEW v, v.on \subseteq Known
  PROVE  /\ DOMAIN Each(op, names, unknown) = DOMAIN names
         /\ names[i] \in Known => /\ Each(op, names, unknown)[i].op = op
                                  /\ On(Each(op, names, unknown)[i], v) <=> names[i] \in v.on
         /\ names[i] \notin Known => /\ Each(op, names, unknown)[i].op = unknown
                                     /\ ~On(Each(op, names, unknown)[i], v) /\ names[i] \notin v.on
BY DEF Each, Over, On, Exists, Known

LEMMA EachType ==
  ASSUME NEW op \in PassOps, NEW unknown \in PassOps, NEW S, NEW names \in Seq(S)
  PROVE  Each(op, names, unknown) \in Seq(Pass)
<1> DEFINE n == Len(names)
<1>1. n \in Nat /\ DOMAIN names = 1 .. n
  OBVIOUS
<1> HIDE DEF n
<1>2. \A i \in 1 .. n : (IF Exists(names[i]) THEN Over(op, {names[i]}) ELSE Over(unknown, {})) \in Pass
  BY DEF Over, Pass, Exists, Known
<1>3. Each(op, names, unknown) \in [1 .. n -> Pass]
  BY <1>1, <1>2 DEF Each
<1>4. QED
  BY <1>1, <1>3

LEMMA UnionPass ==
  ASSUME NEW names, NEW fresh \in BOOLEAN, NEW v, v.on \subseteq Known, NEW i \in DOMAIN names,
         fresh => names[1] \in Known
  PROVE  LET p == UnionPasses(names, fresh)[i]
         IN  /\ DOMAIN UnionPasses(names, fresh) = DOMAIN names
             /\ Drops(p, v) <=> fresh /\ i = 1 /\ names[1] \notin v.on
             /\ Sets(p, v) <=> ~(fresh /\ i = 1) /\ names[i] \in v.on
<1> DEFINE p == UnionPasses(names, fresh)[i]
<1>1. /\ DOMAIN UnionPasses(names, fresh) = DOMAIN names
      /\ p = IF fresh /\ i = 1 THEN Each("and", names, "skip")[i] ELSE Each("or", names, "skip")[i]
  BY DEF UnionPasses
<1>2. CASE fresh /\ i = 1
  <2>1. p.op = "and" /\ (On(p, v) <=> names[i] \in v.on)
    BY <1>1, <1>2, EachPass
  <2>2. QED
    BY <1>1, <1>2, <2>1 DEF Drops, Sets
<1>3. CASE ~(fresh /\ i = 1)
  <2>1. /\ p.op \in {"or", "skip"}
        /\ (p.op = "or" /\ On(p, v)) <=> names[i] \in v.on
    BY <1>1, <1>3, EachPass
  <2>2. QED
    BY <1>1, <1>3, <2>1 DEF Drops, Sets
<1>4. QED
  BY <1>2, <1>3

LEMMA UnionResult ==
  ASSUME NEW names, NEW fresh \in BOOLEAN, NEW b \in BOOLEAN, NEW v, v.on \subseteq Known,
         NEW S, names \in Seq(S), fresh => names # << >> /\ names[1] \in Known,
         fresh /\ v.on # {} => b
  PROVE  Result(b, UnionPasses(names, fresh), v)
           <=> (b /\ ~fresh) \/ \E i \in DOMAIN names : names[i] \in v.on
<1> DEFINE ps == UnionPasses(names, fresh)
<1>1. DOMAIN ps = DOMAIN names
  BY DEF UnionPasses
<1>2. /\ \A i \in DOMAIN names : Drops(ps[i], v) <=> fresh /\ i = 1 /\ names[1] \notin v.on
      /\ \A i \in DOMAIN names : Sets(ps[i], v) <=> ~(fresh /\ i = 1) /\ names[i] \in v.on
  BY UnionPass
<1>3. /\ \A i, j \in DOMAIN names : i < j => j # 1
      /\ fresh => 1 \in DOMAIN names
  OBVIOUS
<1> HIDE DEF ps
<1>4. CASE ~fresh
  <2>1. \A i \in DOMAIN names : ~Drops(ps[i], v) /\ (Sets(ps[i], v) <=> names[i] \in v.on)
    BY <1>2, <1>4
  <2>2. Result(b, ps, v) <=> b \/ \E i \in DOMAIN names : names[i] \in v.on
    BY <1>1, <2>1 DEF Result
  <2>3. QED
    BY <1>4, <2>2 DEF ps
<1>5. CASE fresh
  <2>1. (\A i \in DOMAIN names : ~Drops(ps[i], v)) <=> names[1] \in v.on
    BY <1>2, <1>3, <1>5
  <2>2. (\E i \in DOMAIN names :
           Sets(ps[i], v) /\ \A j \in DOMAIN names : i < j => ~Drops(ps[j], v))
          <=> \E i \in DOMAIN names : i # 1 /\ names[i] \in v.on
    BY <1>2, <1>3, <1>5
  <2>3. Result(b, ps, v)
          <=> (b /\ names[1] \in v.on) \/ \E i \in DOMAIN names : i # 1 /\ names[i] \in v.on
    BY <1>1, <2>1, <2>2 DEF Result
  <2>4. names[1] \in v.on => b
    BY <1>5
  <2>5. (b /\ names[1] \in v.on) \/ (\E i \in DOMAIN names : i # 1 /\ names[i] \in v.on)
          <=> \E i \in DOMAIN names : names[i] \in v.on
    BY <1>3, <1>5, <2>4
  <2>6. QED
    BY <1>5, <2>3, <2>5 DEF ps
<1>6. QED
  BY <1>4, <1>5

\* The passes of a call select what the call asks for, if it is not one that is
\* misread; a fresh union, which begins with all rows, if the rows in a bitmap
\* are among them.
LEMMA PassesSelect ==
  ASSUME NEW c \in Calls, NEW fresh \in BOOLEAN, NEW b \in BOOLEAN, NEW v, v.on \subseteq Known,
         ~Misread(c, fresh), fresh /\ c.op \in {"Union", "WithUnion"} /\ v.on # {} => b
  PROVE  Result(b, Passes(c, fresh), v) <=> Asked(Called(c, fresh), b, v)
<1> DEFINE ns == c.names
           some == \E i \in DOMAIN ns : ns[i] \in v.on
           all == \A i \in DOMAIN ns : ns[i] \in v.on
<1>1. /\ c.op \in {"With", "Without", "Union", "WithUnion", "WithInt", "Aggregate"}
      /\ ns \in Seq(ToSet(ns))
  BY QueryAssumption
<1>2. /\ Called(c, fresh).op = c.op /\ Called(c, fresh).names = ns /\ Called(c, fresh).fresh = fresh
      /\ some <=> \E n \in ToSet(ns) : n \in v.on
      /\ all <=> \A n \in ToSet(ns) : n \in v.on
  BY DEF Called, ToSet
<1>3. CASE c.op = "With"
  <2> DEFINE ps == Each("and", ns, "clear")
  <2>1. DOMAIN ps = DOMAIN ns
    BY DEF Each
  <2>2. \A i \in DOMAIN ns : ~Sets(ps[i], v) /\ (Drops(ps[i], v) <=> ns[i] \notin v.on)
    BY EachPass DEF Sets, Drops
  <2> HIDE DEF ps
  <2>3. Result(b, ps, v) <=> b /\ all
    BY <2>1, <2>2 DEF Result
  <2>4. Passes(c, fresh) = ps
    BY <1>3 DEF Passes, ps
  <2>5. QED
    BY <1>2, <1>3, <2>3, <2>4 DEF Asked
<1>4. CASE c.op = "Without"
  <2> DEFINE ps == Each("andnot", ns, "skip")
  <2>1. DOMAIN ps = DOMAIN ns
    BY DEF Each
  <2>2. \A i \in DOMAIN ns : ~Sets(ps[i], v) /\ (Drops(ps[i], v) <=> ns[i] \in v.on)
    BY EachPass DEF Sets, Drops
  <2> HIDE DEF ps
  <2>3. Result(b, ps, v) <=> b /\ ~some
    BY <2>1, <2>2 DEF Result
  <2>4. Passes(c, fresh) = ps
    BY <1>4 DEF Passes, ps
  <2>5. QED
    BY <1>2, <1>4, <2>3, <2>4 DEF Asked
<1>5. ASSUME c.op \in {"Union", "WithUnion"}, c.op = "WithUnion" => fresh
      PROVE  Result(b, Passes(c, fresh), v) <=> Asked(Called(c, fresh), b, v)
  <2>1. fresh => ns # << >> /\ ns[1] \in Known
    BY <1>1, <1>5 DEF Misread, Exists, Known
  <2>2. Passes(c, fresh) = UnionPasses(ns, fresh)
    BY <1>5 DEF Passes, WithUnionPasses
  <2>3. Result(b, Passes(c, fresh), v) <=> (b /\ ~fresh) \/ some
    BY <1>1, <1>5, <2>1, <2>2, UnionResult
  <2>4. fresh => (some => b)
    BY <1>5
  <2>5. QED
    BY <1>2, <1>5, <2>3, <2>4 DEF Asked
<1>6. ASSUME c.op = "WithUnion", ~fresh
      PROVE  Result(b, Passes(c, fresh), v) <=> Asked(Called(c, fresh), b, v)
  <2> DEFINE p == Over("and", {n \in ToSet(ns) : Exists(n)})
  <2>1. Passes(c, fresh) = << p >>
    BY <1>6 DEF Passes, WithUnionPasses, Misread
  <2>2. ~Sets(p, v) /\ (Drops(p, v) <=> ~some)
    BY <1>2 DEF Sets, Drops, On, Over, Exists, Known
  <2> HIDE DEF p
  <2>3. Result(b, << p >>, v) <=> b /\ some
    BY <2>2 DEF Result
  <2>4. QED
    BY <1>2, <1>6, <2>1, <2>3 DEF Asked
<1>7. CASE c.op \in {"WithInt", "Aggregate"}
  <2> DEFINE p == Over(IF c.op = "WithInt" THEN "filter" ELSE "aggregate", {})
  <2>1. Passes(c, fresh) = << p >>
    BY <1>7 DEF Passes
  <2>2. ~Sets(p, v) /\ (Drops(p, v) <=> c.op = "WithInt" /\ v.value \cap Predicate = {})
    BY <1>7 DEF Sets, Drops, On, Over
  <2> HIDE DEF p
  <2>3. Result(b, << p >>, v) <=> b /\ ~(c.op = "WithInt" /\ v.value \cap Predicate = {})
    BY <2>2 DEF Result
  <2>4. QED
    BY <1>2, <1>7, <2>1, <2>3 DEF Asked
<1>8. QED
  BY <1>1, <1>3, <1>4, <1>5, <1>6, <1>7

LEMMA PassesType ==
  ASSUME NEW c \in Calls, NEW fresh \in BOOLEAN
  PROVE  Passes(c, fresh) \in Seq(Pass)
<1> DEFINE ns == c.names
           n == Len(ns)
<1>1. /\ c.op \in {"With", "Without", "Union", "WithUnion", "WithInt", "Aggregate"}
      /\ ns \in Seq(ToSet(ns))
  BY QueryAssumption
<1>2. /\ Each("and", ns, "clear") \in Seq(Pass)
      /\ Each("and", ns, "skip") \in Seq(Pass)
      /\ Each("or", ns, "skip") \in Seq(Pass)
      /\ Each("andnot", ns, "skip") \in Seq(Pass)
  BY <1>1, EachType DEF PassOps
<1>3. UnionPasses(ns, fresh) \in Seq(Pass)
  <2>1. n \in Nat /\ DOMAIN ns = 1 .. n
    BY <1>1
  <2> HIDE DEF n
  <2>2. \A i \in 1 .. n : Each("and", ns, "skip")[i] \in Pass /\ Each("or", ns, "skip")[i] \in Pass
    <3>1. DOMAIN Each("and", ns, "skip") = 1 .. n /\ DOMAIN Each("or", ns, "skip") = 1 .. n
      BY <2>1 DEF Each
    <3>2. \A s \in Seq(Pass) : \A i \in DOMAIN s : s[i] \in Pass
      OBVIOUS
    <3>3. QED
      BY <1>2, <3>1, <3>2
  <2>3. UnionPasses(ns, fresh) \in [1 .. n -> Pass]
    BY <2>1, <2>2 DEF UnionPasses
  <2>4. QED
    BY <2>1, <2>3
<1>4. ASSUME NEW op \in PassOps, NEW S \in SUBSET Known PROVE << Over(op, S) >> \in Seq(Pass)
  BY <1>4 DEF Over, Pass
<1>5. {m \in ToSet(ns) : Exists(m)} \in SUBSET Known
  BY DEF Exists, Known
<1>6. WithUnionPasses(ns, fresh) \in Seq(Pass)
  BY <1>3, <1>4, <1>5 DEF WithUnionPasses, PassOps
<1>7. << Over("filter", {}) >> \in Seq(Pass) /\ << Over("aggregate", {}) >> \in Seq(Pass)
  BY <1>4 DEF PassOps
<1> HIDE DEF ns
<1>8. QED
  BY <1>1, <1>2, <1>3, <1>6, <1>7, Zenon DEF Passes, ns

\* A union that is not misread waits for the latch of the first chunk.
LEMMA UnionVisits ==
  ASSUME NEW c \in Calls, c.op \in {"Union", "WithUnion"}, ~Misread(c, TRUE)
  PROVE  Passes(c, TRUE) # << >> /\ Head(Passes(c, TRUE)).op \notin Unvisited
<1>1. c.names \in Seq(ToSet(c.names)) /\ c.names # << >> /\ Exists(c.names[1])
  BY QueryAssumption DEF Misread
<1>2. 1 \in DOMAIN c.names /\ c.names[1] \in Known
  BY <1>1 DEF Exists, Known
<1>3. Passes(c, TRUE) = UnionPasses(c.names, TRUE)
  BY DEF Passes, WithUnionPasses
<1>4. /\ DOMAIN UnionPasses(c.names, TRUE) = DOMAIN c.names
      /\ UnionPasses(c.names, TRUE)[1] = Each("and", c.names, "skip")[1]
  BY <1>2 DEF UnionPasses
<1>5. Each("and", c.names, "skip")[1].op = "and"
  BY <1>2 DEF Each, Over, Exists, Known
<1>6. \A ps \in Seq(Pass) : 1 \in DOMAIN ps => ps # << >> /\ Head(ps) = ps[1]
  OBVIOUS
<1>7. 1 \in DOMAIN Passes(c, TRUE) /\ Passes(c, TRUE)[1].op = "and"
  BY <1>2, <1>3, <1>4, <1>5
<1>8. Passes(c, TRUE) # << >> /\ Head(Passes(c, TRUE)) = Passes(c, TRUE)[1]
  BY <1>6, <1>7, PassesType
<1>9. QED
  BY <1>7, <1>8 DEF Unvisited

-----------------------------------------------------------------------------
(* Writers *)

WriterStep(w) ==
  \/ \E ch \in Change, r \in Rows, v \in Written \cup {0} : Choose(w, ch[1], ch[2], r, v)
  \/ Grow(w) \/ Mark(w) \/ Apply(w)

LEMMA RowChunk ==
  ASSUME NEW r \in Rows
  PROVE  ChunkAt(r) \in Nat
BY Division, QueryAssumption DEF ChunkAt

LEMMA LargerOf ==
  ASSUME NEW a \in Nat, NEW b \in Nat
  PROVE  Larger(a, b) \in Nat /\ Larger(a, b) >= a /\ Larger(a, b) >= b /\ Larger(a, b) \in {a, b}
BY DEF Larger

\* A transaction that deletes does not update, and then it is the only one.
LEMMA Alone ==
  ASSUME Orderly, Room, Exclusive, NEW w \in Active, change[w].marker = "delete"
  PROVE  change[w].update = "none" /\ \A u \in Active : u = w
<1> DEFINE ch == <<change[w].marker, change[w].update>>
<1>1. ch \in workload.changes /\ ch[1] = "delete" /\ ch[2] = change[w].update
  BY DEF Room
<1>2. Deleting
  BY <1>1 DEF Deleting
<1>3. QED
  BY <1>1, <1>2 DEF Orderly, Exclusive

LEMMA InitKeeps == Init => QueryInv
<1> SUFFICES ASSUME Init PROVE QueryInv
  OBVIOUS
<1>1. Active = {} /\ Latches = {} /\ Busy = {}
  BY DEF Init, Active, Latches, Busy
<1>2. Types
  <2>1. bits \in [DOMAIN Rule -> SUBSET Rows] /\ DOMAIN data = Rows /\ DOMAIN change = Writer
    BY DEF Init
  <2>2. wpc \in [Writer -> {"idle", "chosen", "commit", "latched"}]
    BY DEF Init
  <2>3. length \in Nat /\ grown \in Nat /\ span \in Nat /\ chunk \in 0 .. span
    BY DEF Init
  <2>4. passes \in Seq(Pass)
    BY DEF Init
  <2>5. QED
    BY <2>1, <2>2, <2>3, <2>4 DEF Init, Types
<1>3. Room /\ RowThere /\ BitsFollow /\ HasRow
  BY <1>1 DEF Init, Room, RowThere, BitsFollow, HasRow
<1>4. Exclusive
  BY <1>1, FS_EmptySet DEF Exclusive
<1>5. Calling /\ Beyond /\ Exact
  BY DEF Init, Calling, Beyond, Exact
<1>6. QED
  BY <1>2, <1>3, <1>4, <1>5 DEF QueryInv

\* A transaction that begins has its row, and is the only one if it must be.
LEMMA ChooseKeeps ==
  ASSUME QueryInv, NEW w \in Writer, NEW ch \in Change, NEW r \in Rows, NEW v,
         Choose(w, ch[1], ch[2], r, v)
  PROVE  (Types /\ Room /\ Exclusive /\ RowThere /\ BitsFollow /\ HasRow)'
<1> USE DEF QueryInv
<1>0. <<ch[1], ch[2]>> \in workload.changes /\ ChunkAt(r) \in Nat
  BY RowChunk DEF Choose
<1>1. /\ wpc[w] = "idle" /\ wpc' = [wpc EXCEPT ![w] = "chosen"]
      /\ change' = [change EXCEPT ![w] = [marker |-> ch[1], update |-> ch[2], row |-> r, val |-> v]]
      /\ UNCHANGED <<workload, columns, query>>
  BY DEF Choose, Goto
<1>2. /\ fill' \subseteq Rows /\ fill \subseteq fill' /\ r \in fill'
      /\ length' \in Nat /\ length' >= length /\ ChunkAt(r) < length'
      /\ \A x \in fill' : x = r \/ x \in fill
  <2>1. CASE ch[1] = "insert"
    <3>1. fill' = fill \cup {r} /\ length' = Larger(length, ChunkAt(r) + 1)
      BY <2>1 DEF Choose
    <3>2. ChunkAt(r) + 1 \in Nat /\ length \in Nat /\ fill \subseteq Rows
      BY <1>0 DEF Types
    <3>3. length' \in Nat /\ length' >= length /\ length' >= ChunkAt(r) + 1
      BY <3>1, <3>2, LargerOf
    <3>4. QED
      BY <1>0, <3>1, <3>2, <3>3
  <2>2. CASE ch[1] # "insert"
    <3>1. r \in fill /\ UNCHANGED rows
      BY <2>2 DEF Choose
    <3>2. QED
      BY <3>1 DEF rows, Types, Room
  <2>3. QED
    BY <2>1, <2>2
<1>3. /\ Active' = Active \cup {w} /\ w \notin Active /\ Latches' = Latches
      /\ \A u \in Active : u # w /\ change'[u] = change[u] /\ wpc'[u] = wpc[u]
      /\ \A u \in Latches : u \in Active
      /\ change'[w].row = r /\ change'[w].marker = ch[1] /\ change'[w].update = ch[2] /\ wpc'[w] = "chosen"
  BY <1>1 DEF Active, Latches, Types
<1>4. Busy' = Busy
  BY <1>3 DEF Busy, Latches
<1>5. Types'
  BY <1>1, <1>2 DEF Types, columns, query
<1>6. Room'
  <2>1. has' = has /\ grown' = grown /\ workload' = workload
    BY <1>1 DEF columns
  <2>2. \A x \in fill' \cup has : ChunkAt(x) < length'
    <3>1. \A x \in fill \cup has : ChunkAt(x) < length /\ ChunkAt(x) \in Nat
      BY RowChunk DEF Room, Types
    <3>2. QED
      BY <1>2, <3>1 DEF Types
  <2>3. ASSUME NEW u \in Active
        PROVE  /\ RowOf(u) \in Rows /\ ChunkAt(RowOf(u)) < length'
               /\ wpc[u] # "chosen" => ChunkAt(RowOf(u)) < grown
               /\ <<change[u].marker, change[u].update>> \in workload.changes
    <3>1. RowOf(u) \in Rows /\ ChunkAt(RowOf(u)) < length /\ ChunkAt(RowOf(u)) \in Nat
      BY <2>3, RowChunk DEF Room
    <3>2. ChunkAt(RowOf(u)) < length'
      BY <1>2, <3>1 DEF Types
    <3>3. QED
      BY <2>3, <3>1, <3>2 DEF Room
  <2>4. \A x \in has : ChunkAt(x) < grown
    BY DEF Room
  <2>5. \A u \in Active' :
          /\ RowOf(u)' \in Rows /\ ChunkAt(RowOf(u)') < length'
          /\ wpc'[u] # "chosen" => ChunkAt(RowOf(u)') < grown
          /\ <<change'[u].marker, change'[u].update>> \in workload.changes
    BY <1>0, <1>2, <1>3, <2>3 DEF RowOf
  <2>6. QED
    BY <2>1, <2>2, <2>4, <2>5 DEF Room, ChunkAt
<1>7. Exclusive'
  <2>1. \A x, u \in Latches' : ChunkAt(RowOf(x))' = ChunkAt(RowOf(u))' => x = u
    BY <1>3 DEF Exclusive, ChunkAt, RowOf
  <2>2. IsFiniteSet(Active')
    BY <1>3, FS_AddElement DEF Exclusive
  <2>3. ASSUME Orderly, Deleting PROVE \A x, u \in Active' : x = u
    <3>1. Cardinality(Active) < 1
      BY <2>3 DEF Choose, Orderly, Active
    <3>2. Active = {}
      BY <3>1, FS_EmptySet, FS_CardinalityType DEF Exclusive
    <3>3. QED
      BY <1>3, <3>2
  <2>4. (Orderly /\ Deleting)' => Orderly /\ Deleting
    BY <1>1 DEF Orderly, Deleting
  <2>5. QED
    BY <2>1, <2>2, <2>3, <2>4 DEF Exclusive
<1>8. RowThere'
  BY <1>1, <1>2, <1>3 DEF RowThere, Orderly, Deleting, RowOf
<1>9. BitsFollow'
  BY <1>1 DEF BitsFollow, columns
<1>10. HasRow'
  BY <1>1, <1>2, <1>4 DEF HasRow, Orderly, Deleting, columns
<1>11. QED
  BY <1>5, <1>6, <1>7, <1>8, <1>9, <1>10

LEMMA GrowKeeps ==
  ASSUME QueryInv, NEW w \in Writer, Grow(w)
  PROVE  (Types /\ Room /\ Exclusive /\ RowThere /\ BitsFollow /\ HasRow)'
<1> USE DEF QueryInv
<1> DEFINE r == RowOf(w)
           k == ChunkAt(r) + 1
<1>1. /\ wpc[w] = "chosen" /\ wpc' = [wpc EXCEPT ![w] = "commit"]
      /\ grown' = Larger(grown, k) /\ length' = Larger(length, k)
      /\ UNCHANGED <<workload, fill, has, data, bits, change, txns, query>>
  BY DEF Grow, Goto, RowOf
<1>2. /\ Active' = Active /\ w \in Active /\ Latches' = Latches
      /\ \A u \in Active : u # w => wpc'[u] = wpc[u]
      /\ wpc'[w] = "commit"
  BY <1>1 DEF Active, Latches, Types
<1>3. r \in Rows /\ ChunkAt(r) \in Nat /\ length \in Nat /\ grown \in Nat
  BY <1>2, RowChunk DEF Room, Types
<1>4. /\ grown' \in Nat /\ grown' >= grown /\ grown' > ChunkAt(r)
      /\ length' \in Nat /\ length' >= length
  <2>1. k \in Nat
    BY <1>3
  <2>2. k > ChunkAt(r)
    BY <1>3
  <2> HIDE DEF k
  <2>3. /\ grown' \in Nat /\ grown' >= grown /\ grown' >= k
        /\ length' \in Nat /\ length' >= length
    BY <1>1, <1>3, <2>1, LargerOf
  <2>4. QED
    BY <1>3, <2>1, <2>2, <2>3
<1> HIDE DEF r, k
<1>5. Busy' = Busy
  BY <1>1, <1>2 DEF Busy, Latches
<1>6. Types'
  BY <1>1, <1>4 DEF Types, query
<1>7. Room'
  <2>1. \A x \in Rows : ChunkAt(x) \in Nat /\ (ChunkAt(x) < length => ChunkAt(x) < length')
                                          /\ (ChunkAt(x) < grown => ChunkAt(x) < grown')
    BY <1>3, <1>4, RowChunk
  <2>2. \A x \in fill \cup has : ChunkAt(x) < length'
    BY <2>1 DEF Room, Types
  <2>3. \A x \in has : ChunkAt(x) < grown'
    BY <2>1 DEF Room, Types
  <2>4. ASSUME NEW u \in Active
        PROVE  /\ RowOf(u) \in Rows /\ ChunkAt(RowOf(u)) < length'
               /\ wpc'[u] # "chosen" => ChunkAt(RowOf(u)) < grown'
               /\ <<change[u].marker, change[u].update>> \in workload.changes
    BY <1>2, <1>4, <2>1, <2>4 DEF Room, r
  <2>5. QED
    BY <1>1, <1>2, <2>2, <2>3, <2>4 DEF Room, RowOf, ChunkAt
<1>8. Exclusive'
  BY <1>1, <1>2 DEF Exclusive, RowOf, ChunkAt, Orderly, Deleting
<1>9. RowThere'
  BY <1>1, <1>2 DEF RowThere, RowOf, Orderly, Deleting
<1>10. BitsFollow'
  BY <1>1 DEF BitsFollow
<1>11. HasRow'
  BY <1>1, <1>5 DEF HasRow, Orderly, Deleting
<1>12. QED
  BY <1>6, <1>7, <1>8, <1>9, <1>10, <1>11

\* The row of a commit is busy from when its deletion is marked until its values
\* are gone.
LEMMA MarkKeeps ==
  ASSUME QueryInv, NEW w \in Writer, Mark(w)
  PROVE  (Types /\ Room /\ Exclusive /\ RowThere /\ BitsFollow /\ HasRow)'
<1> USE DEF QueryInv
<1> DEFINE r == RowOf(w)
<1>1. /\ wpc[w] = "commit" /\ wpc' = [wpc EXCEPT ![w] = "latched"] /\ ~Latched(ChunkAt(r))
      /\ fill' = CASE change[w].marker = "insert" -> fill \cup {r}
                   [] change[w].marker = "delete" -> fill \ {r}
                   [] OTHER -> fill
      /\ UNCHANGED <<workload, length, columns, change, txns, query>>
  BY DEF Mark, Goto, RowOf
<1>2. /\ Active' = Active /\ w \in Active /\ Latches' = Latches \cup {w} /\ w \notin Latches
      /\ \A u \in Active : u # w => wpc'[u] = wpc[u]
      /\ wpc'[w] = "latched" /\ Latches \subseteq Active
  BY <1>1 DEF Active, Latches, Types
<1>3. r \in Rows /\ ChunkAt(r) < length /\ ChunkAt(r) < grown
  BY <1>1, <1>2 DEF Room
<1>4. \A u \in Latches : ChunkAt(RowOf(u)) # ChunkAt(r)
  BY <1>1 DEF Latched, Latches, RowOf
<1>5. Busy' = Busy \cup {r} /\ r \in Busy'
  BY <1>1, <1>2 DEF Busy, Latches, RowOf
<1>6. fill' \subseteq Rows /\ \A x \in Rows : x # r => (x \in fill' <=> x \in fill)
  BY <1>1, <1>3 DEF Types
<1> HIDE DEF r
<1>7. Types'
  BY <1>1, <1>6 DEF Types, columns, query
<1>8. Room'
  <2>1. \A x \in fill' : ChunkAt(x) < length
    BY <1>3, <1>6 DEF Room
  <2>2. \A u \in Active : wpc'[u] # "chosen" => ChunkAt(RowOf(u)) < grown
    BY <1>1, <1>2 DEF Room
  <2>3. QED
    BY <1>1, <1>2, <2>1, <2>2 DEF Room, RowOf, ChunkAt, columns
<1>9. Exclusive'
  <2>1. \A x, u \in Latches' : ChunkAt(RowOf(x)) = ChunkAt(RowOf(u)) => x = u
    BY <1>2, <1>4 DEF Exclusive, r
  <2>2. QED
    BY <1>1, <1>2, <2>1 DEF Exclusive, RowOf, ChunkAt, Orderly, Deleting
<1>10. RowThere'
  <2> SUFFICES ASSUME Orderly, NEW u \in Active
               PROVE  RowOf(u) \in fill' \/ (wpc'[u] = "latched" /\ change[u].marker = "delete")
    BY <1>1, <1>2 DEF RowThere, RowOf, Orderly, Deleting
  <2>1. RowOf(u) \in Rows
    BY DEF Room
  <2>2. CASE u = w
    <3>1. RowOf(w) \in fill
      BY <1>1, <1>2 DEF RowThere
    <3>2. QED
      BY <1>1, <1>2, <2>2, <3>1 DEF r
  <2>3. CASE u # w /\ change[w].marker = "delete"
    BY <1>2, <2>3, Alone
  <2>4. CASE u # w /\ change[w].marker # "delete"
    <3>1. fill \subseteq fill'
      BY <1>1, <2>4
    <3>2. QED
      BY <1>2, <2>4, <3>1 DEF RowThere
  <2>5. QED
    BY <2>2, <2>3, <2>4
<1>11. BitsFollow'
  BY <1>1 DEF BitsFollow, columns
<1>12. HasRow'
  <2> SUFFICES ASSUME Orderly, NEW x \in has \ Busy' PROVE x \in fill'
    BY <1>1 DEF HasRow, Orderly, Deleting, columns
  <2>1. x \in Rows /\ x # r /\ x \in has \ Busy
    BY <1>5 DEF Types
  <2>2. QED
    BY <1>6, <2>1 DEF HasRow
<1>13. QED
  BY <1>7, <1>8, <1>9, <1>10, <1>11, <1>12

\* An update comes to a row that exists, and a deletion takes the values away.
LEMMA ApplyKeeps ==
  ASSUME QueryInv, NEW w \in Writer, Apply(w)
  PROVE  (Types /\ Room /\ Exclusive /\ RowThere /\ BitsFollow /\ HasRow)'
<1> USE DEF QueryInv
<1> DEFINE r == RowOf(w)
           c == change[w]
           new == Applied(data[r], c.update, c.val)
<1>1. /\ wpc[w] = "latched" /\ wpc' = [wpc EXCEPT ![w] = "idle"]
      /\ change' = [change EXCEPT ![w] = NoChange]
      /\ UNCHANGED <<workload, rows, grown, txns, query>>
  BY DEF Apply, Goto
<1>2. \/ /\ c.update # "none"
         /\ has' = has \cup {r} /\ data' = [data EXCEPT ![r] = new] /\ bits' = Evaluated(r, new)
      \/ /\ c.update = "none" /\ c.marker = "delete"
         /\ has' = has \ {r} /\ bits' = [n \in DOMAIN Rule |-> bits[n] \ {r}] /\ UNCHANGED data
      \/ /\ c.update = "none" /\ c.marker # "delete"
         /\ UNCHANGED <<has, data, bits>>
  BY DEF Apply, RowOf
<1> HIDE DEF new
<1>3. /\ Active' = Active \ {w} /\ w \in Active /\ Latches' = Latches \ {w} /\ w \in Latches
      /\ \A u \in Active' : u # w /\ u \in Active /\ wpc'[u] = wpc[u] /\ change'[u] = change[u]
      /\ \A u \in Latches' : u \in Active' /\ u \in Latches
  BY <1>1 DEF Active, Latches, Types
<1>4. r \in Rows /\ ChunkAt(r) < length /\ ChunkAt(r) < grown
  BY <1>1, <1>3 DEF Room
<1>5. \A x \in Busy : x = r \/ x \in Busy'
  BY <1>1, <1>3 DEF Busy, Latches, RowOf
<1> HIDE DEF r
<1>6. /\ has' \subseteq Rows /\ DOMAIN data' = Rows /\ bits' \in [DOMAIN Rule -> SUBSET Rows]
      /\ \A x \in has' : x = r \/ x \in has
  <2>1. DOMAIN data' = Rows
    BY <1>2 DEF Types
  <2>2. has' \subseteq Rows /\ \A x \in has' : x = r \/ x \in has
    BY <1>2, <1>4 DEF Types
  <2>3. bits' \in [DOMAIN Rule -> SUBSET Rows]
    <3>1. \A n \in DOMAIN Rule : bits[n] \cup {r} \in SUBSET Rows /\ bits[n] \ {r} \in SUBSET Rows
      BY <1>4 DEF Types
    <3>2. Evaluated(r, new) \in [DOMAIN Rule -> SUBSET Rows]
      BY <3>1 DEF Evaluated
    <3>3. QED
      BY <1>2, <3>1, <3>2 DEF Types
  <2>4. QED
    BY <2>1, <2>2, <2>3
<1>7. Types'
  BY <1>1, <1>6 DEF Types, rows, query
<1>8. Room'
  <2>1. \A x \in has' : ChunkAt(x) < length /\ ChunkAt(x) < grown
    BY <1>4, <1>6 DEF Room
  <2>2. QED
    BY <1>1, <1>3, <2>1 DEF Room, RowOf, ChunkAt, rows
<1>9. Exclusive'
  <2>1. IsFiniteSet(Active')
    BY <1>3, FS_Subset DEF Exclusive
  <2>2. QED
    BY <1>1, <1>3, <2>1 DEF Exclusive, RowOf, ChunkAt, Orderly, Deleting
<1>10. RowThere'
  BY <1>1, <1>3 DEF RowThere, RowOf, Orderly, Deleting, rows
<1>11. BitsFollow'
  <2> SUFFICES ASSUME NEW n \in DOMAIN Rule
               PROVE  bits'[n] = {x \in has' : data'[x] \in Rule[n]}
    BY DEF BitsFollow
  <2>1. bits[n] = {x \in has : data[x] \in Rule[n]}
    BY DEF BitsFollow
  <2>2. CASE c.update # "none"
    <3>1. /\ bits'[n] = IF new \in Rule[n] THEN bits[n] \cup {r} ELSE bits[n] \ {r}
          /\ has' = has \cup {r} /\ data' = [data EXCEPT ![r] = new]
      BY <1>2, <2>2 DEF Evaluated
    <3>2. data'[r] = new /\ \A x \in has : x # r => data'[x] = data[x]
      BY <1>4, <3>1 DEF Types
    <3>3. QED
      BY <2>1, <3>1, <3>2
  <2>3. CASE c.update = "none" /\ c.marker = "delete"
    BY <1>2, <2>1, <2>3
  <2>4. CASE c.update = "none" /\ c.marker # "delete"
    BY <1>2, <2>1, <2>4
  <2>5. QED
    BY <2>2, <2>3, <2>4
<1>12. HasRow'
  <2> SUFFICES ASSUME Orderly, NEW x \in has', x \notin Busy' PROVE x \in fill
    BY <1>1 DEF HasRow, Orderly, Deleting, rows
  <2>1. CASE x # r
    <3>1. x \in has /\ x \notin Busy
      BY <1>5, <1>6, <2>1
    <3>2. QED
      BY <3>1 DEF HasRow
  <2>2. CASE x = r /\ c.marker # "delete"
    BY <1>3, <2>2 DEF RowThere, r
  <2>3. CASE x = r /\ c.marker = "delete"
    <3>1. c.update = "none"
      BY <1>3, <2>3, Alone
    <3>2. QED
      BY <1>2, <2>3, <3>1
  <2>4. QED
    BY <2>1, <2>2, <2>3
<1>13. QED
  BY <1>7, <1>8, <1>9, <1>10, <1>11, <1>12

\* What a query sees of a row that a writer does not touch does not change.
LEMMA Untouched ==
  ASSUME QueryInv, NEW w \in Writer, WriterStep(w), setup,
         NEW r \in Rows, r \notin touched'
  PROVE  /\ r \notin touched /\ UNCHANGED query
         /\ View(r)' = View(r) /\ (r \in has' <=> r \in has)
         /\ ChunkAt(r) < grown' => ChunkAt(r) < grown
         /\ r \in Busy => r \in Busy'
<1> USE DEF QueryInv
<1>1. /\ has \subseteq Rows /\ DOMAIN data = Rows /\ grown \in Nat /\ DOMAIN change = Writer
      /\ wpc \in [Writer -> {"idle", "chosen", "commit", "latched"}]
      /\ bits \in [DOMAIN Rule -> SUBSET Rows]
      /\ ChunkAt(r) \in Nat
  BY RowChunk DEF Types
<1>2. ASSUME UNCHANGED <<has, data, bits>>
      PROVE  View(r)' = View(r) /\ (r \in has' <=> r \in has)
  BY <1>2 DEF View, Bits
<1>3. ASSUME NEW ch \in Change, NEW x \in Rows, NEW v, Choose(w, ch[1], ch[2], x, v)
      PROVE  /\ r \notin touched /\ UNCHANGED query /\ UNCHANGED <<has, data, bits>>
             /\ grown' = grown /\ (r \in Busy => r \in Busy')
  <2>1. UNCHANGED <<columns, query>> /\ touched \subseteq touched'
    BY <1>3 DEF Choose, Touch
  <2>2. \A u \in Writer : wpc[u] = "latched" => wpc'[u] = "latched" /\ change'[u] = change[u]
    BY <1>1, <1>3 DEF Choose, Goto
  <2>3. QED
    BY <2>1, <2>2 DEF Busy, columns
<1>4. ASSUME Grow(w)
      PROVE  /\ r \notin touched /\ UNCHANGED query /\ UNCHANGED <<has, data, bits>>
             /\ ChunkAt(r) < grown' => ChunkAt(r) < grown
             /\ r \in Busy => r \in Busy'
  <2> DEFINE k == ChunkAt(change[w].row) + 1
  <2>1. /\ UNCHANGED <<has, data, bits, change, query>> /\ grown' = Larger(grown, k)
        /\ touched' = touched \cup {x \in Rows : grown <= ChunkAt(x) /\ ChunkAt(x) < k}
    BY <1>4 DEF Grow, Touch
  <2>2. w \in Active /\ change[w].row \in Rows
    BY <1>4 DEF Grow, Goto, Active, Room, RowOf
  <2>3. k \in Nat
    BY <2>2, RowChunk
  <2>4. \A u \in Writer : wpc[u] = "latched" => wpc'[u] = "latched"
    BY <1>1, <1>4 DEF Grow, Goto
  <2>5. r \in Busy => r \in Busy'
    BY <2>1, <2>4 DEF Busy
  <2> HIDE DEF k
  <2>6. ~(grown <= ChunkAt(r) /\ ChunkAt(r) < k)
    BY <2>1
  <2>7. ChunkAt(r) < grown' => ChunkAt(r) < grown
    BY <1>1, <2>1, <2>3, <2>6 DEF Larger
  <2>8. QED
    BY <2>1, <2>5, <2>7
<1>5. ASSUME Mark(w)
      PROVE  /\ r \notin touched /\ UNCHANGED query /\ UNCHANGED <<has, data, bits>>
             /\ grown' = grown /\ (r \in Busy => r \in Busy')
  <2>1. UNCHANGED <<columns, query, change>> /\ touched \subseteq touched'
    BY <1>5 DEF Mark, Touch
  <2>2. \A u \in Writer : wpc[u] = "latched" => wpc'[u] = "latched"
    BY <1>1, <1>5 DEF Mark, Goto
  <2>3. QED
    BY <2>1, <2>2 DEF Busy, columns
<1>6. ASSUME Apply(w)
      PROVE  /\ r \notin touched /\ UNCHANGED query /\ UNCHANGED grown
             /\ View(r)' = View(r) /\ (r \in has' <=> r \in has)
             /\ r \in Busy => r \in Busy'
  <2> DEFINE x == change[w].row
             new == Applied(data[x], change[w].update, change[w].val)
  <2>1. UNCHANGED <<grown, query>> /\ touched' = touched \cup {x}
    BY <1>6 DEF Apply, Touch
  <2>2. r # x /\ r \notin touched
    BY <2>1
  <2>3. \/ has' = has \cup {x} /\ data' = [data EXCEPT ![x] = new] /\ bits' = Evaluated(x, new)
        \/ has' = has \ {x} /\ bits' = [n \in DOMAIN Rule |-> bits[n] \ {x}] /\ UNCHANGED data
        \/ UNCHANGED <<has, data, bits>>
    BY <1>6 DEF Apply
  <2> HIDE DEF new
  <2>4. /\ r \in has' <=> r \in has
        /\ data'[r] = data[r]
    BY <1>1, <2>2, <2>3
  <2>5. \A n \in DOMAIN Rule : r \in bits'[n] <=> r \in bits[n]
    BY <1>1, <2>2, <2>3 DEF Evaluated
  <2>6. \A n \in Known : r \in Bits(n)' <=> r \in Bits(n)
    BY <2>4, <2>5 DEF Bits, Known
  <2>7. View(r)' = View(r)
    BY <2>4, <2>6 DEF View
  <2>8. \A u \in Writer : wpc[u] = "latched" /\ u # w => wpc'[u] = "latched" /\ change'[u] = change[u]
    BY <1>1, <1>6 DEF Apply, Goto
  <2>9. r \in Busy => r \in Busy'
    BY <2>2, <2>8 DEF Busy
  <2>10. QED
    BY <2>1, <2>2, <2>4, <2>7, <2>9
<1>7. QED
  BY <1>2, <1>3, <1>4, <1>5, <1>6 DEF WriterStep

\* What is left of a call makes of an untouched row what it did before the step
\* of the writer.
LEMMA WriterKeeps ==
  ASSUME QueryInv, NEW w \in Writer, WriterStep(w)
  PROVE  QueryInv'
<1> USE DEF QueryInv
<1>1. (Types /\ Room /\ Exclusive /\ RowThere /\ BitsFollow /\ HasRow)'
  BY ChooseKeeps, GrowKeeps, MarkKeeps, ApplyKeeps DEF WriterStep
<1>2. UNCHANGED <<workload, query>> /\ (~setup => UNCHANGED touched)
  BY DEF WriterStep, Choose, Grow, Mark, Apply, Touch
<1>3. Calling'
  BY <1>2 DEF Calling, query
<1>4. Beyond'
  <2> SUFFICES ASSUME setup, NEW r \in Rows, r \notin touched', ChunkAt(r) >= span
               PROVE  r \notin meant /\ r \notin has'
    BY <1>2 DEF Beyond, query, ChunkAt
  <2>1. r \notin touched /\ (r \in has' <=> r \in has)
    BY Untouched
  <2>2. QED
    BY <2>1 DEF Beyond
<1>5. Exact'
  <2> SUFFICES ASSUME Orderly, setup, ~misread, NEW r \in Rows, r \notin touched',
                      ChunkAt(r) < grown'
               PROVE  /\ call = None => (r \in index <=> r \in meant)
                      /\ call # None => \/ Outcome(r)' <=> Asked(call, r \in meant, View(r)')
                                        \/ Awaited(r)'
    BY <1>2 DEF Exact, query, Orderly, Deleting, ChunkAt
  <2>1. /\ r \notin touched /\ View(r)' = View(r) /\ ChunkAt(r) < grown
        /\ r \in Busy => r \in Busy'
    BY Untouched
  <2>2. /\ call = None => (r \in index <=> r \in meant)
        /\ call # None => (Outcome(r) <=> Asked(call, r \in meant, View(r))) \/ Awaited(r)
    BY <2>1 DEF Exact
  <2>3. Awaited(r) => Awaited(r)'
    BY <1>2, <2>1 DEF Awaited, query, ChunkAt
  <2>4. Outcome(r)' <=> Outcome(r)
    <3>1. Pending(r)' = Pending(r) /\ index' = index
      BY <1>2 DEF Pending, query, ChunkAt
    <3>2. QED
      BY <2>1, <3>1 DEF Outcome
  <2>5. QED
    BY <2>1, <2>2, <2>3, <2>4
<1>6. QED
  BY <1>1, <1>3, <1>4, <1>5

-----------------------------------------------------------------------------
(* The query *)

QueryStep == (\E c \in Calls : Enter(c)) \/ Visit \/ Clear \/ Return

\* A row without a value is in none of the bitmaps.
LEMMA ViewOf ==
  ASSUME BitsFollow, NEW r
  PROVE  /\ View(r).on \subseteq Known
         /\ View(r).on # {} => r \in has
         /\ \A n : In(n, r) <=> n \in View(r).on
         /\ View(r).value \cap Predicate # {} <=> r \in has /\ data[r] \in Predicate
<1>1. /\ View(r).on = {n \in Known : r \in Bits(n)}
      /\ View(r).value = IF r \in has THEN {data[r]} ELSE {}
  BY DEF View
<1>2. \A n \in Known : r \in Bits(n) => r \in has
  BY DEF BitsFollow, Bits, Known
<1>3. \A n : Exists(n) <=> n \in Known
  BY DEF Exists, Known
<1>4. QED
  BY <1>1, <1>2, <1>3 DEF In

LEMMA MeantIsAsked ==
  ASSUME Types, BitsFollow, call # None, NEW r
  PROVE  Meant(r) <=> Asked(call, r \in meant, View(r))
<1>1. PICK c \in Calls, fresh \in BOOLEAN : call = Called(c, fresh)
  BY DEF Types
<1>2. call.op \in {"With", "Without", "Union", "WithUnion", "WithInt", "Aggregate"}
  BY <1>1, QueryAssumption DEF Called
<1>3. /\ \A n : In(n, r) <=> n \in View(r).on
      /\ View(r).value \cap Predicate # {} <=> r \in has /\ data[r] \in Predicate
  BY ViewOf
<1> DEFINE some == \E n \in ToSet(call.names) : n \in View(r).on
           all == \A n \in ToSet(call.names) : n \in View(r).on
<1>4. /\ some <=> \E n \in ToSet(call.names) : In(n, r)
      /\ all <=> \A n \in ToSet(call.names) : In(n, r)
  BY <1>3
<1>5. Asked(call, r \in meant, View(r)) <=>
        CASE call.op = "With"      -> r \in meant /\ all
          [] call.op = "Without"   -> r \in meant /\ ~some
          [] call.op = "Union"     -> (r \in meant /\ ~call.fresh) \/ some
          [] call.op = "WithUnion" -> r \in meant /\ some
          [] call.op = "WithInt"   -> r \in meant /\ View(r).value \cap Predicate # {}
          [] call.op = "Aggregate" -> r \in meant
  BY DEF Asked
<1> HIDE DEF some, all
<1>6. Meant(r) <=>
        CASE call.op = "With"      -> r \in meant /\ all
          [] call.op = "Without"   -> r \in meant /\ ~some
          [] call.op = "Union"     -> (r \in meant /\ ~call.fresh) \/ some
          [] call.op = "WithUnion" -> r \in meant /\ some
          [] call.op = "WithInt"   -> r \in meant \cap has /\ data[r] \in Predicate
          [] call.op = "Aggregate" -> r \in meant
  BY <1>4 DEF Meant
<1>7. QED
  BY <1>2, <1>3, <1>5, <1>6

LEMMA QueryLeavesRows ==
  ASSUME QueryInv, QueryStep
  PROVE  /\ UNCHANGED <<workload, rows, columns, writers, touched>>
         /\ (Room /\ Exclusive /\ RowThere /\ BitsFollow /\ HasRow)'
         /\ \A r : View(r)' = View(r) /\ (r \in Busy' <=> r \in Busy)
<1>1. UNCHANGED <<workload, rows, columns, writers, touched>>
  BY DEF QueryStep, Enter, Visit, Clear, Return
<1>2. UNCHANGED <<workload, fill, length, has, data, grown, bits, wpc, change, txns>>
  BY <1>1 DEF rows, columns, writers
<1> HIDE DEF rows, columns, writers
<1>3. Room'
  BY <1>2 DEF QueryInv, Room, Active, RowOf, ChunkAt
<1>4. Exclusive'
  BY <1>2 DEF QueryInv, Exclusive, Active, Latches, RowOf, ChunkAt, Orderly, Deleting
<1>5. RowThere' /\ BitsFollow' /\ HasRow'
  BY <1>2 DEF QueryInv, RowThere, BitsFollow, HasRow, Active, RowOf, Busy, Orderly, Deleting
<1>6. \A r : View(r)' = View(r) /\ (r \in Busy' <=> r \in Busy)
  BY <1>2 DEF View, Bits, Busy
<1>7. QED
  BY <1>1, <1>3, <1>4, <1>5, <1>6

\* The passes of the call, put before a selection that is right so far.
LEMMA EnterKeeps ==
  ASSUME QueryInv, NEW c \in Calls, Enter(c)
  PROVE  QueryInv'
<1> USE DEF QueryInv
<1>0. QueryStep
  BY DEF QueryStep
<1> DEFINE fresh == ~setup
<1>1. /\ call = None /\ setup' = TRUE
      /\ index' = (IF setup THEN index ELSE fill) /\ span' = (IF setup THEN span ELSE length)
      /\ meant' = (IF setup THEN meant ELSE fill)
      /\ call' = Called(c, fresh) /\ passes' = Passes(c, fresh) /\ chunk' = 0
      /\ misread' = (misread \/ Misread(c, fresh))
  BY DEF Enter
<1>2. /\ UNCHANGED <<workload, rows, columns, writers, touched>>
      /\ \A r : View(r)' = View(r) /\ (r \in Busy' <=> r \in Busy)
      /\ (Room /\ Exclusive /\ RowThere /\ BitsFollow /\ HasRow)'
  BY <1>0, QueryLeavesRows
<1>3. fresh \in BOOLEAN /\ (setup => ~fresh)
  BY DEF Types
<1> HIDE DEF fresh
<1>4. Types'
  <2>1. passes' \in Seq(Pass)
    BY <1>1, <1>3, PassesType
  <2>2. \E d \in Calls, f \in BOOLEAN : call' = Called(d, f)
    BY <1>1, <1>3
  <2>3. /\ index' \subseteq {r \in Rows : ChunkAt(r) < span'} /\ meant' \subseteq Rows
        /\ span' \in Nat /\ chunk' \in 0 .. span'
    BY <1>1 DEF Types, Room
  <2>4. UNCHANGED <<workload, fill, length, has, data, grown, bits, wpc, change>>
    BY <1>2 DEF rows, columns, writers
  <2>5. QED
    BY <1>1, <2>1, <2>2, <2>3, <2>4 DEF Types, ChunkAt
<1>5. Calling'
  <2>1. call' # None
    BY <1>1, <1>3, QueryAssumption
  <2>2. QED
    BY <1>1, <2>1 DEF Calling
<1>6. Beyond'
  <2> SUFFICES ASSUME NEW r \in Rows, r \notin touched, ChunkAt(r) >= span'
               PROVE  r \notin meant' /\ r \notin has
    BY <1>2 DEF Beyond, ChunkAt, columns
  <2>1. CASE setup
    BY <1>1, <2>1 DEF Beyond
  <2>2. CASE ~setup
    <3>1. span' = length /\ meant' = fill /\ length \in Nat /\ ChunkAt(r) \in Nat
      BY <1>1, <2>2, RowChunk DEF Types
    <3>2. ~(ChunkAt(r) < length)
      BY <3>1
    <3>3. QED
      BY <3>1, <3>2 DEF Room
  <2>3. QED
    BY <2>1, <2>2
<1>7. Exact'
  <2> SUFFICES ASSUME Orderly, ~misread, ~Misread(c, fresh), NEW r \in Rows, r \notin touched,
                      ChunkAt(r) < grown
               PROVE  \/ Outcome(r)' <=> Asked(call', r \in meant', View(r))
                      \/ Awaited(r)'
    <3>1. /\ Orderly' => Orderly
          /\ misread' <=> misread \/ Misread(c, fresh)
          /\ grown' = grown /\ call' # None
      BY <1>1, <1>2, <1>3, QueryAssumption DEF Orderly, Deleting, columns
    <3>2. QED
      BY <1>2, <3>1 DEF Exact, ChunkAt
  <2> DEFINE b == r \in index'
  <2>1. r \in index' <=> r \in meant'
    BY <1>1 DEF Exact
  <2>2. Outcome(r)' <=> Result(r \in index', Passes(c, fresh), View(r))
    <3>1. Pending(r)' = Passes(c, fresh)
      <4>1. ~(ChunkAt(r) < 0)
        BY RowChunk
      <4>2. QED
        BY <1>1, <4>1 DEF Pending, ChunkAt
    <3>2. QED
      BY <1>2, <3>1 DEF Outcome
  <2>3. View(r).on \subseteq Known /\ (View(r).on # {} => r \in has)
    BY ViewOf
  <2>4. ASSUME fresh /\ c.op \in {"Union", "WithUnion"} /\ View(r).on # {} => r \in index'
        PROVE  Outcome(r)' <=> Asked(call', r \in meant', View(r))
    <3>1. (r \in index') \in BOOLEAN
      OBVIOUS
    <3>2. Result(r \in index', Passes(c, fresh), View(r))
            <=> Asked(Called(c, fresh), r \in index', View(r))
      BY <1>3, <2>3, <2>4, <3>1, PassesSelect
    <3>3. (r \in index') = (r \in meant')
      BY <2>1
    <3>4. QED
      BY <1>1, <2>2, <3>2, <3>3
  <2>5. ASSUME fresh, c.op \in {"Union", "WithUnion"}, View(r).on # {}, r \notin index'
        PROVE  Awaited(r)'
    <3>1. index' = fill /\ span' = length /\ fresh = TRUE
      BY <1>1, <1>3, <2>5 DEF fresh
    <3>2. r \in has /\ r \in Busy
      BY <2>3, <2>5, <3>1 DEF HasRow
    <3>3. passes' # << >> /\ Head(passes').op \notin Unvisited
      BY <1>1, <2>5, <3>1, UnionVisits
    <3>4. 0 <= ChunkAt(r) /\ ChunkAt(r) < length
      BY <3>2, RowChunk DEF Room
    <3>5. QED
      BY <1>1, <1>2, <3>1, <3>2, <3>3, <3>4 DEF Awaited, ChunkAt
  <2>6. QED
    BY <2>4, <2>5
<1>8. QED
  BY <1>2, <1>4, <1>5, <1>6, <1>7

\* What a pass leaves of a row of its chunk, and of the others.
LEMMA SelectedIs ==
  ASSUME QueryInv, passes # << >>, Head(passes).op \notin Unvisited, NEW r \in Rows
  PROVE  LET p == Head(passes)
             after == (index \ Covered) \cup Selected(p)
         IN  /\ r \notin Covered => (r \in after <=> r \in index)
             /\ r \in Covered /\ chunk < grown => (r \in after <=> After(r \in index, p, View(r)))
             /\ Selected(p) \subseteq Covered
<1> DEFINE p == Head(passes)
           here == index \cap Covered
           on == (UNION {Bits(n) : n \in p.names}) \cap Covered
<1>1. p \in Pass
  BY DEF QueryInv, Types
<1>2. p.op \in {"and", "andnot", "or", "filter", "aggregate"} /\ p.names \subseteq Known
  BY <1>1 DEF Pass, PassOps, Unvisited
<1> HIDE DEF p
<1>3. Selected(p) =
        CASE p.op = "and"       -> here \cap on
          [] p.op = "andnot"    -> here \ on
          [] p.op = "or"        -> here \cup on
          [] p.op = "filter"    -> IF chunk < grown
                                   THEN {x \in here \cap has : data[x] \in Predicate}
                                   ELSE here
          [] p.op = "aggregate" -> here
  BY DEF Selected
<1>4. Selected(p) \subseteq Covered
  <2>1. here \subseteq Covered /\ on \subseteq Covered
    BY Zenon
  <2>2. {x \in here \cap has : data[x] \in Predicate} \subseteq here
    OBVIOUS
  <2>3. QED
    BY <1>2, <1>3, <2>1, <2>2
<1>5. ASSUME r \in Covered, chunk < grown
      PROVE  r \in Selected(p) <=> After(r \in index, p, View(r))
  <2>1. /\ r \in here <=> r \in index
        /\ r \in on <=> On(p, View(r))
    <3>1. r \in on <=> \E n \in p.names : r \in Bits(n)
      <4>1. r \in UNION {Bits(n) : n \in p.names} <=> \E n \in p.names : r \in Bits(n)
        BY Zenon
      <4>2. QED
        BY <1>5, <4>1
    <3>2. View(r).on = {n \in Known : r \in Bits(n)}
      BY DEF View
    <3>3. QED
      BY <1>2, <1>5, <3>1, <3>2 DEF On
  <2>2. View(r).value \cap Predicate # {} <=> r \in has /\ data[r] \in Predicate
    BY ViewOf DEF QueryInv
  <2> HIDE DEF here, on
  <2>3. r \in Selected(p) <=>
          CASE p.op = "and"       -> r \in index /\ On(p, View(r))
            [] p.op = "andnot"    -> r \in index /\ ~On(p, View(r))
            [] p.op = "or"        -> r \in index \/ On(p, View(r))
            [] p.op = "filter"    -> r \in index /\ View(r).value \cap Predicate # {}
            [] p.op = "aggregate" -> r \in index
    BY <1>2, <1>3, <1>5, <2>1, <2>2
  <2>4. QED
    BY <1>2, <2>3 DEF After, Drops, Sets
<1>6. QED
  BY <1>4, <1>5 DEF p

\* A pass does to the rows of its chunk what it is for; a row that it has to
\* wait for is one that it comes to only when the commit is over.
LEMMA VisitKeeps ==
  ASSUME QueryInv, Visit
  PROVE  QueryInv'
<1> USE DEF QueryInv
<1>0. QueryStep
  BY DEF QueryStep
<1> DEFINE p == Head(passes)
<1>1. /\ passes # << >> /\ p.op \notin Unvisited /\ ~Latched(chunk)
      /\ index' = (index \ Covered) \cup Selected(p)
      /\ chunk' = IF chunk < span THEN chunk + 1 ELSE 0
      /\ passes' = IF chunk < span THEN passes ELSE Tail(passes)
      /\ UNCHANGED <<setup, span, call, meant, misread>>
  BY DEF Visit, Unvisited
<1>2. /\ UNCHANGED <<workload, rows, columns, writers, touched>>
      /\ \A r : View(r)' = View(r) /\ (r \in Busy' <=> r \in Busy)
      /\ (Room /\ Exclusive /\ RowThere /\ BitsFollow /\ HasRow)'
  BY <1>0, QueryLeavesRows
<1>3. /\ chunk \in Nat /\ span \in Nat /\ chunk <= span /\ passes \in Seq(Pass)
      /\ call # None /\ setup
  BY <1>1 DEF Types, Calling
<1>4. /\ \A r \in Rows : r \in Covered <=> ChunkAt(r) = chunk /\ chunk < span
      /\ Covered \subseteq Rows
  BY DEF Covered
<1>5. Selected(p) \subseteq Covered
  <2>1. Rows = {} \/ \E r \in Rows : TRUE
    OBVIOUS
  <2>2. ASSUME NEW r \in Rows PROVE Selected(p) \subseteq Covered
    BY <1>1, SelectedIs
  <2>3. ASSUME Rows = {} PROVE Selected(p) \subseteq Covered
    <3>1. Covered = {} /\ index = {} /\ p \in Pass
      BY <1>1, <1>4, <2>3 DEF Types
    <3>2. QED
      BY <1>1, <3>1 DEF Selected, Pass, PassOps, Unvisited
  <2>4. QED
    BY <2>1, <2>2, <2>3
<1> HIDE DEF p
<1>6. Types'
  <2>1. chunk' \in 0 .. span
    BY <1>1, <1>3
  <2>2. passes' \in Seq(Pass)
    BY <1>1, <1>3
  <2>3. index' \subseteq {r \in Rows : ChunkAt(r) < span}
    <3>1. \A r \in Covered : r \in Rows /\ ChunkAt(r) < span
      BY <1>4
    <3>2. QED
      BY <1>1, <1>5, <3>1 DEF Types
  <2>4. UNCHANGED <<workload, fill, length, has, data, grown, bits, wpc, change>>
    BY <1>2 DEF rows, columns, writers
  <2>5. QED
    BY <1>1, <2>1, <2>2, <2>3, <2>4 DEF Types, ChunkAt
<1>7. Calling'
  BY <1>1, <1>3 DEF Calling, p
<1>8. Beyond'
  BY <1>1, <1>2 DEF Beyond, ChunkAt, columns
<1>9. Exact'
  <2> SUFFICES ASSUME Orderly, ~misread, NEW r \in Rows, r \notin touched, ChunkAt(r) < grown
               PROVE  \/ Outcome(r)' <=> Asked(call, r \in meant, View(r))
                      \/ Awaited(r)'
    <3>1. (Orderly' => Orderly) /\ grown' = grown
      BY <1>2 DEF Orderly, Deleting, columns
    <3>2. QED
      BY <1>1, <1>2, <1>3, <3>1 DEF Exact, ChunkAt
  <2> DEFINE k == ChunkAt(r)
  <2>1. (Outcome(r) <=> Asked(call, r \in meant, View(r))) \/ Awaited(r)
    BY <1>3 DEF Exact
  <2>2. k \in Nat /\ ChunkAt(r)' = k
    BY RowChunk DEF ChunkAt
  <2>3. /\ Outcome(r) <=> Result(r \in index, Pending(r), View(r))
        /\ Outcome(r)' <=> Result(r \in index', Pending(r)', View(r))
    BY <1>2 DEF Outcome
  <2>4. /\ Pending(r) = IF k < chunk THEN Tail(passes) ELSE passes
        /\ Pending(r)' = IF passes' # << >> /\ k < chunk' THEN Tail(passes') ELSE passes'
    BY <1>1, <2>2 DEF Pending
  <2>5. Result(r \in index, passes, View(r))
          <=> Result(After(r \in index, p, View(r)), Tail(passes), View(r))
    <3>1. (r \in index) \in BOOLEAN
      OBVIOUS
    <3>2. QED
      BY <1>1, <1>3, <3>1, ResultTail, Zenon DEF p
  <2>6. /\ r \notin Covered => (r \in index' <=> r \in index)
        /\ r \in Covered => (r \in index' <=> After(r \in index, p, View(r)))
    BY <1>1, <1>4, SelectedIs DEF p
  <2> HIDE DEF k
  <2>7. CASE k < chunk
    <3>1. r \notin Covered /\ ~Awaited(r)
      BY <1>3, <1>4, <2>2, <2>7 DEF Awaited, k
    <3>2. Pending(r) = Tail(passes) /\ Pending(r)' = Tail(passes)
      BY <1>1, <1>3, <2>2, <2>4, <2>7
    <3>3. (r \in index') = (r \in index)
      BY <2>6, <3>1
    <3>4. QED
      BY <2>1, <2>3, <3>1, <3>2, <3>3
  <2>8. CASE k = chunk /\ chunk < span
    <3>1. ~Awaited(r)
      <4>1. ~(r \in Busy)
        BY <1>1, <2>8 DEF Busy, Latched, k
      <4>2. QED
        BY <4>1 DEF Awaited
    <3>2. Pending(r) = passes /\ Pending(r)' = Tail(passes)
      BY <1>1, <1>3, <2>2, <2>4, <2>8
    <3>3. (r \in index') = After(r \in index, p, View(r))
      BY <1>4, <2>6, <2>8 DEF k, After
    <3>4. QED
      BY <2>1, <2>3, <2>5, <3>1, <3>2, <3>3
  <2>9. CASE k > chunk /\ chunk < span
    <3>1. r \notin Covered /\ (Awaited(r) => Awaited(r)')
      <4>1. chunk' <= k /\ r \notin Covered
        BY <1>1, <1>3, <1>4, <2>2, <2>9 DEF k
      <4>2. QED
        BY <1>1, <1>2, <2>2, <2>9, <4>1 DEF Awaited, k
    <3>2. Pending(r) = passes /\ Pending(r)' = passes
      BY <1>1, <1>3, <2>2, <2>4, <2>9
    <3>3. (r \in index') = (r \in index)
      BY <2>6, <3>1
    <3>4. QED
      BY <2>1, <2>3, <3>1, <3>2, <3>3
  <2>10. CASE k >= chunk /\ ~(chunk < span)
    <3>1. k >= span /\ r \notin Covered
      BY <1>3, <1>4, <2>2, <2>10 DEF k
    <3>2. ~Awaited(r) /\ r \notin index /\ r \notin has
      <4>1. ~(k < span)
        BY <1>3, <2>2, <3>1
      <4>2. r \notin index /\ ~Awaited(r)
        BY <4>1 DEF Types, Awaited, k
      <4>3. r \notin has
        BY <1>3, <3>1 DEF Beyond, k
      <4>4. QED
        BY <4>2, <4>3
    <3>3. Pending(r) = passes /\ Pending(r)' = Tail(passes)
      BY <1>1, <1>3, <2>2, <2>4, <2>10
    <3>4. ~On(p, View(r))
      BY <3>2, ViewOf DEF On
    <3>5. (r \in index') = After(r \in index, p, View(r))
      BY <2>6, <3>1, <3>2, <3>4 DEF After, Sets
    <3>6. QED
      BY <2>1, <2>3, <2>5, <3>2, <3>3, <3>5
  <2>11. QED
    BY <1>3, <2>2, <2>7, <2>8, <2>9, <2>10
<1>10. QED
  BY <1>2, <1>6, <1>7, <1>8, <1>9

LEMMA ClearKeeps ==
  ASSUME QueryInv, Clear
  PROVE  QueryInv'
<1> USE DEF QueryInv
<1>0. QueryStep
  BY DEF QueryStep
<1> DEFINE p == Head(passes)
<1>1. /\ passes # << >> /\ passes' = Tail(passes)
      /\ \/ p.op = "clear" /\ index' = {}
         \/ p.op = "skip" /\ index' = index
      /\ UNCHANGED <<setup, span, call, chunk, meant, misread>>
  BY DEF Clear
<1>2. /\ UNCHANGED <<workload, rows, columns, writers, touched>>
      /\ \A r : View(r)' = View(r) /\ (r \in Busy' <=> r \in Busy)
      /\ (Room /\ Exclusive /\ RowThere /\ BitsFollow /\ HasRow)'
  BY <1>0, QueryLeavesRows
<1>3. chunk = 0 /\ call # None /\ setup /\ passes \in Seq(Pass)
  BY <1>1 DEF Types, Calling, Unvisited
<1> HIDE DEF p
<1>4. Types'
  <2>1. passes' \in Seq(Pass) /\ index' \subseteq index
    BY <1>1, <1>3
  <2>2. UNCHANGED <<workload, fill, length, has, data, grown, bits, wpc, change>>
    BY <1>2 DEF rows, columns, writers
  <2>3. QED
    BY <1>1, <2>1, <2>2 DEF Types, ChunkAt
<1>5. Calling'
  BY <1>1, <1>3 DEF Calling
<1>6. Beyond'
  BY <1>1, <1>2 DEF Beyond, ChunkAt, columns
<1>7. Exact'
  <2> SUFFICES ASSUME Orderly, ~misread, NEW r \in Rows, r \notin touched, ChunkAt(r) < grown
               PROVE  Outcome(r)' <=> Asked(call, r \in meant, View(r))
    <3>1. (Orderly' => Orderly) /\ grown' = grown
      BY <1>2 DEF Orderly, Deleting, columns
    <3>2. QED
      BY <1>1, <1>2, <1>3, <3>1 DEF Exact, ChunkAt
  <2>1. ~Awaited(r)
    BY <1>1 DEF Awaited, Unvisited, p
  <2>2. Outcome(r) <=> Asked(call, r \in meant, View(r))
    BY <1>3, <2>1 DEF Exact
  <2>3. ~(ChunkAt(r) < 0)
    BY RowChunk
  <2>4. Pending(r) = passes /\ Pending(r)' = Tail(passes)
    BY <1>1, <1>3, <2>3 DEF Pending, ChunkAt
  <2>5. /\ Outcome(r) <=> Result(r \in index, passes, View(r))
        /\ Outcome(r)' <=> Result(r \in index', Tail(passes), View(r))
    BY <1>2, <2>4 DEF Outcome
  <2>6. Result(r \in index, passes, View(r))
          <=> Result(After(r \in index, p, View(r)), Tail(passes), View(r))
    <3>1. (r \in index) \in BOOLEAN
      OBVIOUS
    <3>2. QED
      BY <1>1, <1>3, <3>1, ResultTail, Zenon DEF p
  <2>7. (r \in index') = After(r \in index, p, View(r))
    BY <1>1 DEF After, Drops, Sets
  <2>8. QED
    BY <2>2, <2>5, <2>6, <2>7
<1>8. QED
  BY <1>2, <1>4, <1>5, <1>6, <1>7

\* When no pass is left, the selection is what the call asked for.
LEMMA ReturnKeeps ==
  ASSUME QueryInv, Return
  PROVE  QueryInv'
<1> USE DEF QueryInv
<1>0. QueryStep
  BY DEF QueryStep
<1>1. /\ call # None /\ passes = << >> /\ call' = None
      /\ meant' = {r \in Rows : Meant(r)}
      /\ UNCHANGED <<setup, index, span, passes, chunk, misread>>
  BY DEF Return
<1>2. /\ UNCHANGED <<workload, rows, columns, writers, touched>>
      /\ \A r : View(r)' = View(r) /\ (r \in Busy' <=> r \in Busy)
      /\ (Room /\ Exclusive /\ RowThere /\ BitsFollow /\ HasRow)'
  BY <1>0, QueryLeavesRows
<1>3. setup
  BY <1>1 DEF Types, Calling
<1>4. \A r \in Rows : r \in meant' <=> Asked(call, r \in meant, View(r))
  BY <1>1, MeantIsAsked
<1>5. Types'
  <2>1. UNCHANGED <<workload, fill, length, has, data, grown, bits, wpc, change>>
    BY <1>2 DEF rows, columns, writers
  <2>2. QED
    BY <1>1, <2>1 DEF Types, ChunkAt
<1>6. Calling'
  BY <1>1, <1>3 DEF Calling
<1>7. Beyond'
  <2> SUFFICES ASSUME NEW r \in Rows, r \notin touched, ChunkAt(r) >= span
               PROVE  r \notin meant' /\ r \notin has
    BY <1>1, <1>2 DEF Beyond, ChunkAt, columns
  <2>1. r \notin meant /\ r \notin has
    BY <1>3 DEF Beyond
  <2>2. View(r).on = {} /\ ~(View(r).value \cap Predicate # {})
    BY <2>1, ViewOf
  <2>3. PICK c \in Calls, fresh \in BOOLEAN : call = Called(c, fresh)
    BY <1>1 DEF Types
  <2>4. call.op \in {"With", "Without", "Union", "WithUnion", "WithInt", "Aggregate"}
    BY <2>3, QueryAssumption DEF Called
  <2>5. ~Asked(call, FALSE, View(r))
    BY <2>2, <2>4 DEF Asked
  <2>6. (r \in meant) = FALSE
    BY <2>1
  <2>7. QED
    BY <1>4, <2>1, <2>5, <2>6
<1>8. Exact'
  <2> SUFFICES ASSUME Orderly, ~misread, NEW r \in Rows, r \notin touched, ChunkAt(r) < grown
               PROVE  r \in index <=> r \in meant'
    <3>1. (Orderly' => Orderly) /\ grown' = grown
      BY <1>2 DEF Orderly, Deleting, columns
    <3>2. QED
      BY <1>1, <1>2, <1>3, <3>1 DEF Exact, ChunkAt
  <2>1. ~Awaited(r) /\ Pending(r) = << >>
    BY <1>1 DEF Awaited, Pending
  <2>2. Outcome(r) <=> Asked(call, r \in meant, View(r))
    BY <1>1, <1>3, <2>1 DEF Exact
  <2>3. Outcome(r) <=> r \in index
    <3>1. (r \in index) \in BOOLEAN
      OBVIOUS
    <3>2. QED
      BY <2>1, <3>1, ResultNone, Zenon DEF Outcome
  <2>4. QED
    BY <1>4, <2>2, <2>3
<1>9. QED
  BY <1>2, <1>5, <1>6, <1>7, <1>8

-----------------------------------------------------------------------------
(* Theorems about selections *)

LEMMA NextKeeps == QueryInv /\ [Next]_vars => QueryInv'
<1> SUFFICES ASSUME QueryInv, [Next]_vars PROVE QueryInv'
  OBVIOUS
<1>1. CASE UNCHANGED vars
  <2>1. /\ UNCHANGED <<workload, fill, length, has, data, grown, bits, wpc, change, txns>>
        /\ UNCHANGED <<setup, index, span, call, passes, chunk, meant, misread, touched>>
    BY <1>1 DEF vars, rows, columns, writers, query
  <2>2. (Types /\ Room /\ Exclusive /\ RowThere /\ BitsFollow /\ HasRow)'
    BY <2>1 DEF QueryInv, Types, Room, Exclusive, RowThere, BitsFollow, HasRow, Active, Latches,
                RowOf, Busy, ChunkAt, Orderly, Deleting
  <2>3. Calling' /\ Beyond'
    BY <2>1 DEF QueryInv, Calling, Beyond, ChunkAt
  <2>4. \A r : /\ View(r)' = View(r) /\ Pending(r)' = Pending(r)
               /\ Awaited(r)' <=> Awaited(r)
    BY <2>1 DEF View, Bits, Pending, Awaited, Busy, ChunkAt
  <2>5. \A r : Outcome(r)' <=> Outcome(r)
    BY <2>1, <2>4 DEF Outcome
  <2>6. Exact'
    BY <2>1, <2>4, <2>5 DEF QueryInv, Exact, ChunkAt, Orderly, Deleting
  <2>7. QED
    BY <2>2, <2>3, <2>6 DEF QueryInv
<1>2. ASSUME NEW w \in Writer, WriterStep(w) PROVE QueryInv'
  BY <1>2, WriterKeeps
<1>3. CASE QueryStep
  BY <1>3, EnterKeeps, VisitKeeps, ClearKeeps, ReturnKeeps DEF QueryStep
<1>4. QED
  BY <1>1, <1>2, <1>3 DEF Next, WriterStep, QueryStep

LEMMA QueryInvariant == Spec => []QueryInv
BY InitKeeps, NextKeeps, PTL DEF Spec

\* Only rows that exist have values, and the indexes follow them (txn.go:
\* commitMarkers applies a deletion to every column, and a row stays latched
\* until the values are gone; column_index.go: an index sees every value that a
\* commit writes), however insertions, updates and deletions interleave.
THEOREM ValuesStayWithRows == Spec => []ValuesBelongToRows
<1>1. QueryInv => ValuesBelongToRows
  <2>1. QueryInv => (Orderly => has \ Busy \subseteq fill)
    BY DEF QueryInv, HasRow
  <2>2. QueryInv => \A n \in DOMAIN Rule :
          bits[n] \ Busy = {r \in has : data[r] \in Rule[n]} \ Busy
    BY DEF QueryInv, BitsFollow
  <2>3. QED
    BY <2>1, <2>2 DEF ValuesBelongToRows
<1>2. QED
  BY <1>1, QueryInvariant, PTL

\* After each call of With, Without, Union, WithUnion or WithInt (txn.go,
\* txn_lock.go) a row that no commit has touched since the query began is
\* selected if and only if the calls so far select it, although each pass of a
\* call looks at one chunk at a time and commits run between them.
THEOREM SelectionsAreExact == Spec => []SelectionIsExact
<1>1. QueryInv => SelectionIsExact
  <2> SUFFICES ASSUME QueryInv, Orderly, call = None, ~misread,
                      NEW r \in Rows, r \notin touched, ChunkAt(r) < grown
               PROVE  r \in index <=> r \in meant
    BY DEF SelectionIsExact
  <2>1. CASE setup
    BY <2>1 DEF QueryInv, Exact
  <2>2. CASE ~setup
    BY <2>2 DEF QueryInv, Calling
  <2>3. QED
    BY <2>1, <2>2 DEF QueryInv, Types
<1>2. QED
  BY <1>1, QueryInvariant, PTL

-----------------------------------------------------------------------------
(* Remainders *)

LEMMA Remainder ==
  ASSUME NEW m \in Nat \ {0}, NEW x \in Nat
  PROVE  x % m \in 0 .. m - 1 /\ x \div m \in Nat /\ x = m * (x \div m) + (x % m)
OBVIOUS

LEMMA RemainderIs ==
  ASSUME NEW m \in Nat \ {0}, NEW x \in Int, NEW k \in Nat, NEW b \in 0 .. m - 1, x = k * m + b
  PROVE  x % m = b
OBVIOUS

\* To cut a sum to the width of a number, its parts may be cut before.
LEMMA CutSum ==
  ASSUME NEW m \in Nat \ {0}, NEW x \in Nat, NEW y \in Nat
  PROVE  ((x % m) + y) % m = (x + y) % m
<1> DEFINE q == x \div m
           a == x % m
           s == (a + y) \div m
           b == (a + y) % m
<1>1. q \in Nat /\ a \in Nat /\ x = m * q + a
  BY Remainder
<1>2. a + y \in Nat
  BY <1>1
<1> HIDE DEF q, a
<1>3. s \in Nat /\ b \in 0 .. m - 1 /\ a + y = m * s + b
  BY <1>2, Remainder
<1> HIDE DEF s, b
<1>4. x + y = m * q + m * s + b
  <2>1. m * q \in Nat /\ m * s \in Nat /\ b \in Nat
    BY <1>1, <1>3
  <2>2. QED
    BY <1>1, <1>3, <2>1
<1>5. q + s \in Nat /\ (q + s) * m = m * q + m * s
  BY <1>1, <1>3
<1>6. x + y = (q + s) * m + b
  BY <1>4, <1>5
<1>7. x + y \in Int
  OBVIOUS
<1>8. (x + y) % m = b
  BY <1>3, <1>5, <1>6, <1>7, RemainderIs
<1>9. QED
  BY <1>8 DEF a, b

-----------------------------------------------------------------------------
(* Sums *)

\* The function by which Total is defined, for any values d.
IsSum(f, d, S) ==
  f = [T \in SUBSET S |->
         IF T = {} THEN 0 ELSE LET r == CHOOSE r \in T : TRUE IN d[r] + f[T \ {r}]]
SumOf(d, S) == (CHOOSE f : IsSum(f, d, S))[S]

LEMMA TotalIsSum == \A S : Total(S) = SumOf(data, S)
BY DEF Total, SumOf, IsSum

\* A set of finite sets has one no other of them is a proper part of.
LEMMA LeastSet ==
  ASSUME NEW S, IsFiniteSet(S), NEW P \in SUBSET SUBSET S, P # {}
  PROVE  \E B \in P : \A A \in P : A \subseteq B => A = B
<1>1. P \subseteq FiniteSubsetsOf(S)
  BY FS_Subset, Zenon DEF FiniteSubsetsOf
<1>2. PICK B \in P : \A A \in P : ~(<<A, B>> \in StrictSubsetOrdering(S))
  BY <1>1, FS_StrictSubsetOrderingWellFounded, WFMin
<1>3. QED
  BY <1>2, Zenon DEF StrictSubsetOrdering

\* Whatever set the function is for, it has the same sums.
LEMMA SumsAgree ==
  ASSUME NEW d, NEW S, NEW R, NEW U, IsFiniteSet(U), U \subseteq S, U \subseteq R,
         NEW f, IsSum(f, d, S), NEW g, IsSum(g, d, R)
  PROVE  f[U] = g[U]
<1> DEFINE P == {T \in SUBSET U : f[T] # g[T]}
<1> SUFFICES ASSUME P # {} PROVE FALSE
  OBVIOUS
<1>0. P \in SUBSET SUBSET U
  OBVIOUS
<1>1. PICK B \in P : \A A \in P : A \subseteq B => A = B
  <2> HIDE DEF P
  <2>1. QED
    BY <1>0, LeastSet
<1> DEFINE q == CHOOSE r \in B : TRUE
<1>2. B \in SUBSET S /\ B \in SUBSET R /\ B \in SUBSET U
  BY <1>1
<1>3. /\ f[B] = IF B = {} THEN 0 ELSE d[q] + f[B \ {q}]
      /\ g[B] = IF B = {} THEN 0 ELSE d[q] + g[B \ {q}]
  BY <1>2 DEF IsSum
<1>4. B # {} /\ q \in B
  BY <1>1, <1>3
<1>5. B \ {q} \in SUBSET U /\ B \ {q} # B
  BY <1>2, <1>4
<1>6. f[B \ {q}] = g[B \ {q}]
  BY <1>1, <1>5
<1>7. QED
  BY <1>1, <1>3, <1>6

LEMMA SumExists ==
  ASSUME NEW d, NEW S, IsFiniteSet(S)
  PROVE  \E f : IsSum(f, d, S)
<1> DEFINE P == {T \in SUBSET S : ~ \E f : IsSum(f, d, T)}
<1> SUFFICES ASSUME P # {} PROVE FALSE
  OBVIOUS
<1>0. P \in SUBSET SUBSET S
  OBVIOUS
<1>1. PICK B \in P : \A A \in P : A \subseteq B => A = B
  <2> HIDE DEF P
  <2>1. QED
    BY <1>0, LeastSet
<1> DEFINE g(T) == CHOOSE f : IsSum(f, d, T)
           q(T) == CHOOSE r \in T : TRUE
           h == [T \in SUBSET B |-> IF T = {} THEN 0 ELSE d[q(T)] + g(T \ {q(T)})[T \ {q(T)}]]
<1>2. B \in SUBSET S
  BY <1>1
<1>3. ASSUME NEW T \in SUBSET B, T # B PROVE IsSum(g(T), d, T)
  <2>1. T \in SUBSET S /\ T \notin P
    BY <1>1, <1>2, <1>3
  <2>2. \E f : IsSum(f, d, T)
    BY <2>1
  <2>3. QED
    BY <2>2, Zenon
<1>4. \A T \in SUBSET B : T # {} => q(T) \in T
  OBVIOUS
<1>5. ASSUME NEW T \in SUBSET B, T # B PROVE h[T] = g(T)[T]
  <2>1. IsSum(g(T), d, T)
    BY <1>3, <1>5
  <2> HIDE DEF g
  <2>2. g(T)[T] = IF T = {} THEN 0 ELSE d[q(T)] + g(T)[T \ {q(T)}]
    <3>1. T \in SUBSET T
      OBVIOUS
    <3>2. QED
      BY <2>1, <3>1 DEF IsSum
  <2>3. CASE T = {}
    BY <2>2, <2>3
  <2>4. CASE T # {}
    <3> DEFINE U == T \ {q(T)}
    <3>1. q(T) \in T
      BY <1>4, <2>4
    <3>2. U \subseteq T /\ U \in SUBSET B /\ U # B /\ IsFiniteSet(U)
      BY <1>2, <1>5, <3>1, FS_Subset
    <3>3. IsSum(g(U), d, U)
      BY <1>3, <3>2
    <3> HIDE DEF U
    <3>4. g(T)[U] = g(U)[U]
      BY <2>1, <3>2, <3>3, SumsAgree
    <3>5. QED
      BY <2>2, <2>4, <3>4 DEF U
  <2>5. QED
    BY <2>3, <2>4
<1>6. ASSUME NEW T \in SUBSET B, T # {} PROVE h[T] = d[q(T)] + h[T \ {q(T)}]
  <2> DEFINE U == T \ {q(T)}
  <2>1. q(T) \in T
    BY <1>4, <1>6
  <2>2. U \in SUBSET B /\ U # B
    BY <2>1
  <2>3. h[U] = g(U)[U]
    BY <1>5, <2>2
  <2>4. h[T] = d[q(T)] + g(U)[U]
    BY <1>6
  <2>5. QED
    BY <2>3, <2>4
<1>7. h[{}] = 0
  BY {} \in SUBSET B
<1> DEFINE e == [T \in SUBSET B |->
                  IF T = {} THEN 0 ELSE LET r == CHOOSE r \in T : TRUE IN d[r] + h[T \ {r}]]
<1>8. \A T \in SUBSET B : h[T] = e[T]
  <2> HIDE DEF h
  <2>1. QED
    BY <1>6, <1>7
<1>9. h = e
  <2>1. DOMAIN h = SUBSET B /\ DOMAIN e = SUBSET B
    OBVIOUS
  <2>2. h = [T \in SUBSET B |-> h[T]] /\ e = [T \in SUBSET B |-> e[T]]
    OBVIOUS
  <2> HIDE DEF h, e
  <2>3. QED
    BY <1>8, <2>1, <2>2
<1>10. IsSum(h, d, B)
  BY <1>9 DEF IsSum
<1>11. QED
  BY <1>1, <1>10

LEMMA SumStep ==
  ASSUME NEW d, NEW S, IsFiniteSet(S)
  PROVE  /\ S = {} => SumOf(d, S) = 0
         /\ S # {} => LET q == CHOOSE r \in S : TRUE
                      IN  SumOf(d, S) = d[q] + SumOf(d, S \ {q})
<1> DEFINE f == CHOOSE f : IsSum(f, d, S)
           q == CHOOSE r \in S : TRUE
           R == S \ {q}
           g == CHOOSE g : IsSum(g, d, R)
<1>1. IsSum(f, d, S)
  BY SumExists, Zenon
<1>2. IsFiniteSet(R) /\ R \subseteq S
  BY FS_Subset
<1>3. IsSum(g, d, R)
  BY <1>2, SumExists, Zenon
<1>4. SumOf(d, S) = f[S] /\ SumOf(d, R) = g[R]
  BY Zenon DEF SumOf
<1> HIDE DEF f, g
<1>5. f[R] = g[R]
  BY <1>1, <1>2, <1>3, SumsAgree
<1>6. f[S] = IF S = {} THEN 0 ELSE d[q] + f[R]
  BY <1>1, S \in SUBSET S DEF IsSum
<1>7. QED
  BY <1>4, <1>5, <1>6

LEMMA SumIsNat ==
  ASSUME NEW d, NEW S, IsFiniteSet(S), \A r \in S : d[r] \in Nat
  PROVE  SumOf(d, S) \in Nat
<1> DEFINE P == {T \in SUBSET S : SumOf(d, T) \notin Nat}
<1> SUFFICES ASSUME P # {} PROVE FALSE
  BY S \in SUBSET S
<1>0. P \in SUBSET SUBSET S
  OBVIOUS
<1>1. PICK B \in P : \A A \in P : A \subseteq B => A = B
  <2> HIDE DEF P
  <2>1. QED
    BY <1>0, LeastSet
<1> DEFINE q == CHOOSE r \in B : TRUE
<1>2. B \in SUBSET S /\ IsFiniteSet(B) /\ SumOf(d, B) \notin Nat
  BY <1>1, FS_Subset
<1>3. B # {} /\ SumOf(d, B) = d[q] + SumOf(d, B \ {q})
  <2>1. B # {}
    <3>1. B = {} => SumOf(d, B) = 0
      BY <1>2, SumStep, Zenon
    <3>2. 0 \in Nat
      OBVIOUS
    <3>3. QED
      BY <1>2, <3>1, <3>2
  <2>2. QED
    BY <1>2, <2>1, SumStep, Zenon
<1>4. q \in B
  BY <1>3
<1> HIDE DEF q
<1>5. B \ {q} \in SUBSET S /\ B \ {q} # B /\ B \ {q} \subseteq B
  BY <1>2, <1>4
<1>6. SumOf(d, B \ {q}) \in Nat /\ d[q] \in Nat
  BY <1>1, <1>2, <1>4, <1>5
<1>7. QED
  BY <1>2, <1>3, <1>6

\* Any element may be taken first.
LEMMA SumWith ==
  ASSUME NEW d, NEW S, IsFiniteSet(S), \A r \in S : d[r] \in Nat, NEW x \in S
  PROVE  SumOf(d, S) = d[x] + SumOf(d, S \ {x})
<1> DEFINE P == {T \in SUBSET S : \E r \in T : SumOf(d, T) # d[r] + SumOf(d, T \ {r})}
<1> SUFFICES ASSUME P # {} PROVE FALSE
  BY S \in SUBSET S
<1>0. P \in SUBSET SUBSET S
  OBVIOUS
<1>1. PICK B \in P : \A A \in P : A \subseteq B => A = B
  <2> HIDE DEF P
  <2>1. QED
    BY <1>0, LeastSet
<1>2. PICK p \in B : SumOf(d, B) # d[p] + SumOf(d, B \ {p})
  BY <1>1
<1> DEFINE q == CHOOSE r \in B : TRUE
<1>3. B \in SUBSET S /\ IsFiniteSet(B) /\ B # {}
  BY <1>1, <1>2, FS_Subset
<1>4. q \in B /\ SumOf(d, B) = d[q] + SumOf(d, B \ {q})
  BY <1>3, SumStep
<1> HIDE DEF q
<1>5. p # q /\ p \in S /\ q \in S
  BY <1>2, <1>3, <1>4
<1>6. \A T \in SUBSET B : T # B => \A r \in T : SumOf(d, T) = d[r] + SumOf(d, T \ {r})
  BY <1>1, <1>3
<1>7. /\ SumOf(d, B \ {q}) = d[p] + SumOf(d, (B \ {q}) \ {p})
      /\ SumOf(d, B \ {p}) = d[q] + SumOf(d, (B \ {p}) \ {q})
  BY <1>2, <1>4, <1>5, <1>6
<1>8. (B \ {q}) \ {p} = (B \ {p}) \ {q}
  OBVIOUS
<1> DEFINE n == SumOf(d, (B \ {p}) \ {q})
<1>9. n \in Nat
  <2>1. IsFiniteSet((B \ {p}) \ {q}) /\ (B \ {p}) \ {q} \subseteq S
    BY <1>3, FS_Subset
  <2>2. QED
    BY <2>1, SumIsNat
<1>10. SumOf(d, B) = d[q] + (d[p] + n) /\ SumOf(d, B \ {p}) = d[q] + n
  BY <1>4, <1>7, <1>8
<1>11. d[p] \in Nat /\ d[q] \in Nat
  BY <1>5
<1> HIDE DEF n
<1>12. d[q] + (d[p] + n) = d[p] + (d[q] + n)
  BY <1>9, <1>11
<1>13. QED
  BY <1>2, <1>10, <1>12

LEMMA SumOfUnion ==
  ASSUME NEW d, NEW S, NEW R, IsFiniteSet(S), IsFiniteSet(R), S \cap R = {},
         \A r \in S \cup R : d[r] \in Nat
  PROVE  SumOf(d, S \cup R) = SumOf(d, S) + SumOf(d, R)
<1> DEFINE P == {T \in SUBSET R : SumOf(d, S \cup T) # SumOf(d, S) + SumOf(d, T)}
<1> SUFFICES ASSUME P # {} PROVE FALSE
  BY R \in SUBSET R
<1>0. P \in SUBSET SUBSET R
  OBVIOUS
<1>1. PICK B \in P : \A A \in P : A \subseteq B => A = B
  <2> HIDE DEF P
  <2>1. QED
    BY <1>0, LeastSet
<1>2. B \in SUBSET R /\ IsFiniteSet(B) /\ SumOf(d, S \cup B) # SumOf(d, S) + SumOf(d, B)
  BY <1>1, FS_Subset
<1>3. SumOf(d, S) \in Nat
  BY SumIsNat
<1>4. B # {}
  <2>1. S \cup {} = S /\ SumOf(d, {}) = 0
    BY SumStep, FS_EmptySet
  <2>2. QED
    BY <1>2, <1>3, <2>1
<1>5. PICK p \in B : TRUE
  BY <1>4
<1> DEFINE A == B \ {p}
<1>6. A \in SUBSET R /\ A # B /\ A \subseteq B /\ IsFiniteSet(A) /\ IsFiniteSet(S \cup B)
  BY <1>2, <1>5, FS_Subset, FS_Union
<1>7. SumOf(d, S \cup A) = SumOf(d, S) + SumOf(d, A)
  BY <1>1, <1>6
<1>8. SumOf(d, B) = d[p] + SumOf(d, A)
  BY <1>2, <1>5, SumWith
<1>9. SumOf(d, S \cup B) = d[p] + SumOf(d, S \cup A)
  <2>1. p \in S \cup B /\ (S \cup B) \ {p} = S \cup A /\ \A r \in S \cup B : d[r] \in Nat
    BY <1>2, <1>5
  <2> HIDE DEF A
  <2>2. QED
    BY <1>6, <2>1, SumWith
<1>10. SumOf(d, A) \in Nat /\ d[p] \in Nat
  BY <1>2, <1>5, <1>6, SumIsNat
<1> HIDE DEF A
<1>11. QED
  BY <1>2, <1>3, <1>7, <1>8, <1>9, <1>10

LEMMA SumOfZeros ==
  ASSUME NEW d, NEW S, IsFiniteSet(S), \A r \in S : d[r] = 0
  PROVE  SumOf(d, S) = 0
<1> DEFINE P == {T \in SUBSET S : SumOf(d, T) # 0}
<1> SUFFICES ASSUME P # {} PROVE FALSE
  BY S \in SUBSET S
<1>0. P \in SUBSET SUBSET S
  OBVIOUS
<1>1. PICK B \in P : \A A \in P : A \subseteq B => A = B
  <2> HIDE DEF P
  <2>1. QED
    BY <1>0, LeastSet
<1>2. B \in SUBSET S /\ IsFiniteSet(B) /\ SumOf(d, B) # 0
  BY <1>1, FS_Subset
<1> DEFINE q == CHOOSE r \in B : TRUE
<1>3. B # {} /\ SumOf(d, B) = d[q] + SumOf(d, B \ {q})
  BY <1>2, SumStep
<1>4. q \in B
  BY <1>3
<1> HIDE DEF q
<1>5. B \ {q} \in SUBSET S /\ B \ {q} # B /\ B \ {q} \subseteq B
  BY <1>2, <1>4
<1>6. SumOf(d, B \ {q}) = 0
  BY <1>1, <1>5
<1>7. QED
  BY <1>2, <1>3, <1>4, <1>6

-----------------------------------------------------------------------------
(* The least value *)

LeastOf(V) == CHOOSE v \in V : \A u \in V : v <= u

LEMMA LeastExists ==
  ASSUME NEW V \in SUBSET Nat, V # {}
  PROVE  LeastOf(V) \in V /\ \A u \in V : LeastOf(V) <= u
<1>1. PICK x \in V : \A y \in V : ~(<<y, x>> \in OpToRel(<, Nat))
  BY NatLessThanWellFounded, WFMin, Zenon
<1>2. ASSUME NEW y \in V, y < x PROVE FALSE
  <2>1. <<y, x>> \in Nat \X Nat /\ <<y, x>>[1] < <<y, x>>[2]
    BY <1>2
  <2>2. <<y, x>> \in OpToRel(<, Nat)
    BY <2>1, Zenon DEF OpToRel
  <2>3. QED
    BY <1>1, <2>2, Zenon
<1>3. \A y \in V : x <= y
  BY <1>2
<1>4. QED
  BY <1>3 DEF LeastOf

\* The least value of two sets is that of one and of the least of the other.
LEMMA LeastOfUnion ==
  ASSUME NEW V \in SUBSET Nat, NEW U \in SUBSET Nat, V # {}
  PROVE  LeastOf(V \cup U) = LeastOf(U \cup {LeastOf(V)})
<1> DEFINE v == LeastOf(V)
           a == LeastOf(V \cup U)
           b == LeastOf(U \cup {v})
<1>1. v \in V /\ v \in Nat /\ \A x \in V : v <= x
  BY LeastExists
<1> HIDE DEF v
<1>2. V \cup U \in SUBSET Nat /\ V \cup U # {} /\ U \cup {v} \in SUBSET Nat /\ U \cup {v} # {}
  BY <1>1
<1>3. a \in V \cup U /\ \A x \in V \cup U : a <= x
  BY <1>2, LeastExists, Zenon
<1>4. b \in U \cup {v} /\ \A x \in U \cup {v} : b <= x
  BY <1>2, LeastExists, Zenon
<1> HIDE DEF a, b
<1>5. b \in V \cup U /\ a <= b
  BY <1>1, <1>3, <1>4
<1>6. b <= a
  <2>1. CASE a \in U
    BY <1>4, <2>1
  <2>2. CASE a \in V
    <3>1. v <= a /\ b <= v /\ a \in Nat /\ b \in Nat
      BY <1>1, <1>2, <1>4, <2>2
    <3>2. QED
      BY <1>1, <3>1
  <2>3. QED
    BY <1>3, <2>1, <2>2
<1>7. a \in Nat /\ b \in Nat
  BY <1>2, <1>3, <1>4
<1>8. a = b
  BY <1>5, <1>6, <1>7
<1>9. QED
  BY <1>8 DEF a, b, v

-----------------------------------------------------------------------------
(* Aggregates *)

AggPass == Over("aggregate", {})

\* What a query knows of an aggregate: it has begun one, or has the result.
Counting == agg # None \/ (passes # << >> /\ Head(passes).op = "aggregate")

\* The rows with a value that the pass has come to.
Seen == {r \in index \cap has : passes = << >> \/ ChunkAt(r) < chunk}

Tally == [sum : Values, count : Nat, min : Values \cup {None}]
LeastValue(d, S) == IF S = {} THEN None ELSE LeastOf({d[r] : r \in S})

\* Data are numbers; a row that never had a value has zero.
DataInv ==
  /\ data \in [Rows -> Values]
  /\ \A w \in Writer : change[w].val \in Values
  /\ ~Deleting => \A r \in Rows \ has : data[r] = 0
  /\ calls \in 0 .. workload.calls /\ span <= length /\ touched \subseteq Rows

\* An aggregate is a call of its own, and has what is in the chunks behind it.
AggInv ==
  /\ (\E i \in DOMAIN passes : passes[i].op = "aggregate") => passes = << AggPass >>
  /\ Counting =>
       /\ setup /\ agg \in Tally /\ (passes = << >> \/ passes = << AggPass >>)
       /\ touched = {} /\ ~Deleting =>
            /\ agg.sum = Wrap(SumOf(data, Seen))
            /\ index \subseteq has => /\ agg.count = Cardinality(Seen)
                                      /\ agg.min = LeastValue(data, Seen)

LEMMA ValuesAre ==
  /\ Values \subseteq Nat /\ 0 \in Values
  /\ \A n \in Nat : Wrap(n) \in Values
  /\ \A x, y \in Nat : Wrap(Wrap(x) + y) = Wrap(x + y)
<1> DEFINE m == 2^Width
<1>1. m \in Nat \ {0} /\ Values = 0 .. m - 1 /\ \A n : Wrap(n) = n % m
  BY QueryAssumption DEF Values, Wrap
<1> HIDE DEF m
<1>2. \A n \in Nat : n % m \in 0 .. m - 1
  BY <1>1, Remainder
<1>3. \A x, y \in Nat : ((x % m) + y) % m = (x + y) % m
  BY <1>1, CutSum
<1>4. \A x, y \in Nat : Wrap(Wrap(x) + y) = Wrap(x + y)
  BY <1>1, <1>3
<1>5. Values \subseteq Nat /\ 0 \in Values
  BY <1>1
<1>6. \A n \in Nat : Wrap(n) \in Values
  BY <1>1, <1>2
<1>7. QED
  BY <1>4, <1>5, <1>6

LEMMA InitCounts == Init => DataInv /\ AggInv
<1> SUFFICES ASSUME Init PROVE DataInv /\ AggInv
  OBVIOUS
<1>1. workload \in Workload
  BY QueryAssumption DEF Init
<1>2. 0 \in 0 .. workload.calls
  BY <1>1 DEF Workload
<1>3. DataInv
  BY <1>2, ValuesAre DEF Init, DataInv, NoChange
<1>4. AggInv
  <2>1. DOMAIN passes = {} /\ passes = << >> /\ agg = None
    BY DEF Init
  <2>2. QED
    BY <2>1 DEF AggInv, Counting
<1>5. QED
  BY <1>3, <1>4

\* A commit notes its row, so that where none is noted the values are what they
\* were when the query began.
LEMMA WriterCounts ==
  ASSUME QueryInv, DataInv, AggInv, NEW w \in Writer, WriterStep(w)
  PROVE  DataInv' /\ AggInv'
<1> USE DEF QueryInv
<1>1. UNCHANGED <<workload, query>>
  BY DEF WriterStep, Choose, Grow, Mark, Apply
<1>2. UNCHANGED <<workload, setup, index, span, passes, chunk, calls, agg>>
  BY <1>1 DEF query
<1>3. length' >= length /\ touched' \subseteq Rows
  <2>1. ASSUME NEW ch \in Change, NEW r \in Rows, NEW v, Choose(w, ch[1], ch[2], r, v)
        PROVE  length' >= length /\ touched' \subseteq Rows
    <3>1. ChunkAt(r) + 1 \in Nat /\ length \in Nat
      BY RowChunk DEF Types
    <3>2. (length' = Larger(length, ChunkAt(r) + 1) \/ length' = length)
          /\ (touched' = touched \/ touched' = touched \cup {r})
      BY <2>1 DEF Choose, Touch, rows
    <3>3. touched' \subseteq Rows
      BY <3>2 DEF DataInv
    <3>4. length' >= length
      BY <3>1, <3>2, LargerOf
    <3>5. QED
      BY <3>3, <3>4
  <2>2. ASSUME Grow(w) PROVE length' >= length /\ touched' \subseteq Rows
    <3>1. w \in Active /\ RowOf(w) \in Rows
      BY <2>2 DEF Grow, Goto, Active, Room
    <3>2. ChunkAt(RowOf(w)) + 1 \in Nat /\ length \in Nat
      BY <3>1, RowChunk DEF Types
    <3>3. length' = Larger(length, ChunkAt(RowOf(w)) + 1) /\ touched' \subseteq Rows
      BY <2>2 DEF Grow, Touch, DataInv, RowOf
    <3>4. QED
      BY <3>2, <3>3, LargerOf
  <2>3. ASSUME Mark(w) \/ Apply(w) PROVE length' >= length /\ touched' \subseteq Rows
    <3>1. w \in Active /\ RowOf(w) \in Rows /\ length \in Nat
      BY <2>3 DEF Mark, Apply, Goto, Active, Room, Types
    <3>2. length' = length /\ (touched' = touched \/ touched' = touched \cup {RowOf(w)})
      BY <2>3 DEF Mark, Apply, Touch, RowOf, rows
    <3>3. QED
      BY <3>1, <3>2 DEF DataInv
  <2>4. QED
    BY <2>1, <2>2, <2>3 DEF WriterStep
<1>4. change'[w].val \in Values /\ \A u \in Writer \ {w} : change'[u] = change[u]
  <2>1. ASSUME NEW ch \in Change, NEW r \in Rows, NEW v \in Written \cup {0},
               Choose(w, ch[1], ch[2], r, v)
        PROVE  change'[w].val \in Values /\ \A u \in Writer \ {w} : change'[u] = change[u]
    <3>1. v \in Values
      BY ValuesAre, QueryAssumption
    <3>2. QED
      BY <2>1, <3>1 DEF Choose, Types
  <2>2. ASSUME Grow(w) \/ Mark(w)
        PROVE  change'[w].val \in Values /\ \A u \in Writer \ {w} : change'[u] = change[u]
    BY <2>2 DEF Grow, Mark, DataInv
  <2>3. ASSUME Apply(w)
        PROVE  change'[w].val \in Values /\ \A u \in Writer \ {w} : change'[u] = change[u]
    BY <2>3, ValuesAre DEF Apply, NoChange, Types
  <2>4. QED
    BY <2>1, <2>2, <2>3 DEF WriterStep
<1>5. /\ data' \in [Rows -> Values]
      /\ ~Deleting => \A r \in Rows \ has' : data'[r] = 0
      /\ setup /\ touched' = {} => touched = {} /\ has' = has /\ data' = data
  <2>1. ASSUME UNCHANGED columns, touched \subseteq touched' \/ ~setup
        PROVE  /\ data' \in [Rows -> Values]
               /\ ~Deleting => \A r \in Rows \ has' : data'[r] = 0
               /\ setup /\ touched' = {} => touched = {} /\ has' = has /\ data' = data
    BY <2>1 DEF columns, DataInv
  <2>2. ASSUME NEW ch \in Change, NEW r \in Rows, NEW v, Choose(w, ch[1], ch[2], r, v)
        PROVE  UNCHANGED columns /\ touched \subseteq touched'
    BY <2>2 DEF Choose, Touch
  <2>3. ASSUME Mark(w) PROVE UNCHANGED columns /\ touched \subseteq touched'
    BY <2>3 DEF Mark, Touch
  <2>4. ASSUME Grow(w)
        PROVE  /\ data' \in [Rows -> Values]
               /\ ~Deleting => \A r \in Rows \ has' : data'[r] = 0
               /\ setup /\ touched' = {} => touched = {} /\ has' = has /\ data' = data
    BY <2>4 DEF Grow, Touch, DataInv
  <2>5. ASSUME Apply(w)
        PROVE  /\ data' \in [Rows -> Values]
               /\ ~Deleting => \A r \in Rows \ has' : data'[r] = 0
               /\ setup /\ touched' = {} => touched = {} /\ has' = has /\ data' = data
    <3> DEFINE r == RowOf(w)
               new == Applied(data[r], change[w].update, change[w].val)
    <3>1. w \in Active /\ r \in Rows /\ <<change[w].marker, change[w].update>> \in workload.changes
      BY <2>5 DEF Apply, Goto, Active, Room
    <3>2. setup => touched' # {}
      BY <2>5 DEF Apply, Touch
    <3>3. new \in Values
      <4>1. data[r] \in Nat /\ change[w].val \in Values /\ change[w].val \in Nat
        BY <3>1, ValuesAre DEF DataInv
      <4>2. QED
        BY <4>1, ValuesAre DEF Applied
    <3>4. \/ change[w].update # "none" /\ has' = has \cup {r} /\ data' = [data EXCEPT ![r] = new]
          \/ change[w].marker = "delete" /\ UNCHANGED data
          \/ UNCHANGED <<has, data>>
      BY <2>5 DEF Apply, RowOf
    <3>5. change[w].marker = "delete" => Deleting
      BY <3>1 DEF Deleting
    <3> HIDE DEF new, r
    <3>6. data' \in [Rows -> Values]
      BY <3>1, <3>3, <3>4 DEF DataInv
    <3>7. ASSUME ~Deleting, NEW x \in Rows \ has' PROVE data'[x] = 0
      BY <3>1, <3>4, <3>5, <3>7 DEF DataInv
    <3>8. QED
      BY <3>2, <3>6, <3>7
  <2>6. QED
    BY <2>1, <2>2, <2>3, <2>4, <2>5 DEF WriterStep
<1>6. DataInv'
  <2>1. length \in Nat /\ span \in Nat /\ length' \in Nat
    <3>1. Types'
      BY WriterKeeps
    <3>2. QED
      BY <3>1 DEF Types
  <2>2. span' <= length'
    BY <1>2, <1>3, <2>1 DEF DataInv
  <2>3. QED
    BY <1>2, <1>3, <1>4, <1>5, <2>2 DEF DataInv, Deleting
<1>7. AggInv'
  <2>1. Counting' <=> Counting
    BY <1>2 DEF Counting
  <2>2. ASSUME Counting, touched' = {}, ~Deleting
        PROVE  /\ agg.sum = Wrap(SumOf(data', Seen'))
               /\ index \subseteq has' => /\ agg.count = Cardinality(Seen')
                                          /\ agg.min = LeastValue(data', Seen')
    <3>1. touched = {} /\ has' = has /\ data' = data
      BY <1>5, <2>2 DEF AggInv
    <3>2. Seen' = Seen
      BY <1>2, <3>1 DEF Seen, ChunkAt
    <3>3. QED
      BY <2>2, <3>1, <3>2 DEF AggInv
  <2>3. QED
    BY <1>2, <2>1, <2>2 DEF AggInv, Deleting
<1>8. QED
  BY <1>6, <1>7

LEMMA AggregatePasses ==
  ASSUME NEW c \in Calls, NEW fresh \in BOOLEAN
  PROVE  /\ c.op = "Aggregate" => Passes(c, fresh) = << AggPass >>
         /\ c.op # "Aggregate" =>
              \A i \in DOMAIN Passes(c, fresh) : Passes(c, fresh)[i].op # "aggregate"
<1>1. c.op \in {"With", "Without", "Union", "WithUnion", "WithInt", "Aggregate"}
  BY QueryAssumption
<1>2. ASSUME NEW op, NEW unknown, op # "aggregate", unknown # "aggregate", NEW i \in DOMAIN c.names
      PROVE  Each(op, c.names, unknown)[i].op # "aggregate"
  BY <1>2 DEF Each, Over
<1>3. \A op, unknown : DOMAIN Each(op, c.names, unknown) = DOMAIN c.names
  BY DEF Each
<1>4. CASE c.op = "With"
  <2>1. Passes(c, fresh) = Each("and", c.names, "clear")
    BY <1>4 DEF Passes
  <2>2. QED
    BY <1>2, <1>3, <1>4, <2>1
<1>5. CASE c.op = "Without"
  <2>1. Passes(c, fresh) = Each("andnot", c.names, "skip")
    BY <1>5 DEF Passes
  <2>2. QED
    BY <1>2, <1>3, <1>5, <2>1
<1>6. \A i \in DOMAIN UnionPasses(c.names, fresh) :
        UnionPasses(c.names, fresh)[i].op # "aggregate"
  <2>1. DOMAIN UnionPasses(c.names, fresh) = DOMAIN c.names
    BY DEF UnionPasses
  <2>2. ASSUME NEW i \in DOMAIN c.names
        PROVE  \/ UnionPasses(c.names, fresh)[i] = Each("and", c.names, "skip")[i]
               \/ UnionPasses(c.names, fresh)[i] = Each("or", c.names, "skip")[i]
    BY DEF UnionPasses
  <2>3. QED
    BY <1>2, <2>1, <2>2
<1>7. CASE c.op \in {"Union", "WithUnion"}
  <2>1. \/ Passes(c, fresh) = UnionPasses(c.names, fresh)
        \/ Passes(c, fresh) = << Over("and", {n \in ToSet(c.names) : Exists(n)}) >>
    BY <1>7 DEF Passes, WithUnionPasses
  <2>2. \A S : << Over("and", S) >>[1].op # "aggregate" /\ DOMAIN << Over("and", S) >> = {1}
    BY DEF Over
  <2>3. QED
    BY <1>6, <1>7, <2>1, <2>2
<1>8. CASE c.op \in {"WithInt", "Aggregate"}
  BY <1>8 DEF Passes, Over, AggPass
<1>9. QED
  BY <1>1, <1>4, <1>5, <1>7, <1>8

LEMMA QueryData ==
  ASSUME QueryInv, DataInv, QueryStep
  PROVE  DataInv'
<1> USE DEF QueryInv
<1>1. UNCHANGED <<workload, fill, length, has, data, change, touched>>
  BY QueryLeavesRows DEF rows, columns, writers
<1>2. workload.calls \in Nat /\ calls \in Nat /\ length \in Nat
  BY QueryAssumption DEF Types, Workload, DataInv
<1>3. calls' \in 0 .. workload.calls
  BY <1>2 DEF QueryStep, Enter, Visit, Clear, Return, DataInv
<1>4. span' <= length
  BY <1>2 DEF QueryStep, Enter, Visit, Clear, Return, DataInv
<1>5. QED
  BY <1>1, <1>3, <1>4 DEF DataInv, Deleting

LEMMA EnterCounts ==
  ASSUME QueryInv, DataInv, AggInv, NEW c \in Calls, Enter(c)
  PROVE  AggInv'
<1> USE DEF QueryInv
<1> DEFINE fresh == ~setup
<1>1. /\ passes' = Passes(c, fresh) /\ chunk' = 0 /\ setup' = TRUE
      /\ agg' = IF c.op = "Aggregate" THEN NoRows ELSE None
      /\ index' \subseteq Rows
  BY DEF Enter, Types
<1>2. fresh \in BOOLEAN
  BY DEF Types
<1> HIDE DEF fresh
<1>3. CASE c.op = "Aggregate"
  <2>1. passes' = << AggPass >> /\ agg' = NoRows
    BY <1>1, <1>2, <1>3, AggregatePasses
  <2>2. Seen' = {}
    <3>1. << AggPass >> # << >>
      OBVIOUS
    <3>2. \A r \in Rows : ~(ChunkAt(r) < 0)
      BY RowChunk
    <3>3. QED
      BY <1>1, <2>1, <3>1, <3>2 DEF Seen, ChunkAt
  <2>3. agg' \in Tally
    BY <2>1, ValuesAre DEF NoRows, Tally
  <2>4. agg'.sum = Wrap(SumOf(data', {}))
    <3>1. \A d : SumOf(d, {}) = 0
      BY SumStep, FS_EmptySet
    <3>2. Wrap(0) = 0
      <4>1. Wrap(0) = 0 % (2^Width)
        BY DEF Wrap
      <4>2. \A m \in Nat \ {0} : 0 % m = 0
        OBVIOUS
      <4>3. QED
        BY <4>1, <4>2, QueryAssumption
    <3>3. QED
      BY <2>1, <3>1, <3>2 DEF NoRows
  <2>5. agg'.count = Cardinality({}) /\ agg'.min = LeastValue(data', {})
    BY <2>1, FS_EmptySet DEF NoRows, LeastValue
  <2>6. QED
    BY <1>1, <2>1, <2>2, <2>3, <2>4, <2>5 DEF AggInv
<1>4. CASE c.op # "Aggregate"
  <2>1. agg' = None /\ \A i \in DOMAIN passes' : passes'[i].op # "aggregate"
    BY <1>1, <1>2, <1>4, AggregatePasses
  <2>2. passes' \in Seq(Pass)
    BY <1>1, <1>2, PassesType
  <2>3. \A s \in Seq(Pass) : s # << >> => 1 \in DOMAIN s /\ Head(s) = s[1]
    OBVIOUS
  <2>4. ~Counting'
    BY <2>1, <2>2, <2>3 DEF Counting
  <2>5. QED
    BY <2>1, <2>4 DEF AggInv
<1>5. QED
  BY <1>3, <1>4

\* Passes that are left are passes of the call.
LEMMA LeftPasses ==
  ASSUME NEW ps \in Seq(Pass), ps # << >>
  PROVE  /\ Head(ps) = ps[1] /\ 1 \in DOMAIN ps
         /\ Tail(ps) \in Seq(Pass)
         /\ \A i \in DOMAIN Tail(ps) : i + 1 \in DOMAIN ps /\ Tail(ps)[i] = ps[i + 1]
         /\ Tail(ps) # << >> => Head(Tail(ps)) = Tail(ps)[1] /\ 1 \in DOMAIN Tail(ps)
<1> DEFINE n == Len(ps)
           u == Tail(ps)
<1>1. /\ n \in Nat \ {0} /\ DOMAIN ps = 1 .. n /\ Head(ps) = ps[1]
      /\ u \in Seq(Pass) /\ DOMAIN u = 1 .. n - 1 /\ \A i \in 1 .. n - 1 : u[i] = ps[i + 1]
  OBVIOUS
<1>2. \A s \in Seq(Pass) : s # << >> => Head(s) = s[1] /\ 1 \in DOMAIN s
  OBVIOUS
<1> HIDE DEF n, u
<1>3. \A i \in 1 .. n - 1 : i + 1 \in 1 .. n
  BY <1>1
<1>4. /\ u \in Seq(Pass) /\ \A i \in DOMAIN u : i + 1 \in DOMAIN ps /\ u[i] = ps[i + 1]
      /\ u # << >> => Head(u) = u[1] /\ 1 \in DOMAIN u
  BY <1>1, <1>2, <1>3
<1>5. QED
  BY <1>1, <1>2, <1>4 DEF u

\* The other passes leave the aggregates alone.
LEMMA OtherPassCounts ==
  ASSUME QueryInv, AggInv, passes # << >>, Head(passes).op # "aggregate",
         UNCHANGED <<setup, agg>>, passes' = passes \/ passes' = Tail(passes)
  PROVE  AggInv'
<1> USE DEF QueryInv
<1>1. passes \in Seq(Pass)
  BY DEF Types
<1>2. passes # << AggPass >>
  BY DEF AggPass, Over
<1>3. \A i \in DOMAIN passes : passes[i].op # "aggregate"
  BY <1>2 DEF AggInv
<1>4. ~Counting /\ agg = None
  BY <1>2 DEF AggInv, Counting
<1>5. \A i \in DOMAIN passes' : passes'[i].op # "aggregate"
  <2>1. CASE passes' = passes
    BY <1>3, <2>1
  <2>2. CASE passes' = Tail(passes)
    BY <1>1, <1>3, <2>2, LeftPasses
  <2>3. QED
    BY <2>1, <2>2
<1>6. ~Counting'
  BY <1>1, <1>4, <1>5, LeftPasses DEF Counting
<1>7. QED
  BY <1>5, <1>6 DEF AggInv

\* The rows of the chunks that a query has copied are finitely many.
LEMMA FiniteSelection ==
  ASSUME QueryInv
  PROVE  IsFiniteSet(index)
<1> USE DEF QueryInv
<1> DEFINE d == ChunkRows
           n == span * d
<1>1. d \in Nat \ {0} /\ span \in Nat /\ n \in Nat
  BY QueryAssumption DEF Types
<1>2. ASSUME NEW r \in index PROVE r \in 0 .. n
  <2> DEFINE k == r \div d
  <2>1. r \in Nat /\ k < span
    BY QueryAssumption DEF Types, ChunkAt
  <2>2. k \in Nat /\ r < (k + 1) * d
    BY <1>1, <2>1, Division
  <2> HIDE DEF k
  <2>3. span - (k + 1) \in Nat
    BY <1>1, <2>1, <2>2
  <2>4. (span - (k + 1)) * d \in Nat /\ (k + 1) * d \in Nat
    BY <1>1, <2>2, <2>3
  <2>5. (span - (k + 1)) * d = span * d - (k + 1) * d
    BY <1>1, <2>2
  <2>6. (k + 1) * d <= n
    BY <1>1, <2>4, <2>5
  <2>7. QED
    BY <1>1, <2>1, <2>2, <2>4, <2>6
<1>3. index \subseteq 0 .. n
  BY <1>2
<1>4. IsFiniteSet(0 .. n)
  BY <1>1, FS_Interval
<1>5. QED
  BY <1>3, <1>4, FS_Subset

\* The least value so far, and what a chunk has.
LEMMA SmallestOf ==
  ASSUME DataInv, NEW S \in SUBSET Rows, NEW old \in Values \cup {None}
  PROVE  /\ Smallest(S, old) \in Values \cup {None}
         /\ \A T \in SUBSET Rows :
              old = LeastValue(data, T) => Smallest(S, old) = LeastValue(data, T \cup S)
<1> DEFINE U == {data[r] : r \in S}
           all == U \cup ({old} \ {None})
<1>1. \A r \in Rows : data[r] \in Values
  BY DEF DataInv
<1>2. U \subseteq Values /\ all \subseteq Values /\ Values \subseteq Nat /\ (U = {} <=> S = {})
  BY <1>1, ValuesAre
<1>3. Smallest(S, old) = IF all = {} THEN None ELSE LeastOf(all)
  BY DEF Smallest, LeastOf
<1> HIDE DEF all
<1>4. Smallest(S, old) \in Values \cup {None}
  <2>1. all # {} => LeastOf(all) \in all
    BY <1>2, LeastExists
  <2>2. QED
    BY <1>2, <1>3, <2>1
<1>5. ASSUME NEW T \in SUBSET Rows, old = LeastValue(data, T)
      PROVE  Smallest(S, old) = LeastValue(data, T \cup S)
  <2> DEFINE V == {data[r] : r \in T}
  <2>1. V \subseteq Nat /\ V \subseteq Values /\ (V = {} <=> T = {})
    BY <1>1, <1>2
  <2>2. {data[r] : r \in T \cup S} = V \cup U
    OBVIOUS
  <2>3. LeastValue(data, T \cup S) = IF T \cup S = {} THEN None ELSE LeastOf(V \cup U)
    BY <2>2 DEF LeastValue
  <2>4. old = IF T = {} THEN None ELSE LeastOf(V)
    BY <1>5 DEF LeastValue
  <2> HIDE DEF V, U
  <2>5. CASE T = {}
    <3>1. all = U /\ V \cup U = U
      BY <2>1, <2>4, <2>5 DEF all
    <3>2. QED
      BY <1>2, <1>3, <2>3, <2>5, <3>1
  <2>6. CASE T # {}
    <3>1. V # {} /\ LeastOf(V) \in V
      BY <2>1, <2>6, LeastExists
    <3>2. old = LeastOf(V) /\ old # None
      BY <2>1, <2>4, <2>6, <3>1, QueryAssumption
    <3>3. all = U \cup {LeastOf(V)} /\ all # {}
      BY <3>2 DEF all
    <3>4. LeastOf(V \cup U) = LeastOf(U \cup {LeastOf(V)})
      BY <1>2, <2>1, <3>1, LeastOfUnion
    <3>5. QED
      BY <1>3, <2>3, <2>6, <3>3, <3>4
  <2>7. QED
    BY <2>5, <2>6
<1>6. QED
  BY <1>4, <1>5

\* The pass of an aggregate takes in the rows of its chunk, which are the rows
\* that it has seen and those that it had seen before.
LEMMA AggregateCounts ==
  ASSUME QueryInv, DataInv, AggInv, Visit, Head(passes).op = "aggregate"
  PROVE  AggInv'
<1> USE DEF QueryInv
<1> DEFINE S == index \cap Covered
           new == S \cap has
<1>1. /\ passes = << AggPass >> /\ setup /\ agg \in Tally /\ Counting
      /\ agg' = Aggregate(S) /\ index' = index
      /\ chunk' = IF chunk < span THEN chunk + 1 ELSE 0
      /\ passes' = IF chunk < span THEN passes ELSE << >>
      /\ UNCHANGED <<workload, has, data, setup, touched>>
  <2>1. passes # << >>
    BY DEF Visit
  <2>2. Counting
    BY <2>1 DEF Counting
  <2>3. passes = << AggPass >> /\ setup /\ agg \in Tally
    BY <2>1, <2>2 DEF AggInv
  <2>4. Selected(Head(passes)) = S
    BY DEF Selected
  <2>5. agg' = Aggregate(S) /\ index' = (index \ Covered) \cup S
    BY <2>4 DEF Visit
  <2>6. Tail(passes) = << >>
    BY <2>3
  <2>7. /\ chunk' = IF chunk < span THEN chunk + 1 ELSE 0
        /\ passes' = IF chunk < span THEN passes ELSE Tail(passes)
        /\ UNCHANGED <<workload, has, data, setup, touched>>
    BY DEF Visit, columns
  <2>8. QED
    BY <2>2, <2>3, <2>5, <2>6, <2>7
<1>2. /\ IsFiniteSet(index) /\ IsFiniteSet(S) /\ IsFiniteSet(new) /\ IsFiniteSet(Seen)
      /\ index \subseteq Rows
  <2>1. S \subseteq index /\ new \subseteq index /\ Seen \subseteq index
    BY DEF Seen
  <2>2. QED
    BY <2>1, FiniteSelection, FS_Subset DEF Types
<1>3. \A r \in Rows : data[r] \in Values /\ data[r] \in Nat
  BY ValuesAre DEF DataInv
<1>4. Seen \cap new = {} /\ Seen' = Seen \cup new
  <2>1. chunk \in Nat /\ span \in Nat /\ chunk <= span
    BY DEF Types
  <2>2. \A r \in index : ChunkAt(r) \in Nat /\ ChunkAt(r) < span
    BY <1>2, RowChunk DEF Types
  <2>3. Seen = {r \in index \cap has : ChunkAt(r) < chunk}
    BY <1>1 DEF Seen
  <2>4. new = {r \in index \cap has : ChunkAt(r) = chunk /\ chunk < span}
    BY <1>2 DEF Covered
  <2>5. Seen' = {r \in index \cap has : passes' = << >> \/ ChunkAt(r) < chunk'}
    BY <1>1 DEF Seen, ChunkAt
  <2> HIDE DEF new
  <2>6. CASE chunk < span
    <3>1. \A r \in index : ChunkAt(r) < chunk + 1 <=> ChunkAt(r) < chunk \/ ChunkAt(r) = chunk
      BY <2>1, <2>2
    <3>2. Seen' = {r \in index \cap has : ChunkAt(r) < chunk + 1}
      BY <1>1, <2>5, <2>6
    <3>3. QED
      BY <2>1, <2>2, <2>3, <2>4, <2>6, <3>1, <3>2
  <2>7. CASE chunk = span
    <3>1. Seen' = index \cap has
      BY <1>1, <2>1, <2>5, <2>7
    <3>2. Seen = index \cap has /\ new = {}
      BY <2>1, <2>2, <2>3, <2>4, <2>7
    <3>3. QED
      BY <3>1, <3>2
  <2>8. QED
    BY <2>1, <2>6, <2>7
<1>5. chunk >= grown => new = {}
  <2>1. \A r \in has : ChunkAt(r) < grown
    BY DEF Room
  <2>2. \A r \in new : ChunkAt(r) = chunk /\ r \in has
    BY DEF Covered
  <2>3. chunk \in Nat /\ grown \in Nat
    BY DEF Types
  <2>4. QED
    BY <2>1, <2>2, <2>3
<1>6. Total(S) = SumOf(data, S) /\ SumOf(data, S) \in Nat
  BY <1>2, <1>3, TotalIsSum, SumIsNat
<1>7. Aggregate(S) = IF chunk >= grown THEN agg
                     ELSE [sum |-> Wrap(agg.sum + SumOf(data, S)), count |-> agg.count + Cardinality(S),
                           min |-> Smallest(S, agg.min)]
  BY <1>6 DEF Aggregate
<1>8. S \subseteq Rows /\ new \subseteq S /\ new \subseteq Rows /\ Seen \subseteq Rows
  BY <1>2 DEF Seen
<1> HIDE DEF S
<1>9. agg.sum \in Nat /\ agg.count \in Nat /\ agg.min \in Values \cup {None}
  BY <1>1, ValuesAre DEF Tally
<1>10. agg' \in Tally
  <2>1. Wrap(agg.sum + SumOf(data, S)) \in Values
    BY <1>6, <1>9, ValuesAre
  <2>2. agg.count + Cardinality(S) \in Nat
    BY <1>2, <1>9, FS_CardinalityType
  <2>3. Smallest(S, agg.min) \in Values \cup {None}
    BY <1>8, <1>9, SmallestOf
  <2>4. QED
    BY <1>1, <1>7, <2>1, <2>2, <2>3 DEF Tally
<1>11. ASSUME touched = {}, ~Deleting
       PROVE  /\ agg'.sum = Wrap(SumOf(data, Seen'))
              /\ index \subseteq has => /\ agg'.count = Cardinality(Seen')
                                        /\ agg'.min = LeastValue(data, Seen')
  <2>1. /\ agg.sum = Wrap(SumOf(data, Seen))
        /\ index \subseteq has => agg.count = Cardinality(Seen) /\ agg.min = LeastValue(data, Seen)
    BY <1>1, <1>11 DEF AggInv
  <2>2. CASE chunk >= grown
    <3>1. agg' = agg /\ Seen' = Seen
      BY <1>1, <1>4, <1>5, <1>7, <2>2
    <3>2. QED
      BY <2>1, <3>1
  <2>3. CASE ~(chunk >= grown)
    <3>1. agg' = [sum |-> Wrap(agg.sum + SumOf(data, S)), count |-> agg.count + Cardinality(S),
                  min |-> Smallest(S, agg.min)]
      BY <1>1, <1>7, <2>3
    <3>2. SumOf(data, S) = SumOf(data, new)
      <4> DEFINE none == S \ has
      <4>1. IsFiniteSet(none) /\ none \cap new = {} /\ S = new \cup none
        BY <1>2, FS_Subset DEF new
      <4>2. \A r \in none : data[r] = 0
        BY <1>8, <1>11 DEF DataInv
      <4>3. \A r \in new \cup none : data[r] \in Nat
        BY <1>3, <1>8
      <4> HIDE DEF none
      <4>4. SumOf(data, new \cup none) = SumOf(data, new) + SumOf(data, none)
        BY <1>2, <4>1, <4>3, SumOfUnion
      <4>5. SumOf(data, none) = 0
        BY <4>1, <4>2, SumOfZeros
      <4>6. SumOf(data, new) \in Nat
        BY <1>2, <1>3, <1>8, SumIsNat
      <4>7. QED
        BY <4>1, <4>4, <4>5, <4>6
    <3> HIDE DEF new
    <3>3. SumOf(data, Seen') = SumOf(data, Seen) + SumOf(data, new)
      <4>1. \A r \in Seen \cup new : data[r] \in Nat
        BY <1>3, <1>8
      <4>2. SumOf(data, Seen \cup new) = SumOf(data, Seen) + SumOf(data, new)
        BY <1>2, <1>4, <4>1, SumOfUnion
      <4>3. QED
        BY <1>4, <4>2
    <3>4. SumOf(data, Seen) \in Nat /\ SumOf(data, new) \in Nat
      BY <1>2, <1>3, <1>8, SumIsNat
    <3>5. agg'.sum = Wrap(SumOf(data, Seen'))
      <4>1. agg'.sum = Wrap(Wrap(SumOf(data, Seen)) + SumOf(data, new))
        BY <2>1, <3>1, <3>2
      <4>2. Wrap(Wrap(SumOf(data, Seen)) + SumOf(data, new)) = Wrap(SumOf(data, Seen) + SumOf(data, new))
        BY <3>4, ValuesAre
      <4>3. QED
        BY <3>3, <4>1, <4>2
    <3>6. ASSUME index \subseteq has
          PROVE  agg'.count = Cardinality(Seen') /\ agg'.min = LeastValue(data, Seen')
      <4>1. S = new
        BY <3>6 DEF S, new
      <4>2. Cardinality(Seen \cup new) = Cardinality(Seen) + Cardinality(new)
        <5>1. /\ Cardinality(Seen \cup new)
                   = Cardinality(Seen) + Cardinality(new) - Cardinality(Seen \cap new)
              /\ Cardinality(Seen) \in Nat /\ Cardinality(new) \in Nat
          BY <1>2, FS_Union, FS_CardinalityType
        <5>2. Cardinality(Seen \cap new) = 0
          BY <1>4, FS_EmptySet
        <5>3. QED
          BY <5>1, <5>2
      <4>3. agg'.count = Cardinality(Seen')
        BY <1>4, <2>1, <3>1, <3>6, <4>1, <4>2
      <4>4. Smallest(S, agg.min) = LeastValue(data, Seen \cup S)
        BY <1>8, <1>9, <2>1, <3>6, SmallestOf
      <4>5. QED
        BY <1>4, <3>1, <4>1, <4>3, <4>4
    <3>7. QED
      BY <3>5, <3>6
  <2>4. QED
    BY <2>2, <2>3
<1>12. (\E i \in DOMAIN passes' : passes'[i].op = "aggregate") => passes' = << AggPass >>
  <2>1. DOMAIN << >> = {}
    OBVIOUS
  <2>2. QED
    BY <1>1, <2>1
<1>13. QED
  BY <1>1, <1>10, <1>11, <1>12 DEF AggInv, Deleting

LEMMA QueryCounts ==
  ASSUME QueryInv, DataInv, AggInv, QueryStep
  PROVE  DataInv' /\ AggInv'
<1>1. DataInv'
  BY QueryData
<1>2. CASE \E c \in Calls : Enter(c)
  BY <1>1, <1>2, EnterCounts
<1>3. CASE Visit
  <2>1. CASE Head(passes).op = "aggregate"
    BY <1>1, <1>3, <2>1, AggregateCounts
  <2>2. CASE Head(passes).op # "aggregate"
    <3>1. agg' = agg /\ setup' = setup /\ passes # << >> /\ (passes' = passes \/ passes' = Tail(passes))
      BY <1>3, <2>2 DEF Visit
    <3>2. QED
      BY <1>1, <2>2, <3>1, OtherPassCounts
  <2>3. QED
    BY <2>1, <2>2
<1>4. CASE Clear
  <2>1. /\ agg' = agg /\ setup' = setup /\ passes # << >> /\ passes' = Tail(passes)
        /\ Head(passes).op # "aggregate"
    BY <1>4 DEF Clear
  <2>2. QED
    BY <1>1, <2>1, OtherPassCounts
<1>5. CASE Return
  <2>1. UNCHANGED <<workload, has, data, touched, setup, index, passes, chunk, agg>>
    BY <1>5 DEF Return, columns
  <2>2. Seen' = Seen
    BY <2>1 DEF Seen, ChunkAt
  <2>3. Counting' <=> Counting
    BY <2>1 DEF Counting
  <2>4. AggInv'
    BY <2>1, <2>2, <2>3 DEF AggInv, Deleting
  <2>5. QED
    BY <1>1, <2>4
<1>6. QED
  BY <1>1, <1>2, <1>3, <1>4, <1>5 DEF QueryStep

LEMMA NextCounts == QueryInv /\ DataInv /\ AggInv /\ [Next]_vars => DataInv' /\ AggInv'
<1> SUFFICES ASSUME QueryInv, DataInv, AggInv, [Next]_vars PROVE DataInv' /\ AggInv'
  OBVIOUS
<1>1. CASE UNCHANGED vars
  <2>1. /\ UNCHANGED <<workload, has, data, length, change, touched>>
        /\ UNCHANGED <<setup, index, span, passes, chunk, calls, agg>>
    BY <1>1 DEF vars, rows, columns, writers, query
  <2>2. Seen' = Seen
    BY <2>1 DEF Seen, ChunkAt
  <2>3. DataInv'
    BY <2>1 DEF DataInv, Deleting
  <2>4. AggInv'
    BY <2>1, <2>2 DEF AggInv, Counting, Deleting
  <2>5. QED
    BY <2>3, <2>4
<1>2. ASSUME NEW w \in Writer, WriterStep(w) PROVE DataInv' /\ AggInv'
  BY <1>2, WriterCounts
<1>3. CASE QueryStep
  BY <1>3, QueryCounts
<1>4. QED
  BY <1>1, <1>2, <1>3 DEF Next, WriterStep, QueryStep

LEMMA CountInvariant == Spec => [](QueryInv /\ DataInv /\ AggInv)
<1>1. QueryInv /\ DataInv /\ AggInv /\ [Next]_vars => (QueryInv /\ DataInv /\ AggInv)'
  BY NextKeeps, NextCounts
<1>2. Init => QueryInv /\ DataInv /\ AggInv
  BY InitKeeps, InitCounts
<1>3. QED
  BY <1>1, <1>2, PTL DEF Spec

-----------------------------------------------------------------------------
(* Theorems about aggregates *)

\* Types; data and sums are numbers of the width of the column (column_numbers.go,
\* column_numeric.go), values lie in the chunks that the columns have, and a
\* query never copies more chunks than the fill list has.
THEOREM QueryTypes == Spec => []TypeOK
<1>1. QueryInv /\ DataInv /\ AggInv => TypeOK
  <2> SUFFICES ASSUME QueryInv, DataInv, AggInv PROVE TypeOK
    OBVIOUS
  <2>1. agg # None => agg.sum \in Values /\ agg.min \in Values \cup {None}
    BY DEF AggInv, Counting, Tally
  <2>2. QED
    BY <2>1 DEF TypeOK, QueryInv, Types, Room, DataInv
<1>2. QED
  BY <1>1, CountInvariant, PTL

\* Sum, Min and the two parts of Avg (column_numeric.go) go through the selection
\* chunk by chunk, and wrap around as the column does: if nothing was committed
\* since the query copied the fill list and no row is ever deleted, they are those
\* of the selected rows; the sum although it takes in rows without a value.
THEOREM AggregatesExact == Spec => []AggregatesAreExact
<1>1. QueryInv /\ DataInv /\ AggInv => AggregatesAreExact
  <2> SUFFICES ASSUME QueryInv, DataInv, AggInv, agg # None, call = None, touched = {}, ~Deleting
               PROVE  /\ agg.sum = Wrap(Total(index \cap has))
                      /\ index \subseteq has =>
                           agg.count = Cardinality(index) /\ agg.min = Smallest(index, None)
    BY Zenon DEF AggregatesAreExact
  <2>1. passes = << >>
    BY DEF QueryInv, Calling
  <2>2. Seen = index \cap has
    BY <2>1 DEF Seen
  <2>3. /\ agg.sum = Wrap(SumOf(data, index \cap has))
        /\ index \subseteq has => /\ agg.count = Cardinality(index \cap has)
                                  /\ agg.min = LeastValue(data, index \cap has)
    BY <2>2 DEF AggInv, Counting
  <2>4. agg.sum = Wrap(Total(index \cap has))
    BY <2>3, TotalIsSum
  <2>5. Smallest(index, None) = LeastValue(data, index)
    <3>1. index \in SUBSET Rows /\ {} \in SUBSET Rows /\ {} \cup index = index
      BY DEF QueryInv, Types
    <3>2. None = LeastValue(data, {})
      BY DEF LeastValue
    <3>3. QED
      BY <3>1, <3>2, SmallestOf
  <2>6. ASSUME index \subseteq has PROVE index \cap has = index
    BY <2>6
  <2>7. QED
    BY <2>3, <2>4, <2>5, <2>6
<1>2. QED
  BY <1>1, CountInvariant, PTL
=============================================================================
