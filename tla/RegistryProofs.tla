--------------------------- MODULE RegistryProofs ---------------------------
(***************************************************************************)
(* Theorems about the registry of columns, for any number of goroutines,   *)
(* names and operations and any room in the first array.                   *)
(*                                                                         *)
(* Operations that create indexes hold the lock while they change the      *)
(* registry and the others run alone, so there is at most one goroutine    *)
(* that changes it: SliceInv says how the slice that it works on differs   *)
(* from the one that everybody reads, step by step.  NameInv and FeedInv   *)
(* compare the latter with the catalog of what was created and not         *)
(* dropped, up to the operations that are under way.                       *)
(***************************************************************************)
EXTENDS Registry, TLAPS, FiniteSetTheorems, SequenceTheorems, WellFoundedInduction

-----------------------------------------------------------------------------
(* Types, and what operations are under way *)

Creating == Locking \cup {"createColumn"}
Dropping == {"dropColumn", "dropIndex"}
Kinds == Ops \cup {"none"}

EntryType == [name : Names \cup Indexes \cup {None}, cols : Seq(Nat)]
Operation ==
  [kind : Kinds, name : Names \cup Indexes \cup {None}, on : Names \cup {None}, col : Nat, obj : Nat]
ObjectType == [kind : Ops, on : Names \cup {None}, chunks : Nat]
Slice == [array : Nat, len : Nat]
Listed == [name : Names \cup Indexes, on : Names \cup {None}, col : Nat, obj : Nat]

Fits(s) == s.array \in DOMAIN heap /\ s.len <= Len(heap[s.array])

Types ==
  /\ workload \in Workloads /\ total \in 0 .. workload.total
  /\ heap \in Seq(Seq(EntryType)) /\ \A i \in DOMAIN heap : heap[i] # << >>
  /\ head \in Slice /\ slice \in [Admin -> Slice]
  /\ Fits(head) /\ \A a \in Admin : Fits(slice[a])
  /\ object \in Seq(ObjectType)
  /\ op \in [Admin -> Operation] /\ pc \in [Admin -> Nat \ {0}]
  /\ lock \in Admin \cup {None}
  /\ catalog \in SUBSET Listed
  /\ top \in 0 .. workload.rows /\ count \in 0 .. top /\ commits \in Nat

\* The place of the last step of an operation.
Steps(kind) ==
  CASE kind \in Locking -> 8
    [] kind = "createColumn" -> 4
    [] kind = "dropColumn" -> 3
    [] kind = "dropIndex" -> 6
    [] OTHER -> 1

Active(a) == op[a].kind # "none"
Sharing(a) == op[a].kind \in Locking

OpInv ==
  /\ \A a \in Admin :
       /\ pc[a] <= Steps(op[a].kind)
       /\ ~Active(a) => op[a] = Idle
       /\ op[a].col \in DOMAIN object \cup {0}
       /\ op[a].kind \in {"createColumn", "dropColumn"} => op[a].name \in Names
       /\ op[a].kind \in Locking \cup {"dropIndex"} => op[a].name \in Indexes
       /\ op[a].kind = "createColumn" => op[a].on = None
       /\ Sharing(a) => op[a].on \in Names
       /\ op[a].kind \in Creating =>
            /\ op[a].obj \in DOMAIN object /\ object[op[a].obj].on = op[a].on
            /\ object[op[a].obj].kind = op[a].kind
       /\ op[a].kind \in Dropping => op[a].obj = 0
  /\ \A a, b \in Admin : a # b /\ Active(a) /\ Active(b) =>
       Sharing(a) /\ Sharing(b) /\ op[a].name # op[b].name /\ op[a].obj # op[b].obj
  /\ \A a \in Admin : lock = a <=> (Sharing(a) /\ pc[a] >= 2)

\* Names and objects are not given twice.
CatalogInv ==
  /\ \A e \in catalog :
       /\ e.obj \in DOMAIN object /\ object[e.obj].on = e.on
       /\ e.col \in DOMAIN object \cup {0}
       /\ e.name \in Names => e.on = None
       /\ e.name \in Indexes => e.on \in Names
  /\ \A e, f \in catalog : e.name = f.name \/ e.obj = f.obj => e = f
  /\ \A e \in catalog, a \in Admin : Active(a) =>
       /\ e.name # op[a].name /\ e.obj # op[a].obj
       /\ op[a].kind = "createColumn" => e.col # op[a].obj

-----------------------------------------------------------------------------
(* The registry *)

InHead == 1 .. head.len
E(i) == heap[head.array][i]
Main(i) == E(i).cols[1]
Fed(i) == 2 .. Len(E(i).cols)
Is(i, name, obj) == E(i).name = name /\ Main(i) = obj

\* Operations with an entry in the registry that the catalog has not.
Shown(a) == (Sharing(a) /\ pc[a] >= 5) \/ op[a].kind \in Dropping

NameInv ==
  /\ \A i \in InHead :
       /\ E(i).name \in Names \cup Indexes
       /\ E(i).cols # << >> /\ \A k \in DOMAIN E(i).cols : E(i).cols[k] \in DOMAIN object
       /\ \/ \E e \in catalog : Is(i, e.name, e.obj)
          \/ \E a \in Admin : Shown(a) /\ E(i).name = op[a].name
  /\ \A i, j \in InHead : E(i).name = E(j).name \/ Main(i) = Main(j) => i = j
  /\ \A e \in catalog : \E i \in InHead : Is(i, e.name, e.obj)
  /\ \A a \in Admin :
       /\ op[a].kind \in Creating /\ ~Shown(a) => \A i \in InHead : E(i).name # op[a].name
       /\ Sharing(a) /\ Shown(a) => \E i \in InHead : Is(i, op[a].name, op[a].obj)
       /\ Sharing(a) => \E i \in InHead : Is(i, op[a].on, op[a].col)
       /\ op[a].kind = "dropIndex" =>
            \E i \in InHead : E(i).name = op[a].name /\ object[Main(i)].on = op[a].on

\* The index that is being created is behind its column, or the one that is
\* being dropped still is.
Attaching(a, i, o) == Sharing(a) /\ pc[a] >= 7 /\ Is(i, op[a].on, op[a].col) /\ o = op[a].obj
Detaching(a, i, o) ==
  /\ op[a].kind = "dropIndex" /\ pc[a] <= 2 /\ E(i).name = op[a].on
  /\ \E j \in InHead : Is(j, op[a].name, o)

FeedInv ==
  /\ \A e \in catalog, i \in InHead :
       Is(i, e.on, e.col) => \E k \in Fed(i) : E(i).cols[k] = e.obj
  /\ \A a \in Admin, i \in InHead :
       Sharing(a) /\ pc[a] >= 7 /\ Is(i, op[a].on, op[a].col) =>
         \E k \in Fed(i) : E(i).cols[k] = op[a].obj
  /\ \A i \in InHead : \A k \in Fed(i) :
       \/ \E e \in catalog : Is(i, e.on, e.col) /\ E(i).cols[k] = e.obj
       \/ \E a \in Admin : Attaching(a, i, E(i).cols[k]) \/ Detaching(a, i, E(i).cols[k])
  /\ \A i \in InHead : \A k, l \in Fed(i) : E(i).cols[k] = E(i).cols[l] => k = l

-----------------------------------------------------------------------------
(* The slice of the goroutine that changes the registry *)

S(a, i) == heap[slice[a].array][i]
InSlice(a) == 1 .. slice[a].len

\* Where the slice is the one that everybody reads.
Same(a) ==
  \/ op[a].kind = "createColumn" /\ pc[a] = 3
  \/ Sharing(a) /\ pc[a] \in {3, 6, 7, 8}
  \/ op[a].kind = "dropColumn" /\ pc[a] = 2
  \/ op[a].kind = "dropIndex" /\ pc[a] \in {2, 3, 5}

\* Where it has one more entry.
Larger(a) == op[a].kind \in Creating /\ pc[a] = 4

\* Where the entry that is dropped is gone.
Smaller(a) ==
  \/ op[a].kind = "dropColumn" /\ pc[a] = 3
  \/ op[a].kind = "dropIndex" /\ pc[a] = 6

SliceInv ==
  \A a \in Admin :
    /\ Same(a) => slice[a] = head
    /\ Larger(a) =>
         /\ slice[a].len = head.len + 1
         /\ \A i \in InHead : S(a, i) = E(i)
         /\ S(a, head.len + 1) = Entry(op[a].name, <<op[a].obj>>)
    /\ Smaller(a) =>
         /\ \A j \in InSlice(a) : S(a, j).name # op[a].name
         /\ \A j \in InSlice(a) : \E i \in InHead : S(a, j) = E(i)
         /\ \A i \in InHead : E(i).name # op[a].name => \E j \in InSlice(a) : S(a, j) = E(i)
         /\ \A j, k \in InSlice(a) : S(a, j).name = S(a, k).name => j = k

\* Columns have the chunks that commits have made room for.
Reaches(o) == object[o].kind = "createColumn" /\ o \notin excused => object[o].chunks >= commits

ReachInv ==
  /\ \A i \in InHead : Reaches(Main(i))
  /\ \A a \in Admin : op[a].kind = "createColumn" /\ pc[a] > 1 => Reaches(op[a].obj)
  /\ commits <= ChunkAt(top) + 1

Inv == Types /\ OpInv /\ CatalogInv /\ NameInv /\ FeedInv /\ SliceInv /\ ReachInv

-----------------------------------------------------------------------------
(* Sequences, sets and numbers *)

LEMMA FunctionIsSeq ==
  ASSUME NEW T, NEW n \in Nat, NEW f \in [1 .. n -> T]
  PROVE  f \in Seq(T) /\ Len(f) = n /\ DOMAIN f = 1 .. n
OBVIOUS

\* append() of one more object to the list of an entry.
LEMMA ListGrows ==
  ASSUME NEW T, NEW s \in Seq(T), s # << >>, NEW x \in T
  PROVE  (<<s[1]>> \o Tail(s)) \o <<x>> = Append(s, x)
<1>1. /\ Tail(s) \in Seq(T) /\ Len(Tail(s)) = Len(s) - 1 /\ Len(s) \in Nat \ {0}
      /\ \A i \in 1 .. Len(Tail(s)) : Tail(s)[i] = s[i + 1]
  BY HeadTailProperties, EmptySeq
<1>2. s[1] \in T
  BY <1>1, ElementOfSeq
<1>3. <<s[1]>> \in Seq(T) /\ Len(<<s[1]>>) = 1 /\ <<s[1]>>[1] = s[1]
  BY <1>2
<1>4. /\ <<s[1]>> \o Tail(s) \in Seq(T) /\ Len(<<s[1]>> \o Tail(s)) = Len(s)
      /\ \A i \in 1 .. Len(s) :
           (<<s[1]>> \o Tail(s))[i] = IF i <= 1 THEN <<s[1]>>[i] ELSE Tail(s)[i - 1]
  <2>1. 1 + (Len(s) - 1) = Len(s)
    BY <1>1
  <2>2. QED
    BY <1>1, <1>3, <2>1, ConcatProperties
<1>5. \A i \in 1 .. Len(s) : (<<s[1]>> \o Tail(s))[i] = s[i]
  BY <1>1, <1>3, <1>4
<1>6. <<s[1]>> \o Tail(s) = s
  BY <1>4, <1>5, SeqEqual
<1>7. QED
  BY <1>6, AppendIsConcat

LEMMA LeastExists ==
  ASSUME NEW U \in SUBSET Nat, U # {}
  PROVE  First(U) \in U /\ \A j \in U : First(U) <= j
<1>1. PICK x \in U : \A y \in U : ~(<<y, x>> \in OpToRel(<, Nat))
  BY NatLessThanWellFounded, WFMin, Zenon
<1>2. ASSUME NEW y \in U, y < x PROVE FALSE
  <2>1. <<y, x>> \in Nat \X Nat /\ <<y, x>>[1] < <<y, x>>[2]
    BY <1>2
  <2>2. <<y, x>> \in OpToRel(<, Nat)
    BY <2>1, Zenon DEF OpToRel
  <2>3. QED
    BY <1>1, <2>2, Zenon
<1>3. \A y \in U : x <= y
  BY <1>2
<1>4. QED
  BY <1>3 DEF First

\* Rows further on are in the same chunk or in a later one.
LEMMA ChunksFollow ==
  ASSUME NEW x \in Nat, NEW y \in Nat, x <= y
  PROVE  ChunkAt(x) \in Nat /\ ChunkAt(y) \in Nat /\ ChunkAt(x) <= ChunkAt(y)
<1> DEFINE d == ChunkRows
           q == x \div d
           r == y \div d
<1>1. d \in Nat \ {0}
  BY RegistryAssumption
<1> HIDE DEF d
<1>2. q \in Nat /\ q * d <= x /\ r \in Nat /\ y < (r + 1) * d
  BY <1>1
<1> HIDE DEF q, r
<1>3. ASSUME r < q PROVE FALSE
  <2>1. q - (r + 1) \in Nat
    BY <1>2, <1>3
  <2>2. (q - (r + 1)) * d \in Nat
    BY <1>1, <2>1
  <2>3. q * d = (r + 1) * d + (q - (r + 1)) * d
    BY <1>1, <1>2
  <2>4. (r + 1) * d \in Nat /\ q * d \in Nat
    BY <1>1, <1>2
  <2>5. QED
    BY <1>2, <2>2, <2>3, <2>4
<1>4. q <= r
  BY <1>2, <1>3
<1>5. QED
  BY <1>2, <1>4 DEF ChunkAt, q, r, d

\* The positions of a set, in their order.
Places(U) ==
  [k \in 1 .. Cardinality(U) |-> CHOOSE i \in U : Cardinality({j \in U : j <= i}) = k]

LEMMA PlacesProperty ==
  ASSUME NEW m \in Nat, NEW U \in SUBSET (1 .. m)
  PROVE  /\ Cardinality(U) \in 0 .. m
         /\ Places(U) \in [1 .. Cardinality(U) -> U]
         /\ \A k, l \in 1 .. Cardinality(U) : Places(U)[k] = Places(U)[l] => k = l
         /\ \A i \in U : \E k \in 1 .. Cardinality(U) : Places(U)[k] = i
         /\ 1 \in U => 1 \in 1 .. Cardinality(U) /\ Places(U)[1] = 1
<1> DEFINE n == Cardinality(U)
           Upto(i) == {j \in U : j <= i}
           rank == [i \in U |-> Cardinality(Upto(i))]
           f == Places(U)
<1> HIDE DEF n, rank, f
<1>0. \A i \in U : i \in Nat \ {0}
  OBVIOUS
<1>1. IsFiniteSet(U) /\ n \in 0 .. m
  <2>1. 1 \in Int /\ m \in Int
    OBVIOUS
  <2>2. IsFiniteSet(1 .. m) /\ Cardinality(1 .. m) = m
    BY <2>1, FS_Interval
  <2>3. IsFiniteSet(U) /\ Cardinality(U) <= m
    BY <2>2, FS_Subset
  <2>4. QED
    BY <2>3, FS_CardinalityType DEF n
<1>2. ASSUME NEW i \in U
      PROVE  /\ IsFiniteSet(Upto(i)) /\ Cardinality(Upto(i)) \in 1 .. n
             /\ i = 1 => Cardinality(Upto(i)) = 1
  <2>1. Upto(i) \in SUBSET U /\ i \in Upto(i)
    OBVIOUS
  <2>2. i = 1 => Upto(i) = {1}
    <3>1. \A j \in U : j <= 1 <=> j = 1
      BY <1>0
    <3>2. QED
      BY <3>1, Zenon
  <2> HIDE DEF Upto
  <2>3. IsFiniteSet(Upto(i)) /\ Cardinality(Upto(i)) <= n /\ Cardinality(Upto(i)) \in Nat
    BY <1>1, <2>1, FS_Subset, FS_CardinalityType DEF n
  <2>4. Cardinality(Upto(i)) # 0
    BY <2>1, <2>3, FS_EmptySet
  <2>5. i = 1 => Cardinality(Upto(i)) = 1
    BY <2>2, FS_Singleton
  <2>6. QED
    BY <1>1, <2>3, <2>4, <2>5
<1>3. ASSUME NEW i \in U, NEW j \in U, i < j
      PROVE  Cardinality(Upto(i)) # Cardinality(Upto(j))
  <2>1. \A k \in U : k <= i => k <= j
    BY <1>0, <1>3
  <2>2. j <= j /\ ~(j <= i)
    BY <1>0, <1>3
  <2>3. Upto(i) \in SUBSET Upto(j) /\ j \in Upto(j) /\ j \notin Upto(i)
    BY <2>1, <2>2, Zenon
  <2>4. QED
    BY <1>2, <2>3, FS_Subset
<1>4. \A i, j \in U : Cardinality(Upto(i)) = Cardinality(Upto(j)) => i = j
  BY <1>3
<1> HIDE DEF Upto
<1>5. \A k \in 1 .. n : \E i \in U : Cardinality(Upto(i)) = k
  <2>1. rank \in [U -> 1 .. n]
    BY <1>2 DEF rank
  <2>2. \A i, j \in U : rank[i] = rank[j] => i = j
    BY <1>4 DEF rank
  <2>3. rank \in Injection(U, 1 .. n)
    BY <2>1, <2>2 DEF Injection, IsInjective
  <2>4. 1 \in Int /\ n \in Int /\ n \in Nat
    BY <1>1
  <2>5. IsFiniteSet(1 .. n) /\ Cardinality(1 .. n) = n
    BY <2>4, FS_Interval
  <2>6. rank \in Surjection(U, 1 .. n)
    BY <2>3, <2>5, FS_Injection DEF n
  <2>7. \A k \in 1 .. n : \E i \in U : rank[i] = k
    BY <2>6 DEF Surjection
  <2>8. QED
    BY <2>7 DEF rank
<1>6. f = [k \in 1 .. n |-> CHOOSE i \in U : Cardinality(Upto(i)) = k]
  BY DEF f, Places, Upto, n
<1>7. /\ f \in [1 .. n -> U]
      /\ \A k \in 1 .. n : Cardinality(Upto(f[k])) = k
  BY <1>5, <1>6
<1>8. \A k, l \in 1 .. n : f[k] = f[l] => k = l
  BY <1>7
<1>9. \A i \in U : \E k \in 1 .. n : f[k] = i
  BY <1>2, <1>4, <1>7
<1>10. 1 \in U => 1 \in 1 .. n /\ f[1] = 1
  <2>1. 1 \in U => Cardinality(Upto(1)) = 1 /\ 1 \in 1 .. n
    BY <1>2
  <2>2. QED
    BY <1>4, <1>7, <2>1
<1>11. QED
  BY <1>1, <1>7, <1>8, <1>9, <1>10 DEF n, f

\* What is picked from a sequence are the elements at the positions, each once.
LEMMA PickedProperty ==
  ASSUME NEW T, NEW s \in Seq(T), NEW U \in SUBSET (1 .. Len(s))
  PROVE  /\ Picked(s, U) \in Seq(T) /\ Len(Picked(s, U)) = Cardinality(U)
         /\ \A k \in 1 .. Cardinality(U) : Picked(s, U)[k] = s[Places(U)[k]]
<1>1. Len(s) \in Nat
  OBVIOUS
<1>2. /\ Cardinality(U) \in Nat
      /\ \A k \in 1 .. Cardinality(U) : Places(U)[k] \in 1 .. Len(s)
  <2> SUFFICES ASSUME NEW m \in Nat, m = Len(s)
               PROVE  /\ Cardinality(U) \in Nat
                      /\ \A k \in 1 .. Cardinality(U) : Places(U)[k] \in 1 .. m
    BY <1>1
  <2>1. U \in SUBSET (1 .. m)
    OBVIOUS
  <2>2. Cardinality(U) \in 0 .. m /\ Places(U) \in [1 .. Cardinality(U) -> U]
    BY <2>1, PlacesProperty
  <2>3. \A k \in 1 .. Cardinality(U) : Places(U)[k] \in U
    BY <2>2, Zenon
  <2>4. Cardinality(U) \in Nat
    BY <2>2
  <2>5. QED
    BY <2>1, <2>3, <2>4, Zenon
<1>3. \A k \in 1 .. Cardinality(U) : s[Places(U)[k]] \in T
  BY <1>2, ElementOfSeq
<1>4. \A k \in 1 .. Cardinality(U) :
        Places(U)[k] = CHOOSE i \in U : Cardinality({j \in U : j <= i}) = k
  BY Zenon DEF Places
<1>5. \A k \in 1 .. Cardinality(U) :
        s[CHOOSE i \in U : Cardinality({j \in U : j <= i}) = k] \in T
  BY <1>3, <1>4, Zenon
<1>6. Picked(s, U) \in [1 .. Cardinality(U) -> T]
  BY <1>5, Zenon DEF Picked
<1>7. \A k \in 1 .. Cardinality(U) : Picked(s, U)[k] = s[Places(U)[k]]
  BY <1>4, Zenon DEF Picked
<1>8. Picked(s, U) \in Seq(T) /\ Len(Picked(s, U)) = Cardinality(U)
  BY <1>2, <1>6, FunctionIsSeq, Zenon
<1>9. QED
  BY <1>7, <1>8

-----------------------------------------------------------------------------
(* Operations step by step *)

LEMMA Turns ==
  ASSUME Types, OpInv, NEW a \in Admin
  PROVE  /\ Turn(a, "grow") <=> op[a].kind = "createColumn" /\ pc[a] = 1
         /\ Turn(a, "lock") <=> Sharing(a) /\ pc[a] = 1
         /\ Turn(a, "unlock") <=> Sharing(a) /\ pc[a] = 8
         /\ Turn(a, "load") <=> \/ op[a].kind = "createColumn" /\ pc[a] = 2
                                \/ Sharing(a) /\ pc[a] \in {2, 5}
                                \/ op[a].kind = "dropColumn" /\ pc[a] = 1
                                \/ op[a].kind = "dropIndex" /\ pc[a] \in {1, 4}
         /\ Turn(a, "put") <=> op[a].kind \in Creating /\ pc[a] = 3
         /\ Turn(a, "attach") <=> Sharing(a) /\ pc[a] = 6
         /\ Turn(a, "detach") <=> op[a].kind = "dropIndex" /\ pc[a] = 2
         /\ Turn(a, "filter") <=> \/ op[a].kind = "dropColumn" /\ pc[a] = 2
                                  \/ op[a].kind = "dropIndex" /\ pc[a] = 5
         /\ Turn(a, "store") <=> \/ op[a].kind = "createColumn" /\ pc[a] = 4
                                 \/ Sharing(a) /\ pc[a] \in {4, 7}
                                 \/ op[a].kind = "dropColumn" /\ pc[a] = 3
                                 \/ op[a].kind = "dropIndex" /\ pc[a] \in {3, 6}
<1>1. /\ pc[a] \in Nat \ {0} /\ op[a].kind \in Kinds /\ pc[a] <= Steps(op[a].kind)
  BY DEF Types, OpInv, Operation
<1>2. CASE op[a].kind = "none"
  BY <1>1, <1>2 DEF Turn, Script, Sharing, Locking, Creating
<1>3. CASE op[a].kind = "createColumn"
  <2>1. pc[a] \in {1, 2, 3, 4}
    BY <1>1, <1>3 DEF Steps, Locking
  <2>2. QED
    BY <1>3, <2>1 DEF Turn, Script, Sharing, Locking, Creating
<1>4. CASE Sharing(a)
  <2>1. pc[a] \in 1 .. 8
    BY <1>1, <1>4 DEF Steps, Sharing
  <2>2. Script[op[a].kind] = StoreIndex
    BY <1>4 DEF Script, Sharing, Locking
  <2>3. op[a].kind \notin {"createColumn", "dropColumn", "dropIndex"} /\ op[a].kind \in Creating
    BY <1>4 DEF Sharing, Locking, Creating
  <2>4. QED
    BY <1>4, <2>1, <2>2, <2>3 DEF Turn, StoreIndex
<1>5. CASE op[a].kind = "dropColumn"
  <2>1. pc[a] \in {1, 2, 3}
    BY <1>1, <1>5 DEF Steps, Locking
  <2>2. QED
    BY <1>5, <2>1 DEF Turn, Script, Sharing, Locking, Creating
<1>6. CASE op[a].kind = "dropIndex"
  <2>1. pc[a] \in {1, 2, 3, 4, 5, 6}
    BY <1>1, <1>6 DEF Steps, Locking
  <2>2. QED
    BY <1>6, <2>1 DEF Turn, Script, Sharing, Locking, Creating
<1>7. QED
  BY <1>1, <1>2, <1>3, <1>4, <1>5, <1>6 DEF Kinds, Ops, Sharing, Locking

\* The step of a goroutine that is under way, and the last one of an operation.
LEMMA Advances ==
  ASSUME Types, OpInv, NEW a \in Admin, Active(a), Advance(a)
  PROVE  /\ pc[a] < Steps(op[a].kind) =>
              pc' = [pc EXCEPT ![a] = pc[a] + 1] /\ op' = op /\ catalog' = catalog
         /\ pc[a] = Steps(op[a].kind) =>
              /\ pc' = [pc EXCEPT ![a] = 1] /\ op' = [op EXCEPT ![a] = Idle]
              /\ catalog' = IF op[a].obj = 0 THEN catalog
                            ELSE catalog \cup {[name |-> op[a].name, on |-> op[a].on,
                                                col |-> op[a].col, obj |-> op[a].obj]}
<1>1. op[a].kind \in Ops /\ pc[a] \in Nat \ {0}
  BY DEF Types, Operation, Active, Kinds
<1>2. Len(Script[op[a].kind]) = Steps(op[a].kind)
  <2>1. CASE op[a].kind = "createColumn"
    BY <2>1 DEF Script, Steps, Locking
  <2>2. CASE op[a].kind \in Locking
    <3>1. Script[op[a].kind] = StoreIndex /\ Len(StoreIndex) = 8
      BY <2>2 DEF Script, Locking, StoreIndex
    <3>2. QED
      BY <2>2, <3>1 DEF Steps, Locking
  <2>3. CASE op[a].kind = "dropColumn"
    BY <2>3 DEF Script, Steps, Locking
  <2>4. CASE op[a].kind = "dropIndex"
    BY <2>4 DEF Script, Steps, Locking
  <2>5. QED
    BY <1>1, <2>1, <2>2, <2>3, <2>4 DEF Ops, Locking
<1>3. QED
  BY <1>1, <1>2 DEF Advance

\* Who waits for the lock has changed nothing yet.
Waiting(a) == Sharing(a) /\ pc[a] = 1

LEMMA OthersWait ==
  ASSUME Types, OpInv, NEW a \in Admin, Active(a), ~Waiting(a), NEW b \in Admin \ {a}
  PROVE  ~Active(b) \/ Waiting(b)
<1> SUFFICES ASSUME Active(b), ~Waiting(b) PROVE FALSE
  OBVIOUS
<1>1. Sharing(a) /\ Sharing(b)
  BY DEF OpInv
<1>2. pc[a] \in Nat \ {0} /\ pc[b] \in Nat \ {0}
  BY DEF Types
<1>3. pc[a] >= 2 /\ pc[b] >= 2
  BY <1>1, <1>2 DEF Waiting
<1>4. lock = a /\ lock = b
  BY <1>1, <1>3 DEF OpInv
<1>5. QED
  BY <1>4

\* The lock, when goroutine a makes a step.
LockStep(a) ==
  /\ Waiting(a) => lock = None /\ lock' = a
  /\ Sharing(a) /\ pc[a] = 8 => lock' = None
  /\ ~Waiting(a) /\ ~(Sharing(a) /\ pc[a] = 8) => lock' = lock

\* Columns and indexes stay what they are.
ObjectsStay ==
  /\ object' \in Seq(ObjectType) /\ DOMAIN object' = DOMAIN object
  /\ \A o \in DOMAIN object : object'[o].on = object[o].on /\ object'[o].kind = object[o].kind

\* What one goroutine makes of the operations that are under way.
LEMMA OpStep ==
  ASSUME Types, OpInv, NEW a \in Admin, Active(a), Advance(a), LockStep(a), ObjectsStay
  PROVE  OpInv'
<1>1. op \in [Admin -> Operation] /\ pc \in [Admin -> Nat \ {0}] /\ None \notin Admin
  BY RegistryAssumption DEF Types
<1>2. op[a].kind \in Ops
  BY <1>1 DEF Operation, Active, Kinds
<1>3. \/ /\ pc[a] < Steps(op[a].kind) /\ pc' = [pc EXCEPT ![a] = pc[a] + 1] /\ op' = op
      \/ /\ pc[a] = Steps(op[a].kind) /\ pc' = [pc EXCEPT ![a] = 1]
         /\ op' = [op EXCEPT ![a] = Idle]
  <2>1. pc[a] <= Steps(op[a].kind) /\ pc[a] \in Nat
    BY <1>1 DEF OpInv
  <2>2. Steps(op[a].kind) \in Nat
    BY <1>2 DEF Steps, Ops, Locking
  <2>3. QED
    BY <2>1, <2>2, Advances
<1>4. ASSUME NEW b \in Admin \ {a} PROVE op'[b] = op[b] /\ pc'[b] = pc[b]
  BY <1>1, <1>3
<1>5. op'[a] = Idle \/ op'[a] = op[a]
  BY <1>1, <1>3
<1>6. op'[a] = Idle => pc'[a] = 1
  BY <1>1, <1>2, <1>3 DEF Idle, Ops
<1>7. op'[a] = op[a] => pc'[a] = pc[a] + 1 /\ pc[a] < Steps(op[a].kind)
  BY <1>1, <1>2, <1>3 DEF Idle, Ops
<1>8. ASSUME NEW b \in Admin
      PROVE  /\ pc'[b] <= Steps(op'[b].kind)
             /\ ~Active(b)' => op'[b] = Idle
             /\ op'[b].col \in DOMAIN object' \cup {0}
             /\ op'[b].kind \in {"createColumn", "dropColumn"} => op'[b].name \in Names
             /\ op'[b].kind \in Locking \cup {"dropIndex"} => op'[b].name \in Indexes
             /\ op'[b].kind = "createColumn" => op'[b].on = None
             /\ Sharing(b)' => op'[b].on \in Names
             /\ op'[b].kind \in Creating =>
                  /\ op'[b].obj \in DOMAIN object' /\ object'[op'[b].obj].on = op'[b].on
                  /\ object'[op'[b].obj].kind = op'[b].kind
             /\ op'[b].kind \in Dropping => op'[b].obj = 0
  <2>1. CASE op'[b] = Idle
    <3>1. b = a => pc'[b] = 1
      BY <1>6, <2>1
    <3>2. b # a => pc'[b] <= Steps("none")
      BY <1>4, <2>1 DEF OpInv, Idle
    <3>3. 1 <= Steps("none") /\ Steps("none") = 1
      BY DEF Steps, Locking
    <3>4. QED
      BY <2>1, <3>1, <3>2, <3>3
      DEF Idle, Active, Sharing, Locking, Creating, Dropping
  <2>2. CASE op'[b] = op[b]
    <3>1. pc'[b] <= Steps(op[b].kind)
      <4>1. CASE b = a
        <5>1. Steps(op[a].kind) \in Nat
          BY <1>2 DEF Steps, Ops, Locking
        <5>2. QED
          BY <1>1, <1>7, <2>2, <4>1, <5>1
      <4>2. CASE b # a
        BY <1>4, <4>2 DEF OpInv
      <4>3. QED
        BY <4>1, <4>2
    <3>2. /\ Sharing(b)' <=> Sharing(b)
          /\ Active(b)' <=> Active(b)
      BY <2>2 DEF Sharing, Active
    <3>3. QED
      BY <2>2, <3>1, <3>2 DEF OpInv, ObjectsStay
  <2>3. QED
    BY <1>4, <1>5, <2>1, <2>2
<1>9. ASSUME NEW b \in Admin, NEW c \in Admin, b # c, Active(b)', Active(c)'
      PROVE  /\ Sharing(b)' /\ Sharing(c)'
             /\ op'[b].name # op'[c].name /\ op'[b].obj # op'[c].obj
  <2>1. op'[b] = op[b] /\ op'[c] = op[c]
    BY <1>4, <1>5, <1>9 DEF Active, Idle
  <2>2. QED
    BY <1>9, <2>1 DEF OpInv, Active, Sharing
<1>10. ASSUME NEW b \in Admin PROVE lock' = b <=> (Sharing(b)' /\ pc'[b] >= 2)
  <2>1. lock = b <=> (Sharing(b) /\ pc[b] >= 2)
    BY DEF OpInv
  <2>2. lock = a <=> (Sharing(a) /\ pc[a] >= 2)
    BY DEF OpInv
  <2>3. b # a => (Sharing(b)' /\ pc'[b] >= 2 <=> lock = b)
    BY <1>4, <2>1 DEF Sharing
  <2>4. CASE Sharing(a)
    <3>1. Steps(op[a].kind) = 8
      BY <2>4 DEF Sharing, Steps, Locking
    <3>2. CASE pc[a] = 8
      <4>1. op'[a] = Idle /\ lock' = None /\ lock = a
        BY <1>1, <1>3, <2>2, <2>4, <3>1, <3>2 DEF LockStep
      <4>2. ~Sharing(a)'
        BY <4>1 DEF Sharing, Idle, Locking
      <4>3. QED
        BY <1>1, <2>3, <4>1, <4>2
    <3>3. CASE pc[a] # 8
      <4>1. op'[a] = op[a] /\ pc'[a] = pc[a] + 1
        BY <1>1, <1>3, <3>1, <3>3
      <4>2. Sharing(a)' /\ pc'[a] >= 2
        BY <1>1, <2>4, <4>1 DEF Sharing
      <4>3. lock' = a /\ (lock = a \/ lock = None)
        BY <1>1, <2>2, <2>4, <3>3 DEF LockStep, Waiting
      <4>4. QED
        BY <1>1, <2>3, <4>2, <4>3
    <3>4. QED
      BY <3>2, <3>3
  <2>5. CASE ~Sharing(a)
    <3>1. lock' = lock /\ lock # a
      BY <2>2, <2>5 DEF LockStep, Waiting
    <3>2. ~Sharing(a)'
      BY <1>5, <2>5 DEF Sharing, Idle, Locking
    <3>3. QED
      BY <2>3, <3>1, <3>2
  <2>6. QED
    BY <2>4, <2>5
<1>11. QED
  BY <1>8, <1>9, <1>10 DEF OpInv

\* What an operation adds to the catalog when it returns.
Created(a) == [name |-> op[a].name, on |-> op[a].on, col |-> op[a].col, obj |-> op[a].obj]

LEMMA Outcomes ==
  ASSUME Types, OpInv, NEW a \in Admin, Active(a), Advance(a)
  PROVE  /\ \A b \in Admin \ {a} : op'[b] = op[b] /\ pc'[b] = pc[b]
         /\ \/ /\ pc[a] < Steps(op[a].kind) /\ op'[a] = op[a] /\ pc'[a] = pc[a] + 1
               /\ op' = op /\ catalog' = catalog
            \/ /\ pc[a] = Steps(op[a].kind) /\ op'[a] = Idle /\ pc'[a] = 1
               /\ op[a].kind \in Creating => catalog' = catalog \cup {Created(a)}
               /\ op[a].kind \notin Creating => catalog' = catalog
         /\ op' \in [Admin -> Operation] /\ pc' \in [Admin -> Nat \ {0}]
         /\ catalog' \in SUBSET Listed
<1>1. op \in [Admin -> Operation] /\ pc \in [Admin -> Nat \ {0}] /\ catalog \in SUBSET Listed
  BY DEF Types
<1>2. op[a].kind \in Ops /\ Idle \in Operation
  BY <1>1 DEF Operation, Active, Kinds, Idle
<1>3. pc[a] <= Steps(op[a].kind) /\ pc[a] \in Nat /\ Steps(op[a].kind) \in Nat
  BY <1>1, <1>2 DEF OpInv, Steps, Ops, Locking
<1>4. /\ op[a].kind \in Creating => op[a].obj # 0
      /\ op[a].kind \notin Creating => op[a].obj = 0
  BY <1>2 DEF OpInv, Creating, Dropping, Ops, Locking, Types
<1>5. op[a].kind \in Creating => Created(a) \in Listed
  <2>1. op[a].kind \in Creating => op[a].name \in Names \cup Indexes
    BY DEF OpInv, Creating
  <2>2. QED
    BY <1>1, <2>1 DEF Operation, Listed, Created
<1>6. CASE pc[a] < Steps(op[a].kind)
  BY <1>1, <1>6, Advances
<1>7. CASE pc[a] = Steps(op[a].kind)
  <2>1. /\ pc' = [pc EXCEPT ![a] = 1] /\ op' = [op EXCEPT ![a] = Idle]
        /\ catalog' = IF op[a].obj = 0 THEN catalog ELSE catalog \cup {Created(a)}
    BY <1>7, Advances DEF Created
  <2>2. catalog' \in SUBSET Listed
    BY <1>1, <1>4, <1>5, <2>1
  <2>3. QED
    BY <1>1, <1>2, <1>4, <1>7, <2>1, <2>2
<1>8. QED
  BY <1>3, <1>6, <1>7

LEMMA CatalogStep ==
  ASSUME Types, OpInv, CatalogInv, NEW a \in Admin, Active(a), Advance(a), ObjectsStay
  PROVE  CatalogInv'
<1>1. \A b \in Admin \ {a} : op'[b] = op[b]
  BY Outcomes
<1>2. CASE catalog' = catalog /\ (op'[a] = op[a] \/ op'[a] = Idle)
  <2>1. \A b \in Admin : Active(b)' => op'[b] = op[b] /\ Active(b)
    BY <1>1, <1>2 DEF Active, Idle
  <2>2. QED
    BY <1>2, <2>1 DEF CatalogInv, ObjectsStay
<1>3. CASE /\ op[a].kind \in Creating /\ op'[a] = Idle
           /\ catalog' = catalog \cup {Created(a)}
  <2>1. \A b \in Admin : Active(b)' => b # a /\ op'[b] = op[b] /\ Active(b)
    BY <1>1, <1>3 DEF Active, Idle
  <2> SUFFICES ASSUME NEW n, n = Created(a) PROVE CatalogInv'
    OBVIOUS
  <2>2. n.name = op[a].name /\ n.on = op[a].on /\ n.col = op[a].col /\ n.obj = op[a].obj
    BY DEF Created
  <2>3. /\ n.obj \in DOMAIN object' /\ object'[n.obj].on = n.on
        /\ n.col \in DOMAIN object' \cup {0}
    BY <1>3, <2>2 DEF OpInv, ObjectsStay
  <2>4. /\ n.name \in Names => n.on = None
        /\ n.name \in Indexes => n.on \in Names
    <3>1. Names \cap Indexes = {}
      BY RegistryAssumption
    <3>2. CASE op[a].kind = "createColumn"
      BY <2>2, <3>1, <3>2 DEF OpInv
    <3>3. CASE Sharing(a)
      BY <2>2, <3>1, <3>3 DEF OpInv, Sharing
    <3>4. QED
      BY <1>3, <3>2, <3>3 DEF Creating, Sharing
  <2>5. \A e \in catalog : e.name # n.name /\ e.obj # n.obj
    BY <2>2 DEF CatalogInv
  <2>6. ASSUME NEW b \in Admin, Active(b)'
        PROVE  /\ n.name # op'[b].name /\ n.obj # op'[b].obj
               /\ op'[b].kind # "createColumn"
    BY <2>1, <2>2, <2>6 DEF OpInv, Sharing, Locking
  <2>7. catalog' = catalog \cup {n}
    BY <1>3
  <2>8. ASSUME NEW e \in catalog'
        PROVE  /\ e.obj \in DOMAIN object' /\ object'[e.obj].on = e.on
               /\ e.col \in DOMAIN object' \cup {0}
               /\ e.name \in Names => e.on = None
               /\ e.name \in Indexes => e.on \in Names
    BY <2>3, <2>4, <2>7 DEF CatalogInv, ObjectsStay
  <2>9. \A e, f \in catalog' : e.name = f.name \/ e.obj = f.obj => e = f
    BY <2>5, <2>7 DEF CatalogInv
  <2>10. ASSUME NEW e \in catalog', NEW b \in Admin, Active(b)'
         PROVE  /\ e.name # op'[b].name /\ e.obj # op'[b].obj
                /\ op'[b].kind = "createColumn" => e.col # op'[b].obj
    BY <2>1, <2>6, <2>7, <2>10 DEF CatalogInv
  <2>11. QED
    BY <2>8, <2>9, <2>10 DEF CatalogInv
<1>4. QED
  BY <1>2, <1>3, Outcomes

-----------------------------------------------------------------------------
(* Steps that leave the registry as it is *)

ViewStays == head'.len = head.len /\ \A i \in InHead : E(i)' = E(i)

LEMMA ViewFacts ==
  ASSUME ViewStays
  PROVE  /\ InHead' = InHead
         /\ \A i \in InHead : E(i)' = E(i) /\ Main(i)' = Main(i) /\ Fed(i)' = Fed(i)
         /\ \A i \in InHead : \A name, obj : Is(i, name, obj)' <=> Is(i, name, obj)
BY DEF ViewStays, InHead, Main, Fed, Is

LEMMA MainIsObject ==
  ASSUME Types, NameInv, NEW i \in InHead
  PROVE  /\ E(i) \in EntryType /\ Len(E(i).cols) \in Nat \ {0}
         /\ DOMAIN E(i).cols = 1 .. Len(E(i).cols) /\ Main(i) \in DOMAIN object
<1>1. head.array \in DOMAIN heap /\ heap[head.array] \in Seq(EntryType)
  BY DEF Types, Fits
<1>2. i \in 1 .. Len(heap[head.array])
  BY <1>1 DEF Types, Fits, InHead, Slice
<1>3. E(i) \in EntryType
  BY <1>1, <1>2, ElementOfSeq DEF E
<1>4. E(i).cols \in Seq(Nat) /\ E(i).cols # << >>
  BY <1>3 DEF EntryType, NameInv
<1>5. Len(E(i).cols) \in Nat \ {0} /\ DOMAIN E(i).cols = 1 .. Len(E(i).cols)
  BY <1>4, EmptySeq, LenProperties
<1>6. 1 \in DOMAIN E(i).cols
  BY <1>5
<1>7. QED
  BY <1>3, <1>5, <1>6 DEF NameInv, Main

\* An operation goes on.
LEMMA QuietNames ==
  ASSUME Types, NameInv, ObjectsStay, op' = op, catalog' = catalog,
         \A b \in Admin : Shown(b)' <=> Shown(b),
         InHead' = InHead,
         \A i \in InHead :
           /\ E(i)'.name = E(i).name /\ Main(i)' = Main(i) /\ E(i)'.cols # << >>
           /\ \A k \in DOMAIN E(i)'.cols : E(i)'.cols[k] \in DOMAIN object
  PROVE  NameInv'
<1>2. \A b \in Admin : Sharing(b)' <=> Sharing(b)
  BY DEF Sharing
<1>3. /\ InHead' = InHead
      /\ \A i \in InHead : E(i)'.name = E(i).name /\ Main(i)' = Main(i)
  OBVIOUS
<1>4. ASSUME NEW i \in InHead'
      PROVE  /\ E(i)'.name \in Names \cup Indexes
             /\ E(i)'.cols # << >>
             /\ \A k \in DOMAIN E(i)'.cols : E(i)'.cols[k] \in DOMAIN object'
             /\ \/ \E e \in catalog' : Is(i, e.name, e.obj)'
                \/ \E b \in Admin : Shown(b)' /\ E(i)'.name = op'[b].name
  BY <1>3 DEF NameInv, ObjectsStay, Is
<1>5. \A i, j \in InHead' : E(i)'.name = E(j)'.name \/ Main(i)' = Main(j)' => i = j
  BY <1>3 DEF NameInv, Is
<1>6. \A e \in catalog' : \E i \in InHead' : Is(i, e.name, e.obj)'
  BY <1>3 DEF NameInv, Is
<1>7. ASSUME NEW b \in Admin
      PROVE  /\ op'[b].kind \in Creating /\ ~Shown(b)' => \A i \in InHead' : E(i)'.name # op'[b].name
             /\ Sharing(b)' /\ Shown(b)' => \E i \in InHead' : Is(i, op[b].name, op[b].obj)'
             /\ Sharing(b)' => \E i \in InHead' : Is(i, op[b].on, op[b].col)'
             /\ op'[b].kind = "dropIndex" =>
                  \E i \in InHead' : E(i)'.name = op'[b].name /\ object'[Main(i)'].on = op'[b].on
  <2>1. op'[b].kind \in Creating /\ ~Shown(b)' => \A i \in InHead' : E(i)'.name # op'[b].name
    BY <1>3 DEF NameInv, Is
  <2>2. Sharing(b)' /\ Shown(b)' => \E i \in InHead' : Is(i, op[b].name, op[b].obj)'
    BY <1>2, <1>3 DEF NameInv, Is
  <2>3. Sharing(b)' => \E i \in InHead' : Is(i, op[b].on, op[b].col)'
    BY <1>2, <1>3 DEF NameInv, Is
  <2>4. ASSUME op'[b].kind = "dropIndex"
        PROVE  \E i \in InHead' : E(i)'.name = op'[b].name /\ object'[Main(i)'].on = op'[b].on
    <3>1. PICK i \in InHead : E(i).name = op[b].name /\ object[Main(i)].on = op[b].on
      BY <2>4 DEF NameInv, Is
    <3>2. Main(i) \in DOMAIN object
      BY <3>1, MainIsObject
    <3>3. QED
      BY <1>3, <3>1, <3>2 DEF ObjectsStay
  <2>5. QED
    BY <2>1, <2>2, <2>3, <2>4
<1>8. QED
  BY <1>4, <1>5, <1>6, <1>7 DEF NameInv, Is

LEMMA QuietFeeds ==
  ASSUME FeedInv, ViewStays, op' = op, catalog' = catalog,
         \A b \in Admin : /\ Sharing(b) => (pc'[b] >= 7 <=> pc[b] >= 7)
                          /\ op[b].kind = "dropIndex" => (pc'[b] <= 2 <=> pc[b] <= 2)
  PROVE  FeedInv'
<1>1. \A b \in Admin : Sharing(b)' <=> Sharing(b)
  BY DEF Sharing
<1>2. /\ InHead' = InHead
      /\ \A i \in InHead : E(i)' = E(i) /\ Main(i)' = Main(i) /\ Fed(i)' = Fed(i)
  BY ViewFacts
<1>3. \A e \in catalog', i \in InHead' :
        Is(i, e.on, e.col)' => \E k \in Fed(i)' : E(i)'.cols[k] = e.obj
  BY <1>2 DEF FeedInv, Is
<1>4. \A b \in Admin, i \in InHead' :
        Sharing(b)' /\ pc'[b] >= 7 /\ Is(i, op[b].on, op[b].col)' =>
          \E k \in Fed(i)' : E(i)'.cols[k] = op'[b].obj
  BY <1>1, <1>2 DEF FeedInv, Is
<1>5. ASSUME NEW i \in InHead', NEW k \in Fed(i)', NEW x, x = E(i)'.cols[k]
      PROVE  \/ \E e \in catalog' : Is(i, e.on, e.col)' /\ x = e.obj
             \/ \E b \in Admin : Attaching(b, i, x)' \/ Detaching(b, i, x)'
  <2>1. \/ \E e \in catalog : Is(i, e.on, e.col) /\ x = e.obj
        \/ \E b \in Admin : Attaching(b, i, x) \/ Detaching(b, i, x)
    BY <1>2, <1>5 DEF FeedInv, Is
  <2>2. \A b \in Admin : Attaching(b, i, x) => Attaching(b, i, x)'
    BY <1>1, <1>2 DEF Attaching, Is
  <2>3. \A b \in Admin : Detaching(b, i, x) => Detaching(b, i, x)'
    BY <1>2 DEF Detaching, Is
  <2>4. QED
    BY <1>2, <2>1, <2>2, <2>3 DEF Is
<1>6. \A i \in InHead' : \A k, l \in Fed(i)' : E(i)'.cols[k] = E(i)'.cols[l] => k = l
  BY <1>2 DEF FeedInv, Is
<1>7. QED
  BY <1>3, <1>4, <1>5, <1>6 DEF FeedInv, Is

\* An operation returns whose last step is to leave the lock.
LEMMA UnlockNames ==
  ASSUME Types, OpInv, CatalogInv, NameInv, ViewStays, ObjectsStay,
         NEW a \in Admin, Sharing(a), pc[a] = 8, op'[a] = Idle,
         \A b \in Admin \ {a} : op'[b] = op[b] /\ pc'[b] = pc[b],
         catalog' = catalog \cup {Created(a)}
  PROVE  NameInv'
<1>1. /\ InHead' = InHead
      /\ \A i \in InHead : E(i)' = E(i) /\ Main(i)' = Main(i)
  BY ViewFacts
<1>2. Shown(a) /\ op[a].kind \in Locking /\ op[a].kind \notin Dropping
  BY DEF Shown, Sharing, Locking, Dropping
<1>3. PICK h \in InHead : E(h).name = op[a].name /\ Main(h) = op[a].obj
  BY <1>2 DEF NameInv, Is
<1>4. ASSUME NEW b \in Admin, op'[b].kind # "none"
      PROVE  /\ b # a /\ op'[b] = op[b] /\ (Shown(b)' <=> Shown(b))
             /\ (Sharing(b)' <=> Sharing(b))
  BY <1>4 DEF Idle, Shown, Sharing
<1>5. ASSUME NEW i \in InHead
      PROVE  /\ E(i)'.name \in Names \cup Indexes
             /\ E(i)'.cols # << >>
             /\ \A k \in DOMAIN E(i)'.cols : E(i)'.cols[k] \in DOMAIN object'
             /\ \/ \E e \in catalog' : Is(i, e.name, e.obj)'
                \/ \E b \in Admin : Shown(b)' /\ E(i)'.name = op'[b].name
  <2>1. /\ E(i)'.name \in Names \cup Indexes /\ E(i)'.cols # << >>
        /\ \A k \in DOMAIN E(i)'.cols : E(i)'.cols[k] \in DOMAIN object'
    BY <1>1 DEF NameInv, ObjectsStay
  <2>2. CASE \E e \in catalog : Is(i, e.name, e.obj)
    BY <1>1, <2>1, <2>2 DEF Is
  <2>3. ASSUME NEW b \in Admin, Shown(b), E(i).name = op[b].name
        PROVE  \/ \E e \in catalog' : Is(i, e.name, e.obj)'
               \/ \E c \in Admin : Shown(c)' /\ E(i)'.name = op'[c].name
    <3>1. CASE b = a
      <4>1. i = h
        BY <1>3, <2>3, <3>1 DEF NameInv
      <4>2. Created(a) \in catalog' /\ Created(a).name = op[a].name /\ Created(a).obj = op[a].obj
        BY DEF Created
      <4>3. E(i)'.name = op[a].name /\ Main(i)' = op[a].obj
        BY <1>1, <1>3, <4>1
      <4>4. QED
        BY <4>2, <4>3 DEF Is
    <3>2. CASE b # a
      <4>1. op'[b].kind # "none" /\ op'[b] = op[b]
        BY <2>3, <3>2 DEF Shown, Sharing, Locking, Dropping
      <4>2. QED
        BY <1>1, <1>4, <2>3, <4>1
    <3>3. QED
      BY <3>1, <3>2
  <2>4. QED
    BY <2>1, <2>2, <2>3 DEF NameInv
<1>6. \A i, j \in InHead' : E(i)'.name = E(j)'.name \/ Main(i)' = Main(j)' => i = j
  BY <1>1 DEF NameInv
<1>7. \A e \in catalog' : \E i \in InHead' : Is(i, e.name, e.obj)'
  <2>1. \A e \in catalog : \E i \in InHead : Is(i, e.name, e.obj)
    BY DEF NameInv
  <2>2. Created(a).name = op[a].name /\ Created(a).obj = op[a].obj
    BY DEF Created
  <2>3. QED
    BY <1>1, <1>3, <2>1, <2>2 DEF Is
<1>8. ASSUME NEW b \in Admin
      PROVE  /\ op'[b].kind \in Creating /\ ~Shown(b)' => \A i \in InHead' : E(i)'.name # op'[b].name
             /\ Sharing(b)' /\ Shown(b)' => \E i \in InHead' : Is(i, op[b].name, op[b].obj)'
             /\ Sharing(b)' => \E i \in InHead' : Is(i, op[b].on, op[b].col)'
             /\ op'[b].kind = "dropIndex" =>
                  \E i \in InHead' : E(i)'.name = op'[b].name /\ object'[Main(i)'].on = op'[b].on
  <2>1. CASE op'[b].kind = "none"
    BY <2>1 DEF Sharing, Locking, Creating
  <2>2. CASE op'[b].kind # "none"
    <3>1. b # a /\ op'[b] = op[b] /\ (Shown(b)' <=> Shown(b)) /\ (Sharing(b)' <=> Sharing(b))
      BY <1>4, <2>2
    <3>2. op'[b].kind # "dropIndex"
      BY <1>2, <2>2, <3>1 DEF OpInv, Active, Sharing, Locking
    <3>3. op'[b].kind \in Creating /\ ~Shown(b)' => \A i \in InHead' : E(i)'.name # op'[b].name
      BY <1>1, <3>1 DEF NameInv
    <3>4. Sharing(b)' /\ Shown(b)' => \E i \in InHead' : Is(i, op[b].name, op[b].obj)'
      BY <1>1, <3>1 DEF NameInv, Is
    <3>5. Sharing(b)' => \E i \in InHead' : Is(i, op[b].on, op[b].col)'
      BY <1>1, <3>1 DEF NameInv, Is
    <3>6. QED
      BY <3>2, <3>3, <3>4, <3>5
  <2>3. QED
    BY <2>1, <2>2
<1>9. QED
  BY <1>1, <1>5, <1>6, <1>7, <1>8 DEF NameInv, Is

LEMMA UnlockFeeds ==
  ASSUME Types, OpInv, CatalogInv, NameInv, FeedInv, ViewStays,
         NEW a \in Admin, Sharing(a), pc[a] = 8, op'[a] = Idle,
         \A b \in Admin \ {a} : op'[b] = op[b] /\ pc'[b] = pc[b],
         catalog' = catalog \cup {Created(a)}
  PROVE  FeedInv'
<1>1. /\ InHead' = InHead
      /\ \A i \in InHead : E(i)' = E(i) /\ Main(i)' = Main(i) /\ Fed(i)' = Fed(i)
  BY ViewFacts
<1>2. /\ Created(a).name = op[a].name /\ Created(a).obj = op[a].obj
      /\ Created(a).on = op[a].on /\ Created(a).col = op[a].col
  BY DEF Created
<1>3. ASSUME NEW b \in Admin, op'[b].kind # "none"
      PROVE  /\ b # a /\ op'[b] = op[b] /\ pc'[b] = pc[b] /\ (Sharing(b)' <=> Sharing(b))
  BY <1>3 DEF Idle, Sharing
<1>4. ASSUME NEW e \in catalog', NEW i \in InHead', Is(i, e.on, e.col)'
      PROVE  \E k \in Fed(i)' : E(i)'.cols[k] = e.obj
  <2>1. CASE e \in catalog
    BY <1>1, <1>4, <2>1 DEF FeedInv, Is
  <2>2. CASE e = Created(a)
    BY <1>1, <1>2, <1>4, <2>2 DEF FeedInv, Is
  <2>3. QED
    BY <2>1, <2>2
<1>5. ASSUME NEW b \in Admin, NEW i \in InHead', Sharing(b)', pc'[b] >= 7, Is(i, op[b].on, op[b].col)'
      PROVE  \E k \in Fed(i)' : E(i)'.cols[k] = op'[b].obj
  <2>1. op'[b].kind # "none"
    BY <1>5 DEF Sharing, Locking
  <2>2. QED
    BY <1>1, <1>3, <1>5, <2>1 DEF FeedInv, Is
<1>6. ASSUME NEW i \in InHead', NEW k \in Fed(i)', NEW x, x = E(i)'.cols[k]
      PROVE  \/ \E e \in catalog' : Is(i, e.on, e.col)' /\ x = e.obj
             \/ \E b \in Admin : Attaching(b, i, x)' \/ Detaching(b, i, x)'
  <2>1. \/ \E e \in catalog : Is(i, e.on, e.col) /\ x = e.obj
        \/ \E b \in Admin : Attaching(b, i, x) \/ Detaching(b, i, x)
    BY <1>1, <1>6 DEF FeedInv
  <2>2. CASE \E e \in catalog : Is(i, e.on, e.col) /\ x = e.obj
    BY <1>1, <2>2 DEF Is
  <2>3. ASSUME NEW b \in Admin PROVE ~Detaching(b, i, x)
    BY DEF Detaching, OpInv, Active, Sharing, Locking
  <2>4. ASSUME NEW b \in Admin, Attaching(b, i, x)
        PROVE  \E e \in catalog' : Is(i, e.on, e.col)' /\ x = e.obj
    <3>1. b = a
      BY <2>4, OthersWait DEF Attaching, Waiting, Active, Sharing, Locking
    <3>2. x = Created(a).obj /\ Created(a) \in catalog'
      BY <1>2, <2>4, <3>1 DEF Attaching
    <3>3. E(i)'.name = Created(a).on /\ Main(i)' = Created(a).col
      BY <1>1, <1>2, <2>4, <3>1 DEF Attaching, Is
    <3>4. QED
      BY <3>2, <3>3 DEF Is
  <2>5. QED
    BY <2>1, <2>2, <2>3, <2>4
<1>7. \A i \in InHead' : \A k, l \in Fed(i)' : E(i)'.cols[k] = E(i)'.cols[l] => k = l
  BY <1>1 DEF FeedInv
<1>8. QED
  BY <1>1, <1>4, <1>5, <1>6, <1>7 DEF FeedInv, Is

\* The steps that change neither the registry nor what the operation promises.
Calm(a) ==
  /\ Sharing(a) => pc[a] \notin {4, 6}
  /\ op[a].kind = "createColumn" => pc[a] # 4
  /\ op[a].kind = "dropColumn" => pc[a] # 3
  /\ op[a].kind = "dropIndex" => pc[a] \notin {2, 6}

LEMMA QuietStep ==
  ASSUME Types, OpInv, CatalogInv, NameInv, FeedInv, NEW a \in Admin, Active(a), Advance(a),
         Calm(a), ObjectsStay, ViewStays
  PROVE  NameInv' /\ FeedInv'
<1>1. \A b \in Admin \ {a} : op'[b] = op[b] /\ pc'[b] = pc[b]
  BY Outcomes
<1>2. pc[a] \in Nat \ {0} /\ op[a].kind \in Ops
  BY DEF Types, Operation, Active, Kinds
<1>3. CASE pc[a] < Steps(op[a].kind)
  <2>1. pc'[a] = pc[a] + 1 /\ op' = op /\ catalog' = catalog
    <3>1. Steps(op[a].kind) \in Nat
      BY <1>2 DEF Steps, Ops, Locking
    <3>2. QED
      BY <1>2, <1>3, <3>1, Outcomes
  <2>2. /\ Sharing(a) => (pc'[a] >= 7 <=> pc[a] >= 7) /\ (pc'[a] >= 5 <=> pc[a] >= 5)
        /\ op[a].kind = "dropIndex" => (pc'[a] <= 2 <=> pc[a] <= 2)
    BY <1>2, <2>1 DEF Calm
  <2>3. \A b \in Admin : Shown(b)' <=> Shown(b)
    BY <1>1, <2>1, <2>2 DEF Shown, Sharing
  <2>4. NameInv'
    <3>1. InHead' = InHead /\ \A i \in InHead : E(i)' = E(i) /\ Main(i)' = Main(i)
      BY ViewFacts
    <3>2. \A i \in InHead :
            /\ E(i)'.name = E(i).name /\ Main(i)' = Main(i) /\ E(i)'.cols # << >>
            /\ \A k \in DOMAIN E(i)'.cols : E(i)'.cols[k] \in DOMAIN object
      BY <3>1 DEF NameInv
    <3>3. QED
      BY <2>1, <2>3, <3>1, <3>2, QuietNames
  <2>5. \A b \in Admin : /\ Sharing(b) => (pc'[b] >= 7 <=> pc[b] >= 7)
                         /\ op[b].kind = "dropIndex" => (pc'[b] <= 2 <=> pc[b] <= 2)
    BY <1>1, <2>2
  <2>6. FeedInv'
    BY <2>1, <2>5, QuietFeeds
  <2>7. QED
    BY <2>4, <2>6
<1>4. CASE ~(pc[a] < Steps(op[a].kind))
  <2>1. pc[a] = Steps(op[a].kind)
    BY <1>2, <1>4 DEF OpInv, Steps, Ops, Locking
  <2>2. Sharing(a) /\ pc[a] = 8
    BY <1>2, <2>1 DEF Calm, Steps, Sharing, Ops, Locking
  <2>3. op'[a] = Idle /\ catalog' = catalog \cup {Created(a)}
    BY <1>4, <2>2, Outcomes DEF Sharing, Creating
  <2>4. QED
    BY <1>1, <2>2, <2>3, UnlockNames, UnlockFeeds
<1>5. QED
  BY <1>3, <1>4

\* No other goroutine has a slice of its own that it works on.
LEMMA OthersHaveNoSlice ==
  ASSUME Types, OpInv, NEW a \in Admin, Active(a), Advance(a), LockStep(a), NEW b \in Admin \ {a}
  PROVE  ~Same(b)' /\ ~Larger(b)' /\ ~Smaller(b)'
<1>1. op'[b] = op[b] /\ pc'[b] = pc[b]
  BY Outcomes
<1>2. ~Active(b) \/ Waiting(b)
  <2>1. CASE Waiting(a)
    <3>1. lock = None /\ None \notin Admin /\ pc[b] \in Nat \ {0}
      BY <2>1, RegistryAssumption DEF LockStep, Types
    <3>2. Active(b) => Sharing(b)
      BY <2>1 DEF OpInv
    <3>3. Sharing(b) => ~(pc[b] >= 2)
      BY <3>1 DEF OpInv
    <3>4. QED
      BY <3>1, <3>2, <3>3 DEF Waiting
  <2>2. CASE ~Waiting(a)
    BY <2>2, OthersWait
  <2>3. QED
    BY <2>1, <2>2
<1>3. op[b].kind \in {"none"} \cup Locking /\ (op[b].kind # "none" => pc[b] = 1)
  BY <1>2 DEF Active, Waiting, Sharing
<1>4. QED
  BY <1>1, <1>3 DEF Same, Larger, Smaller, Sharing, Locking, Creating

\* What the slice of the goroutine is for, after the step.
LEMMA SliceStep ==
  ASSUME Types, OpInv, NEW a \in Admin, Active(a), Advance(a), LockStep(a),
         Same(a)' => slice'[a] = head',
         Larger(a)' =>
           /\ slice'[a].len = head'.len + 1
           /\ \A i \in InHead' : S(a, i)' = E(i)'
           /\ heap'[slice'[a].array][head'.len + 1] = Entry(op'[a].name, <<op'[a].obj>>),
         Smaller(a)' =>
           /\ \A j \in InSlice(a)' : S(a, j)'.name # op'[a].name
           /\ \A j \in InSlice(a)' : \E i \in InHead' : S(a, j)' = E(i)'
           /\ \A i \in InHead' : E(i)'.name # op'[a].name => \E j \in InSlice(a)' : S(a, j)' = E(i)'
           /\ \A j, k \in InSlice(a)' : S(a, j)'.name = S(a, k)'.name => j = k
  PROVE  SliceInv'
<1> SUFFICES ASSUME NEW b \in Admin
             PROVE  /\ Same(b)' => slice'[b] = head'
                    /\ Larger(b)' =>
                         /\ slice'[b].len = head'.len + 1
                         /\ \A i \in InHead' : S(b, i)' = E(i)'
                         /\ S(b, head.len + 1)' = Entry(op'[b].name, <<op'[b].obj>>)
                    /\ Smaller(b)' =>
                         /\ \A j \in InSlice(b)' : S(b, j)'.name # op'[b].name
                         /\ \A j \in InSlice(b)' : \E i \in InHead' : S(b, j)' = E(i)'
                         /\ \A i \in InHead' :
                              E(i)'.name # op'[b].name => \E j \in InSlice(b)' : S(b, j)' = E(i)'
                         /\ \A j, k \in InSlice(b)' : S(b, j)'.name = S(b, k)'.name => j = k
  BY DEF SliceInv, S
<1>1. CASE b # a
  BY <1>1, OthersHaveNoSlice
<1>2. CASE b = a
  BY <1>2 DEF S
<1>3. QED
  BY <1>1, <1>2

\* Operations go on, and columns stay as large as they are.
LEMMA ReachStep ==
  ASSUME Types, OpInv, ReachInv, NEW a \in Admin, Active(a), Advance(a),
         op[a].kind = "createColumn" => pc[a] > 1,
         UNCHANGED <<object, excused, rows>>,
         \A i \in InHead' : \/ \E j \in InHead : Main(i)' = Main(j)
                            \/ op[a].kind \in Creating /\ Main(i)' = op[a].obj
  PROVE  ReachInv'
<1>1. count' = count /\ top' = top /\ commits' = commits /\ object' = object /\ excused' = excused
  BY DEF rows
<1>2. op[a].kind \in Creating => Reaches(op[a].obj)
  <2>1. CASE op[a].kind = "createColumn"
    BY <2>1 DEF ReachInv
  <2>2. CASE op[a].kind \in Locking
    BY <2>2 DEF Reaches, OpInv, Creating, Locking
  <2>3. QED
    BY <2>1, <2>2 DEF Creating
<1>3. ASSUME NEW i \in InHead', NEW o, o = Main(i)'
      PROVE  object'[o].kind = "createColumn" /\ o \notin excused' => object'[o].chunks >= commits'
  BY <1>1, <1>2, <1>3 DEF ReachInv, Reaches
<1>4. ASSUME NEW b \in Admin, op'[b].kind = "createColumn", NEW o, o = op'[b].obj
      PROVE  object'[o].kind = "createColumn" /\ o \notin excused' => object'[o].chunks >= commits'
  <2>1. op'[b] = op[b]
    BY <1>4, Outcomes DEF Idle
  <2>2. b # a => ~Waiting(a) /\ ~Active(b)
    <3>1. op[b].kind = "createColumn" /\ Active(b) /\ ~Sharing(b)
      BY <1>4, <2>1 DEF Active, Sharing, Locking
    <3>2. QED
      BY <3>1 DEF OpInv
  <2>3. b = a
    BY <1>4, <2>1, <2>2 DEF Active
  <2>4. QED
    BY <1>1, <1>2, <1>4, <2>1, <2>3 DEF Reaches, Creating
<1>5. QED
  <2>1. \A i \in InHead' : Reaches(Main(i))'
    BY <1>3 DEF Reaches
  <2>2. \A b \in Admin : op'[b].kind = "createColumn" /\ pc'[b] > 1 => Reaches(op[b].obj)'
    BY <1>4 DEF Reaches
  <2>3. commits' <= ChunkAt(top)' + 1
    BY <1>1 DEF ReachInv, ChunkAt
  <2>4. QED
    BY <2>1, <2>2, <2>3 DEF ReachInv

-----------------------------------------------------------------------------
(* The actions of goroutines *)

\* What every step of an operation keeps.
LEMMA AdminStep ==
  ASSUME Inv, NEW a \in Admin, Active(a), Advance(a), LockStep(a), ObjectsStay
  PROVE  /\ OpInv' /\ CatalogInv'
         /\ op' \in [Admin -> Operation] /\ pc' \in [Admin -> Nat \ {0}]
         /\ catalog' \in SUBSET Listed /\ lock' \in Admin \cup {None}
         /\ object' \in Seq(ObjectType)
<1>1. lock' \in Admin \cup {None}
  BY DEF LockStep, Inv, Types
<1>2. QED
  BY <1>1, OpStep, CatalogStep, Outcomes DEF Inv, ObjectsStay

LEMMA ObjectGrows ==
  ASSUME object \in Seq(ObjectType), NEW o \in DOMAIN object, NEW c \in Nat,
         object' = [object EXCEPT ![o].chunks = c]
  PROVE  /\ ObjectsStay /\ object'[o].chunks = c
         /\ \A p \in DOMAIN object \ {o} : object'[p] = object[p]
<1>1. DOMAIN object = 1 .. Len(object) /\ object[o] \in ObjectType
  BY LenProperties, ElementOfSeq
<1> DEFINE new == [object[o] EXCEPT !.chunks = c]
<1>2. /\ new \in ObjectType /\ new.chunks = c
      /\ new.on = object[o].on /\ new.kind = object[o].kind
  BY <1>1 DEF ObjectType
<1>3. object' = [object EXCEPT ![o] = new]
  OBVIOUS
<1> HIDE DEF new
<1>4. /\ object' \in Seq(ObjectType) /\ Len(object') = Len(object)
      /\ \A p \in 1 .. Len(object) : object'[p] = IF p = o THEN new ELSE object[p]
  BY <1>1, <1>2, <1>3, ExceptSeq
<1>5. DOMAIN object' = DOMAIN object
  BY <1>1, <1>4, LenProperties
<1>6. QED
  BY <1>1, <1>2, <1>4, <1>5 DEF ObjectsStay

LEMMA GrowKeeps ==
  ASSUME Inv, NEW a \in Admin, Grow(a)
  PROVE  Inv'
<1>1. op[a].kind = "createColumn" /\ pc[a] = 1 /\ Active(a) /\ Advance(a)
  BY Turns DEF Grow, Inv, Active
<1>2. ~Sharing(a) /\ Calm(a) /\ LockStep(a)
  BY <1>1 DEF Sharing, Calm, Locking, LockStep, Waiting, Grow
<1>3. op[a].obj \in DOMAIN object /\ op[a].obj \in Nat
  BY <1>1 DEF Inv, OpInv, Types, Operation, Creating
<1> DEFINE rowsOf == IF Capacity > count THEN Capacity ELSE count
           large == ChunkAt(rowsOf) + 1
<1>4. Capacity \in Nat /\ count \in Nat /\ top \in Nat /\ count <= top
  <2>1. workload.rows \in Nat
    BY RegistryAssumption DEF Inv, Types, Workload
  <2>2. QED
    BY <2>1, RegistryAssumption DEF Inv, Types
<1>5. rowsOf \in Nat /\ count <= rowsOf
  BY <1>4
<1>6. large \in Nat
  BY <1>5, ChunksFollow
<1>7. object' = [object EXCEPT ![op[a].obj].chunks = large]
  BY DEF Grow
<1> HIDE DEF rowsOf, large
<1>8. /\ ObjectsStay /\ object'[op[a].obj].chunks = large
      /\ \A o \in DOMAIN object \ {op[a].obj} : object'[o] = object[o]
  BY <1>3, <1>6, <1>7, ObjectGrows DEF Inv, Types
<1>9. UNCHANGED <<heap, head, slice, workload, total, rows>>
  BY DEF Grow, Elsewhere
<1>10. ViewStays
  BY <1>9 DEF ViewStays, InHead, E
<1>11. Types'
  BY <1>1, <1>2, <1>8, <1>9, AdminStep DEF Inv, Types, Fits, rows
<1>12. pc'[a] = 2 /\ op' = op
  BY <1>1, Outcomes DEF Inv, Steps, Locking
<1>13. SliceInv'
  <2>1. ~Same(a)' /\ ~Larger(a)' /\ ~Smaller(a)'
    BY <1>1, <1>2, <1>12 DEF Same, Larger, Smaller, Sharing
  <2>2. QED
    BY <1>1, <1>2, <2>1, SliceStep DEF Inv
<1>14. ReachInv'
  <2>1. ASSUME NEW o \in DOMAIN object, o = op[a].obj \/ Reaches(o)
        PROVE  Reaches(o)'
    <3>1. CASE o = op[a].obj
      <4>1. CASE count < top
        BY <3>1, <4>1 DEF Grow, Reaches
      <4>2. CASE ~(count < top)
        <5>1. commits <= ChunkAt(count) + 1
          <6>1. count = top
            BY <4>2 DEF Inv, Types
          <6>2. QED
            BY <6>1 DEF Inv, ReachInv
        <5>2. ChunkAt(count) \in Nat /\ ChunkAt(count) <= ChunkAt(rowsOf)
          BY <1>4, <1>5, ChunksFollow
        <5>3. commits <= large /\ commits' = commits
          <6>1. ChunkAt(rowsOf) \in Nat /\ commits \in Nat /\ commits' = commits
            <7>1. ChunkAt(rowsOf) \in Nat
              BY <1>5, ChunksFollow
            <7>2. commits \in Nat /\ commits' = commits
              BY <1>9 DEF rows, Inv, Types
            <7>3. QED
              BY <7>1, <7>2
          <6>2. QED
            BY <5>1, <5>2, <6>1 DEF large
        <5>4. QED
          BY <1>6, <1>8, <3>1, <5>3 DEF Reaches, Inv, Types
      <4>3. QED
        BY <4>1, <4>2
    <3>2. CASE o # op[a].obj
      <4>1. object'[o] = object[o] /\ excused \subseteq excused' /\ commits' = commits
        BY <1>8, <1>9, <3>2 DEF Grow, rows
      <4>2. QED
        BY <2>1, <3>2, <4>1 DEF Reaches
    <3>3. QED
      BY <3>1, <3>2
  <2>2. \A i \in InHead' : Reaches(Main(i))'
    <3>1. \A i \in InHead : Main(i) \in DOMAIN object /\ Reaches(Main(i))
      BY MainIsObject DEF Inv, ReachInv
    <3>2. \A i \in InHead : \A o \in DOMAIN object : o = Main(i) => Reaches(o)'
      BY <2>1, <3>1
    <3>3. InHead' = InHead /\ \A i \in InHead : Main(i)' = Main(i)
      BY <1>10, ViewFacts
    <3>4. QED
      BY <3>1, <3>2, <3>3 DEF Reaches
  <2>3. ASSUME NEW b \in Admin, op[b].kind = "createColumn"
        PROVE  Reaches(op[b].obj)'
    <3>1. b = a
      BY <1>1, <1>2, <2>3 DEF Inv, OpInv, Active
    <3>2. QED
      BY <1>3, <1>12, <2>1, <3>1 DEF Reaches
  <2>4. commits' <= ChunkAt(top)' + 1
    BY <1>9 DEF Inv, ReachInv, ChunkAt, rows
  <2>5. QED
    BY <1>12, <2>2, <2>3, <2>4 DEF ReachInv
<1>15. QED
  BY <1>1, <1>2, <1>8, <1>10, <1>11, <1>13, <1>14, AdminStep, QuietStep DEF Inv

\* The steps after which the registry is what it was.
LEMMA CalmStep ==
  ASSUME Inv, NEW a \in Admin, Active(a), Advance(a), LockStep(a), Calm(a),
         op[a].kind = "createColumn" => pc[a] > 1,
         UNCHANGED <<object, excused, Elsewhere>>,
         head' = head, ViewStays,
         heap' \in Seq(Seq(EntryType)), \A i \in DOMAIN heap' : heap'[i] # << >>,
         slice' \in [Admin -> Slice], Fits(head)', \A b \in Admin : Fits(slice[b])'
  PROVE  Types' /\ OpInv' /\ CatalogInv' /\ NameInv' /\ FeedInv' /\ ReachInv'
<1>1. ObjectsStay
  BY DEF ObjectsStay, Inv, Types
<1>2. /\ OpInv' /\ CatalogInv'
      /\ op' \in [Admin -> Operation] /\ pc' \in [Admin -> Nat \ {0}]
      /\ catalog' \in SUBSET Listed /\ lock' \in Admin \cup {None}
      /\ object' \in Seq(ObjectType)
  BY <1>1, AdminStep
<1>3. UNCHANGED <<object, excused, workload, total, rows>>
  BY DEF Elsewhere
<1>4. Types'
  BY <1>2, <1>3 DEF Inv, Types, rows
<1>5. NameInv' /\ FeedInv'
  BY <1>1, QuietStep DEF Inv
<1>6. \A i \in InHead' : Main(i)' = Main(i) /\ i \in InHead
  BY ViewFacts
<1>7. ReachInv'
  BY <1>3, <1>6, ReachStep DEF Inv
<1>8. QED
  BY <1>2, <1>4, <1>5, <1>7

LEMMA HeapStays ==
  ASSUME Inv, UNCHANGED <<heap, head>>
  PROVE  /\ heap' \in Seq(Seq(EntryType)) /\ \A i \in DOMAIN heap' : heap'[i] # << >>
         /\ ViewStays /\ Fits(head)'
BY DEF Inv, Types, ViewStays, InHead, E, Fits

LEMMA LockKeeps ==
  ASSUME Inv, NEW a \in Admin, Lock(a)
  PROVE  Inv'
<1>1. Sharing(a) /\ pc[a] = 1 /\ Active(a) /\ Advance(a)
  BY Turns DEF Lock, Inv, Active, Sharing, Locking
<1>2. LockStep(a) /\ Calm(a) /\ op[a].kind # "createColumn"
  BY <1>1 DEF LockStep, Calm, Waiting, Sharing, Locking, Lock
<1>3. UNCHANGED <<object, excused, Elsewhere, heap, head, slice>>
  BY DEF Lock
<1>4. slice' \in [Admin -> Slice] /\ \A b \in Admin : Fits(slice[b])'
  BY <1>3 DEF Inv, Types, Fits
<1>5. Types' /\ OpInv' /\ CatalogInv' /\ NameInv' /\ FeedInv' /\ ReachInv'
  BY <1>1, <1>2, <1>3, <1>4, HeapStays, CalmStep
<1>6. pc'[a] = 2 /\ op'[a] = op[a]
  BY <1>1, Outcomes DEF Inv, Steps, Sharing
<1>7. ~Same(a)' /\ ~Larger(a)' /\ ~Smaller(a)'
  BY <1>1, <1>6 DEF Same, Larger, Smaller, Sharing, Locking
<1>8. SliceInv'
  BY <1>1, <1>2, <1>7, SliceStep DEF Inv
<1>9. QED
  BY <1>5, <1>8 DEF Inv

LEMMA UnlockKeeps ==
  ASSUME Inv, NEW a \in Admin, Unlock(a)
  PROVE  Inv'
<1>1. Sharing(a) /\ pc[a] = 8 /\ Active(a) /\ Advance(a)
  BY Turns DEF Unlock, Inv, Active, Sharing, Locking
<1>2. LockStep(a) /\ Calm(a) /\ op[a].kind # "createColumn"
  BY <1>1 DEF LockStep, Calm, Waiting, Sharing, Locking, Unlock
<1>3. UNCHANGED <<object, excused, Elsewhere, heap, head, slice>>
  BY DEF Unlock
<1>4. slice' \in [Admin -> Slice] /\ \A b \in Admin : Fits(slice[b])'
  BY <1>3 DEF Inv, Types, Fits
<1>5. Types' /\ OpInv' /\ CatalogInv' /\ NameInv' /\ FeedInv' /\ ReachInv'
  BY <1>1, <1>2, <1>3, <1>4, HeapStays, CalmStep
<1>6. op'[a] = Idle
  BY <1>1, Outcomes DEF Inv, Steps, Sharing
<1>7. ~Same(a)' /\ ~Larger(a)' /\ ~Smaller(a)'
  BY <1>6 DEF Same, Larger, Smaller, Sharing, Locking, Idle, Creating
<1>8. SliceInv'
  BY <1>1, <1>2, <1>7, SliceStep DEF Inv
<1>9. QED
  BY <1>5, <1>8 DEF Inv

LEMMA LoadSliceKeeps ==
  ASSUME Inv, NEW a \in Admin, LoadSlice(a)
  PROVE  Inv'
<1>1. /\ \/ op[a].kind = "createColumn" /\ pc[a] = 2
         \/ Sharing(a) /\ pc[a] \in {2, 5}
         \/ op[a].kind = "dropColumn" /\ pc[a] = 1
         \/ op[a].kind = "dropIndex" /\ pc[a] \in {1, 4}
      /\ Active(a) /\ Advance(a)
  BY Turns DEF LoadSlice, Inv, Active, Sharing, Locking
<1>2. LockStep(a) /\ Calm(a) /\ (op[a].kind = "createColumn" => pc[a] > 1)
  BY <1>1 DEF LockStep, Calm, Waiting, Sharing, Locking, LoadSlice
<1>3. UNCHANGED <<object, excused, Elsewhere, heap, head>> /\ slice' = [slice EXCEPT ![a] = head]
  BY DEF LoadSlice
<1>4. slice' \in [Admin -> Slice] /\ \A b \in Admin : Fits(slice[b])'
  BY <1>3 DEF Inv, Types, Fits
<1>5. Types' /\ OpInv' /\ CatalogInv' /\ NameInv' /\ FeedInv' /\ ReachInv'
  BY <1>1, <1>2, <1>3, <1>4, HeapStays, CalmStep
<1>6. pc'[a] = pc[a] + 1 /\ op'[a] = op[a]
  BY <1>1, Outcomes DEF Inv, Steps, Sharing, Locking
<1>7. ~Larger(a)' /\ ~Smaller(a)'
  BY <1>1, <1>6 DEF Larger, Smaller, Sharing, Locking, Creating
<1>8. slice'[a] = head'
  BY <1>3 DEF Inv, Types
<1>9. SliceInv'
  BY <1>1, <1>2, <1>7, <1>8, SliceStep DEF Inv
<1>10. QED
  BY <1>5, <1>9 DEF Inv

-----------------------------------------------------------------------------
(* Put: a goroutine appends to a copy of the slice that everybody reads *)

LEMMA FilledProperty ==
  ASSUME NEW entries \in Seq(EntryType), NEW size \in Nat, Len(entries) <= size
  PROVE  /\ Filled(entries, size) \in Seq(EntryType) /\ Len(Filled(entries, size)) = size
         /\ \A i \in 1 .. Len(entries) : Filled(entries, size)[i] = entries[i]
<1>1. Blank \in EntryType
  BY EmptySeq DEF Blank, Entry, EntryType
<1>2. Len(entries) \in Nat /\ \A i \in 1 .. Len(entries) : entries[i] \in EntryType
  BY ElementOfSeq
<1>3. ASSUME NEW i \in 1 .. size
      PROVE  (IF i <= Len(entries) THEN entries[i] ELSE Blank) \in EntryType
  BY <1>1, <1>2
<1>4. Filled(entries, size) \in [1 .. size -> EntryType]
  BY <1>3, Zenon DEF Filled
<1>5. Filled(entries, size) \in Seq(EntryType) /\ Len(Filled(entries, size)) = size
  BY <1>4, FunctionIsSeq, Zenon
<1>6. ASSUME NEW i \in 1 .. Len(entries) PROVE Filled(entries, size)[i] = entries[i]
  <2>1. i \in 1 .. size /\ i <= Len(entries)
    BY <1>2
  <2>2. QED
    BY <2>1, Zenon DEF Filled
<1>7. QED
  BY <1>5, <1>6

\* The arrays that there were keep their length and what they have below n.
LEMMA NewArray ==
  ASSUME Types, NEW f \in Seq(EntryType), f # << >>, heap' = Append(heap, f), head' = head
  PROVE  /\ heap' \in Seq(Seq(EntryType)) /\ \A i \in DOMAIN heap' : heap'[i] # << >>
         /\ Len(heap) + 1 \in DOMAIN heap' /\ heap'[Len(heap) + 1] = f
         /\ ViewStays /\ Fits(head)'
         /\ \A b \in Admin : slice'[b] = slice[b] => Fits(slice[b])'
<1>1. heap \in Seq(Seq(EntryType)) /\ Len(heap) \in Nat /\ DOMAIN heap = 1 .. Len(heap)
  BY LenProperties DEF Types
<1>2. /\ heap' \in Seq(Seq(EntryType)) /\ Len(heap') = Len(heap) + 1
      /\ \A i \in 1 .. Len(heap) : heap'[i] = heap[i]
      /\ heap'[Len(heap) + 1] = f
  BY <1>1, AppendProperties
<1>3. DOMAIN heap' = 1 .. Len(heap) + 1
  BY <1>2, LenProperties
<1>4. \A i \in DOMAIN heap : i \in DOMAIN heap' /\ heap'[i] = heap[i]
  BY <1>1, <1>2, <1>3
<1>5. \A i \in DOMAIN heap' : i \in DOMAIN heap \/ i = Len(heap) + 1
  BY <1>1, <1>3
<1>6. \A i \in DOMAIN heap' : heap'[i] # << >>
  BY <1>2, <1>4, <1>5 DEF Types
<1>7. ViewStays /\ Fits(head)'
  BY <1>4 DEF ViewStays, Fits, Types, E, InHead
<1>8. \A b \in Admin : slice'[b] = slice[b] => Fits(slice[b])'
  BY <1>4 DEF Fits, Types
<1>9. Len(heap) + 1 \in DOMAIN heap'
  BY <1>1, <1>3
<1>10. QED
  BY <1>2, <1>6, <1>7, <1>8, <1>9

LEMMA AppendEntryProperty ==
  ASSUME Types, NEW a \in Admin, slice[a] = head, NEW e \in EntryType, AppendEntry(a, e), head' = head
  PROVE  /\ heap' \in Seq(Seq(EntryType)) /\ \A i \in DOMAIN heap' : heap'[i] # << >>
         /\ slice' \in [Admin -> Slice]
         /\ ViewStays /\ Fits(head)' /\ \A b \in Admin : Fits(slice[b])'
         /\ slice'[a].len = head.len + 1
         /\ \A i \in InHead : S(a, i)' = E(i)
         /\ heap'[slice'[a].array][head.len + 1] = e
<1> DEFINE n == head.len
           m == head.array
           array == heap[m]
<1>1. /\ m \in DOMAIN heap /\ array \in Seq(EntryType) /\ array # << >> /\ n \in Nat /\ n <= Len(array)
      /\ heap \in Seq(Seq(EntryType)) /\ DOMAIN heap = 1 .. Len(heap) /\ Len(heap) \in Nat
      /\ m \in Nat
  BY ElementOfSeq, LenProperties DEF Types, Fits, Slice
<1>2. Len(array) \in Nat \ {0} /\ DOMAIN array = 1 .. Len(array)
  BY <1>1, EmptySeq, LenProperties
<1>3. slice \in [Admin -> Slice] /\ head = [array |-> m, len |-> n]
  BY DEF Types, Slice
<1>4. InHead = 1 .. n /\ \A i \in InHead : E(i) = array[i]
  BY DEF InHead, E
<1> HIDE DEF n, m, array
<1>5. CASE n < Len(array)
  <2>1. /\ heap' = [heap EXCEPT ![m][n + 1] = e]
        /\ slice' = [slice EXCEPT ![a].len = n + 1]
    BY <1>5 DEF AppendEntry, n, m, array
  <2> DEFINE new == [array EXCEPT ![n + 1] = e]
  <2>2. n + 1 \in 1 .. Len(array)
    BY <1>1, <1>2, <1>5
  <2>3. /\ new \in Seq(EntryType) /\ Len(new) = Len(array)
        /\ \A j \in 1 .. Len(array) : new[j] = IF j = n + 1 THEN e ELSE array[j]
    BY <1>1, <2>2, ExceptSeq
  <2>4. heap' = [heap EXCEPT ![m] = new]
    BY <2>1 DEF array
  <2> HIDE DEF new
  <2>5. /\ heap' \in Seq(Seq(EntryType)) /\ Len(heap') = Len(heap)
        /\ \A j \in 1 .. Len(heap) : heap'[j] = IF j = m THEN new ELSE heap[j]
    BY <1>1, <2>3, <2>4, ExceptSeq
  <2>6. DOMAIN heap' = DOMAIN heap
    BY <1>1, <2>5, LenProperties
  <2>7. heap'[m] = new /\ \A j \in DOMAIN heap : Len(heap'[j]) = Len(heap[j])
    BY <1>1, <2>3, <2>5 DEF array
  <2>8. new # << >>
    BY <1>2, <2>3, EmptySeq
  <2>9. \A i \in DOMAIN heap' : heap'[i] # << >>
    BY <1>1, <2>5, <2>6, <2>8 DEF Types
  <2>10. \A i \in 1 .. n : new[i] = array[i]
    BY <1>1, <1>2, <1>5, <2>3
  <2>11. new[n + 1] = e
    BY <2>2, <2>3
  <2>12. slice'[a] = [array |-> m, len |-> n + 1] /\ \A b \in Admin \ {a} : slice'[b] = slice[b]
    BY <1>3, <2>1 DEF Slice
  <2>13. slice' \in [Admin -> Slice]
    <3>1. slice' = [slice EXCEPT ![a] = [array |-> m, len |-> n + 1]]
      BY <1>3, <2>1, <2>12 DEF Slice
    <3>2. [array |-> m, len |-> n + 1] \in Slice
      BY <1>1 DEF Slice
    <3>3. QED
      BY <1>3, <3>1, <3>2
  <2>14. ViewStays /\ Fits(head)'
    <3>1. head'.array = m /\ head'.len = n
      BY <1>3
    <3>2. \A i \in InHead : E(i)' = E(i)
      BY <1>4, <2>7, <2>10, <3>1 DEF E
    <3>3. Fits(head)'
      BY <1>1, <2>3, <2>6, <2>7, <3>1 DEF Fits
    <3>4. QED
      BY <3>1, <3>2, <3>3 DEF ViewStays, n
  <2>15. ASSUME NEW b \in Admin PROVE Fits(slice[b])'
    <3>1. CASE b = a
      <4>1. slice'[b].array = m /\ slice'[b].len = n + 1
        BY <2>12, <3>1
      <4>2. n + 1 <= Len(heap'[m])
        BY <2>2, <2>3, <2>7
      <4>3. QED
        BY <1>1, <2>6, <4>1, <4>2 DEF Fits
    <3>2. CASE b # a
      BY <2>6, <2>7, <2>12, <3>2 DEF Fits, Types
    <3>3. QED
      BY <3>1, <3>2
  <2>16. \A i \in InHead : S(a, i)' = E(i)
    BY <1>4, <2>7, <2>10, <2>12 DEF S
  <2>17. /\ slice'[a].len = head.len + 1
         /\ heap'[slice'[a].array][head.len + 1] = e
    BY <2>7, <2>11, <2>12 DEF n
  <2>18. QED
    BY <2>5, <2>9, <2>13, <2>14, <2>15, <2>16, <2>17
<1>6. CASE ~(n < Len(array))
  <2>1. n = Len(array)
    <3>1. \A x, y \in Nat : x <= y /\ ~(x < y) => x = y
      OBVIOUS
    <3>2. n \in Nat /\ Len(array) \in Nat /\ n <= Len(array)
      BY <1>1, <1>2
    <3>3. QED
      BY <1>6, <3>1, <3>2, Zenon
  <2> DEFINE longer == Append(array, e)
             new == Filled(longer, 2 * n)
             h == Len(heap) + 1
  <2>2. /\ heap' = Append(heap, new)
        /\ slice' = [slice EXCEPT ![a] = [array |-> h, len |-> n + 1]]
    BY <1>6 DEF AppendEntry, n, m, array
  <2>3. /\ longer \in Seq(EntryType) /\ Len(longer) = n + 1
        /\ \A i \in 1 .. n : longer[i] = array[i]
        /\ longer[n + 1] = e
    BY <1>1, <2>1, AppendProperties
  <2>4. n \in Nat \ {0} /\ 2 * n \in Nat /\ n + 1 <= 2 * n /\ 2 * n # 0
    BY <1>2, <2>1
  <2> HIDE DEF longer
  <2>5. /\ new \in Seq(EntryType) /\ Len(new) = 2 * n
        /\ \A i \in 1 .. n + 1 : new[i] = longer[i]
    BY <2>3, <2>4, FilledProperty
  <2> HIDE DEF new
  <2>6. new # << >>
    BY <2>4, <2>5, EmptySeq
  <2>7. /\ heap' \in Seq(Seq(EntryType)) /\ \A i \in DOMAIN heap' : heap'[i] # << >>
        /\ h \in DOMAIN heap' /\ heap'[h] = new
        /\ ViewStays /\ Fits(head)'
        /\ \A b \in Admin : slice'[b] = slice[b] => Fits(slice[b])'
    BY <2>2, <2>5, <2>6, NewArray
  <2>8. h \in Nat
    BY <1>1
  <2> HIDE DEF h
  <2>9. slice'[a].array = h /\ slice'[a].len = n + 1 /\ \A b \in Admin \ {a} : slice'[b] = slice[b]
    BY <1>3, <2>2
  <2>10. slice' \in [Admin -> Slice]
    BY <1>1, <1>3, <2>2, <2>8 DEF Slice
  <2>11. Fits(slice[a])'
    BY <2>4, <2>5, <2>7, <2>9 DEF Fits
  <2>12. \A b \in Admin : Fits(slice[b])'
    BY <2>7, <2>9, <2>11
  <2>13. \A i \in 1 .. n : new[i] = array[i]
    BY <1>1, <2>3, <2>5
  <2>14. \A i \in InHead : S(a, i)' = E(i)
    BY <1>4, <2>7, <2>9, <2>13 DEF S
  <2>15. new[n + 1] = e
    BY <1>1, <2>3, <2>5
  <2>16. /\ slice'[a].len = head.len + 1
         /\ heap'[slice'[a].array][head.len + 1] = e
    BY <2>7, <2>9, <2>15 DEF n
  <2>17. QED
    BY <2>7, <2>10, <2>12, <2>14, <2>16
<1>7. QED
  BY <1>5, <1>6

LEMMA PutKeeps ==
  ASSUME Inv, NEW a \in Admin, Put(a)
  PROVE  Inv'
<1>1. op[a].kind \in Creating /\ pc[a] = 3 /\ Active(a) /\ Advance(a)
  BY Turns DEF Put, Inv, Active, Creating, Locking
<1>2. LockStep(a) /\ Calm(a) /\ (op[a].kind = "createColumn" => pc[a] > 1) /\ ~Shown(a) /\ Same(a)
  BY <1>1 DEF LockStep, Calm, Waiting, Sharing, Locking, Creating, Dropping, Put, Shown, Same
<1>3. UNCHANGED <<object, excused, Elsewhere, head>> /\ Store(a, op[a].name, op[a].obj, << >>)
  BY DEF Put
<1>4. slice[a] = head
  BY <1>2 DEF Inv, SliceInv
<1>5. At(slice[a], op[a].name) = {}
  <2>1. \A i \in InHead : E(i).name # op[a].name
    BY <1>1, <1>2 DEF Inv, NameInv
  <2>2. QED
    BY <1>4, <2>1 DEF At, InHead, E
<1> DEFINE e == Entry(op[a].name, <<op[a].obj>> \o << >>)
<1>6. op[a].name \in Names \cup Indexes /\ op[a].obj \in Nat
  BY <1>1 DEF Inv, OpInv, Types, Operation, Creating
<1>7. <<op[a].obj>> \in Seq(Nat) /\ <<op[a].obj>> \o << >> = <<op[a].obj>>
  <2>1. <<op[a].obj>> \in Seq(Nat)
    BY <1>6
  <2>2. QED
    BY <2>1, ConcatEmptySeq
<1>8. e = Entry(op[a].name, <<op[a].obj>>) /\ e \in EntryType
  BY <1>6, <1>7 DEF Entry, EntryType
<1>9. AppendEntry(a, e)
  BY <1>3, <1>5 DEF Store
<1> HIDE DEF e
<1>10. /\ heap' \in Seq(Seq(EntryType)) /\ \A i \in DOMAIN heap' : heap'[i] # << >>
       /\ slice' \in [Admin -> Slice]
       /\ ViewStays /\ Fits(head)' /\ \A b \in Admin : Fits(slice[b])'
       /\ slice'[a].len = head.len + 1
       /\ \A i \in InHead : S(a, i)' = E(i)
       /\ heap'[slice'[a].array][head.len + 1] = e
  BY <1>3, <1>4, <1>8, <1>9, AppendEntryProperty DEF Inv
<1>11. Types' /\ OpInv' /\ CatalogInv' /\ NameInv' /\ FeedInv' /\ ReachInv'
  BY <1>1, <1>2, <1>3, <1>10, CalmStep
<1>12. pc'[a] = 4 /\ op'[a] = op[a]
  BY <1>1, Outcomes DEF Inv, Steps, Locking, Creating
<1>13. ~Same(a)' /\ ~Smaller(a)'
  BY <1>1, <1>12 DEF Same, Smaller, Sharing, Locking, Creating
<1>14. /\ slice'[a].len = head'.len + 1
       /\ \A i \in InHead' : S(a, i)' = E(i)'
       /\ heap'[slice'[a].array][head'.len + 1] = Entry(op'[a].name, <<op'[a].obj>>)
  BY <1>3, <1>8, <1>10, <1>12, ViewFacts
<1>15. SliceInv'
  BY <1>1, <1>2, <1>13, <1>14, SliceStep DEF Inv
<1>16. QED
  BY <1>11, <1>15 DEF Inv

-----------------------------------------------------------------------------
(* StoreSlice: everybody reads the slice of the goroutine *)

\* What a goroutine adds is not in the registry yet, which is as the catalog says.
LEMMA NotYetThere ==
  ASSUME Inv, NEW a \in Admin, Larger(a)
  PROVE  /\ op[a].kind \in Creating /\ Active(a) /\ ~Waiting(a)
         /\ \A i \in InHead : /\ E(i).name # op[a].name /\ Main(i) # op[a].obj
                              /\ \E e \in catalog : Is(i, e.name, e.obj)
<1>1. op[a].kind \in Creating /\ pc[a] = 4 /\ Active(a) /\ ~Waiting(a) /\ ~Shown(a)
  BY DEF Larger, Active, Waiting, Shown, Creating, Locking, Dropping, Sharing
<1>2. ASSUME NEW b \in Admin PROVE ~Shown(b)
  <2>1. CASE b = a
    BY <1>1, <2>1
  <2>2. CASE b # a
    <3>1. ~Active(b) \/ Waiting(b)
      BY <1>1, <2>2, OthersWait DEF Inv
    <3>2. QED
      BY <1>1, <2>2, <3>1
      DEF Shown, Active, Waiting, Sharing, Locking, Dropping, Inv, OpInv
  <2>3. QED
    BY <2>1, <2>2
<1>3. ASSUME NEW i \in InHead PROVE \E e \in catalog : Is(i, e.name, e.obj)
  BY <1>2 DEF Inv, NameInv
<1>4. ASSUME NEW i \in InHead PROVE E(i).name # op[a].name /\ Main(i) # op[a].obj
  <2>1. PICK e \in catalog : Is(i, e.name, e.obj)
    BY <1>3
  <2>2. e.name # op[a].name /\ e.obj # op[a].obj
    BY <1>1 DEF Inv, CatalogInv
  <2>3. QED
    BY <2>1, <2>2 DEF Is
<1>5. QED
  BY <1>1, <1>3, <1>4

LEMMA LargerView ==
  ASSUME Inv, NEW a \in Admin, Larger(a), head' = slice[a], heap' = heap,
         NEW n, n = head.len + 1
  PROVE  /\ n \in InHead' /\ n \notin InHead /\ \A i \in InHead' : i \in InHead \/ i = n
         /\ \A i \in InHead : /\ i \in InHead'
                              /\ E(i)' = E(i) /\ Main(i)' = Main(i) /\ Fed(i)' = Fed(i)
         /\ E(n)' = Entry(op[a].name, <<op[a].obj>>)
         /\ Main(n)' = op[a].obj /\ Fed(n)' = {} /\ DOMAIN E(n)'.cols = {1} /\ E(n)'.cols # << >>
<1>1. head.len \in Nat
  BY DEF Inv, Types, Slice
<1>2. /\ slice[a].len = n /\ \A i \in InHead : S(a, i) = E(i)
      /\ S(a, n) = Entry(op[a].name, <<op[a].obj>>)
  BY DEF Inv, SliceInv
<1>3. InHead' = 1 .. n /\ InHead = 1 .. head.len
  BY <1>2 DEF InHead
<1>4. \A i : E(i)' = S(a, i)
  BY DEF E, S
<1>5. \A i \in InHead : /\ i \in InHead'
                        /\ E(i)' = E(i) /\ Main(i)' = Main(i) /\ Fed(i)' = Fed(i)
  BY <1>1, <1>2, <1>3, <1>4 DEF Main, Fed
<1>6. E(n)' = Entry(op[a].name, <<op[a].obj>>)
  BY <1>2, <1>4
<1>7. E(n)'.cols = <<op[a].obj>>
  BY <1>6 DEF Entry
<1>8. Main(n)' = op[a].obj /\ Fed(n)' = {} /\ DOMAIN E(n)'.cols = {1} /\ E(n)'.cols # << >>
  <2>1. \A x : /\ Len(<<x>>) = 1 /\ DOMAIN <<x>> = {1} /\ <<x>>[1] = x /\ <<x>> # << >>
    OBVIOUS
  <2>2. Main(n)' = E(n)'.cols[1] /\ Fed(n)' = 2 .. Len(E(n)'.cols)
    BY DEF Main, Fed
  <2>3. Fed(n)' = 2 .. 1
    BY <1>7, <2>1, <2>2
  <2>4. Fed(n)' = {}
    BY <2>3
  <2>5. QED
    BY <1>7, <2>1, <2>2, <2>4, Zenon
<1>9. QED
  BY <1>1, <1>3, <1>5, <1>6, <1>8

\* A column is registered.
LEMMA ColumnStored ==
  ASSUME Inv, NEW a \in Admin, Larger(a), op[a].kind = "createColumn",
         head' = slice[a], heap' = heap, object' = object,
         op'[a] = Idle, \A b \in Admin \ {a} : op'[b] = op[b],
         catalog' = catalog \cup {Created(a)}
  PROVE  NameInv' /\ FeedInv'
<1> SUFFICES ASSUME NEW n, n = head.len + 1, NEW c, c = Created(a)
             PROVE  NameInv' /\ FeedInv'
  OBVIOUS
<1>1. /\ n \in InHead' /\ n \notin InHead /\ \A i \in InHead' : i \in InHead \/ i = n
      /\ \A i \in InHead : /\ i \in InHead'
                           /\ E(i)' = E(i) /\ Main(i)' = Main(i) /\ Fed(i)' = Fed(i)
      /\ E(n)' = Entry(op[a].name, <<op[a].obj>>)
      /\ Main(n)' = op[a].obj /\ Fed(n)' = {} /\ DOMAIN E(n)'.cols = {1} /\ E(n)'.cols # << >>
  BY LargerView
<1>2. E(n)'.name = op[a].name /\ E(n)'.cols[1] = op[a].obj
  BY <1>1 DEF Entry
<1>3. /\ \A i \in InHead : /\ E(i).name # op[a].name /\ Main(i) # op[a].obj
                           /\ \E e \in catalog : Is(i, e.name, e.obj)
      /\ Active(a) /\ ~Sharing(a)
  BY NotYetThere DEF Sharing, Locking
<1>4. \A b \in Admin : op'[b].kind = "none" /\ (op[b].kind = "none" \/ b = a)
  BY <1>3 DEF Inv, OpInv, Active, Idle
<1>5. c.name = op[a].name /\ c.on = op[a].on /\ c.obj = op[a].obj /\ catalog' = catalog \cup {c}
  BY DEF Created
<1>6. op[a].name \in Names /\ op[a].on = None /\ op[a].obj \in DOMAIN object
  BY DEF Inv, OpInv, Creating
<1>7. None \notin Names \cup Indexes
  BY RegistryAssumption
<1>8. ASSUME NEW i \in InHead'
      PROVE  /\ E(i)'.name \in Names \cup Indexes /\ E(i)'.cols # << >>
             /\ \A k \in DOMAIN E(i)'.cols : E(i)'.cols[k] \in DOMAIN object'
             /\ \E e \in catalog' : Is(i, e.name, e.obj)'
  <2>1. CASE i \in InHead
    BY <1>1, <1>3, <1>5, <2>1 DEF Inv, NameInv, Is
  <2>2. CASE i = n
    BY <1>1, <1>2, <1>5, <1>6, <2>2 DEF Is
  <2>3. QED
    BY <1>1, <2>1, <2>2
<1>9. \A i, j \in InHead' : E(i)'.name = E(j)'.name \/ Main(i)' = Main(j)' => i = j
  BY <1>1, <1>2, <1>3 DEF Inv, NameInv
<1>10. \A e \in catalog' : \E i \in InHead' : Is(i, e.name, e.obj)'
  <2>1. \A e \in catalog : \E i \in InHead : Is(i, e.name, e.obj)
    BY DEF Inv, NameInv
  <2>2. QED
    BY <1>1, <1>2, <1>5, <2>1 DEF Is
<1>11. NameInv'
  BY <1>4, <1>8, <1>9, <1>10 DEF NameInv, Sharing, Locking, Creating
<1>12. ASSUME NEW e \in catalog', NEW i \in InHead', Is(i, e.on, e.col)'
       PROVE  i \in InHead /\ e \in catalog
  <2>1. e # c
    BY <1>5, <1>6, <1>7, <1>8, <1>12 DEF Is
  <2>2. e \in catalog
    BY <1>5, <2>1
  <2>3. e.col # op[a].obj
    BY <1>3, <2>2 DEF Inv, CatalogInv
  <2>4. QED
    BY <1>1, <1>12, <2>2, <2>3 DEF Is
<1>13. \A e \in catalog', i \in InHead' :
         Is(i, e.on, e.col)' => \E k \in Fed(i)' : E(i)'.cols[k] = e.obj
  BY <1>1, <1>12 DEF Inv, FeedInv, Is
<1>14. ASSUME NEW i \in InHead', NEW k \in Fed(i)'
       PROVE  \E e \in catalog' : Is(i, e.on, e.col)' /\ E(i)'.cols[k] = e.obj
  <2>1. i \in InHead /\ k \in Fed(i)
    BY <1>1, <1>14
  <2>2. \A b \in Admin : ~Attaching(b, i, E(i).cols[k]) /\ ~Detaching(b, i, E(i).cols[k])
    BY <1>3, <1>4 DEF Attaching, Detaching, Sharing, Locking
  <2>3. \E e \in catalog : Is(i, e.on, e.col) /\ E(i).cols[k] = e.obj
    BY <2>1, <2>2 DEF Inv, FeedInv
  <2>4. QED
    BY <1>1, <1>5, <2>1, <2>3 DEF Is
<1>15. \A i \in InHead' : \A k, l \in Fed(i)' : E(i)'.cols[k] = E(i)'.cols[l] => k = l
  BY <1>1 DEF Inv, FeedInv
<1>16. FeedInv'
  BY <1>4, <1>13, <1>14, <1>15 DEF FeedInv, Sharing, Locking
<1>17. QED
  BY <1>11, <1>16

\* An index is registered, which is not behind its column yet.
LEMMA IndexStored ==
  ASSUME Inv, NEW a \in Admin, Larger(a), Sharing(a),
         head' = slice[a], heap' = heap, object' = object,
         op' = op, catalog' = catalog, pc' = [pc EXCEPT ![a] = 5]
  PROVE  NameInv' /\ FeedInv'
<1> SUFFICES ASSUME NEW n, n = head.len + 1
             PROVE  NameInv' /\ FeedInv'
  OBVIOUS
<1>1. /\ n \in InHead' /\ n \notin InHead /\ \A i \in InHead' : i \in InHead \/ i = n
      /\ \A i \in InHead : /\ i \in InHead'
                           /\ E(i)' = E(i) /\ Main(i)' = Main(i) /\ Fed(i)' = Fed(i)
      /\ E(n)' = Entry(op[a].name, <<op[a].obj>>)
      /\ Main(n)' = op[a].obj /\ Fed(n)' = {} /\ DOMAIN E(n)'.cols = {1} /\ E(n)'.cols # << >>
  BY LargerView
<1>2. E(n)'.name = op[a].name /\ E(n)'.cols[1] = op[a].obj
  BY <1>1 DEF Entry
<1>3. /\ \A i \in InHead : /\ E(i).name # op[a].name /\ Main(i) # op[a].obj
                           /\ \E e \in catalog : Is(i, e.name, e.obj)
      /\ Active(a) /\ ~Waiting(a)
  BY NotYetThere
<1>4. pc \in [Admin -> Nat \ {0}] /\ pc'[a] = 5 /\ \A b \in Admin \ {a} : pc'[b] = pc[b]
  BY DEF Inv, Types
<1>5. ASSUME NEW b \in Admin \ {a} PROVE ~Active(b) \/ Waiting(b)
  BY <1>3, OthersWait DEF Inv
<1>6. ASSUME NEW b \in Admin
      PROVE  /\ Sharing(b)' <=> Sharing(b)
             /\ Shown(b)' <=> b = a
             /\ op[b].kind # "dropIndex"
             /\ ~(Sharing(b) /\ pc[b] >= 7) /\ ~(Sharing(b) /\ pc'[b] >= 7)
             /\ b # a /\ op[b].kind \in Creating => op[b].name # op[a].name
  <2>1. Sharing(b)' <=> Sharing(b)
    BY DEF Sharing
  <2>2. CASE b = a
    <3>1. op[a].kind \in Locking /\ op[a].kind # "dropIndex" /\ pc[a] = 4
      BY DEF Sharing, Larger, Locking
    <3>2. QED
      BY <1>4, <2>1, <2>2, <3>1 DEF Shown
  <2>3. CASE b # a
    <3>1. ~Active(b) \/ Waiting(b)
      BY <1>5, <2>3
    <3>2. Active(b) => op[b].name # op[a].name
      BY <1>3, <2>3 DEF Inv, OpInv
    <3>3. op[b].kind \in Creating => Active(b)
      BY DEF Creating, Active, Locking
    <3>4. CASE ~Active(b)
      BY <2>1, <2>3, <3>2, <3>3, <3>4 DEF Active, Shown, Sharing, Locking, Dropping
    <3>5. CASE Waiting(b)
      <4>1. op[b].kind \in Locking /\ op[b].kind \notin Dropping /\ op[b].kind # "dropIndex" /\ pc[b] = 1
        BY <3>5 DEF Waiting, Sharing, Locking, Dropping
      <4>2. pc'[b] = 1
        BY <1>4, <2>3, <4>1
      <4>3. QED
        BY <2>1, <2>3, <3>2, <3>3, <4>1, <4>2 DEF Shown, Sharing
    <3>6. QED
      BY <3>1, <3>4, <3>5
  <2>4. QED
    BY <2>2, <2>3
<1>7. op[a].name \in Indexes /\ op[a].obj \in DOMAIN object
  BY DEF Inv, OpInv, Sharing, Creating
<1>8. ASSUME NEW i \in InHead'
      PROVE  /\ E(i)'.name \in Names \cup Indexes /\ E(i)'.cols # << >>
             /\ \A k \in DOMAIN E(i)'.cols : E(i)'.cols[k] \in DOMAIN object'
             /\ \/ \E e \in catalog' : Is(i, e.name, e.obj)'
                \/ \E b \in Admin : Shown(b)' /\ E(i)'.name = op'[b].name
  <2>1. CASE i \in InHead
    BY <1>1, <1>3, <2>1 DEF Inv, NameInv, Is
  <2>2. CASE i = n
    BY <1>1, <1>2, <1>6, <1>7, <2>2
  <2>3. QED
    BY <1>1, <2>1, <2>2
<1>9. \A i, j \in InHead' : E(i)'.name = E(j)'.name \/ Main(i)' = Main(j)' => i = j
  BY <1>1, <1>2, <1>3 DEF Inv, NameInv
<1>10. \A e \in catalog' : \E i \in InHead' : Is(i, e.name, e.obj)'
  <2>1. \A e \in catalog : \E i \in InHead : Is(i, e.name, e.obj)
    BY DEF Inv, NameInv
  <2>2. QED
    BY <1>1, <2>1 DEF Is
<1>11. ASSUME NEW b \in Admin
       PROVE  /\ op'[b].kind \in Creating /\ ~Shown(b)' => \A i \in InHead' : E(i)'.name # op'[b].name
              /\ Sharing(b)' /\ Shown(b)' => \E i \in InHead' : Is(i, op[b].name, op[b].obj)'
              /\ Sharing(b)' => \E i \in InHead' : Is(i, op[b].on, op[b].col)'
              /\ op'[b].kind # "dropIndex"
  <2>1. ASSUME op[b].kind \in Creating, ~Shown(b)', NEW i \in InHead'
        PROVE  E(i)'.name # op[b].name
    <3>1. b # a /\ op[b].name # op[a].name
      BY <1>6, <2>1
    <3>2. ~Shown(b)
      BY <1>5, <2>1, <3>1
      DEF Shown, Active, Waiting, Sharing, Locking, Dropping, Creating
    <3>3. QED
      BY <1>1, <1>2, <2>1, <3>1, <3>2 DEF Inv, NameInv
  <2>2. Sharing(b)' /\ Shown(b)' => \E i \in InHead' : Is(i, op[b].name, op[b].obj)'
    BY <1>1, <1>2, <1>6 DEF Is
  <2>3. ASSUME Sharing(b)'
        PROVE  \E i \in InHead' : Is(i, op[b].on, op[b].col)'
    <3>1. PICK i \in InHead : Is(i, op[b].on, op[b].col)
      BY <1>6, <2>3 DEF Inv, NameInv
    <3>2. i \in InHead' /\ E(i)'.name = op'[b].on /\ Main(i)' = op'[b].col
      BY <1>1, <3>1 DEF Is
    <3>3. QED
      BY <3>2 DEF Is
  <2>4. QED
    BY <1>6, <2>1, <2>2, <2>3
<1>12. NameInv'
  BY <1>8, <1>9, <1>10, <1>11 DEF NameInv, Is
<1>13. ASSUME NEW e \in catalog', NEW i \in InHead', Is(i, e.on, e.col)'
       PROVE  i \in InHead /\ e \in catalog
  <2>1. e \in catalog /\ e.on \notin Indexes
    <3>1. e.on \in Names \cup {None}
      BY DEF Inv, Types, Listed
    <3>2. Indexes \cap (Names \cup {None}) = {}
      BY RegistryAssumption
    <3>3. QED
      BY <3>1, <3>2
  <2>2. QED
    BY <1>1, <1>2, <1>7, <1>13, <2>1 DEF Is
<1>14. \A e \in catalog', i \in InHead' :
         Is(i, e.on, e.col)' => \E k \in Fed(i)' : E(i)'.cols[k] = e.obj
  BY <1>1, <1>13 DEF Inv, FeedInv, Is
<1>15. ASSUME NEW i \in InHead', NEW k \in Fed(i)'
       PROVE  \E e \in catalog' : Is(i, e.on, e.col)' /\ E(i)'.cols[k] = e.obj
  <2>1. i \in InHead /\ k \in Fed(i)
    BY <1>1, <1>15
  <2>2. \A b \in Admin : ~Attaching(b, i, E(i).cols[k]) /\ ~Detaching(b, i, E(i).cols[k])
    BY <1>6 DEF Attaching, Detaching
  <2>3. \E e \in catalog : Is(i, e.on, e.col) /\ E(i).cols[k] = e.obj
    BY <2>1, <2>2 DEF Inv, FeedInv
  <2>4. QED
    BY <1>1, <2>1, <2>3 DEF Is
<1>16. \A i \in InHead' : \A k, l \in Fed(i)' : E(i)'.cols[k] = E(i)'.cols[l] => k = l
  BY <1>1 DEF Inv, FeedInv
<1>17. FeedInv'
  BY <1>6, <1>14, <1>15, <1>16 DEF FeedInv
<1>18. QED
  BY <1>12, <1>17

\* An entry is gone.
LEMMA DropStored ==
  ASSUME Inv, NEW a \in Admin, Smaller(a),
         head' = slice[a], heap' = heap, object' = object,
         op'[a] = Idle, \A b \in Admin \ {a} : op'[b] = op[b], catalog' = catalog
  PROVE  NameInv' /\ FeedInv'
<1>1. Active(a) /\ ~Sharing(a) /\ op[a].kind \in Dropping /\ (op[a].kind = "dropIndex" => pc[a] = 6)
  BY DEF Smaller, Active, Sharing, Locking, Dropping
<1>2. \A b \in Admin : op'[b].kind = "none" /\ (op[b].kind = "none" \/ b = a)
  BY <1>1 DEF Inv, OpInv, Active, Idle
<1>3. /\ \A j \in InSlice(a) : S(a, j).name # op[a].name
      /\ \A j \in InSlice(a) : \E i \in InHead : S(a, j) = E(i)
      /\ \A i \in InHead : E(i).name # op[a].name => \E j \in InSlice(a) : S(a, j) = E(i)
      /\ \A j, k \in InSlice(a) : S(a, j).name = S(a, k).name => j = k
  BY DEF Inv, SliceInv
<1>4. InHead' = InSlice(a)
  BY DEF InHead, InSlice
<1>5. \A j : E(j)' = S(a, j)
  BY DEF E, S
<1>6. ASSUME NEW j \in InHead', NEW i \in InHead, S(a, j) = E(i)
      PROVE  E(j)' = E(i) /\ Main(j)' = Main(i) /\ Fed(j)' = Fed(i) /\ E(i).name # op[a].name
  BY <1>3, <1>4, <1>5, <1>6 DEF Main, Fed
<1>7. \A j \in InHead' : \E i \in InHead :
        E(j)' = E(i) /\ Main(j)' = Main(i) /\ Fed(j)' = Fed(i) /\ E(i).name # op[a].name
  BY <1>3, <1>4, <1>6
<1>8. \A i \in InHead : E(i).name # op[a].name =>
        \E j \in InHead' : E(j)' = E(i) /\ Main(j)' = Main(i)
  BY <1>3, <1>4, <1>6
<1>9. \A i \in InHead : E(i).name # op[a].name => \E e \in catalog : Is(i, e.name, e.obj)
  BY <1>2 DEF Inv, NameInv, Shown, Sharing, Locking, Dropping
<1>10. ASSUME NEW j \in InHead'
       PROVE  /\ E(j)'.name \in Names \cup Indexes /\ E(j)'.cols # << >>
              /\ \A k \in DOMAIN E(j)'.cols : E(j)'.cols[k] \in DOMAIN object'
              /\ \E e \in catalog' : Is(j, e.name, e.obj)'
  <2>1. PICK i \in InHead :
          E(j)' = E(i) /\ Main(j)' = Main(i) /\ Fed(j)' = Fed(i) /\ E(i).name # op[a].name
    BY <1>7
  <2>2. PICK e \in catalog : Is(i, e.name, e.obj)
    BY <1>9, <2>1
  <2>3. Is(j, e.name, e.obj)'
    BY <2>1, <2>2 DEF Is
  <2>4. QED
    BY <2>1, <2>3 DEF Inv, NameInv
<1>11. ASSUME NEW j \in InHead', NEW k \in InHead', E(j)'.name = E(k)'.name \/ Main(j)' = Main(k)'
       PROVE  j = k
  <2>1. PICK x \in InHead : E(j)' = E(x) /\ Main(j)' = Main(x)
    BY <1>7
  <2>2. PICK y \in InHead : E(k)' = E(y) /\ Main(k)' = Main(y)
    BY <1>7
  <2>3. x = y
    BY <1>11, <2>1, <2>2 DEF Inv, NameInv
  <2>4. QED
    BY <1>3, <1>4, <1>5, <2>1, <2>2, <2>3
<1>12. ASSUME NEW e \in catalog' PROVE \E j \in InHead' : Is(j, e.name, e.obj)'
  <2>1. PICK i \in InHead : Is(i, e.name, e.obj)
    BY DEF Inv, NameInv
  <2>2. e.name # op[a].name
    BY <1>1 DEF Inv, CatalogInv
  <2>3. PICK j \in InHead' : E(j)' = E(i) /\ Main(j)' = Main(i)
    BY <1>8, <2>1, <2>2 DEF Is
  <2>4. QED
    BY <2>1, <2>3 DEF Is
<1>13. NameInv'
  BY <1>2, <1>10, <1>11, <1>12 DEF NameInv, Sharing, Locking, Creating
<1>14. ASSUME NEW e \in catalog', NEW j \in InHead', Is(j, e.on, e.col)'
       PROVE  \E k \in Fed(j)' : E(j)'.cols[k] = e.obj
  <2>1. PICK i \in InHead : E(j)' = E(i) /\ Main(j)' = Main(i) /\ Fed(j)' = Fed(i)
    BY <1>7
  <2>2. Is(i, e.on, e.col)
    BY <1>14, <2>1 DEF Is
  <2>3. QED
    BY <2>1, <2>2 DEF Inv, FeedInv
<1>15. ASSUME NEW j \in InHead', NEW k \in Fed(j)'
       PROVE  \E e \in catalog' : Is(j, e.on, e.col)' /\ E(j)'.cols[k] = e.obj
  <2>1. PICK i \in InHead : E(j)' = E(i) /\ Main(j)' = Main(i) /\ Fed(j)' = Fed(i)
    BY <1>7
  <2>2. \A b \in Admin : ~Attaching(b, i, E(i).cols[k]) /\ ~Detaching(b, i, E(i).cols[k])
    BY <1>1, <1>2 DEF Attaching, Detaching, Sharing, Locking
  <2>3. PICK e \in catalog : Is(i, e.on, e.col) /\ E(i).cols[k] = e.obj
    BY <2>1, <2>2 DEF Inv, FeedInv
  <2>4. Is(j, e.on, e.col)' /\ E(j)'.cols[k] = e.obj
    BY <2>1, <2>3 DEF Is
  <2>5. QED
    BY <2>4
<1>16. ASSUME NEW j \in InHead', NEW k \in Fed(j)', NEW l \in Fed(j)', E(j)'.cols[k] = E(j)'.cols[l]
       PROVE  k = l
  <2>1. PICK i \in InHead : E(j)' = E(i) /\ Fed(j)' = Fed(i)
    BY <1>7
  <2>2. QED
    BY <1>16, <2>1 DEF Inv, FeedInv
<1>17. FeedInv'
  BY <1>2, <1>14, <1>15, <1>16 DEF FeedInv, Sharing, Locking
<1>18. QED
  BY <1>13, <1>17

LEMMA StoreSliceKeeps ==
  ASSUME Inv, NEW a \in Admin, StoreSlice(a)
  PROVE  Inv'
<1>1. /\ \/ op[a].kind = "createColumn" /\ pc[a] = 4
         \/ Sharing(a) /\ pc[a] \in {4, 7}
         \/ op[a].kind = "dropColumn" /\ pc[a] = 3
         \/ op[a].kind = "dropIndex" /\ pc[a] \in {3, 6}
      /\ Active(a) /\ Advance(a)
  BY Turns DEF StoreSlice, Inv, Active, Sharing, Locking
<1>2. LockStep(a) /\ (op[a].kind = "createColumn" => pc[a] > 1)
  BY <1>1 DEF LockStep, Waiting, Sharing, Locking, StoreSlice
<1>3. UNCHANGED <<object, excused, Elsewhere, heap, slice>> /\ head' = slice[a] /\ ObjectsStay
  BY DEF StoreSlice, ObjectsStay, Inv, Types
<1>4. /\ OpInv' /\ CatalogInv'
      /\ op' \in [Admin -> Operation] /\ pc' \in [Admin -> Nat \ {0}]
      /\ catalog' \in SUBSET Listed /\ lock' \in Admin \cup {None}
      /\ object' \in Seq(ObjectType)
  BY <1>1, <1>2, <1>3, AdminStep
<1>5. Types'
  <2>1. head' \in Slice /\ Fits(head)' /\ \A b \in Admin : Fits(slice[b])'
    BY <1>3 DEF Inv, Types, Fits
  <2>2. UNCHANGED <<workload, total, heap, slice, top, count, commits>>
    BY <1>3 DEF Elsewhere, rows
  <2>3. QED
    BY <1>4, <2>1, <2>2 DEF Inv, Types
<1>6. CASE Same(a)
  <2>1. head' = head /\ Calm(a)
    <3>1. slice[a] = head
      BY <1>6 DEF Inv, SliceInv
    <3>2. (Sharing(a) /\ pc[a] = 7) \/ (op[a].kind = "dropIndex" /\ pc[a] = 3)
      BY <1>1, <1>6 DEF Same, Sharing, Locking
    <3>3. QED
      BY <1>3, <3>1, <3>2 DEF Calm, Sharing, Locking
  <2>2. slice' \in [Admin -> Slice] /\ \A b \in Admin : Fits(slice[b])'
    BY <1>3 DEF Inv, Types, Fits
  <2>3. NameInv' /\ FeedInv' /\ ReachInv'
    BY <1>1, <1>2, <1>3, <2>1, <2>2, HeapStays, CalmStep
  <2>4. pc'[a] = pc[a] + 1 /\ op'[a] = op[a]
    BY <1>1, <1>6, Outcomes DEF Inv, Steps, Same, Sharing, Locking
  <2>5. ~Larger(a)' /\ ~Smaller(a)'
    BY <1>1, <1>6, <2>4 DEF Larger, Smaller, Same, Sharing, Locking, Creating
  <2>6. slice'[a] = head'
    BY <1>3
  <2>7. SliceInv'
    BY <1>1, <1>2, <2>5, <2>6, SliceStep DEF Inv
  <2>8. QED
    BY <1>4, <1>5, <2>3, <2>7 DEF Inv
<1>7. CASE Larger(a)
  <2>1. ReachInv'
    <3> SUFFICES ASSUME NEW n, n = head.len + 1 PROVE ReachInv'
      OBVIOUS
    <3>1. \A i \in InHead' : \/ \E j \in InHead : Main(i)' = Main(j)
                             \/ op[a].kind \in Creating /\ Main(i)' = op[a].obj
      BY <1>3, <1>7, LargerView DEF Larger
    <3>2. UNCHANGED <<object, excused, rows>>
      BY <1>3 DEF Elsewhere
    <3>3. QED
      BY <1>1, <1>2, <3>1, <3>2, ReachStep DEF Inv
  <2>2. CASE op[a].kind = "createColumn"
    <3>1. op'[a] = Idle /\ \A b \in Admin \ {a} : op'[b] = op[b]
      BY <1>1, <1>7, <2>2, Outcomes DEF Inv, Larger, Steps, Locking
    <3>2. catalog' = catalog \cup {Created(a)}
      BY <1>1, <1>7, <2>2, Outcomes DEF Inv, Larger, Steps, Locking, Creating
    <3>3. NameInv' /\ FeedInv'
      BY <1>3, <1>7, <2>2, <3>1, <3>2, ColumnStored
    <3>4. ~Same(a)' /\ ~Larger(a)' /\ ~Smaller(a)'
      BY <3>1 DEF Same, Larger, Smaller, Sharing, Locking, Idle, Creating
    <3>5. SliceInv'
      BY <1>1, <1>2, <3>4, SliceStep DEF Inv
    <3>6. QED
      BY <1>4, <1>5, <2>1, <3>3, <3>5 DEF Inv
  <2>3. CASE Sharing(a)
    <3>1. op' = op /\ catalog' = catalog /\ pc' = [pc EXCEPT ![a] = 5]
      <4>1. pc[a] = 4 /\ Steps(op[a].kind) = 8
        BY <1>7, <2>3 DEF Larger, Steps, Sharing, Locking
      <4>2. QED
        BY <1>1, <4>1, Advances DEF Inv
    <3>2. NameInv' /\ FeedInv'
      BY <1>3, <1>7, <2>3, <3>1, IndexStored
    <3>3. pc'[a] = 5
      BY <3>1 DEF Inv, Types
    <3>4. ~Same(a)' /\ ~Larger(a)' /\ ~Smaller(a)'
      BY <2>3, <3>1, <3>3 DEF Same, Larger, Smaller, Sharing, Locking, Creating
    <3>5. SliceInv'
      BY <1>1, <1>2, <3>4, SliceStep DEF Inv
    <3>6. QED
      BY <1>4, <1>5, <2>1, <3>2, <3>5 DEF Inv
  <2>4. QED
    BY <1>7, <2>2, <2>3 DEF Larger, Creating, Sharing
<1>8. CASE Smaller(a)
  <2>1. op'[a] = Idle /\ (\A b \in Admin \ {a} : op'[b] = op[b]) /\ catalog' = catalog
    BY <1>1, <1>8, Outcomes DEF Inv, Smaller, Steps, Locking, Creating
  <2>2. NameInv' /\ FeedInv'
    BY <1>3, <1>8, <2>1, DropStored
  <2>3. ~Same(a)' /\ ~Larger(a)' /\ ~Smaller(a)'
    BY <2>1 DEF Same, Larger, Smaller, Sharing, Locking, Idle, Creating
  <2>4. SliceInv'
    BY <1>1, <1>2, <2>3, SliceStep DEF Inv
  <2>5. \A i \in InHead' : \E j \in InHead : Main(i)' = Main(j)
    <3>1. \A j \in InSlice(a) : \E i \in InHead : S(a, j) = E(i)
      BY <1>8 DEF Inv, SliceInv
    <3>2. InHead' = InSlice(a) /\ \A j : E(j)' = S(a, j)
      BY <1>3 DEF InHead, InSlice, E, S
    <3>3. QED
      BY <3>1, <3>2 DEF Main
  <2>6. UNCHANGED <<object, excused, rows>>
    BY <1>3 DEF Elsewhere
  <2>7. ReachInv'
    BY <1>1, <1>2, <2>5, <2>6, ReachStep DEF Inv
  <2>8. QED
    BY <1>4, <1>5, <2>2, <2>4, <2>7 DEF Inv
<1>9. QED
  BY <1>1, <1>6, <1>7, <1>8 DEF Same, Larger, Smaller, Creating, Sharing

-----------------------------------------------------------------------------
(* Filter: a copy of the slice without the entry that is dropped *)

LEMMA FilterKeeps ==
  ASSUME Inv, NEW a \in Admin, Filter(a)
  PROVE  Inv'
<1>1. /\ \/ op[a].kind = "dropColumn" /\ pc[a] = 2
         \/ op[a].kind = "dropIndex" /\ pc[a] = 5
      /\ Active(a) /\ Advance(a) /\ Same(a)
  BY Turns DEF Filter, Inv, Active, Same
<1>2. LockStep(a) /\ Calm(a) /\ op[a].kind # "createColumn"
  BY <1>1 DEF LockStep, Calm, Waiting, Sharing, Locking, Filter
<1>3. slice[a] = head
  BY <1>1 DEF Inv, SliceInv
<1> DEFINE m == head.array
           n == head.len
           array == heap[m]
           U == {i \in 1 .. n : array[i].name # op[a].name}
           left == Picked(array, U)
           new == Filled(left, Len(array))
           h == Len(heap) + 1
<1>4. /\ UNCHANGED <<object, excused, Elsewhere, head>>
      /\ heap' = Append(heap, new)
      /\ slice' = [slice EXCEPT ![a] = [array |-> h, len |-> Len(left)]]
  BY <1>3 DEF Filter
<1>5. /\ array \in Seq(EntryType) /\ Len(array) \in Nat \ {0} /\ n \in Nat /\ n <= Len(array)
      /\ h \in Nat
  <2>1. m \in DOMAIN heap /\ heap \in Seq(Seq(EntryType)) /\ n \in Nat /\ n <= Len(heap[m])
        /\ heap[m] # << >>
    BY DEF Inv, Types, Fits, Slice
  <2>2. heap[m] \in Seq(EntryType) /\ Len(heap) \in Nat
    BY <2>1, ElementOfSeq, LenProperties
  <2>3. QED
    BY <2>1, <2>2, EmptySeq
<1>6. U \in SUBSET (1 .. n) /\ U \in SUBSET (1 .. Len(array))
  <2>1. \A i \in 1 .. n : i \in 1 .. Len(array)
    BY <1>5
  <2>2. QED
    BY <2>1, Zenon
<1>7. InHead = 1 .. n /\ \A i \in InHead : E(i) = array[i]
  BY DEF InHead, E
<1>8. U = {i \in InHead : E(i).name # op[a].name}
  BY <1>7, Zenon
<1> HIDE DEF m, n, array, U
<1> DEFINE c == Cardinality(U)
<1>9. /\ c \in 0 .. n /\ Places(U) \in [1 .. c -> U]
      /\ \A k, l \in 1 .. c : Places(U)[k] = Places(U)[l] => k = l
      /\ \A i \in U : \E k \in 1 .. c : Places(U)[k] = i
  BY <1>5, <1>6, PlacesProperty
<1>10. /\ left \in Seq(EntryType) /\ Len(left) = c
       /\ \A k \in 1 .. c : left[k] = array[Places(U)[k]]
  BY <1>5, <1>6, PickedProperty
<1> HIDE DEF left, c
<1>11. c \in Nat /\ c <= Len(array)
  BY <1>5, <1>9
<1>12. /\ new \in Seq(EntryType) /\ Len(new) = Len(array)
       /\ \A k \in 1 .. c : new[k] = left[k]
  BY <1>5, <1>10, <1>11, FilledProperty
<1> HIDE DEF new
<1>13. new # << >>
  BY <1>5, <1>12, EmptySeq
<1>14. /\ heap' \in Seq(Seq(EntryType)) /\ \A i \in DOMAIN heap' : heap'[i] # << >>
       /\ h \in DOMAIN heap' /\ heap'[h] = new
       /\ ViewStays /\ Fits(head)'
       /\ \A b \in Admin : slice'[b] = slice[b] => Fits(slice[b])'
  BY <1>4, <1>12, <1>13, NewArray DEF Inv
<1> HIDE DEF h
<1>15. /\ slice'[a].array = h /\ slice'[a].len = c /\ \A b \in Admin \ {a} : slice'[b] = slice[b]
       /\ slice' \in [Admin -> Slice]
  <2>1. slice \in [Admin -> Slice] /\ [array |-> h, len |-> c] \in Slice
    BY <1>5, <1>11 DEF Inv, Types, Slice
  <2>2. QED
    BY <1>4, <1>10, <2>1
<1>16. Fits(slice[a])'
  BY <1>11, <1>12, <1>14, <1>15 DEF Fits
<1>17. \A b \in Admin : Fits(slice[b])'
  BY <1>14, <1>15, <1>16
<1>18. Types' /\ OpInv' /\ CatalogInv' /\ NameInv' /\ FeedInv' /\ ReachInv'
  BY <1>1, <1>2, <1>4, <1>14, <1>15, <1>17, CalmStep
<1>19. pc'[a] = pc[a] + 1 /\ op'[a] = op[a]
  BY <1>1, Outcomes DEF Inv, Steps, Locking
<1>20. ~Same(a)' /\ ~Larger(a)'
  BY <1>1, <1>19 DEF Same, Larger, Sharing, Locking, Creating
<1>21. InHead' = InHead /\ \A i \in InHead : E(i)' = E(i)
  BY <1>14, ViewFacts
<1>22. InSlice(a)' = 1 .. c
  BY <1>15 DEF InSlice
<1>23. ASSUME NEW k \in 1 .. c
       PROVE  /\ Places(U)[k] \in InHead /\ S(a, k)' = E(Places(U)[k])
              /\ E(Places(U)[k]).name # op[a].name
  <2>1. Places(U)[k] \in U
    BY <1>9
  <2>2. Places(U)[k] \in InHead /\ E(Places(U)[k]).name # op[a].name
    BY <1>8, <2>1
  <2>3. S(a, k)' = new[k]
    BY <1>14, <1>15 DEF S
  <2>4. E(Places(U)[k]) = array[Places(U)[k]]
    BY <1>7, <2>2
  <2>5. QED
    BY <1>10, <1>12, <2>2, <2>3, <2>4
<1>24. /\ \A j \in InSlice(a)' : S(a, j)'.name # op'[a].name
       /\ \A j \in InSlice(a)' : \E i \in InHead' : S(a, j)' = E(i)'
  BY <1>19, <1>21, <1>22, <1>23
<1>25. \A i \in InHead' : E(i)'.name # op'[a].name => \E j \in InSlice(a)' : S(a, j)' = E(i)'
  BY <1>8, <1>9, <1>19, <1>21, <1>22, <1>23
<1>26. ASSUME NEW j \in InSlice(a)', NEW k \in InSlice(a)', S(a, j)'.name = S(a, k)'.name
       PROVE  j = k
  <2>1. Places(U)[j] = Places(U)[k]
    BY <1>22, <1>23, <1>26 DEF Inv, NameInv
  <2>2. QED
    BY <1>9, <1>22, <2>1
<1>27. SliceInv'
  BY <1>1, <1>2, <1>20, <1>24, <1>25, <1>26, SliceStep DEF Inv
<1>28. QED
  BY <1>18, <1>27 DEF Inv

-----------------------------------------------------------------------------
(* Attach and Detach: entries are changed in place *)

LEMMA InPlace ==
  ASSUME Types, NEW new \in Seq(EntryType), Len(new) = Len(heap[head.array]),
         heap' = [heap EXCEPT ![head.array] = new], head' = head, slice' = slice
  PROVE  /\ heap' \in Seq(Seq(EntryType)) /\ \A i \in DOMAIN heap' : heap'[i] # << >>
         /\ Fits(head)' /\ \A b \in Admin : Fits(slice[b])'
         /\ InHead' = InHead /\ \A i : E(i)' = new[i]
<1>1. /\ heap \in Seq(Seq(EntryType)) /\ head.array \in DOMAIN heap
      /\ DOMAIN heap = 1 .. Len(heap) /\ heap[head.array] # << >>
  BY LenProperties DEF Types, Fits
<1>2. heap[head.array] \in Seq(EntryType) /\ Len(heap[head.array]) \in Nat \ {0}
  BY <1>1, ElementOfSeq, EmptySeq
<1>3. /\ heap' \in Seq(Seq(EntryType)) /\ Len(heap') = Len(heap)
      /\ \A j \in 1 .. Len(heap) : heap'[j] = IF j = head.array THEN new ELSE heap[j]
  BY <1>1, ExceptSeq
<1>4. DOMAIN heap' = DOMAIN heap
  BY <1>1, <1>3, LenProperties
<1>5. new # << >>
  BY <1>2, EmptySeq
<1>6. heap'[head.array] = new /\ \A j \in DOMAIN heap : Len(heap'[j]) = Len(heap[j])
  BY <1>1, <1>3
<1>7. \A i \in DOMAIN heap' : heap'[i] # << >>
  BY <1>1, <1>3, <1>4, <1>5 DEF Types
<1>8. Fits(head)' /\ \A b \in Admin : Fits(slice[b])'
  BY <1>4, <1>6 DEF Types, Fits
<1>9. InHead' = InHead /\ \A i : E(i)' = new[i]
  BY <1>6 DEF InHead, E
<1>10. QED
  BY <1>3, <1>7, <1>8, <1>9

LEMMA FirstIs ==
  ASSUME Types, NameInv, NEW i \in InHead, NEW name, E(i).name = name
  PROVE  At(head, name) # {} /\ First(At(head, name)) = i
<1>1. At(head, name) = {j \in InHead : E(j).name = name}
  BY DEF At, InHead, E
<1>2. At(head, name) \in SUBSET Nat /\ i \in At(head, name)
  BY <1>1 DEF InHead
<1>3. First(At(head, name)) \in At(head, name)
  BY <1>2, LeastExists
<1>4. QED
  BY <1>1, <1>2, <1>3 DEF NameInv

\* The index that is created is put behind its column.
LEMMA AttachView ==
  ASSUME Inv, NEW a \in Admin, Attach(a), slice[a] = head,
         NEW h \in InHead, Is(h, op[a].on, op[a].col), op[a].obj \in DOMAIN object
  PROVE  /\ heap' \in Seq(Seq(EntryType)) /\ \A i \in DOMAIN heap' : heap'[i] # << >>
         /\ slice' = slice /\ Fits(head)' /\ \A b \in Admin : Fits(slice[b])'
         /\ InHead' = InHead /\ \A i \in InHead \ {h} : E(i)' = E(i)
         /\ E(h)'.name = E(h).name
         /\ E(h)'.cols = Append(E(h).cols, op[a].obj)
<1> DEFINE x == op[a].obj
           m == head.array
           cols == E(h).cols
           long == Append(cols, x)
           e == [E(h) EXCEPT !.cols = long]
           new == [heap[m] EXCEPT ![h] = e]
<1>1. /\ E(h) \in EntryType /\ cols \in Seq(Nat) /\ cols # << >> /\ Main(h) = cols[1]
      /\ x \in Nat
  BY MainIsObject DEF Inv, NameInv, EntryType, Main, Types, Operation
<1>2. E(h).name = op[a].on /\ cols[1] = op[a].col
  BY <1>1 DEF Is
<1>3. At(head, op[a].on) # {} /\ First(At(head, op[a].on)) = h
  BY <1>2, FirstIs DEF Inv
<1>4. heap' = [heap EXCEPT ![m][h].cols = (<<op[a].col>> \o Tail(@)) \o <<x>>] /\ slice' = slice
  BY <1>3 DEF Attach, Store
<1>5. (<<op[a].col>> \o Tail(cols)) \o <<x>> = long
  BY <1>1, <1>2, ListGrows
<1>6. heap' = [heap EXCEPT ![m] = new]
  BY <1>4, <1>5 DEF E
<1>7. e \in EntryType /\ e.name = E(h).name /\ e.cols = long
  <2>1. long \in Seq(Nat)
    BY <1>1, AppendProperties
  <2>2. QED
    BY <1>1, <2>1 DEF EntryType
<1>8. heap[m] \in Seq(EntryType) /\ h \in 1 .. Len(heap[m]) /\ \A i \in InHead : i \in 1 .. Len(heap[m])
  <2>1. heap[m] \in Seq(EntryType) /\ head.len \in Nat /\ head.len <= Len(heap[m])
    BY ElementOfSeq DEF Inv, Types, Fits, Slice
  <2>2. QED
    BY <2>1 DEF InHead
<1> HIDE DEF e, long, x
<1>9. /\ new \in Seq(EntryType) /\ Len(new) = Len(heap[m])
      /\ \A j \in 1 .. Len(heap[m]) : new[j] = IF j = h THEN e ELSE heap[m][j]
  BY <1>7, <1>8, ExceptSeq
<1> HIDE DEF new
<1>10. /\ heap' \in Seq(Seq(EntryType)) /\ \A i \in DOMAIN heap' : heap'[i] # << >>
       /\ Fits(head)' /\ \A b \in Admin : Fits(slice[b])'
       /\ InHead' = InHead /\ \A i : E(i)' = new[i]
  BY <1>4, <1>6, <1>9, InPlace DEF Inv, Attach
<1>11. \A i \in InHead \ {h} : E(i)' = E(i)
  BY <1>8, <1>9, <1>10 DEF E
<1>12. E(h)' = e
  BY <1>8, <1>9, <1>10
<1>13. QED
  BY <1>4, <1>7, <1>10, <1>11, <1>12 DEF long, x

LEMMA AttachKeeps ==
  ASSUME Inv, NEW a \in Admin, Attach(a)
  PROVE  Inv'
<1>1. Sharing(a) /\ pc[a] = 6 /\ Active(a) /\ Advance(a) /\ Same(a)
  BY Turns DEF Attach, Inv, Active, Same, Sharing, Locking
<1>2. LockStep(a) /\ ~Waiting(a) /\ op[a].kind # "createColumn" /\ op[a].kind \in Creating
  BY <1>1 DEF LockStep, Waiting, Sharing, Locking, Attach, Creating
<1>3. slice[a] = head
  BY <1>1 DEF Inv, SliceInv
<1>4. PICK h \in InHead : Is(h, op[a].on, op[a].col)
  BY <1>1 DEF Inv, NameInv
<1>5. op[a].obj \in DOMAIN object
  BY <1>2 DEF Inv, OpInv
<1>6. /\ heap' \in Seq(Seq(EntryType)) /\ \A i \in DOMAIN heap' : heap'[i] # << >>
      /\ slice' = slice /\ Fits(head)' /\ \A b \in Admin : Fits(slice[b])'
      /\ InHead' = InHead /\ \A i \in InHead \ {h} : E(i)' = E(i)
      /\ E(h)'.name = E(h).name
      /\ E(h)'.cols = Append(E(h).cols, op[a].obj)
  BY <1>3, <1>4, <1>5, AttachView
<1>7. UNCHANGED <<object, excused, Elsewhere, head>> /\ ObjectsStay
  BY DEF Attach, ObjectsStay, Inv, Types
<1>8. /\ OpInv' /\ CatalogInv'
      /\ op' \in [Admin -> Operation] /\ pc' \in [Admin -> Nat \ {0}]
      /\ catalog' \in SUBSET Listed /\ lock' \in Admin \cup {None}
      /\ object' \in Seq(ObjectType)
  BY <1>1, <1>2, <1>7, AdminStep
<1>9. Types'
  <2>1. UNCHANGED <<workload, total, head, slice, top, count, commits>>
    BY <1>6, <1>7 DEF Elsewhere, rows
  <2>2. QED
    BY <1>6, <1>8, <2>1 DEF Inv, Types
<1>10. op' = op /\ catalog' = catalog /\ pc' = [pc EXCEPT ![a] = 7]
  <2>1. Steps(op[a].kind) = 8
    BY <1>1 DEF Steps, Sharing, Locking
  <2>2. QED
    BY <1>1, <2>1, Advances DEF Inv
<1>11. pc'[a] = 7 /\ \A b \in Admin \ {a} : pc'[b] = pc[b]
  BY <1>10 DEF Inv, Types
<1>12. \A b \in Admin : Shown(b)' <=> Shown(b)
  BY <1>1, <1>10, <1>11 DEF Shown, Sharing
<1>13. \A b \in Admin \ {a} : ~Active(b) \/ Waiting(b)
  BY <1>1, <1>2, OthersWait DEF Inv
<1> DEFINE n == Len(E(h).cols)
           x == op[a].obj
<1>14. /\ n \in Nat \ {0} /\ DOMAIN E(h).cols = 1 .. n /\ E(h).cols \in Seq(Nat) /\ x \in Nat
  BY MainIsObject DEF Inv, EntryType, Types, Operation
<1>15. /\ Len(E(h)'.cols) = n + 1 /\ E(h)'.cols[n + 1] = x /\ E(h)'.cols # << >>
       /\ \A k \in 1 .. n : E(h)'.cols[k] = E(h).cols[k]
       /\ DOMAIN E(h)'.cols = 1 .. n + 1
  <2> DEFINE s == E(h).cols
             t == Append(s, x)
  <2>1. s \in Seq(Nat) /\ x \in Nat /\ DOMAIN s = 1 .. n /\ Len(s) = n
    BY <1>14
  <2>2. E(h)'.cols = t
    BY <1>6
  <2> HIDE DEF s, x, n
  <2>3. t \in Seq(Nat) /\ Len(t) = n + 1 /\ t[n + 1] = x /\ \A k \in 1 .. n : t[k] = s[k]
    BY <2>1, AppendProperties
  <2>4. DOMAIN t = 1 .. n + 1 /\ t # << >>
    BY <2>3, <1>14, LenProperties, EmptySeq
  <2>5. QED
    BY <2>2, <2>3, <2>4 DEF s
<1>16. n + 1 \in Fed(h)' /\ Fed(h) = 2 .. n /\ Fed(h)' = 2 .. n + 1
  BY <1>14, <1>15 DEF Fed
<1> HIDE DEF n, x
<1>17. \A i \in InHead : E(i)'.name = E(i).name /\ Main(i)' = Main(i)
  <2>1. 1 \in 1 .. n
    BY <1>14
  <2>2. Main(h)' = Main(h)
    BY <1>15, <2>1 DEF Main
  <2>3. QED
    BY <1>6, <2>2 DEF Main
<1>18. \A i \in InHead \ {h} : Fed(i)' = Fed(i)
  BY <1>6 DEF Fed
<1>19. ASSUME NEW i \in InHead
       PROVE  /\ E(i)'.cols # << >>
              /\ \A k \in DOMAIN E(i)'.cols : E(i)'.cols[k] \in DOMAIN object
  <2>1. CASE i = h
    <3>1. \A k \in 1 .. n + 1 : k \in 1 .. n \/ k = n + 1
      BY <1>14
    <3>2. QED
      BY <1>5, <1>14, <1>15, <2>1, <3>1 DEF Inv, NameInv, x
  <2>2. CASE i # h
    BY <1>6, <2>2 DEF Inv, NameInv
  <2>3. QED
    BY <2>1, <2>2
<1>20. NameInv'
  BY <1>6, <1>7, <1>10, <1>12, <1>17, <1>19, QuietNames DEF Inv
<1>21. \A k \in Fed(h)' : k \in Fed(h) \/ k = n + 1
  BY <1>14, <1>16
<1>22. \A k \in Fed(h) : k \in Fed(h)' /\ k # n + 1 /\ E(h)'.cols[k] = E(h).cols[k]
  BY <1>14, <1>15, <1>16
<1>23. ASSUME NEW i \in InHead, NEW y, NEW b \in Admin
       PROVE  ~Attaching(b, i, y) /\ ~Detaching(b, i, y)
  <2>1. CASE b = a
    BY <1>1, <2>1 DEF Attaching, Detaching, Sharing, Locking
  <2>2. CASE b # a
    BY <1>13, <2>2 DEF Attaching, Detaching, Active, Waiting, Sharing, Locking
  <2>3. QED
    BY <2>1, <2>2
<1>24. ASSUME NEW i \in InHead, NEW k \in Fed(i)
       PROVE  E(i).cols[k] # x /\ \E e \in catalog : Is(i, e.on, e.col) /\ E(i).cols[k] = e.obj
  <2>1. PICK e \in catalog : Is(i, e.on, e.col) /\ E(i).cols[k] = e.obj
    BY <1>23 DEF Inv, FeedInv
  <2>2. e.obj # x
    BY <1>1 DEF Inv, CatalogInv, x
  <2>3. QED
    BY <2>1, <2>2
<1>25. ASSUME NEW e \in catalog', NEW i \in InHead', Is(i, e.on, e.col)'
       PROVE  \E k \in Fed(i)' : E(i)'.cols[k] = e.obj
  <2>1. Is(i, e.on, e.col) /\ e \in catalog /\ i \in InHead
    BY <1>6, <1>10, <1>17, <1>25 DEF Is
  <2>2. PICK k \in Fed(i) : E(i).cols[k] = e.obj
    BY <2>1 DEF Inv, FeedInv
  <2>3. QED
    BY <1>6, <1>18, <1>22, <2>1, <2>2
<1>26. ASSUME NEW b \in Admin, NEW i \in InHead', Sharing(b), pc'[b] >= 7, Is(i, op[b].on, op[b].col)'
       PROVE  \E k \in Fed(i)' : E(i)'.cols[k] = op[b].obj
  <2>1. b = a
    BY <1>11, <1>13, <1>26 DEF Active, Waiting, Sharing, Locking
  <2>2. E(i).name = E(h).name /\ i \in InHead
    BY <1>4, <1>6, <1>10, <1>17, <1>26, <2>1 DEF Is
  <2>3. i = h
    BY <2>2 DEF Inv, NameInv
  <2>4. QED
    BY <1>15, <1>16, <2>1, <2>3 DEF x
<1>27. ASSUME NEW i \in InHead', NEW k \in Fed(i)'
       PROVE  \/ \E e \in catalog' : Is(i, e.on, e.col)' /\ E(i)'.cols[k] = e.obj
              \/ i = h /\ k = n + 1
  <2>1. i \in InHead /\ ((k \in Fed(i) /\ E(i)'.cols[k] = E(i).cols[k]) \/ (i = h /\ k = n + 1))
    BY <1>6, <1>18, <1>21, <1>22
  <2>2. ASSUME k \in Fed(i), E(i)'.cols[k] = E(i).cols[k]
        PROVE  \E e \in catalog' : Is(i, e.on, e.col)' /\ E(i)'.cols[k] = e.obj
    <3>1. PICK e \in catalog : Is(i, e.on, e.col) /\ E(i).cols[k] = e.obj
      BY <1>24, <2>1, <2>2
    <3>2. Is(i, e.on, e.col)'
      BY <1>17, <2>1, <3>1 DEF Is
    <3>3. QED
      BY <1>10, <2>2, <3>1, <3>2
  <2>3. QED
    BY <2>1, <2>2
<1>28. ASSUME NEW y, y = x PROVE Attaching(a, h, y)'
  BY <1>1, <1>4, <1>10, <1>11, <1>17, <1>28 DEF Attaching, Sharing, Is, x
<1>29. ASSUME NEW i \in InHead', NEW k \in Fed(i)', NEW y, y = E(i)'.cols[k]
       PROVE  \/ \E e \in catalog' : Is(i, e.on, e.col)' /\ y = e.obj
              \/ \E b \in Admin : Attaching(b, i, y)'
  BY <1>15, <1>27, <1>28, <1>29
<1>30. ASSUME NEW i \in InHead', NEW k \in Fed(i)', NEW l \in Fed(i)', E(i)'.cols[k] = E(i)'.cols[l]
       PROVE  k = l
  <2>1. CASE i = h
    <3>1. \A j \in Fed(h) : E(h)'.cols[j] # E(h)'.cols[n + 1]
      BY <1>15, <1>22, <1>24
    <3>2. CASE k \in Fed(h) /\ l \in Fed(h)
      BY <1>22, <1>30, <2>1, <3>2 DEF Inv, FeedInv
    <3>3. CASE k = n + 1 \/ l = n + 1
      BY <1>21, <1>30, <2>1, <3>1, <3>3
    <3>4. QED
      BY <1>21, <2>1, <3>2, <3>3
  <2>2. CASE i # h
    BY <1>6, <1>18, <1>30, <2>2 DEF Inv, FeedInv
  <2>3. QED
    BY <2>1, <2>2
<1>31. FeedInv'
  <2>1. \A b \in Admin : Sharing(b)' <=> Sharing(b)
    BY <1>10 DEF Sharing
  <2>2. \A i \in InHead' : \A k \in Fed(i)' :
          \/ \E e \in catalog' : Is(i, e.on, e.col)' /\ E(i)'.cols[k] = e.obj
          \/ \E b \in Admin : Attaching(b, i, E(i).cols[k])' \/ Detaching(b, i, E(i).cols[k])'
    BY <1>29 DEF Attaching
  <2>3. QED
    BY <1>10, <1>25, <1>26, <1>30, <2>1, <2>2 DEF FeedInv, Is
<1>32. ~Larger(a)' /\ ~Smaller(a)' /\ slice'[a] = head'
  BY <1>1, <1>3, <1>6, <1>7, <1>10, <1>11 DEF Larger, Smaller, Sharing, Locking, Creating
<1>33. SliceInv'
  BY <1>1, <1>2, <1>32, SliceStep, <1>7 DEF Inv
<1>34. ReachInv'
  <2>1. UNCHANGED <<object, excused, rows>>
    BY <1>7 DEF Elsewhere
  <2>2. QED
    BY <1>1, <1>2, <1>6, <1>17, <2>1, ReachStep DEF Inv
<1>35. QED
  BY <1>8, <1>9, <1>20, <1>31, <1>33, <1>34 DEF Inv

\* What Load() gives for the name of an entry.
LEMMA LoadIs ==
  ASSUME Types, NameInv, NEW i \in InHead, NEW name, E(i).name = name
  PROVE  LoadWithIndex(name) = E(i).cols /\ Exists(name) /\ Load(name) = Main(i)
<1>1. At(head, name) # {} /\ First(At(head, name)) = i
  BY FirstIs
<1>2. LoadWithIndex(name) = E(i).cols
  BY <1>1 DEF LoadWithIndex, E
<1>3. E(i).cols # << >> /\ E(i).cols \in Seq(Nat)
  BY MainIsObject DEF NameInv, EntryType
<1>4. Head(E(i).cols) = Main(i)
  BY <1>3, HeadTailProperties DEF Main
<1>5. QED
  BY <1>2, <1>3, <1>4 DEF Exists, Load

\* The list of an entry without an index.
Without(cols, index) == Picked(cols, {k \in DOMAIN cols : k = 1 \/ cols[k] # index})

LEMMA WithoutIsSeq ==
  ASSUME NEW s \in Seq(Nat), NEW x
  PROVE  Without(s, x) \in Seq(Nat)
<1>1. {k \in DOMAIN s : k = 1 \/ s[k] # x} \in SUBSET (1 .. Len(s))
  BY LenProperties
<1>2. QED
  BY <1>1, PickedProperty DEF Without

LEMMA WithoutProperty ==
  ASSUME NEW s \in Seq(Nat), s # << >>, NEW x, NEW w, w = Without(s, x),
         \A k, l \in 2 .. Len(s) : s[k] = s[l] => k = l
  PROVE  /\ w # << >> /\ w[1] = s[1]
         /\ \A k \in DOMAIN w : \E l \in DOMAIN s : w[k] = s[l]
         /\ \A k \in 2 .. Len(w) : \E l \in 2 .. Len(s) : w[k] = s[l] /\ s[l] # x
         /\ \A l \in 2 .. Len(s) : s[l] # x => \E k \in 2 .. Len(w) : w[k] = s[l]
         /\ \A k, l \in 2 .. Len(w) : w[k] = w[l] => k = l
<1> DEFINE U == {k \in DOMAIN s : k = 1 \/ s[k] # x}
           c == Cardinality(U)
           p == Places(U)
<1>1. DOMAIN s = 1 .. Len(s) /\ Len(s) \in Nat
  BY LenProperties
<1>2. U \in SUBSET (1 .. Len(s))
  BY <1>1
<1>3. \A k \in 2 .. Len(s) : s[k] # x => k \in U
  <2>1. \A k \in 2 .. Len(s) : k \in 1 .. Len(s)
    BY <1>1
  <2>2. QED
    BY <1>1, <2>1
<1>4. \A k \in U : k = 1 \/ s[k] # x
  OBVIOUS
<1>5. 1 \in U
  <2>1. 1 \in 1 .. Len(s)
    BY <1>1, EmptySeq
  <2>2. QED
    BY <1>1, <2>1
<1>6. w = Picked(s, U)
  BY DEF Without
<1> HIDE DEF U
<1>7. /\ c \in Nat /\ p \in [1 .. c -> U]
      /\ \A k, l \in 1 .. c : p[k] = p[l] => k = l
      /\ \A i \in U : \E k \in 1 .. c : p[k] = i
      /\ 1 \in U => 1 \in 1 .. c /\ p[1] = 1
  BY <1>1, <1>2, PlacesProperty
<1>8. /\ w \in Seq(Nat) /\ Len(w) = c /\ DOMAIN w = 1 .. c
      /\ \A k \in 1 .. c : w[k] = s[p[k]]
  BY <1>2, <1>6, PickedProperty, LenProperties
<1> HIDE DEF c, p
<1>9. w # << >> /\ w[1] = s[1]
  BY <1>5, <1>7, <1>8, EmptySeq
<1>10. ASSUME NEW k \in DOMAIN w
       PROVE  \E l \in DOMAIN s : w[k] = s[l]
  <2>1. k \in 1 .. c
    BY <1>8
  <2>2. p[k] \in DOMAIN s
    BY <1>1, <1>2, <1>7, <2>1
  <2>3. QED
    BY <1>8, <2>1, <2>2
<1>11. ASSUME NEW k \in 2 .. Len(w)
       PROVE  p[k] \in 2 .. Len(s) /\ s[p[k]] # x /\ w[k] = s[p[k]] /\ k \in 1 .. c
  <2>1. k \in 1 .. c /\ k # 1 /\ k \in Nat
    BY <1>7, <1>8
  <2>2. p[k] \in U /\ p[k] \in 1 .. Len(s)
    BY <1>2, <1>7, <2>1
  <2>3. p[k] # 1
    BY <1>7, <2>1, <2>2
  <2>4. p[k] \in 2 .. Len(s)
    BY <1>1, <2>2, <2>3
  <2>5. QED
    BY <1>4, <1>8, <2>1, <2>2, <2>3, <2>4
<1>12. ASSUME NEW l \in 2 .. Len(s), s[l] # x
       PROVE  \E k \in 2 .. Len(w) : w[k] = s[l]
  <2>1. PICK k \in 1 .. c : p[k] = l
    BY <1>3, <1>7, <1>12
  <2>2. l # 1 /\ 1 \in 1 .. Len(s)
    BY <1>1
  <2>3. 1 \in U
    BY <1>5
  <2>4. k # 1
    BY <1>7, <2>1, <2>2, <2>3
  <2>5. k \in 2 .. Len(w)
    <3>1. Len(w) = c /\ c \in Nat /\ k \in 1 .. c
      BY <1>7, <1>8
    <3>2. k \in 2 .. c
      BY <2>4, <3>1
    <3>3. QED
      BY <3>1, <3>2
  <2>6. QED
    BY <1>8, <2>1, <2>5
<1>13. ASSUME NEW k \in 2 .. Len(w), NEW l \in 2 .. Len(w), w[k] = w[l]
       PROVE  k = l
  <2>1. p[k] = p[l]
    <3>1. p[k] \in 2 .. Len(s) /\ p[l] \in 2 .. Len(s) /\ s[p[k]] = s[p[l]]
      BY <1>11, <1>13
    <3>2. QED
      BY <3>1, Zenon
  <2>2. QED
    BY <1>7, <1>11, <2>1
<1>14. \A k \in 2 .. Len(w) : \E l \in 2 .. Len(s) : w[k] = s[l] /\ s[l] # x
  BY <1>11
<1>15. QED
  BY <1>9, <1>10, <1>12, <1>13, <1>14

\* The index that is dropped is taken from behind its column.
LEMMA DetachView ==
  ASSUME Inv, NEW a \in Admin, Detach(a), slice[a] = head,
         NEW j \in InHead, E(j).name = op[a].name
  PROVE  /\ heap' \in Seq(Seq(EntryType)) /\ \A i \in DOMAIN heap' : heap'[i] # << >>
         /\ slice' = slice /\ Fits(head)' /\ \A b \in Admin : Fits(slice[b])'
         /\ InHead' = InHead
         /\ \A i \in InHead : IF E(i).name = op[a].on
              THEN E(i)'.name = E(i).name /\ E(i)'.cols = Without(E(i).cols, Main(j))
              ELSE E(i)' = E(i)
<1> DEFINE m == head.array
           x == Main(j)
           new == [i \in DOMAIN heap[m] |->
                     IF i <= head.len /\ heap[m][i].name = op[a].on
                     THEN Entry(heap[m][i].name, Without(heap[m][i].cols, x)) ELSE heap[m][i]]
<1>1. Load(op[a].name) = x
  BY LoadIs DEF Inv
<1>2. heap' = [heap EXCEPT ![m] = new] /\ slice' = slice /\ head' = head
  BY <1>1, Zenon DEF Detach, Without
<1>3. /\ heap[m] \in Seq(EntryType) /\ DOMAIN heap[m] = 1 .. Len(heap[m])
      /\ Len(heap[m]) \in Nat /\ head.len \in Nat /\ head.len <= Len(heap[m])
  <2>1. m \in DOMAIN heap /\ heap \in Seq(Seq(EntryType)) /\ head.len \in Nat /\ head.len <= Len(heap[m])
    BY DEF Inv, Types, Fits, Slice
  <2>2. heap[m] \in Seq(EntryType)
    BY <2>1, ElementOfSeq
  <2>3. QED
    BY <2>1, <2>2, LenProperties
<1> HIDE DEF x
<1>4. ASSUME NEW i \in 1 .. Len(heap[m])
      PROVE  /\ heap[m][i] \in EntryType
             /\ Entry(heap[m][i].name, Without(heap[m][i].cols, x)) \in EntryType
  <2>1. heap[m][i] \in EntryType
    BY <1>3, ElementOfSeq
  <2>2. Without(heap[m][i].cols, x) \in Seq(Nat)
    BY <2>1, WithoutIsSeq DEF EntryType
  <2>3. QED
    BY <2>1, <2>2 DEF EntryType, Entry
<1>5. new \in [1 .. Len(heap[m]) -> EntryType]
  BY <1>3, <1>4
<1>6. \A i \in 1 .. Len(heap[m]) : new[i] =
        IF i <= head.len /\ heap[m][i].name = op[a].on
        THEN Entry(heap[m][i].name, Without(heap[m][i].cols, x)) ELSE heap[m][i]
  BY <1>3
<1> HIDE DEF new
<1>7. new \in Seq(EntryType) /\ Len(new) = Len(heap[m])
  BY <1>3, <1>5, FunctionIsSeq
<1>8. /\ heap' \in Seq(Seq(EntryType)) /\ \A i \in DOMAIN heap' : heap'[i] # << >>
      /\ Fits(head)' /\ \A b \in Admin : Fits(slice[b])'
      /\ InHead' = InHead /\ \A i : E(i)' = new[i]
  BY <1>2, <1>7, InPlace DEF Inv
<1>9. \A i \in InHead : i \in 1 .. Len(heap[m]) /\ i <= head.len
  BY <1>3 DEF InHead
<1>10. ASSUME NEW i \in InHead
       PROVE  IF E(i).name = op[a].on
              THEN E(i)'.name = E(i).name /\ E(i)'.cols = Without(E(i).cols, x)
              ELSE E(i)' = E(i)
  <2>1. E(i)' = IF E(i).name = op[a].on THEN Entry(E(i).name, Without(E(i).cols, x)) ELSE E(i)
    <3>1. i \in 1 .. Len(heap[m]) /\ i <= head.len /\ E(i)' = new[i]
      BY <1>8, <1>9
    <3>2. E(i) = heap[m][i]
      BY DEF E
    <3>3. QED
      BY <1>6, <3>1, <3>2
  <2>2. QED
    BY <2>1 DEF Entry
<1>11. QED
  BY <1>2, <1>8, <1>10 DEF x

LEMMA DetachKeeps ==
  ASSUME Inv, NEW a \in Admin, Detach(a)
  PROVE  Inv'
<1>1. op[a].kind = "dropIndex" /\ pc[a] = 2 /\ Active(a) /\ Advance(a) /\ Same(a)
  BY Turns DEF Detach, Inv, Active, Same
<1>2. LockStep(a) /\ ~Waiting(a) /\ op[a].kind # "createColumn" /\ ~Sharing(a)
  BY <1>1 DEF LockStep, Waiting, Sharing, Locking, Detach
<1>3. slice[a] = head
  BY <1>1 DEF Inv, SliceInv
<1>4. PICK j \in InHead : E(j).name = op[a].name
  BY <1>1 DEF Inv, NameInv
<1>5. /\ heap' \in Seq(Seq(EntryType)) /\ \A i \in DOMAIN heap' : heap'[i] # << >>
      /\ slice' = slice /\ Fits(head)' /\ \A b \in Admin : Fits(slice[b])'
      /\ InHead' = InHead
      /\ \A i \in InHead : IF E(i).name = op[a].on
           THEN E(i)'.name = E(i).name /\ E(i)'.cols = Without(E(i).cols, Main(j))
           ELSE E(i)' = E(i)
  BY <1>3, <1>4, DetachView
<1>6. UNCHANGED <<object, excused, Elsewhere, head>> /\ ObjectsStay
  BY DEF Detach, ObjectsStay, Inv, Types
<1>7. /\ OpInv' /\ CatalogInv'
      /\ op' \in [Admin -> Operation] /\ pc' \in [Admin -> Nat \ {0}]
      /\ catalog' \in SUBSET Listed /\ lock' \in Admin \cup {None}
      /\ object' \in Seq(ObjectType)
  BY <1>1, <1>2, <1>6, AdminStep
<1>8. Types'
  <2>1. UNCHANGED <<workload, total, head, slice, top, count, commits>>
    BY <1>5, <1>6 DEF Elsewhere, rows
  <2>2. QED
    BY <1>5, <1>7, <2>1 DEF Inv, Types
<1>9. op' = op /\ catalog' = catalog /\ pc' = [pc EXCEPT ![a] = 3]
  <2>1. Steps(op[a].kind) = 6
    BY <1>1 DEF Steps, Locking
  <2>2. QED
    BY <1>1, <2>1, Advances DEF Inv
<1>10. pc'[a] = 3 /\ \A b \in Admin \ {a} : pc'[b] = pc[b]
  BY <1>9 DEF Inv, Types
<1>11. \A b \in Admin : Shown(b)' <=> Shown(b)
  BY <1>1, <1>9, <1>10 DEF Shown, Sharing, Dropping
<1>12. \A b \in Admin \ {a} : ~Active(b) \/ Waiting(b)
  BY <1>1, <1>2, OthersWait DEF Inv
<1> DEFINE x == Main(j)
<1> HIDE DEF x
<1>13. ASSUME NEW i \in InHead
       PROVE  /\ E(i)'.name = E(i).name /\ Main(i)' = Main(i) /\ E(i)'.cols # << >>
              /\ \A k \in DOMAIN E(i)'.cols : E(i)'.cols[k] \in DOMAIN object
              /\ \A k \in Fed(i)' : \E l \in Fed(i) :
                   E(i)'.cols[k] = E(i).cols[l] /\ (E(i).name = op[a].on => E(i).cols[l] # x)
              /\ \A l \in Fed(i) : E(i).cols[l] # x =>
                   \E k \in Fed(i)' : E(i)'.cols[k] = E(i).cols[l]
              /\ \A k, l \in Fed(i)' : E(i)'.cols[k] = E(i)'.cols[l] => k = l
  <2> DEFINE s == E(i).cols
             w == Without(s, x)
  <2>1. /\ s \in Seq(Nat) /\ s # << >> /\ \A k \in DOMAIN s : s[k] \in DOMAIN object
        /\ \A k, l \in Fed(i) : s[k] = s[l] => k = l
    BY MainIsObject DEF Inv, NameInv, EntryType, FeedInv
  <2>2. CASE E(i).name = op[a].on
    <3>1. E(i)'.name = E(i).name /\ E(i)'.cols = w
      BY <1>5, <2>2 DEF x
    <3> HIDE DEF s
    <3>2. Fed(i) = 2 .. Len(s) /\ Fed(i)' = 2 .. Len(w) /\ Main(i) = s[1] /\ Main(i)' = w[1]
      BY <3>1 DEF Fed, Main, s
    <3>3. /\ w # << >> /\ w[1] = s[1]
          /\ \A k \in DOMAIN w : \E l \in DOMAIN s : w[k] = s[l]
          /\ \A k \in 2 .. Len(w) : \E l \in 2 .. Len(s) : w[k] = s[l] /\ s[l] # x
          /\ \A l \in 2 .. Len(s) : s[l] # x => \E k \in 2 .. Len(w) : w[k] = s[l]
          /\ \A k, l \in 2 .. Len(w) : w[k] = w[l] => k = l
      <4>1. s \in Seq(Nat) /\ s # << >> /\ \A k, l \in 2 .. Len(s) : s[k] = s[l] => k = l
        BY <2>1, <3>2
      <4> HIDE DEF w
      <4>2. w = Without(s, x)
        BY DEF w
      <4>3. QED
        BY <4>1, <4>2, WithoutProperty, SMTT(40)
    <3> HIDE DEF w
    <3>4. \A k \in DOMAIN w : w[k] \in DOMAIN object
      BY <2>1, <3>3
    <3>5. E(i).cols = s
      BY DEF s
    <3>6. \A k \in Fed(i)' : \E l \in Fed(i) : w[k] = s[l] /\ s[l] # x
      BY <3>2, <3>3
    <3>7. \A l \in Fed(i) : s[l] # x => \E k \in Fed(i)' : w[k] = s[l]
      BY <3>2, <3>3
    <3>8. \A k, l \in Fed(i)' : w[k] = w[l] => k = l
      BY <3>2, <3>3
    <3>9. Main(i)' = Main(i) /\ w # << >>
      BY <3>2, <3>3
    <3>10. QED
      BY <3>1, <3>4, <3>5, <3>6, <3>7, <3>8, <3>9, Zenon
  <2>3. CASE E(i).name # op[a].on
    <3>1. E(i)' = E(i)
      BY <1>5, <2>3
    <3>2. Fed(i)' = Fed(i) /\ Main(i)' = Main(i)
      BY <3>1 DEF Fed, Main
    <3>3. QED
      BY <2>1, <2>3, <3>1, <3>2
  <2>4. QED
    BY <2>2, <2>3
<1>14. NameInv'
  BY <1>5, <1>6, <1>9, <1>11, <1>13, QuietNames DEF Inv
<1>15. ASSUME NEW e \in catalog PROVE e.obj # x
  <2>1. PICK i \in InHead : Is(i, e.name, e.obj)
    BY DEF Inv, NameInv
  <2>2. SUFFICES ASSUME e.obj = x PROVE FALSE
    OBVIOUS
  <2>3. i = j
    BY <2>1, <2>2 DEF Inv, NameInv, Is, x
  <2>4. QED
    BY <1>1, <1>4, <2>1, <2>3 DEF Is, Inv, CatalogInv
<1>16. ASSUME NEW i \in InHead, NEW y, NEW b \in Admin
       PROVE  ~Attaching(b, i, y) /\ (Detaching(b, i, y) => E(i).name = op[a].on /\ y = x)
  <2>1. CASE b = a
    <3>1. ~Attaching(b, i, y)
      BY <1>2, <2>1 DEF Attaching
    <3>2. ASSUME Detaching(b, i, y) PROVE E(i).name = op[a].on /\ y = x
      <4>1. E(i).name = op[a].on /\ \E l \in InHead : Is(l, op[a].name, y)
        BY <2>1, <3>2 DEF Detaching
      <4>2. PICK l \in InHead : Is(l, op[a].name, y)
        BY <4>1
      <4>3. l = j
        BY <1>4, <4>2 DEF Is, Inv, NameInv
      <4>4. QED
        BY <4>1, <4>2, <4>3 DEF Is, x
    <3>3. QED
      BY <3>1, <3>2
  <2>2. CASE b # a
    BY <1>12, <2>2 DEF Attaching, Detaching, Active, Waiting, Sharing, Locking
  <2>3. QED
    BY <2>1, <2>2
<1>17. ASSUME NEW e \in catalog', NEW i \in InHead', Is(i, e.on, e.col)'
       PROVE  \E k \in Fed(i)' : E(i)'.cols[k] = e.obj
  <2>1. Is(i, e.on, e.col) /\ e \in catalog /\ i \in InHead
    BY <1>5, <1>9, <1>13, <1>17 DEF Is
  <2>2. PICK k \in Fed(i) : E(i).cols[k] = e.obj
    BY <2>1 DEF Inv, FeedInv
  <2>3. e.obj # x
    BY <1>15, <2>1
  <2>4. QED
    BY <1>13, <2>1, <2>2, <2>3
<1>18. ASSUME NEW b \in Admin, Sharing(b), pc'[b] >= 7 PROVE FALSE
  BY <1>2, <1>10, <1>12, <1>18 DEF Active, Waiting, Sharing, Locking
<1>19. ASSUME NEW i \in InHead', NEW k \in Fed(i)'
       PROVE  \E e \in catalog' : Is(i, e.on, e.col)' /\ E(i)'.cols[k] = e.obj
  <2>1. i \in InHead
    BY <1>5
  <2>2. PICK l \in Fed(i) : E(i)'.cols[k] = E(i).cols[l] /\ (E(i).name = op[a].on => E(i).cols[l] # x)
    BY <1>13, <2>1
  <2>3. PICK e \in catalog : Is(i, e.on, e.col) /\ E(i).cols[l] = e.obj
    BY <1>16, <2>1, <2>2 DEF Inv, FeedInv
  <2>4. Is(i, e.on, e.col)'
    BY <1>13, <2>1, <2>3 DEF Is
  <2>5. QED
    BY <1>9, <2>2, <2>3, <2>4
<1>20. ASSUME NEW i \in InHead', NEW k \in Fed(i)', NEW l \in Fed(i)', E(i)'.cols[k] = E(i)'.cols[l]
       PROVE  k = l
  BY <1>5, <1>13, <1>20
<1>21. FeedInv'
  <2>1. \A b \in Admin : Sharing(b)' <=> Sharing(b)
    BY <1>9 DEF Sharing
  <2>2. QED
    BY <1>17, <1>18, <1>19, <1>20, <2>1 DEF FeedInv, Is
<1>22. ~Larger(a)' /\ ~Smaller(a)' /\ slice'[a] = head'
  BY <1>1, <1>3, <1>5, <1>6, <1>9, <1>10 DEF Larger, Smaller, Sharing, Locking, Creating
<1>23. SliceInv'
  BY <1>1, <1>2, <1>22, SliceStep DEF Inv
<1>24. ReachInv'
  <2>1. UNCHANGED <<object, excused, rows>>
    BY <1>6 DEF Elsewhere
  <2>2. QED
    BY <1>1, <1>2, <1>5, <1>13, <2>1, ReachStep DEF Inv
<1>25. QED
  BY <1>7, <1>8, <1>14, <1>21, <1>23, <1>24 DEF Inv

-----------------------------------------------------------------------------
(* Begin: an operation is under way *)

LEMMA ExistsIs ==
  ASSUME Types, NameInv, NEW name, Exists(name)
  PROVE  \E i \in InHead : E(i).name = name /\ Is(i, name, Load(name))
<1>1. At(head, name) # {}
  BY DEF Exists, LoadWithIndex
<1>2. PICK i \in InHead : E(i).name = name
  BY <1>1 DEF At, InHead, E
<1>3. QED
  BY <1>2, LoadIs DEF Is

\* The objects that there were are what they were.
Keeping ==
  /\ object' \in Seq(ObjectType)
  /\ \A o \in DOMAIN object : o \in DOMAIN object' /\ object'[o] = object[o]

\* What is new about the goroutine that begins, and about the objects.
Begun(a, kind, name, on) ==
  /\ ~Active(a) /\ op' \in [Admin -> Operation] /\ pc' \in [Admin -> Nat \ {0}]
  /\ \A b \in Admin \ {a} : op'[b] = op[b] /\ pc'[b] = pc[b]
  /\ op'[a].kind = kind /\ op'[a].name = name /\ pc'[a] = 1
  /\ Keeping
  /\ kind \in Creating =>
       /\ op'[a].obj \in DOMAIN object' /\ op'[a].obj \notin DOMAIN object /\ op'[a].obj # 0
       /\ op'[a].on = on
       /\ object'[op'[a].obj].kind = kind /\ object'[op'[a].obj].on = on
  /\ kind \in Dropping => op'[a].obj = 0
  /\ op'[a].col \in DOMAIN object \cup {0}
  /\ kind \in Locking => \E h \in InHead : Is(h, on, op'[a].col)
  /\ kind = "dropIndex" => \E j \in InHead : E(j).name = name /\ object[Main(j)].on = op'[a].on

\* What was true of the others and of the name.
MayBegin(a, kind, name) ==
  /\ kind \in {"createColumn", "dropColumn"} => name \in Names
  /\ kind \in Locking \cup {"dropIndex"} => name \in Indexes
  /\ \A b \in Admin \ {a} : Active(b) => kind \in Locking /\ Sharing(b) /\ op[b].name # name
  /\ kind \in Creating =>
       (\A i \in InHead : E(i).name # name) /\ (\A e \in catalog : e.name # name)

Delisted(kind, name) ==
  catalog' = IF kind \in Creating THEN catalog ELSE {e \in catalog : e.name # name}

LEMMA BeginAllowed ==
  ASSUME Inv, NEW a \in Admin, NEW kind \in Ops, NEW name \in Names \cup Indexes,
         NEW on \in Names \cup {None}, Begin(a, kind, name, on)
  PROVE  MayBegin(a, kind, name)
<1>1. Allowed(kind, name, on) /\ Alone(a, kind) /\ (kind \in Locking => Fresh(name))
  BY DEF Begin
<1>2. kind \in {"createColumn", "dropColumn"} => name \in Names
  BY <1>1 DEF Allowed
<1>3. kind \in Locking \cup {"dropIndex"} => name \in Indexes
  BY <1>1 DEF Allowed, Locking
<1>4. ASSUME NEW b \in Admin \ {a}, Active(b)
      PROVE  kind \in Locking /\ Sharing(b) /\ op[b].name # name
  <2>1. kind \in Locking /\ Sharing(b)
    BY <1>1, <1>4 DEF Alone, Active, Sharing
  <2>2. QED
    BY <1>1, <2>1 DEF Fresh
<1>5. ASSUME kind \in Creating
      PROVE  (\A i \in InHead : E(i).name # name) /\ (\A e \in catalog : e.name # name)
  <2>1. CASE kind \in Locking
    <3>1. (\A e \in catalog : e.name # name) /\ (\A b \in Admin : op[b].name # name)
      BY <1>1, <2>1 DEF Fresh
    <3>2. \A i \in InHead : E(i).name # name
      BY <3>1 DEF Inv, NameInv, Is
    <3>3. QED
      BY <3>1, <3>2
  <2>2. CASE kind = "createColumn"
    <3>1. ~Exists(name)
      BY <1>1, <2>2 DEF Allowed
    <3>2. \A i \in InHead : E(i).name # name
      BY <3>1, LoadIs DEF Inv
    <3>3. \A e \in catalog : e.name # name
      BY <3>2 DEF Inv, NameInv, Is
    <3>4. QED
      BY <3>2, <3>3
  <2>3. QED
    BY <1>5, <2>1, <2>2 DEF Creating
<1>6. QED
  BY <1>2, <1>3, <1>4, <1>5 DEF MayBegin

LEMMA BeginBegins ==
  ASSUME Inv, NEW a \in Admin, NEW kind \in Ops, NEW name \in Names \cup Indexes,
         NEW on \in Names \cup {None}, Begin(a, kind, name, on)
  PROVE  Begun(a, kind, name, on) /\ Delisted(kind, name)
<1> DEFINE creates == kind \in Creating
           new == [kind |-> kind, name |-> name,
                   on  |-> IF kind = "dropIndex" THEN object[Load(name)].on ELSE on,
                   col |-> IF kind \in Locking THEN Load(on) ELSE 0,
                   obj |-> IF creates THEN Len(object) + 1 ELSE 0]
           o == [kind |-> kind, on |-> on, chunks |-> 0]
<1>1. Allowed(kind, name, on)
  BY DEF Begin
<1>2. /\ op[a].kind = "none" /\ op' = [op EXCEPT ![a] = new] /\ pc' = [pc EXCEPT ![a] = 1]
      /\ object' = IF creates THEN Append(object, o) ELSE object
      /\ catalog' = IF creates THEN catalog ELSE {e \in catalog : e.name # name}
  BY DEF Begin, Creating
<1>3. /\ object \in Seq(ObjectType) /\ o \in ObjectType /\ Len(object) \in Nat
      /\ DOMAIN object = 1 .. Len(object)
  BY LenProperties DEF Inv, Types, ObjectType
<1>4. Keeping
  <2>1. CASE creates
    <3> HIDE DEF o
    <3>1. object' \in Seq(ObjectType) /\ Len(object') = Len(object) + 1
          /\ \A i \in 1 .. Len(object) : object'[i] = object[i]
      BY <1>2, <1>3, <2>1, AppendProperties
    <3>2. DOMAIN object' = 1 .. Len(object) + 1
      BY <3>1, LenProperties
    <3>3. QED
      BY <1>3, <3>1, <3>2 DEF Keeping
  <2>2. CASE ~creates
    BY <1>2, <1>3, <2>2 DEF Keeping
  <2>3. QED
    BY <2>1, <2>2
<1>5. ASSUME creates
      PROVE  /\ Len(object) + 1 \in DOMAIN object' /\ Len(object) + 1 \notin DOMAIN object
             /\ Len(object) + 1 # 0 /\ object'[Len(object) + 1] = o
  <2> HIDE DEF o
  <2>1. object' \in Seq(ObjectType) /\ Len(object') = Len(object) + 1
        /\ object'[Len(object) + 1] = o
    BY <1>2, <1>3, <1>5, AppendProperties
  <2>2. DOMAIN object' = 1 .. Len(object) + 1
    BY <2>1, LenProperties
  <2>3. QED
    BY <1>3, <2>1, <2>2
<1>6. ASSUME kind \in Locking
      PROVE  /\ \E h \in InHead : Is(h, on, Load(on))
             /\ Load(on) \in DOMAIN object
  <2>1. Exists(on)
    BY <1>1, <1>6 DEF Allowed, Locking
  <2>2. PICK h \in InHead : Is(h, on, Load(on))
    BY <2>1, ExistsIs DEF Inv
  <2>3. Load(on) \in DOMAIN object
    BY <2>2, MainIsObject DEF Is, Inv
  <2>4. QED
    BY <2>2, <2>3
<1>7. ASSUME kind = "dropIndex"
      PROVE  /\ \E j \in InHead : E(j).name = name /\ Main(j) = Load(name)
             /\ object[Load(name)].on \in Names \cup {None}
  <2>1. Exists(name)
    BY <1>1, <1>7 DEF Allowed
  <2>2. PICK j \in InHead : Is(j, name, Load(name))
    BY <2>1, ExistsIs DEF Inv
  <2>3. Load(name) \in DOMAIN object
    BY <2>2, MainIsObject DEF Is, Inv
  <2>4. object[Load(name)] \in ObjectType
    BY <1>3, <2>3, ElementOfSeq
  <2>5. QED
    BY <2>2, <2>4 DEF Is, ObjectType
<1>8. new \in Operation
  <2>1. new.col \in Nat /\ new.obj \in Nat
    BY <1>3, <1>6
  <2>2. new.on \in Names \cup {None}
    BY <1>7
  <2>3. QED
    BY <2>1, <2>2 DEF Operation, Kinds
<1> HIDE DEF new
<1>9. /\ op'[a] = new /\ op' \in [Admin -> Operation]
      /\ pc'[a] = 1 /\ pc' \in [Admin -> Nat \ {0}]
      /\ \A b \in Admin \ {a} : op'[b] = op[b] /\ pc'[b] = pc[b]
  BY <1>2, <1>8 DEF Inv, Types
<1>10. /\ new.kind = kind /\ new.name = name
       /\ creates => new.on = on /\ new.obj = Len(object) + 1
       /\ kind \in Locking => new.col = Load(on)
       /\ kind \notin Locking => new.col = 0
       /\ kind = "dropIndex" => new.on = object[Load(name)].on
       /\ kind \in Dropping => new.obj = 0
  BY DEF new, Creating, Dropping, Locking
<1>11. new.col \in DOMAIN object \cup {0}
  BY <1>6, <1>10
<1>12. creates =>
         /\ op'[a].obj \in DOMAIN object' /\ op'[a].obj \notin DOMAIN object /\ op'[a].obj # 0
         /\ op'[a].on = on
         /\ object'[op'[a].obj].kind = kind /\ object'[op'[a].obj].on = on
  BY <1>5, <1>9, <1>10
<1>13. kind \in Locking => \E h \in InHead : Is(h, on, op'[a].col)
  BY <1>6, <1>9, <1>10
<1>14. kind = "dropIndex" => \E j \in InHead : E(j).name = name /\ object[Main(j)].on = op'[a].on
  BY <1>7, <1>9, <1>10
<1>15. Delisted(kind, name) /\ ~Active(a)
  BY <1>2 DEF Delisted, Active
<1>16. QED
  BY <1>4, <1>9, <1>10, <1>11, <1>12, <1>13, <1>14, <1>15 DEF Begun

LEMMA BeginOps ==
  ASSUME Types, OpInv, NEW a \in Admin, NEW kind \in Ops, NEW name, NEW on \in Names \cup {None},
         on = None <=> kind \notin Locking,
         Begun(a, kind, name, on), MayBegin(a, kind, name), lock' = lock
  PROVE  OpInv'
<1>1. ASSUME NEW b \in Admin \ {a}
      PROVE  /\ op'[b] = op[b] /\ pc'[b] = pc[b]
             /\ op[b].col \in DOMAIN object' \cup {0}
             /\ op[b].kind \in Creating =>
                  /\ op[b].obj \in DOMAIN object' /\ object'[op[b].obj] = object[op[b].obj]
  BY DEF Begun, Keeping, OpInv
<1>2. /\ op'[a].kind = kind /\ op'[a].name = name /\ pc'[a] = 1
      /\ op'[a].col \in DOMAIN object' \cup {0}
      /\ kind \in Creating =>
           /\ op'[a].obj \in DOMAIN object' /\ op'[a].obj \notin DOMAIN object
           /\ op'[a].on = on
           /\ object'[op'[a].obj].kind = kind /\ object'[op'[a].obj].on = on
      /\ kind \in Dropping => op'[a].obj = 0
  BY DEF Begun, Keeping
<1>3. /\ 1 <= Steps(kind) /\ kind # "none"
      /\ kind \in {"createColumn", "dropColumn"} => name \in Names
      /\ kind \in Locking \cup {"dropIndex"} => name \in Indexes
      /\ kind = "createColumn" => on = None /\ kind \in Creating
      /\ kind \in Locking => on \in Names /\ kind \in Creating
  BY DEF MayBegin, Steps, Ops, Creating, Locking
<1>4. ASSUME NEW b \in Admin
      PROVE  /\ pc'[b] <= Steps(op'[b].kind)
             /\ op'[b].kind = "none" => op'[b] = Idle
             /\ op'[b].col \in DOMAIN object' \cup {0}
             /\ op'[b].kind \in {"createColumn", "dropColumn"} => op'[b].name \in Names
             /\ op'[b].kind \in Locking \cup {"dropIndex"} => op'[b].name \in Indexes
             /\ op'[b].kind = "createColumn" => op'[b].on = None
             /\ op'[b].kind \in Locking => op'[b].on \in Names
             /\ op'[b].kind \in Creating =>
                  /\ op'[b].obj \in DOMAIN object' /\ object'[op'[b].obj].on = op'[b].on
                  /\ object'[op'[b].obj].kind = op'[b].kind
             /\ op'[b].kind \in Dropping => op'[b].obj = 0
  <2>1. CASE b = a
    BY <1>2, <1>3, <2>1
  <2>2. CASE b # a
    BY <1>1, <2>2 DEF OpInv, Active, Sharing
  <2>3. QED
    BY <2>1, <2>2
<1>5. ASSUME NEW b \in Admin \ {a}, Active(b)
      PROVE  /\ kind \in Locking /\ Sharing(b) /\ op[b].name # name
             /\ op'[a].obj # op[b].obj
  <2>1. kind \in Locking /\ Sharing(b) /\ op[b].name # name
    BY <1>5 DEF MayBegin
  <2>2. op[b].obj \in DOMAIN object /\ op'[a].obj \notin DOMAIN object
    BY <1>2, <2>1 DEF OpInv, Sharing, Creating
  <2>3. QED
    BY <2>1, <2>2
<1>6. ASSUME NEW b \in Admin, NEW c \in Admin, b # c, op'[b].kind # "none", op'[c].kind # "none"
      PROVE  /\ op'[b].kind \in Locking /\ op'[c].kind \in Locking
             /\ op'[b].name # op'[c].name /\ op'[b].obj # op'[c].obj
  <2>1. CASE b = a
    BY <1>1, <1>2, <1>5, <1>6, <2>1 DEF Active, Sharing
  <2>2. CASE c = a
    BY <1>1, <1>2, <1>5, <1>6, <2>2 DEF Active, Sharing
  <2>3. CASE b # a /\ c # a
    BY <1>1, <1>6, <2>3 DEF OpInv, Active, Sharing
  <2>4. QED
    BY <2>1, <2>2, <2>3
<1>7. ASSUME NEW b \in Admin
      PROVE  lock' = b <=> (op'[b].kind \in Locking /\ pc'[b] >= 2)
  <2>1. CASE b = a
    <3>1. ~(pc'[a] >= 2) /\ lock # a
      BY <1>2 DEF OpInv, Begun, Active, Sharing, Locking
    <3>2. QED
      BY <2>1, <3>1
  <2>2. CASE b # a
    BY <1>1, <2>2 DEF OpInv, Sharing
  <2>3. QED
    BY <2>1, <2>2
<1>8. QED
  BY <1>4, <1>6, <1>7 DEF OpInv, Active, Sharing

LEMMA BeginCatalog ==
  ASSUME Types, OpInv, CatalogInv, NEW a \in Admin, NEW kind \in Ops, NEW name, NEW on,
         Begun(a, kind, name, on), MayBegin(a, kind, name), Delisted(kind, name)
  PROVE  CatalogInv'
<1>1. \A e \in catalog' : e \in catalog /\ e.name # name
  BY DEF Delisted, MayBegin
<1>2. ASSUME NEW e \in catalog'
      PROVE  /\ e.obj \in DOMAIN object' /\ object'[e.obj].on = e.on
             /\ e.col \in DOMAIN object' \cup {0}
             /\ e.name \in Names => e.on = None
             /\ e.name \in Indexes => e.on \in Names
  BY <1>1 DEF CatalogInv, Begun, Keeping
<1>3. \A e, f \in catalog' : e.name = f.name \/ e.obj = f.obj => e = f
  BY <1>1 DEF CatalogInv
<1>4. ASSUME NEW e \in catalog', NEW b \in Admin, op'[b].kind # "none"
      PROVE  /\ e.name # op'[b].name /\ e.obj # op'[b].obj
             /\ op'[b].kind = "createColumn" => e.col # op'[b].obj
  <2>1. e \in catalog /\ e.name # name /\ e.obj \in DOMAIN object /\ e.col \in DOMAIN object \cup {0}
    BY <1>1 DEF CatalogInv
  <2>2. CASE b = a
    <3>1. 0 \notin DOMAIN object
      BY LenProperties DEF Types
    <3>2. kind \in Creating \/ kind \in Dropping
      BY DEF Creating, Dropping, Locking, Ops
    <3>3. /\ op'[a].kind = kind /\ op'[a].name = name
          /\ kind \in Creating => op'[a].obj \notin DOMAIN object /\ op'[a].obj # 0
          /\ kind \in Dropping => op'[a].obj = 0
      BY DEF Begun
    <3>4. kind = "createColumn" => kind \in Creating
      BY DEF Creating
    <3>5. QED
      BY <2>1, <2>2, <3>1, <3>2, <3>3, <3>4
  <2>3. CASE b # a
    BY <1>4, <2>1, <2>3 DEF CatalogInv, Active, Begun
  <2>4. QED
    BY <2>2, <2>3
<1>5. QED
  BY <1>2, <1>3, <1>4 DEF CatalogInv, Active

LEMMA BeginNames ==
  ASSUME Types, OpInv, CatalogInv, NameInv, ViewStays,
         NEW a \in Admin, NEW kind \in Ops, NEW name, NEW on,
         Begun(a, kind, name, on), MayBegin(a, kind, name), Delisted(kind, name)
  PROVE  NameInv'
<1>1. /\ InHead' = InHead
      /\ \A i \in InHead : E(i)' = E(i) /\ Main(i)' = Main(i)
      /\ \A i \in InHead : \A n, obj : Is(i, n, obj)' <=> Is(i, n, obj)
  BY ViewFacts
<1>2. /\ op'[a].kind = kind /\ op'[a].name = name /\ pc'[a] = 1
      /\ \A b \in Admin \ {a} : op'[b] = op[b] /\ pc'[b] = pc[b]
  BY DEF Begun
<1>3. kind \in Creating \/ kind \in Dropping
  BY DEF Creating, Dropping, Locking, Ops
<1>4. Shown(a)' <=> kind \in Dropping
  BY <1>2 DEF Shown, Sharing
<1>5. ~Shown(a) /\ ~Sharing(a)
  BY DEF Begun, Active, Shown, Sharing, Locking, Dropping
<1>6. ASSUME NEW b \in Admin \ {a} PROVE (Shown(b)' <=> Shown(b)) /\ (Sharing(b)' <=> Sharing(b))
  BY <1>2 DEF Shown, Sharing
<1>7. ASSUME NEW i \in InHead'
      PROVE  /\ E(i)'.name \in Names \cup Indexes
             /\ E(i)'.cols # << >> /\ \A k \in DOMAIN E(i)'.cols : E(i)'.cols[k] \in DOMAIN object'
             /\ \/ \E e \in catalog' : Is(i, e.name, e.obj)'
                \/ \E b \in Admin : Shown(b)' /\ E(i)'.name = op'[b].name
  <2>1. i \in InHead /\ E(i)' = E(i)
    BY <1>1
  <2>2. /\ E(i).name \in Names \cup Indexes
        /\ E(i).cols # << >> /\ \A k \in DOMAIN E(i).cols : E(i).cols[k] \in DOMAIN object'
    BY <2>1 DEF NameInv, Begun, Keeping
  <2>3. CASE \E e \in catalog : Is(i, e.name, e.obj)
    <3>1. PICK e \in catalog : Is(i, e.name, e.obj)
      BY <2>3
    <3>2. CASE e \in catalog'
      BY <1>1, <2>1, <2>2, <3>1, <3>2
    <3>3. CASE e \notin catalog'
      <4>1. kind \notin Creating /\ e.name = name
        BY <3>3 DEF Delisted
      <4>2. Shown(a)' /\ E(i)'.name = op'[a].name
        BY <1>2, <1>3, <1>4, <2>1, <3>1, <4>1 DEF Is
      <4>3. QED
        BY <2>1, <2>2, <4>2
    <3>4. QED
      BY <3>2, <3>3
  <2>4. CASE \E b \in Admin : Shown(b) /\ E(i).name = op[b].name
    <3>1. PICK b \in Admin : Shown(b) /\ E(i).name = op[b].name
      BY <2>4
    <3>2. b # a
      BY <1>5, <3>1
    <3>3. Shown(b)' /\ E(i)'.name = op'[b].name
      BY <1>2, <1>6, <2>1, <3>1, <3>2
    <3>4. QED
      BY <2>1, <2>2, <3>3
  <2>5. QED
    BY <2>1, <2>3, <2>4 DEF NameInv
<1>8. \A i, j \in InHead' : E(i)'.name = E(j)'.name \/ Main(i)' = Main(j)' => i = j
  BY <1>1 DEF NameInv
<1>9. \A e \in catalog' : \E i \in InHead' : Is(i, e.name, e.obj)'
  BY <1>1 DEF NameInv, Delisted
<1>10. /\ kind \in Creating => \A i \in InHead' : E(i)'.name # name
       /\ kind \in Creating => ~Shown(a)'
       /\ kind \in Locking => \E i \in InHead' : E(i)'.name = op'[a].on /\ Main(i)' = op'[a].col
  <2>1. kind \in Creating => ~(kind \in Dropping)
    BY DEF Creating, Dropping, Locking
  <2>2. kind \in Locking => kind \in Creating
    BY DEF Creating
  <2>3. kind \in Locking => \E i \in InHead : Is(i, op'[a].on, op'[a].col)
    BY <2>2 DEF Begun
  <2>4. kind \in Locking => \E i \in InHead' : E(i)'.name = op'[a].on /\ Main(i)' = op'[a].col
    BY <1>1, <2>3 DEF Is
  <2>5. QED
    BY <1>1, <1>4, <2>1, <2>4 DEF MayBegin
<1>11. ASSUME kind = "dropIndex"
       PROVE  \E i \in InHead' : E(i)'.name = name /\ object'[Main(i)'].on = op'[a].on
  <2>1. PICK j \in InHead : E(j).name = name /\ object[Main(j)].on = op'[a].on
    BY <1>11 DEF Begun
  <2>2. Main(j) \in DOMAIN object
    BY <2>1, MainIsObject
  <2>3. object'[Main(j)] = object[Main(j)]
    BY <2>2 DEF Begun, Keeping
  <2>4. QED
    BY <1>1, <2>1, <2>3
<1>12. ASSUME NEW b \in Admin
       PROVE  /\ op'[b].kind \in Creating /\ ~Shown(b)' => \A i \in InHead' : E(i)'.name # op'[b].name
              /\ Sharing(b)' /\ Shown(b)' => \E i \in InHead' : E(i)'.name = op'[b].name /\ Main(i)' = op'[b].obj
              /\ Sharing(b)' => \E i \in InHead' : E(i)'.name = op'[b].on /\ Main(i)' = op'[b].col
              /\ op'[b].kind = "dropIndex" =>
                   \E i \in InHead' : E(i)'.name = op'[b].name /\ object'[Main(i)'].on = op'[b].on
  <2>1. CASE b = a
    <3>1. (Sharing(a)' <=> kind \in Locking) /\ (Sharing(a)' => ~Shown(a)')
      BY <1>2, <1>10 DEF Sharing, Creating
    <3>2. QED
      BY <1>2, <1>10, <1>11, <2>1, <3>1
  <2>2. CASE b # a
    <3>1. /\ op'[b] = op[b] /\ (Shown(b)' <=> Shown(b)) /\ (Sharing(b)' <=> Sharing(b))
      BY <1>2, <1>6, <2>2
    <3>2. op[b].kind \in Creating /\ ~Shown(b) => \A i \in InHead' : E(i)'.name # op[b].name
      BY <1>1 DEF NameInv
    <3>3. Sharing(b) /\ Shown(b) => \E i \in InHead' : E(i)'.name = op[b].name /\ Main(i)' = op[b].obj
      BY <1>1 DEF NameInv, Is
    <3>4. Sharing(b) => \E i \in InHead' : E(i)'.name = op[b].on /\ Main(i)' = op[b].col
      BY <1>1 DEF NameInv, Is
    <3>5. ASSUME op[b].kind = "dropIndex"
          PROVE  \E i \in InHead' : E(i)'.name = op[b].name /\ object'[Main(i)'].on = op[b].on
      <4>1. PICK j \in InHead : E(j).name = op[b].name /\ object[Main(j)].on = op[b].on
        BY <3>5 DEF NameInv
      <4>2. Main(j) \in DOMAIN object
        BY <4>1, MainIsObject
      <4>3. object'[Main(j)] = object[Main(j)]
        BY <4>2 DEF Begun, Keeping
      <4>4. QED
        BY <1>1, <4>1, <4>3
    <3>6. QED
      BY <3>1, <3>2, <3>3, <3>4, <3>5
  <2>3. QED
    BY <2>1, <2>2
<1>13. QED
  BY <1>7, <1>8, <1>9, <1>12 DEF NameInv, Is

LEMMA BeginFeeds ==
  ASSUME Types, OpInv, CatalogInv, NameInv, FeedInv, ViewStays,
         NEW a \in Admin, NEW kind \in Ops, NEW name, NEW on,
         Begun(a, kind, name, on), MayBegin(a, kind, name), Delisted(kind, name)
  PROVE  FeedInv'
<1>1. /\ InHead' = InHead
      /\ \A i \in InHead : E(i)' = E(i) /\ Main(i)' = Main(i) /\ Fed(i)' = Fed(i)
      /\ \A i \in InHead : \A n, obj : Is(i, n, obj)' <=> Is(i, n, obj)
  BY ViewFacts
<1>2. /\ op'[a].kind = kind /\ op'[a].name = name /\ pc'[a] = 1
      /\ \A b \in Admin \ {a} : op'[b] = op[b] /\ pc'[b] = pc[b]
  BY DEF Begun
<1>3. \A e \in catalog' : e \in catalog
  BY DEF Delisted
<1>4. ~Sharing(a) /\ op[a].kind # "dropIndex"
  BY DEF Begun, Active, Sharing, Locking
<1>5. ASSUME NEW b \in Admin, op'[b].kind \in Locking, pc'[b] >= 7
      PROVE  op'[b] = op[b] /\ Sharing(b) /\ pc[b] >= 7
  <2>1. b # a
    BY <1>2, <1>5
  <2>2. QED
    BY <1>2, <1>5, <2>1 DEF Sharing
<1>6. ASSUME NEW e \in catalog', NEW i \in InHead', E(i)'.name = e.on, Main(i)' = e.col
      PROVE  \E k \in Fed(i)' : E(i)'.cols[k] = e.obj
  BY <1>1, <1>3, <1>6 DEF FeedInv, Is
<1>7. ASSUME NEW b \in Admin, NEW i \in InHead', op'[b].kind \in Locking, pc'[b] >= 7,
             E(i)'.name = op'[b].on, Main(i)' = op'[b].col
      PROVE  \E k \in Fed(i)' : E(i)'.cols[k] = op'[b].obj
  BY <1>1, <1>5, <1>7 DEF FeedInv, Is
<1>8. ASSUME NEW i \in InHead, NEW y,
             \/ \E e \in catalog : Is(i, e.on, e.col) /\ y = e.obj
             \/ \E b \in Admin : Attaching(b, i, y) \/ Detaching(b, i, y)
      PROVE  \/ \E e \in catalog' : Is(i, e.on, e.col) /\ y = e.obj
             \/ \E b \in Admin : Attaching(b, i, y)' \/ Detaching(b, i, y)'
  <2>1. CASE \E b \in Admin : Attaching(b, i, y) \/ Detaching(b, i, y)
    <3>1. PICK b \in Admin : Attaching(b, i, y) \/ Detaching(b, i, y)
      BY <2>1
    <3>2. b # a
      BY <1>4, <3>1 DEF Attaching, Detaching
    <3>3. op'[b] = op[b] /\ pc'[b] = pc[b]
      BY <1>2, <3>2
    <3>4. Attaching(b, i, y) => Attaching(b, i, y)'
      BY <1>1, <3>3 DEF Attaching, Sharing, Is
    <3>5. Detaching(b, i, y) => Detaching(b, i, y)'
      BY <1>1, <3>3 DEF Detaching, Is
    <3>6. QED
      BY <3>1, <3>4, <3>5
  <2>2. CASE \E e \in catalog : Is(i, e.on, e.col) /\ y = e.obj
    <3>1. PICK e \in catalog : Is(i, e.on, e.col) /\ y = e.obj
      BY <2>2
    <3>2. CASE e \in catalog'
      BY <3>1, <3>2
    <3>3. CASE e \notin catalog'
      <4>1. kind \notin Creating /\ e.name = name
        BY <3>3 DEF Delisted
      <4>2. kind = "dropColumn" \/ kind = "dropIndex"
        BY <4>1 DEF Creating, Locking, Ops
      <4>3. E(i).name = e.on /\ E(i).name \in Names \cup Indexes
        BY <3>1 DEF Is, NameInv
      <4>4. e.on # None
        BY <4>3, RegistryAssumption
      <4>5. kind = "dropIndex"
        <5>1. kind = "dropColumn" => e.name \in Names
          BY <4>1 DEF MayBegin
        <5>2. QED
          BY <4>2, <4>4, <5>1 DEF CatalogInv
      <4>6. PICK j \in InHead : E(j).name = name /\ object[Main(j)].on = op'[a].on
        BY <4>5 DEF Begun
      <4>7. PICK l \in InHead : Is(l, e.name, e.obj)
        BY DEF NameInv
      <4>8. l = j
        BY <4>1, <4>6, <4>7 DEF NameInv, Is
      <4>9. Main(j) = e.obj /\ op'[a].on = e.on
        BY <4>6, <4>7, <4>8 DEF Is, CatalogInv
      <4>10. E(j)'.name = name /\ Main(j)' = y /\ j \in InHead'
        BY <1>1, <3>1, <4>6, <4>9
      <4>11. Detaching(a, i, y)'
        <5>1. op'[a].kind = "dropIndex" /\ pc'[a] <= 2 /\ E(i)'.name = op'[a].on
          BY <1>1, <1>2, <4>3, <4>5, <4>9
        <5>2. \E m \in InHead' : E(m)'.name = op'[a].name /\ Main(m)' = y
          BY <1>2, <4>10
        <5>3. QED
          BY <5>1, <5>2 DEF Detaching, Is
      <4>12. QED
        BY <4>11
    <3>4. QED
      BY <3>2, <3>3
  <2>3. QED
    BY <1>8, <2>1, <2>2
<1>9. ASSUME NEW i \in InHead', NEW k \in Fed(i)', NEW y, y = E(i)'.cols[k]
      PROVE  \/ \E e \in catalog' : Is(i, e.on, e.col)' /\ y = e.obj
             \/ \E b \in Admin : Attaching(b, i, y)' \/ Detaching(b, i, y)'
  <2>1. i \in InHead /\ k \in Fed(i) /\ y = E(i).cols[k]
    BY <1>1, <1>9
  <2>2. \/ \E e \in catalog : Is(i, e.on, e.col) /\ y = e.obj
        \/ \E b \in Admin : Attaching(b, i, y) \/ Detaching(b, i, y)
    BY <2>1 DEF FeedInv
  <2>3. \/ \E e \in catalog' : Is(i, e.on, e.col) /\ y = e.obj
        \/ \E b \in Admin : Attaching(b, i, y)' \/ Detaching(b, i, y)'
    BY <1>8, <2>1, <2>2
  <2>4. QED
    BY <1>1, <2>1, <2>3 DEF Is
<1>10. \A i \in InHead' : \A k, l \in Fed(i)' : E(i)'.cols[k] = E(i)'.cols[l] => k = l
  BY <1>1 DEF FeedInv
<1>11. \A i \in InHead' : \A k \in Fed(i)' :
         \/ \E e \in catalog' : Is(i, e.on, e.col)' /\ E(i)'.cols[k] = e.obj
         \/ \E b \in Admin : Attaching(b, i, E(i).cols[k])' \/ Detaching(b, i, E(i).cols[k])'
  BY <1>9 DEF Attaching, Detaching
<1>12. QED
  BY <1>6, <1>7, <1>10, <1>11 DEF FeedInv, Is, Sharing

LEMMA BeginKeeps ==
  ASSUME Inv, NEW a \in Admin, NEW kind \in Ops, NEW name \in Names \cup Indexes,
         NEW on \in Names \cup {None}, on = None <=> kind \notin Locking, Begin(a, kind, name, on)
  PROVE  Inv'
<1>1. Begun(a, kind, name, on) /\ MayBegin(a, kind, name) /\ Delisted(kind, name)
  BY BeginBegins, BeginAllowed
<1>2. UNCHANGED <<workload, heap, head, lock, slice, rows, excused>> /\ total' = total + 1
      /\ total < workload.total
  BY DEF Begin
<1>3. ViewStays
  BY <1>2, HeapStays
<1>4. OpInv' /\ CatalogInv' /\ NameInv' /\ FeedInv'
  BY <1>1, <1>2, <1>3, BeginOps, BeginCatalog, BeginNames, BeginFeeds DEF Inv
<1>5. Types'
  <2>1. total' \in 0 .. workload'.total
    BY <1>2, RegistryAssumption DEF Inv, Types, Workload
  <2>2. /\ op' \in [Admin -> Operation] /\ pc' \in [Admin -> Nat \ {0}]
        /\ object' \in Seq(ObjectType)
    BY <1>1 DEF Begun, Keeping
  <2>3. catalog' \in SUBSET Listed
    BY <1>1 DEF Delisted, Inv, Types
  <2>4. /\ heap' \in Seq(Seq(EntryType)) /\ \A i \in DOMAIN heap' : heap'[i] # << >>
        /\ head' \in Slice /\ slice' \in [Admin -> Slice]
        /\ Fits(head)' /\ \A b \in Admin : Fits(slice[b])'
    BY <1>2 DEF Inv, Types, Fits
  <2>5. /\ workload' \in Workloads /\ lock' \in Admin \cup {None}
        /\ top' \in 0 .. workload'.rows /\ count' \in 0 .. top' /\ commits' \in Nat
    BY <1>2 DEF Inv, Types, rows
  <2>6. QED
    BY <2>1, <2>2, <2>3, <2>4, <2>5 DEF Types
<1>6. /\ op'[a].kind = kind /\ pc'[a] = 1
      /\ \A b \in Admin \ {a} : op'[b] = op[b] /\ pc'[b] = pc[b]
  BY <1>1 DEF Begun
<1>7. SliceInv'
  <2>1. ~Same(a)' /\ ~Larger(a)' /\ ~Smaller(a)'
    BY <1>6 DEF Same, Larger, Smaller
  <2>2. ASSUME NEW b \in Admin \ {a}
        PROVE  /\ Same(b)' => slice'[b] = head'
               /\ (Larger(b)' <=> Larger(b)) /\ (Smaller(b)' <=> Smaller(b))
               /\ InSlice(b)' = InSlice(b) /\ InHead' = InHead
               /\ \A i : S(b, i)' = S(b, i) /\ E(i)' = E(i)
    BY <1>2, <1>6 DEF Inv, SliceInv, Same, Larger, Smaller, Sharing, InSlice, InHead, S, E
  <2>3. ASSUME NEW b \in Admin \ {a}, Larger(b)'
        PROVE  /\ slice'[b].len = head'.len + 1
               /\ \A i \in InHead' : S(b, i)' = E(i)'
               /\ heap'[slice'[b].array][head'.len + 1] = Entry(op'[b].name, <<op'[b].obj>>)
    <3>1. S(b, head.len + 1) = Entry(op[b].name, <<op[b].obj>>)
      BY <2>2, <2>3 DEF Inv, SliceInv
    <3>2. QED
      BY <1>2, <1>6, <2>2, <2>3, <3>1 DEF Inv, SliceInv, S
  <2>4. ASSUME NEW b \in Admin \ {a}, Smaller(b)'
        PROVE  /\ \A j \in InSlice(b)' : S(b, j)'.name # op'[b].name
               /\ \A j \in InSlice(b)' : \E i \in InHead' : S(b, j)' = E(i)'
               /\ \A i \in InHead' : E(i)'.name # op'[b].name => \E j \in InSlice(b)' : S(b, j)' = E(i)'
               /\ \A j, k \in InSlice(b)' : S(b, j)'.name = S(b, k)'.name => j = k
    <3>1. Smaller(b) /\ op'[b] = op[b]
      BY <1>6, <2>2, <2>4
    <3>2. /\ \A j \in InSlice(b) : S(b, j).name # op[b].name
          /\ \A j \in InSlice(b) : \E i \in InHead : S(b, j) = E(i)
          /\ \A i \in InHead : E(i).name # op[b].name => \E j \in InSlice(b) : S(b, j) = E(i)
          /\ \A j, k \in InSlice(b) : S(b, j).name = S(b, k).name => j = k
      BY <3>1 DEF Inv, SliceInv
    <3>3. /\ InSlice(b)' = InSlice(b) /\ InHead' = InHead
          /\ \A i : S(b, i)' = S(b, i) /\ E(i)' = E(i)
      BY <2>2
    <3>4. \A j \in InSlice(b)' : S(b, j)'.name # op'[b].name
      BY <3>1, <3>2, <3>3
    <3>5. \A j \in InSlice(b)' : \E i \in InHead' : S(b, j)' = E(i)'
      BY <3>2, <3>3
    <3>6. \A i \in InHead' : E(i)'.name # op'[b].name => \E j \in InSlice(b)' : S(b, j)' = E(i)'
      BY <3>1, <3>2, <3>3
    <3>7. \A j, k \in InSlice(b)' : S(b, j)'.name = S(b, k)'.name => j = k
      BY <3>2, <3>3
    <3>8. QED
      BY <3>4, <3>5, <3>6, <3>7
  <2>5. QED
    BY <2>1, <2>2, <2>3, <2>4 DEF SliceInv, S
<1>8. ReachInv'
  <2>1. \A o \in DOMAIN object : Reaches(o) => Reaches(o)'
    BY <1>1, <1>2 DEF Begun, Keeping, Reaches, rows
  <2>2. ASSUME NEW i \in InHead' PROVE i \in InHead /\ Main(i)' = Main(i) /\ Main(i) \in DOMAIN object
    BY <1>3, ViewFacts, MainIsObject DEF Inv
  <2>3. ASSUME NEW i \in InHead' PROVE Reaches(Main(i))'
    <3>1. Reaches(Main(i)) /\ Main(i)' = Main(i)
      BY <2>2 DEF Inv, ReachInv
    <3>2. QED
      BY <2>1, <2>2, <3>1 DEF Reaches
  <2>4. ASSUME NEW b \in Admin, op'[b].kind = "createColumn", pc'[b] > 1
        PROVE  Reaches(op[b].obj)'
    <3>1. b # a /\ op'[b] = op[b] /\ pc'[b] = pc[b]
      BY <1>6, <2>4
    <3>2. Reaches(op[b].obj) /\ op[b].obj \in DOMAIN object
      BY <2>4, <3>1 DEF Inv, ReachInv, OpInv, Creating
    <3>3. QED
      BY <2>1, <3>1, <3>2 DEF Reaches
  <2>5. commits' <= ChunkAt(top)' + 1
    BY <1>2 DEF Inv, ReachInv, rows, ChunkAt
  <2>6. QED
    BY <2>3, <2>4, <2>5 DEF ReachInv
<1>9. QED
  BY <1>4, <1>5, <1>7, <1>8 DEF Inv

-----------------------------------------------------------------------------
(* Transactions *)

LEMMA RowsStep ==
  ASSUME Inv, UNCHANGED Rest, ObjectsStay
  PROVE  OpInv' /\ CatalogInv' /\ NameInv' /\ FeedInv' /\ SliceInv'
<1>1. UNCHANGED <<workload, heap, head, lock, op, pc, slice, total, catalog>>
  BY DEF Rest, admins
<1>2. OpInv' /\ CatalogInv'
  <2>1. /\ \A b \in Admin : (Sharing(b)' <=> Sharing(b)) /\ (Active(b)' <=> Active(b))
        /\ DOMAIN object' = DOMAIN object
        /\ \A o \in DOMAIN object : object'[o].on = object[o].on /\ object'[o].kind = object[o].kind
    BY <1>1 DEF Sharing, Active, ObjectsStay
  <2>2. OpInv'
    BY <1>1, <2>1 DEF Inv, OpInv
  <2>3. CatalogInv'
    BY <1>1, <2>1 DEF Inv, CatalogInv
  <2>4. QED
    BY <2>2, <2>3
<1>3. ViewStays
  BY <1>1, HeapStays
<1>4. NameInv'
  <2>1. \A b \in Admin : Shown(b)' <=> Shown(b)
    BY <1>1 DEF Shown, Sharing
  <2>2. \A i \in InHead :
          /\ E(i)'.name = E(i).name /\ Main(i)' = Main(i) /\ E(i)'.cols # << >>
          /\ \A k \in DOMAIN E(i)'.cols : E(i)'.cols[k] \in DOMAIN object
    BY <1>3, ViewFacts DEF Inv, NameInv
  <2>3. InHead' = InHead
    BY <1>3, ViewFacts
  <2>4. QED
    BY <1>1, <2>1, <2>2, <2>3, QuietNames DEF Inv
<1>5. FeedInv'
  BY <1>1, <1>3, QuietFeeds DEF Inv
<1>6. SliceInv'
  BY <1>1 DEF Inv, SliceInv, Same, Larger, Smaller, Sharing, InSlice, InHead, S, E
<1>7. QED
  BY <1>2, <1>4, <1>5, <1>6

LEMMA RowTypes ==
  ASSUME Inv, UNCHANGED Rest, ObjectsStay,
         top' \in 0 .. workload.rows, count' \in 0 .. top', commits' \in Nat
  PROVE  Types'
<1>1. UNCHANGED <<workload, heap, head, lock, op, pc, slice, total, catalog>>
  BY DEF Rest, admins
<1>2. object' \in Seq(ObjectType)
  BY DEF ObjectsStay
<1>3. QED
  BY <1>1, <1>2 DEF Inv, Types, Fits

\* Objects that are what they were reach as far as they did.
LEMMA ReachStays ==
  ASSUME Inv, UNCHANGED Rest, UNCHANGED <<object, commits, excused>>
  PROVE  /\ \A i \in InHead' : Reaches(Main(i))'
         /\ \A a \in Admin : op'[a].kind = "createColumn" /\ pc'[a] > 1 => Reaches(op[a].obj)'
<1>1. UNCHANGED <<heap, head, op, pc>>
  BY DEF Rest, admins
<1>2. \A i \in InHead : Reaches(Main(i))'
  BY <1>1 DEF Inv, ReachInv, Reaches, Main, E
<1>3. InHead' = InHead
  BY <1>1 DEF InHead
<1>4. QED
  BY <1>1, <1>2, <1>3 DEF Inv, ReachInv, Reaches

LEMMA InsertKeeps ==
  ASSUME Inv, Insert
  PROVE  Inv'
<1>1. /\ count < workload.rows /\ count' = count + 1
      /\ (count < top /\ top' = top) \/ (top < workload.rows /\ top' = top + 1)
      /\ UNCHANGED Rest /\ UNCHANGED <<object, commits, excused>>
  BY DEF Insert
<1>2. workload \in Workload /\ workload.rows \in Nat
  BY RegistryAssumption DEF Inv, Types, Workload
<1>3. top \in 0 .. workload.rows /\ count \in 0 .. top /\ commits \in Nat
  BY DEF Inv, Types
<1>4. top' \in 0 .. workload.rows /\ count' \in 0 .. top' /\ top <= top' /\ top \in Nat /\ top' \in Nat
  BY <1>1, <1>2, <1>3
<1>5. ObjectsStay
  BY <1>1 DEF ObjectsStay, Inv, Types
<1>6. Types' /\ OpInv' /\ CatalogInv' /\ NameInv' /\ FeedInv' /\ SliceInv'
  BY <1>1, <1>3, <1>4, <1>5, RowTypes, RowsStep
<1>7. commits' <= ChunkAt(top') + 1
  <2>1. ChunkAt(top) \in Nat /\ ChunkAt(top') \in Nat /\ ChunkAt(top) <= ChunkAt(top')
    BY <1>4, ChunksFollow
  <2>2. commits <= ChunkAt(top) + 1
    BY DEF Inv, ReachInv
  <2>3. QED
    BY <1>1, <1>3, <2>1, <2>2
<1>8. ReachInv'
  BY <1>1, <1>7, ReachStays DEF ReachInv, ChunkAt
<1>9. QED
  BY <1>6, <1>8 DEF Inv

LEMMA ShrinkKeeps ==
  ASSUME Inv, Shrink
  PROVE  Inv'
<1>1. /\ count > 0 /\ count' = count - 1
      /\ UNCHANGED Rest /\ UNCHANGED <<object, top, commits, excused>>
  BY DEF Shrink
<1>2. top \in 0 .. workload.rows /\ count \in 0 .. top /\ commits \in Nat
  BY DEF Inv, Types
<1>3. top' \in 0 .. workload.rows /\ count' \in 0 .. top'
  BY <1>1, <1>2
<1>4. ObjectsStay
  BY <1>1 DEF ObjectsStay, Inv, Types
<1>5. Types' /\ OpInv' /\ CatalogInv' /\ NameInv' /\ FeedInv' /\ SliceInv'
  BY <1>1, <1>2, <1>3, <1>4, RowTypes, RowsStep
<1>6. commits' <= ChunkAt(top') + 1
  BY <1>1 DEF Inv, ReachInv
<1>7. ReachInv'
  BY <1>1, <1>6, ReachStays DEF ReachInv, ChunkAt
<1>8. QED
  BY <1>5, <1>7 DEF Inv

LEMMA RegisteredIs ==
  ASSUME Types, NameInv
  PROVE  Registered = {Main(i) : i \in InHead}
<1>1. ASSUME NEW i \in InHead PROVE Head(E(i).cols) = Main(i)
  <2>1. E(i).cols # << >> /\ E(i).cols \in Seq(Nat)
    BY MainIsObject DEF NameInv, EntryType
  <2>2. QED
    BY <2>1, HeadTailProperties DEF Main
<1>2. Registered = {Head(E(i).cols) : i \in InHead}
  BY DEF Registered, E, InHead
<1>3. QED
  BY <1>1, <1>2

LEMMA CommitCapacityKeeps ==
  ASSUME Inv, NEW r \in 0 .. top, CommitCapacity(r)
  PROVE  Inv'
<1> DEFINE c == ChunkAt(r) + 1
           new(o) == IF o \in Registered /\ object[o].chunks < c
                     THEN [object[o] EXCEPT !.chunks = c] ELSE object[o]
<1>1. /\ object' = [o \in DOMAIN object |-> new(o)] /\ commits' = c
      /\ excused' = excused \cup Awaited
      /\ UNCHANGED Rest /\ UNCHANGED <<count, top>>
  BY DEF CommitCapacity
<1>2. top \in 0 .. workload.rows /\ count \in 0 .. top /\ top \in Nat
  BY DEF Inv, Types
<1>3. r \in Nat /\ r <= top
  BY <1>2
<1>4. ChunkAt(r) \in Nat /\ ChunkAt(top) \in Nat /\ ChunkAt(r) <= ChunkAt(top) /\ c \in Nat
  BY <1>2, <1>3, ChunksFollow
<1> HIDE DEF c
<1>5. /\ object \in Seq(ObjectType) /\ Len(object) \in Nat /\ DOMAIN object = 1 .. Len(object)
  BY LenProperties DEF Inv, Types
<1>6. ASSUME NEW o \in DOMAIN object
      PROVE  /\ object[o] \in ObjectType
             /\ new(o) \in ObjectType /\ new(o).on = object[o].on /\ new(o).kind = object[o].kind
             /\ o \in Registered => new(o).chunks >= c
  <2>1. object[o] \in ObjectType
    BY <1>5, ElementOfSeq
  <2>2. object[o].chunks \in Nat
    BY <2>1 DEF ObjectType
  <2>3. CASE o \in Registered /\ object[o].chunks < c
    BY <1>4, <2>1, <2>3 DEF ObjectType
  <2>4. CASE ~(o \in Registered /\ object[o].chunks < c)
    BY <1>4, <2>1, <2>2, <2>4
  <2>5. QED
    BY <2>3, <2>4
<1> HIDE DEF new
<1>7. ObjectsStay
  <2>1. object' \in [1 .. Len(object) -> ObjectType]
    BY <1>1, <1>5, <1>6
  <2>2. object' \in Seq(ObjectType)
    BY <1>5, <2>1, FunctionIsSeq
  <2>3. QED
    BY <1>1, <1>6, <2>2 DEF ObjectsStay
<1>8. Types' /\ OpInv' /\ CatalogInv' /\ NameInv' /\ FeedInv' /\ SliceInv'
  <2>1. commits' \in Nat
    BY <1>1, <1>4
  <2>2. QED
    BY <1>1, <1>2, <1>7, <2>1, RowTypes, RowsStep
<1>9. UNCHANGED <<heap, head, op, pc>>
  BY <1>1 DEF Rest, admins
<1>10. ASSUME NEW o \in Registered, o \in DOMAIN object PROVE object'[o].chunks >= commits'
  BY <1>1, <1>6, <1>10
<1>11. ASSUME NEW i \in InHead' PROVE Reaches(Main(i))'
  <2>1. i \in InHead /\ Main(i)' = Main(i)
    BY <1>9 DEF InHead, Main, E
  <2>2. Main(i) \in Registered /\ Main(i) \in DOMAIN object
    BY <2>1, RegisteredIs, MainIsObject DEF Inv
  <2>3. QED
    BY <1>10, <2>1, <2>2 DEF Reaches
<1>12. ASSUME NEW a \in Admin, op'[a].kind = "createColumn", pc'[a] > 1
       PROVE  Reaches(op[a].obj)'
  <2>1. op'[a] = op[a] /\ op[a].kind = "createColumn" /\ pc[a] > 1
    BY <1>9, <1>12
  <2>2. op[a].obj \in DOMAIN object
    BY <2>1 DEF Inv, OpInv, Creating
  <2>3. op[a].obj \in Registered \/ op[a].obj \in Awaited
    BY <2>1 DEF Awaited
  <2>4. CASE op[a].obj \in Registered
    BY <1>10, <2>1, <2>2, <2>4 DEF Reaches
  <2>5. CASE op[a].obj \in Awaited
    BY <1>1, <2>1, <2>5 DEF Reaches
  <2>6. QED
    BY <2>3, <2>4, <2>5
<1>13. commits' <= ChunkAt(top') + 1
  BY <1>1, <1>4 DEF Inv, ReachInv, c
<1>14. ReachInv'
  BY <1>11, <1>12, <1>13 DEF ReachInv, ChunkAt
<1>15. QED
  BY <1>8, <1>14 DEF Inv

-----------------------------------------------------------------------------
(* The inductive invariant *)

LEMMA InitHolds ==
  ASSUME Init
  PROVE  Inv
<1>1. /\ workload \in Workloads /\ heap = << Array(Room) >> /\ head = [array |-> 1, len |-> 0]
      /\ object = << >> /\ lock = None
      /\ op = [a \in Admin |-> Idle] /\ pc = [a \in Admin |-> 1]
      /\ slice = [a \in Admin |-> head] /\ total = 0
      /\ count = 0 /\ top = 0 /\ commits = 0 /\ catalog = {}
  BY DEF Init
<1>2. Blank \in EntryType /\ Idle \in Operation
  <2>1. << >> \in Seq(Nat)
    OBVIOUS
  <2>2. QED
    BY <2>1 DEF Blank, Entry, EntryType, Idle, Operation, Kinds
<1>3. Array(Room) \in Seq(EntryType) /\ Len(Array(Room)) = Room /\ Room \in Nat \ {0}
  <2>1. Room \in Nat \ {0}
    BY RegistryAssumption
  <2>2. Array(Room) \in [1 .. Room -> EntryType]
    BY <1>2 DEF Array
  <2>3. QED
    BY <2>1, <2>2, FunctionIsSeq
<1>4. Array(Room) # << >>
  BY <1>3, EmptySeq
<1> DEFINE first == Array(Room)
<1> HIDE DEF first
<1>5. /\ heap \in Seq(Seq(EntryType)) /\ DOMAIN heap = {1} /\ heap[1] = first
      /\ Len(first) \in Nat /\ first # << >>
  <2>1. heap = << first >> /\ first \in Seq(EntryType) /\ first # << >> /\ Len(first) \in Nat
    BY <1>1, <1>3, <1>4 DEF first
  <2>2. QED
    BY <2>1
<1>6. head \in Slice /\ Fits(head) /\ InHead = {}
  BY <1>1, <1>5 DEF Slice, Fits, InHead
<1>7. workload.rows \in Nat /\ workload.total \in Nat
  BY <1>1, RegistryAssumption DEF Workload
<1>8. DOMAIN object = {} /\ object \in Seq(ObjectType)
  BY <1>1
<1>9. Types
  <2>1. slice \in [Admin -> Slice] /\ \A a \in Admin : Fits(slice[a])
    BY <1>1, <1>6
  <2>2. op \in [Admin -> Operation] /\ pc \in [Admin -> Nat \ {0}]
    BY <1>1, <1>2
  <2>3. \A i \in DOMAIN heap : heap[i] # << >>
    BY <1>5
  <2>4. total \in 0 .. workload.total /\ top \in 0 .. workload.rows /\ count \in 0 .. top
    BY <1>1, <1>7
  <2>5. workload \in Workloads /\ commits \in Nat /\ lock \in Admin \cup {None}
    BY <1>1
  <2>6. catalog \in SUBSET Listed
    BY <1>1
  <2>7. head \in Slice /\ Fits(head) /\ heap \in Seq(Seq(EntryType)) /\ object \in Seq(ObjectType)
    BY <1>5, <1>6, <1>8
  <2>8. QED
    BY <2>1, <2>2, <2>3, <2>4, <2>5, <2>6, <2>7 DEF Types
<1>10. \A a \in Admin : op[a] = Idle /\ pc[a] = 1 /\ op[a].kind = "none"
  BY <1>1 DEF Idle
<1>11. \A a \in Admin : ~Active(a) /\ ~Sharing(a) /\ ~Shown(a) /\ op[a].kind \notin Creating \cup Dropping
  BY <1>10 DEF Active, Sharing, Shown, Creating, Dropping, Locking
<1>12. OpInv
  <2>1. \A a \in Admin : lock # a
    BY <1>1, RegistryAssumption
  <2>2. 1 <= Steps("none")
    BY DEF Steps, Locking
  <2>3. \A a \in Admin : op[a].col = 0
    BY <1>10 DEF Idle
  <2>4. QED
    BY <1>10, <1>11, <2>1, <2>2, <2>3 DEF OpInv, Locking, Creating, Dropping
<1>13. CatalogInv
  BY <1>1 DEF CatalogInv
<1>14. NameInv
  BY <1>1, <1>6, <1>10, <1>11 DEF NameInv
<1>15. FeedInv
  BY <1>1, <1>6 DEF FeedInv
<1>16. SliceInv
  BY <1>10, <1>11 DEF SliceInv, Same, Larger, Smaller
<1>17. ReachInv
  <2>1. ChunkAt(0) \in Nat
    BY ChunksFollow
  <2>2. QED
    BY <1>1, <1>6, <1>10, <2>1 DEF ReachInv
<1>18. QED
  BY <1>9, <1>12, <1>13, <1>14, <1>15, <1>16, <1>17 DEF Inv

LEMMA StutterKeeps ==
  ASSUME Inv, UNCHANGED vars
  PROVE  Inv'
<1>1. UNCHANGED Rest /\ UNCHANGED <<object, count, top, commits, excused>>
  BY DEF vars, Rest, admins, rows, history
<1>2. ObjectsStay
  BY <1>1 DEF ObjectsStay, Inv, Types
<1>3. Types' /\ OpInv' /\ CatalogInv' /\ NameInv' /\ FeedInv' /\ SliceInv'
  <2>1. /\ top' \in 0 .. workload.rows /\ count' \in 0 .. top' /\ commits' \in Nat
    BY <1>1 DEF Inv, Types
  <2>2. QED
    BY <1>1, <1>2, <2>1, RowTypes, RowsStep
<1>4. commits' <= ChunkAt(top') + 1
  BY <1>1 DEF Inv, ReachInv
<1>5. ReachInv'
  BY <1>1, <1>4, ReachStays DEF ReachInv, ChunkAt
<1>6. QED
  BY <1>3, <1>5 DEF Inv

LEMMA NextKeeps ==
  ASSUME Inv, [Next]_vars
  PROVE  Inv'
<1>1. CASE UNCHANGED vars
  BY <1>1, StutterKeeps
<1>2. ASSUME NEW a \in Admin, NEW kind \in Ops, NEW name \in Names \cup Indexes,
             NEW on \in Names \cup {None}, on = None <=> kind \notin Locking,
             Begin(a, kind, name, on)
      PROVE  Inv'
  BY <1>2, BeginKeeps
<1>3. ASSUME NEW a \in Admin,
             \/ Grow(a) \/ Lock(a) \/ Unlock(a) \/ LoadSlice(a) \/ Put(a) \/ Attach(a)
             \/ Detach(a) \/ Filter(a) \/ StoreSlice(a)
      PROVE  Inv'
  BY <1>3, GrowKeeps, LockKeeps, UnlockKeeps, LoadSliceKeeps, PutKeeps, AttachKeeps, DetachKeeps,
     FilterKeeps, StoreSliceKeeps
<1>4. CASE Insert \/ Free \/ Delete
  BY <1>4, InsertKeeps, ShrinkKeeps DEF Free, Delete
<1>5. ASSUME NEW r \in 0 .. top, CommitCapacity(r)
      PROVE  Inv'
  BY <1>5, CommitCapacityKeeps
<1>6. QED
  BY <1>1, <1>2, <1>3, <1>4, <1>5 DEF Next

\* However operations and commits alternate, the slice that everybody reads
\* agrees with the catalog, up to what the operations that are under way have
\* left to do.
THEOREM Invariance == Spec => []Inv
<1>1. Init => Inv
  BY InitHolds
<1>2. Inv /\ [Next]_vars => Inv'
  BY NextKeeps
<1>3. QED
  BY <1>1, <1>2, PTL DEF Spec

\* Types: slices lie in their arrays, and entries that are read have names.
THEOREM RegistryTypes == Spec => []TypeOK
<1>1. Inv => TypeOK
  <2> SUFFICES ASSUME Inv PROVE TypeOK
    OBVIOUS
  <2>1. workload \in Workloads /\ total \in 0 .. workload.total
    BY DEF Inv, Types
  <2>2. ASSUME NEW s \in {head} \cup {slice[a] : a \in Admin}
        PROVE  s.array \in DOMAIN heap /\ s.len \in 0 .. Len(heap[s.array])
    <3>1. s \in Slice /\ Fits(s)
      BY DEF Inv, Types
    <3>2. heap[s.array] \in Seq(EntryType) /\ s.array \in DOMAIN heap
      BY <3>1, ElementOfSeq DEF Fits, Inv, Types
    <3>3. QED
      BY <3>1, <3>2, LenProperties DEF Fits, Slice
  <2>3. \A i \in 1 .. head.len : heap[head.array][i].name \in Names \cup Indexes
    BY DEF Inv, NameInv, InHead, E
  <2>4. ASSUME NEW a \in Admin
        PROVE  op[a].kind \in Ops \cup {"none"} /\ pc[a] \in 1 .. 9
    <3>1. op[a].kind \in Ops \cup {"none"} /\ pc[a] \in Nat \ {0} /\ pc[a] <= Steps(op[a].kind)
      BY DEF Inv, Types, Operation, Kinds, OpInv
    <3>2. Steps(op[a].kind) \in 1 .. 9
      BY DEF Steps
    <3>3. QED
      BY <3>1, <3>2
  <2>5. lock \in Admin \cup {None} /\ top \in 0 .. workload.rows /\ count \in 0 .. top
    BY DEF Inv, Types
  <2>6. \A o \in DOMAIN object : object[o].kind \in Ops /\ object[o].chunks \in Nat
    <3>1. \A o \in DOMAIN object : object[o] \in ObjectType
      BY ElementOfSeq, LenProperties DEF Inv, Types
    <3>2. QED
      BY <3>1 DEF ObjectType
  <2>7. QED
    BY <2>1, <2>2, <2>3, <2>4, <2>5, <2>6 DEF TypeOK
<1>2. QED
  BY <1>1, Invariance, PTL

LEMMA CatalogFollows ==
  ASSUME Inv
  PROVE  RegistryIsCatalog
<1>1. ASSUME NEW name, NEW i \in InHead, E(i).name = name
      PROVE  /\ Cardinality(At(head, name)) = 1 /\ Load(name) = Main(i)
             /\ Attached(name) = Tail(E(i).cols)
  <2>1. LoadWithIndex(name) = E(i).cols /\ Exists(name) /\ Load(name) = Main(i)
    BY <1>1, LoadIs DEF Inv
  <2>2. At(head, name) = {i}
    <3>1. At(head, name) = {j \in InHead : E(j).name = name}
      BY DEF At, InHead, E
    <3>2. \A j \in InHead : E(j).name = name <=> j = i
      BY <1>1 DEF Inv, NameInv
    <3>3. QED
      BY <3>1, <3>2
  <2>3. QED
    BY <2>1, <2>2, FS_Singleton DEF Attached
<1>2. ASSUME NEW i \in InHead
      PROVE  /\ DOMAIN Tail(E(i).cols) \subseteq Nat
             /\ \A k \in DOMAIN Tail(E(i).cols) : k + 1 \in Fed(i) /\ Tail(E(i).cols)[k] = E(i).cols[k + 1]
             /\ \A k \in Fed(i) : k - 1 \in DOMAIN Tail(E(i).cols) /\ Tail(E(i).cols)[k - 1] = E(i).cols[k]
  <2> DEFINE s == E(i).cols
             t == Tail(s)
  <2>1. s # << >> /\ s \in Seq(Nat) /\ Len(s) \in Nat \ {0} /\ Fed(i) = 2 .. Len(s)
    BY MainIsObject DEF Inv, NameInv, EntryType, Fed
  <2> HIDE DEF s
  <2>2. t \in Seq(Nat) /\ Len(t) = Len(s) - 1 /\ \A k \in 1 .. Len(t) : t[k] = s[k + 1]
    BY <2>1, HeadTailProperties
  <2>3. DOMAIN t = 1 .. Len(t)
    BY <2>2, LenProperties
  <2> HIDE DEF t
  <2>4. ASSUME NEW k \in DOMAIN t PROVE k \in Nat /\ k + 1 \in Fed(i) /\ t[k] = s[k + 1]
    <3>1. k \in 1 .. Len(t) /\ t[k] = s[k + 1]
      BY <2>2, <2>3
    <3>2. \A n \in Nat : k \in 1 .. n - 1 => k \in Nat /\ k + 1 \in 2 .. n
      OBVIOUS
    <3>3. Len(s) \in Nat /\ k \in 1 .. Len(s) - 1
      BY <2>1, <2>2, <3>1
    <3>4. QED
      BY <2>1, <3>1, <3>2, <3>3
  <2>5. ASSUME NEW k \in Fed(i) PROVE k - 1 \in DOMAIN t /\ t[k - 1] = s[k]
    <3>1. \A n \in Nat : k \in 2 .. n => k - 1 \in 1 .. n - 1 /\ (k - 1) + 1 = k
      OBVIOUS
    <3>2. Len(s) \in Nat /\ k \in 2 .. Len(s)
      BY <2>1
    <3>3. k - 1 \in 1 .. Len(t) /\ (k - 1) + 1 = k
      BY <2>2, <3>1, <3>2
    <3>4. QED
      BY <2>2, <2>3, <3>3
  <2>6. QED
    BY <2>4, <2>5 DEF s, t
<1>3. ASSUME NEW e \in catalog
      PROVE  Cardinality(At(head, e.name)) = 1 /\ Load(e.name) = e.obj
  <2>1. PICK i \in InHead : Is(i, e.name, e.obj)
    BY DEF Inv, NameInv
  <2>2. QED
    BY <1>1, <2>1 DEF Is
<1>4. ASSUME NEW e \in catalog, NEW c \in catalog, c.name = e.on, c.obj = e.col
      PROVE  Occurrences(e.obj, Attached(e.on)) = 1
  <2>1. PICK i \in InHead : Is(i, c.name, c.obj)
    BY DEF Inv, NameInv
  <2> DEFINE t == Tail(E(i).cols)
  <2>2. Attached(e.on) = t
    BY <1>1, <1>4, <2>1 DEF Is
  <2>3. PICK k \in Fed(i) : E(i).cols[k] = e.obj
    BY <1>4, <2>1 DEF Inv, FeedInv
  <2>4. \A l \in Fed(i) : E(i).cols[l] = e.obj => l = k
    BY <2>3 DEF Inv, FeedInv
  <2>5. k - 1 \in DOMAIN t /\ t[k - 1] = e.obj /\ k \in Nat
    BY <1>2, <2>3 DEF Fed
  <2>6. ASSUME NEW l \in DOMAIN t, t[l] = e.obj PROVE l = k - 1
    <3>1. l \in Nat /\ l + 1 \in Fed(i) /\ E(i).cols[l + 1] = e.obj
      BY <1>2, <2>6
    <3>2. l + 1 = k
      BY <2>4, <3>1
    <3>3. QED
      BY <2>5, <3>1, <3>2
  <2> HIDE DEF t
  <2>7. {l \in DOMAIN t : t[l] = e.obj} = {k - 1}
    BY <2>5, <2>6
  <2>8. QED
    BY <2>2, <2>7, FS_Singleton DEF Occurrences
<1>5. ASSUME \A a \in Admin : op[a].kind = "none"
      PROVE  head.len = Cardinality(catalog)
  <2> DEFINE f == [i \in InHead |-> CHOOSE e \in catalog : Is(i, e.name, e.obj)]
  <2>1. ASSUME NEW i \in InHead PROVE \E e \in catalog : Is(i, e.name, e.obj)
    BY <1>5 DEF Inv, NameInv, Shown, Sharing, Locking, Dropping
  <2>2. \A i \in InHead : f[i] \in catalog /\ Is(i, f[i].name, f[i].obj)
    <3>1. ASSUME NEW i \in InHead PROVE f[i] \in catalog /\ Is(i, f[i].name, f[i].obj)
      <4>1. f[i] = CHOOSE e \in catalog : Is(i, e.name, e.obj)
        OBVIOUS
      <4> HIDE DEF f
      <4>2. QED
        BY <2>1, <4>1, Zenon
    <3>2. QED
      BY <3>1
  <2>3. f \in [InHead -> catalog]
    <3>1. f = [i \in InHead |-> f[i]]
      OBVIOUS
    <3> HIDE DEF f
    <3>2. QED
      BY <2>2, <3>1
  <2> HIDE DEF f
  <2>4. \A i, j \in InHead : f[i] = f[j] => i = j
    BY <2>2 DEF Is, Inv, NameInv
  <2>5. \A e \in catalog : \E i \in InHead : f[i] = e
    <3>1. ASSUME NEW e \in catalog PROVE \E i \in InHead : f[i] = e
      <4>1. PICK i \in InHead : Is(i, e.name, e.obj)
        BY DEF Inv, NameInv
      <4>2. f[i] = e
        BY <2>2, <4>1 DEF Is, Inv, CatalogInv
      <4>3. QED
        BY <4>2
    <3>2. QED
      BY <3>1
  <2>6. f \in Bijection(InHead, catalog)
    <3>1. f \in Injection(InHead, catalog)
      BY <2>3, <2>4 DEF Injection, IsInjective
    <3>2. f \in Surjection(InHead, catalog)
      BY <2>3, <2>5 DEF Surjection
    <3>3. QED
      BY <3>1, <3>2 DEF Bijection
  <2>7. head.len \in Nat
    BY DEF Inv, Types, Slice
  <2>8. IsFiniteSet(InHead) /\ Cardinality(InHead) = head.len
    <3>1. ASSUME NEW n \in Nat PROVE IsFiniteSet(1 .. n) /\ Cardinality(1 .. n) = n
      <4>1. 1 \in Int /\ n \in Int
        OBVIOUS
      <4>2. QED
        BY <4>1, FS_Interval
    <3>2. QED
      BY <2>7, <3>1 DEF InHead
  <2>9. ExistsBijection(InHead, catalog)
    BY <2>6 DEF ExistsBijection
  <2>10. QED
    BY <2>8, <2>9, FS_Bijection
<1>6. ASSUME \A a \in Admin : op[a].kind = "none", NEW c \in catalog, NEW i \in DOMAIN Attached(c.name)
      PROVE  \E e \in catalog : e.obj = Attached(c.name)[i] /\ e.col = c.obj
  <2>1. PICK h \in InHead : Is(h, c.name, c.obj)
    BY DEF Inv, NameInv
  <2>2. Attached(c.name) = Tail(E(h).cols)
    BY <1>1, <2>1 DEF Is
  <2>3. i + 1 \in Fed(h) /\ Attached(c.name)[i] = E(h).cols[i + 1]
    BY <1>2, <1>6, <2>2
  <2>4. \A a \in Admin : \A o : ~Attaching(a, h, o) /\ ~Detaching(a, h, o)
    BY <1>6 DEF Attaching, Detaching, Sharing, Locking
  <2>5. PICK e \in catalog : Is(h, e.on, e.col) /\ E(h).cols[i + 1] = e.obj
    BY <2>3, <2>4 DEF Inv, FeedInv
  <2>6. QED
    BY <2>1, <2>3, <2>5 DEF Is
<1>7. QED
  BY <1>3, <1>4, <1>5, <1>6 DEF RegistryIsCatalog

\* However the steps of operations alternate, what was created and not dropped
\* is registered once, an index is fed once by its column, and a column feeds
\* nothing else when no operation is under way.
THEOREM CatalogIsRegistered == Spec => []RegistryIsCatalog
<1>1. Inv => RegistryIsCatalog
  BY CatalogFollows
<1>2. QED
  BY <1>1, Invariance, PTL

\* A registered column has every chunk that commits have made room for,
\* whichever of the two grew first, but for the columns that were created
\* while a row was free below the highest that there had been, as failed
\* inserts and deletions leave them, or beside a commit that made room.
THEOREM ChunksAreThere == Spec => []ColumnsReachRows
<1>1. Inv => ColumnsReachRows
  BY RegisteredIs DEF Inv, ReachInv, Reaches, ColumnsReachRows
<1>2. QED
  BY <1>1, Invariance, PTL
=============================================================================
