--------------------------- MODULE LatchesProofs ---------------------------
(***************************************************************************)
(* The locks of a collection, for any number of goroutines, chunks and     *)
(* latches.  First what is true of programs: at each of its steps a        *)
(* program has claims on locks, takes only locks that are further inside   *)
(* than those it has, and uses only what they protect; and all operations  *)
(* of a collection are such programs.  Then what sync.RWMutex makes of     *)
(* them: a claim is a lock that the goroutine really has.                  *)
(***************************************************************************)
EXTENDS Latches, TLAPS, FiniteSetTheorems

-----------------------------------------------------------------------------
(* Programs that keep to the order of locks *)

Data == {Fill, Slice, Items} \cup {ID(c) : c \in All} \cup {Cell(c) : c \in All}
Steps ==
  ({"RLock", "RUnlock", "Lock", "Unlock"} \X Locks)
    \cup ({"use"} \X ((SUBSET Data) \X (SUBSET Data)))

\* Claims on a lock, for reading and for writing.
R(l) == <<l, "r">>
W(l) == <<l, "w">>

\* The lock that protects a datum.  The column's slice of chunks has two: it is
\* written under both, and read under one of them.
Guard(d) ==
  CASE d[1] = "fill" -> Owner
    [] d[1] = "chunks" -> Column
    [] d[1] = "items" -> Tree
    [] OTHER -> Latch(d[2])

MayRead(d, H) == R(Guard(d)) \in H \/ W(Guard(d)) \in H \/ (d = Slice /\ W(Owner) \in H)
MayWrite(d, H) == W(Guard(d)) \in H /\ (d = Slice => W(Owner) \in H)

\* All locks that are claimed are further outside.
Inside(H, l) == \A x \in H : Rank(x[1]) < Rank(l)

\* From which claims to which a step goes.
Allowed(s, G, H) ==
  \/ s[1] = "RLock" /\ Inside(G, s[2]) /\ H = G \cup {R(s[2])}
  \/ s[1] = "Lock" /\ Inside(G, s[2]) /\ H = G \cup {W(s[2])}
  \/ s[1] = "RUnlock" /\ R(s[2]) \in G /\ H = G \ {R(s[2])}
  \/ s[1] = "Unlock" /\ W(s[2]) \in G /\ H = G \ {W(s[2])}
  \/ /\ s[1] = "use" /\ H = G
     /\ \A d \in s[2][1] : MayRead(d, G)
     /\ \A d \in s[2][2] : MayWrite(d, G)

\* The claims before each step of a program that begins and ends with the claims B.
Claims(h, p, B) ==
  /\ h[1] = B /\ h[Len(p) + 1] = B
  /\ \A i \in 1 .. Len(p) : Allowed(p[i], h[i], h[i + 1])

Fits(p, B) == p \in Seq(Steps) /\ \E h : Claims(h, p, B)

LEMMA RankType == \A l : Rank(l) \in 0 .. 5
BY DEF Rank

LEMMA RankOf ==
  /\ \A c : Rank(Latch(c)) = 0
  /\ Rank(Owner) = 1 /\ Rank(Column) = 2 /\ Rank(Sorted) = 3 /\ Rank(Back) = 4 /\ Rank(Tree) = 5
BY DEF Rank, Latch, Owner, Column, Sorted, Back, Tree

LEMMA NothingFits == ASSUME NEW B PROVE Fits(<< >>, B) /\ Len(<< >>) = 0
<1> DEFINE h == [i \in 1 .. 1 |-> B]
<1>1. Claims(h, << >>, B)
  BY DEF Claims
<1>2. QED
  BY <1>1 DEF Fits

LEMMA UseFits ==
  ASSUME NEW B, NEW reads \in SUBSET Data, NEW writes \in SUBSET Data,
         \A d \in reads : MayRead(d, B), \A d \in writes : MayWrite(d, B)
  PROVE  Fits(Use(reads, writes), B) /\ Len(Use(reads, writes)) = 1
<1> DEFINE s == <<"use", <<reads, writes>>>>
           h == [i \in 1 .. 2 |-> B]
<1>1. s \in Steps /\ Use(reads, writes) = << s >>
  BY DEF Steps, Use, Step
<1>2. Allowed(s, B, B)
  BY DEF Allowed
<1> HIDE DEF s
<1>3. Claims(h, << s >>, B)
  BY <1>2 DEF Claims
<1>4. << s >> \in Seq(Steps) /\ Len(<< s >>) = 1
  BY <1>1
<1>5. QED
  BY <1>1, <1>3, <1>4 DEF Fits

\* One program and then another.
LEMMA ThenFits ==
  ASSUME NEW B, NEW p, NEW q, Fits(p, B), Fits(q, B)
  PROVE  Fits(p \o q, B) /\ Len(p \o q) = Len(p) + Len(q)
<1>1. p \in Seq(Steps) /\ q \in Seq(Steps)
  BY DEF Fits
<1>2. PICK g, h : Claims(g, p, B) /\ Claims(h, q, B)
  BY DEF Fits
<1> DEFINE m == Len(p)
           n == Len(q)
           k == [i \in 1 .. m + n + 1 |-> IF i <= m THEN g[i] ELSE h[i - m]]
<1>3. /\ p \o q \in Seq(Steps) /\ m \in Nat /\ n \in Nat /\ Len(p \o q) = m + n
      /\ \A i \in 1 .. m + n : (p \o q)[i] = IF i <= m THEN p[i] ELSE q[i - m]
  BY <1>1
<1>4. /\ g[1] = B /\ g[m + 1] = B /\ h[1] = B /\ h[n + 1] = B
      /\ \A i \in 1 .. m : Allowed(p[i], g[i], g[i + 1])
      /\ \A i \in 1 .. n : Allowed(q[i], h[i], h[i + 1])
  BY <1>2 DEF Claims
<1> HIDE DEF m, n
<1>5. k[1] = B /\ k[m + n + 1] = B
  BY <1>3, <1>4
<1>6. ASSUME NEW i \in 1 .. m + n PROVE Allowed((p \o q)[i], k[i], k[i + 1])
  <2>1. CASE i < m
    <3>1. i \in 1 .. m /\ (p \o q)[i] = p[i] /\ k[i] = g[i] /\ k[i + 1] = g[i + 1]
      BY <1>3, <2>1
    <3>2. QED
      BY <1>4, <3>1
  <2>2. CASE i = m
    <3>1. i \in 1 .. m /\ i <= m
      BY <1>3, <2>2
    <3>2. i + 1 \in 1 .. m + n + 1 /\ ~(i + 1 <= m) /\ (i + 1) - m = 1
      BY <1>3, <2>2
    <3>3. (p \o q)[i] = p[i]
      BY <1>3, <3>1
    <3>4. k[i] = g[i]
      BY <1>3, <3>1
    <3>5. k[i + 1] = h[1]
      BY <3>2
    <3>6. k[i + 1] = g[i + 1]
      BY <1>4, <2>2, <3>5
    <3>7. QED
      BY <1>4, <3>1, <3>3, <3>4, <3>6
  <2>3. CASE i > m
    <3>1. i - m \in 1 .. n /\ (p \o q)[i] = q[i - m]
      BY <1>3, <2>3
    <3>2. k[i] = h[i - m] /\ k[i + 1] = h[(i + 1) - m] /\ (i + 1) - m = (i - m) + 1
      BY <1>3, <2>3
    <3>3. QED
      BY <1>4, <3>1, <3>2
  <2>4. i < m \/ i = m \/ i > m
    BY <1>3
  <2>5. QED
    BY <2>1, <2>2, <2>3, <2>4, Zenon
<1> HIDE DEF k
<1>7. Claims(k, p \o q, B)
  BY <1>3, <1>5, <1>6 DEF Claims
<1>8. QED
  BY <1>3, <1>7 DEF Fits, m, n

\* A program between the acquisition of a lock and its release.
LEMMA BetweenFits ==
  ASSUME NEW B, NEW C, NEW p, NEW s \in Steps, NEW t \in Steps,
         Fits(p, C), Allowed(s, B, C), Allowed(t, C, B)
  PROVE  /\ Fits(<< s >> \o p \o << t >>, B)
         /\ Len(<< s >> \o p \o << t >>) = Len(p) + 2
<1>1. p \in Seq(Steps)
  BY DEF Fits
<1>2. PICK h : Claims(h, p, C)
  BY DEF Fits
<1> DEFINE n == Len(p)
           q == << s >> \o p \o << t >>
           k == [i \in 1 .. n + 3 |-> IF i = 1 \/ i = n + 3 THEN B ELSE h[i - 1]]
<1>3. /\ q \in Seq(Steps) /\ n \in Nat /\ Len(q) = n + 2
      /\ q[1] = s /\ q[n + 2] = t /\ \A i \in 2 .. n + 1 : q[i] = p[i - 1]
  BY <1>1
<1>4. /\ h[1] = C /\ h[n + 1] = C
      /\ \A i \in 1 .. n : Allowed(p[i], h[i], h[i + 1])
  BY <1>2 DEF Claims
<1> HIDE DEF n, q
<1>5. k[1] = B /\ k[n + 3] = B
  BY <1>3
<1>6. ASSUME NEW i \in 1 .. n + 2 PROVE Allowed(q[i], k[i], k[i + 1])
  <2>1. CASE i = 1
    <3>1. q[i] = s /\ k[i] = B /\ k[i + 1] = C
      BY <1>3, <1>4, <2>1
    <3>2. QED
      BY <3>1
  <2>2. CASE i = n + 2
    <3>1. q[i] = t /\ k[i] = C /\ k[i + 1] = B
      BY <1>3, <1>4, <2>2
    <3>2. QED
      BY <3>1
  <2>3. CASE i # 1 /\ i # n + 2
    <3>1. /\ i - 1 \in 1 .. n /\ q[i] = p[i - 1]
          /\ k[i] = h[i - 1] /\ k[i + 1] = h[(i - 1) + 1]
      BY <1>3, <2>3
    <3>2. QED
      BY <1>4, <3>1
  <2>4. QED
    BY <2>1, <2>2, <2>3
<1> HIDE DEF k
<1>7. Claims(k, q, B)
  BY <1>3, <1>5, <1>6 DEF Claims
<1>8. QED
  BY <1>3, <1>7 DEF Fits, q, n

LEMMA NotInside ==
  ASSUME NEW B, NEW l, Inside(B, l)
  PROVE  R(l) \notin B /\ W(l) \notin B
<1>1. \A x \in B : x[1] # l
  BY RankType DEF Inside
<1>2. R(l)[1] = l /\ W(l)[1] = l
  BY DEF R, W
<1>3. QED
  BY <1>1, <1>2

LEMMA SharedFits ==
  ASSUME NEW B, NEW l \in Locks, NEW p, Inside(B, l), Fits(p, B \cup {R(l)})
  PROVE  Fits(Shared(l, p), B) /\ Len(Shared(l, p)) = Len(p) + 2
<1> DEFINE s == <<"RLock", l>>
           C == B \cup {R(l)}
           t == <<"RUnlock", l>>
<1>1. s \in Steps /\ t \in Steps /\ Shared(l, p) = << s >> \o p \o << t >>
  BY DEF Steps, Shared, Step
<1>2. Allowed(s, B, C)
  BY DEF Allowed
<1>3. Allowed(t, C, B)
  <2>1. B = (B \cup {R(l)}) \ {R(l)}
    BY NotInside
  <2>2. QED
    BY <2>1 DEF Allowed
<1>4. Fits(p, C)
  OBVIOUS
<1> HIDE DEF s, t, C
<1>5. /\ Fits(<< s >> \o p \o << t >>, B)
      /\ Len(<< s >> \o p \o << t >>) = Len(p) + 2
  BY <1>1, <1>2, <1>3, <1>4, BetweenFits
<1>6. QED
  BY <1>1, <1>5, Zenon

LEMMA ExclusiveFits ==
  ASSUME NEW B, NEW l \in Locks, NEW p, Inside(B, l), Fits(p, B \cup {W(l)})
  PROVE  Fits(Exclusive(l, p), B) /\ Len(Exclusive(l, p)) = Len(p) + 2
<1> DEFINE s == <<"Lock", l>>
           C == B \cup {W(l)}
           t == <<"Unlock", l>>
<1>1. s \in Steps /\ t \in Steps /\ Exclusive(l, p) = << s >> \o p \o << t >>
  BY DEF Steps, Exclusive, Step
<1>2. Allowed(s, B, C)
  BY DEF Allowed
<1>3. Allowed(t, C, B)
  <2>1. B = (B \cup {W(l)}) \ {W(l)}
    BY NotInside
  <2>2. QED
    BY <2>1 DEF Allowed
<1>4. Fits(p, C)
  OBVIOUS
<1> HIDE DEF s, t, C
<1>5. /\ Fits(<< s >> \o p \o << t >>, B)
      /\ Len(<< s >> \o p \o << t >>) = Len(p) + 2
  BY <1>1, <1>2, <1>3, <1>4, BetweenFits
<1>6. QED
  BY <1>1, <1>5, Zenon

-----------------------------------------------------------------------------
(* A program for each chunk *)

\* There is one quotient and one remainder.
LEMMA OneQuotient ==
  ASSUME NEW n \in Nat \ {0}, NEW q \in Nat, NEW p \in Nat,
         NEW o \in 0 .. n - 1, NEW u \in 0 .. n - 1, n * q + o = n * p + u
  PROVE  q = p /\ o = u
<1>1. CASE q < p
  <2>1. PICK d \in Nat : p = q + 1 + d
    <3>1. p = q + 1 + (p - q - 1) /\ p - q - 1 \in Nat
      BY <1>1
    <3>2. QED
      BY <3>1
  <2>2. n * p = n * q + n + n * d /\ n * d \in Nat
    BY <2>1
  <2>3. QED
    BY <2>2
<1>2. CASE p < q
  <2>1. PICK d \in Nat : q = p + 1 + d
    <3>1. q = p + 1 + (q - p - 1) /\ q - p - 1 \in Nat
      BY <1>2
    <3>2. QED
      BY <3>1
  <2>2. n * q = n * p + n + n * d /\ n * d \in Nat
    BY <2>1
  <2>3. QED
    BY <2>2
<1>3. QED
  BY <1>1, <1>2

LEMMA Remainder ==
  ASSUME NEW x \in Nat, NEW n \in Nat \ {0}
  PROVE  /\ x \div n \in Nat /\ x % n \in 0 .. n - 1
         /\ x = n * (x \div n) + (x % n)
OBVIOUS

\* The number after x is the next one in the block of x, or the first one of the
\* next block.
LEMMA NextInBlock ==
  ASSUME NEW x \in Nat, NEW n \in Nat \ {0}
  PROVE  \/ x % n < n - 1 /\ (x + 1) \div n = x \div n /\ (x + 1) % n = (x % n) + 1
         \/ x % n = n - 1 /\ (x + 1) \div n = (x \div n) + 1 /\ (x + 1) % n = 0
<1> DEFINE q == x \div n
           o == x % n
           p == (x + 1) \div n
           u == (x + 1) % n
<1>1. q \in Nat /\ o \in 0 .. n - 1 /\ x = n * q + o
  BY Remainder
<1>2. x + 1 \in Nat /\ p \in Nat /\ u \in 0 .. n - 1 /\ x + 1 = n * p + u
  <2>1. x + 1 \in Nat
    OBVIOUS
  <2>2. QED
    BY <2>1, Remainder, Zenon
<1> HIDE DEF q, o, p, u
<1>3. CASE o < n - 1
  <2>1. o + 1 \in 0 .. n - 1 /\ n * q + (o + 1) = n * p + u
    BY <1>1, <1>2, <1>3
  <2>2. q = p /\ o + 1 = u
    BY <1>1, <1>2, <2>1, OneQuotient
  <2>3. QED
    BY <1>3, <2>2 DEF q, o, p, u
<1>4. CASE o = n - 1
  <2>1. n * (q + 1) = n * q + n
    BY <1>1
  <2>2. 0 \in 0 .. n - 1 /\ q + 1 \in Nat /\ n * (q + 1) + 0 = n * p + u
    BY <1>1, <1>2, <1>4, <2>1
  <2>3. q + 1 = p /\ 0 = u
    BY <1>2, <2>2, OneQuotient
  <2>4. QED
    BY <1>4, <2>3 DEF q, o, p, u
<1>5. QED
  BY <1>1, <1>3, <1>4 DEF o

LEMMA BlockOf ==
  ASSUME NEW n \in Nat \ {0}, NEW m \in Nat, NEW x \in 0 .. n * m - 1
  PROVE  x \div n \in 0 .. m - 1
<1> DEFINE q == x \div n
<1>1. q \in Nat /\ x >= n * q
  BY Remainder
<1> HIDE DEF q
<1>2. ASSUME q >= m PROVE FALSE
  <2>1. PICK d \in Nat : q = m + d
    <3>1. q - m \in Nat /\ q = m + (q - m)
      BY <1>1, <1>2
    <3>2. QED
      BY <3>1
  <2>2. n * q = n * m + n * d /\ n * d \in Nat
    BY <2>1
  <2>3. QED
    BY <1>1, <2>2
<1>3. QED
  BY <1>1, <1>2 DEF q

LEMMA EachFits ==
  ASSUME NEW B, NEW first \in Int, NEW last \in Int, first <= last, NEW body,
         NEW n \in Nat \ {0}, \A c \in first .. last : Len(body[c]) = n /\ Fits(body[c], B)
  PROVE  Fits(Each(first, last, body), B)
<1> DEFINE m == last - first + 1
           p == Each(first, last, body)
           At0(x) == first + (x \div n)
           h == [c \in first .. last |-> CHOOSE h : Claims(h, body[c], B)]
           k == [i \in 1 .. n * m + 1 |->
                   IF i = n * m + 1 THEN B ELSE h[At0(i - 1)][((i - 1) % n) + 1]]
<1>1. m \in Nat /\ n * m \in Nat /\ first \in first .. last
  OBVIOUS
<1>2. ASSUME NEW c \in first .. last
      PROVE  /\ body[c] \in Seq(Steps) /\ Len(body[c]) = n /\ Claims(h[c], body[c], B)
             /\ \A o \in 1 .. n : body[c][o] \in Steps /\ Allowed(body[c][o], h[c][o], h[c][o + 1])
             /\ h[c][1] = B /\ h[c][n + 1] = B
  <2>1. \E g : Claims(g, body[c], B)
    BY DEF Fits
  <2>2. Claims(h[c], body[c], B)
    BY <2>1
  <2>3. body[c] \in Seq(Steps) /\ Len(body[c]) = n
    BY DEF Fits
  <2>4. \A o \in 1 .. n : body[c][o] \in Steps
    BY <2>3
  <2> HIDE DEF h
  <2>5. QED
    BY <2>2, <2>3, <2>4 DEF Claims
<1>3. p = [i \in 1 .. n * m |-> body[At0(i - 1)][((i - 1) % n) + 1]]
  BY <1>1 DEF Each
<1>4. \A x \in 0 .. n * m - 1 : At0(x) \in first .. last /\ (x % n) + 1 \in 1 .. n
  <2> TAKE x \in 0 .. n * m - 1
  <2>1. x \div n \in 0 .. m - 1
    BY <1>1, BlockOf
  <2>2. x % n \in 0 .. n - 1
    BY Remainder
  <2>3. QED
    BY <2>1, <2>2
<1> HIDE DEF m, p, h, At0
<1>5. p \in Seq(Steps) /\ Len(p) = n * m
  <2>1. ASSUME NEW i \in 1 .. n * m PROVE body[At0(i - 1)][((i - 1) % n) + 1] \in Steps
    <3>1. i - 1 \in 0 .. n * m - 1
      BY <1>1
    <3>2. At0(i - 1) \in first .. last /\ ((i - 1) % n) + 1 \in 1 .. n
      BY <1>4, <3>1
    <3>3. QED
      BY <1>2, <3>2, Zenon
  <2>2. p \in [1 .. n * m -> Steps]
    BY <1>3, <2>1
  <2>3. QED
    BY <1>1, <2>2
<1>6. k[n * m + 1] = B
  BY <1>1
<1>7. k[1] = B
  <2>1. CASE n * m = 0
    BY <2>1, <1>1
  <2>2. CASE n * m # 0
    <3>1. 0 \div n = 0 /\ 0 % n = 0
      <4>1. 0 \in 0 .. n - 1 /\ n * 0 + 0 = 0
        OBVIOUS
      <4>2. 0 \div n \in Nat /\ 0 % n \in 0 .. n - 1 /\ 0 = n * (0 \div n) + (0 % n)
        BY Remainder
      <4>3. QED
        BY <4>1, <4>2, OneQuotient
    <3>2. At0(0) = first
      BY <3>1 DEF At0
    <3>3. k[1] = h[At0(0)][(0 % n) + 1]
      BY <1>1, <2>2
    <3>4. QED
      BY <1>1, <1>2, <3>1, <3>2, <3>3
  <2>3. QED
    BY <2>1, <2>2
<1>8. ASSUME NEW i \in 1 .. n * m PROVE Allowed(p[i], k[i], k[i + 1])
  <2> DEFINE x == i - 1
             c == At0(x)
             o == (x % n) + 1
  <2>1. x \in 0 .. n * m - 1 /\ x \in Nat /\ x + 1 = i
    BY <1>1
  <2>2. c \in first .. last /\ o \in 1 .. n
    BY <1>4, <2>1
  <2>3. p[i] = body[c][o] /\ k[i] = h[c][o]
    BY <1>1, <1>3
  <2>4. Allowed(body[c][o], h[c][o], h[c][o + 1])
    BY <1>2, <2>2
  <2>5. k[i + 1] = IF i = n * m THEN B ELSE h[At0(i)][(i % n) + 1]
    BY <1>1
  <2>6. \/ o < n /\ At0(i) = c /\ i % n = o
        \/ o = n /\ At0(i) = c + 1 /\ i % n = 0
    <3>1. \/ x % n < n - 1 /\ i \div n = x \div n /\ i % n = (x % n) + 1
          \/ x % n = n - 1 /\ i \div n = (x \div n) + 1 /\ i % n = 0
      <4> HIDE DEF x
      <4>1. x \in Nat /\ i = x + 1
        BY <2>1
      <4>2. \/ x % n < n - 1 /\ (x + 1) \div n = x \div n /\ (x + 1) % n = (x % n) + 1
            \/ x % n = n - 1 /\ (x + 1) \div n = (x \div n) + 1 /\ (x + 1) % n = 0
        BY <4>1, NextInBlock
      <4>3. QED
        BY <4>1, <4>2, Zenon
    <3>2. x \div n \in Nat /\ x % n \in 0 .. n - 1
      BY <2>1, Remainder, Zenon
    <3>3. QED
      BY <3>1, <3>2 DEF At0
  <2> HIDE DEF x, c, o, k
  <2>7. CASE i = n * m
    <3>1. o = n
      <4>1. ASSUME o < n PROVE FALSE
        <5>1. i \div n \in Nat /\ i % n \in 0 .. n - 1 /\ i = n * (i \div n) + (i % n)
          <6>1. i \in Nat
            BY <1>1
          <6>2. QED
            BY <6>1, Remainder, Zenon
        <5>2. n * m + 0 = n * (i \div n) + (i % n) /\ 0 \in 0 .. n - 1
          BY <2>7, <5>1, <1>1
        <5>3. i % n = 0
          BY <1>1, <5>1, <5>2, OneQuotient
        <5>4. QED
          BY <2>2, <2>6, <4>1, <5>3
      <4>2. QED
        BY <2>2, <4>1
    <3>2. h[c][o + 1] = B
      BY <1>2, <2>2, <3>1
    <3>3. QED
      BY <2>3, <2>4, <2>5, <2>7, <3>2
  <2>8. CASE i # n * m /\ o < n
    <3>1. k[i + 1] = h[c][o + 1]
      BY <2>5, <2>6, <2>8
    <3>2. QED
      BY <2>3, <2>4, <3>1
  <2>9. CASE i # n * m /\ o = n
    <3>1. i \in 0 .. n * m - 1
      BY <1>1, <2>9
    <3>2. At0(i) \in first .. last /\ i % n = 0
      BY <1>4, <2>6, <2>9, <3>1
    <3>3. k[i + 1] = B /\ h[c][o + 1] = B
      BY <1>2, <2>2, <2>5, <2>9, <3>2
    <3>4. QED
      BY <2>3, <2>4, <3>3
  <2>10. QED
    BY <2>2, <2>7, <2>8, <2>9
<1> HIDE DEF k
<1>9. Claims(k, p, B)
  BY <1>5, <1>6, <1>7, <1>8 DEF Claims
<1>10. QED
  BY <1>5, <1>9 DEF Fits, p

-----------------------------------------------------------------------------
(* The operations of a collection *)

LEMMA LocksAre ==
  /\ Owner \in Locks /\ Column \in Locks /\ Sorted \in Locks /\ Back \in Locks /\ Tree \in Locks
  /\ \A c \in All : Latch(c) \in Locks
BY DEF Locks

LEMMA DataAre ==
  /\ Fill \in Data /\ Slice \in Data /\ Items \in Data
  /\ \A c \in All : ID(c) \in Data /\ Cell(c) \in Data
BY DEF Data

LEMMA GuardOf ==
  /\ Guard(Fill) = Owner /\ Guard(Slice) = Column /\ Guard(Items) = Tree
  /\ Fill # Slice /\ Items # Slice
  /\ \A c : /\ Guard(ID(c)) = Latch(c) /\ Guard(Cell(c)) = Latch(c)
            /\ ID(c) # Slice /\ Cell(c) # Slice
<1>1. Fill[1] = "fill" /\ Slice[1] = "chunks" /\ Items[1] = "items"
  BY DEF Fill, Slice, Items
<1>2. \A c : ID(c)[1] = "commits" /\ ID(c)[2] = c /\ Cell(c)[1] = "cell" /\ Cell(c)[2] = c
  BY DEF ID, Cell
<1>3. QED
  BY <1>1, <1>2 DEF Guard

LEMMA Permits ==
  ASSUME NEW B
  PROVE  /\ R(Owner) \in B \/ W(Owner) \in B => MayRead(Fill, B)
         /\ W(Owner) \in B => MayWrite(Fill, B) /\ MayRead(Slice, B)
         /\ R(Column) \in B => MayRead(Slice, B)
         /\ W(Owner) \in B /\ W(Column) \in B => MayWrite(Slice, B)
         /\ R(Tree) \in B => MayRead(Items, B)
         /\ W(Tree) \in B => MayWrite(Items, B)
         /\ \A c : R(Latch(c)) \in B => MayRead(Cell(c), B) /\ MayRead(ID(c), B)
         /\ \A c : W(Latch(c)) \in B => MayWrite(Cell(c), B) /\ MayWrite(ID(c), B)
BY GuardOf DEF MayRead, MayWrite

LEMMA InsideNothing == \A l : Inside({}, l)
BY DEF Inside

LEMMA InsideMore ==
  ASSUME NEW B, NEW l, NEW m, Inside(B, l), Rank(l) < Rank(m)
  PROVE  Inside(B, m) /\ Inside(B \cup {R(l)}, m) /\ Inside(B \cup {W(l)}, m)
<1>1. \A x \in B : Rank(x[1]) < Rank(m)
  BY RankType DEF Inside
<1>2. R(l)[1] = l /\ W(l)[1] = l
  BY DEF R, W
<1>3. QED
  BY <1>1, <1>2 DEF Inside

\* The lock of the collection around an access to the fill list.
LEMMA OwnerFits ==
  ASSUME NEW B, Inside(B, Owner)
  PROVE  /\ Fits(SetFill, B) /\ Len(SetFill) = 3
         /\ Fits(Rollback, B) /\ Fits(CountChunks, B) /\ Fits(Initialize, B)
         /\ Fits(Exclusive(Owner, Use({Fill}, {})), B) /\ Len(Exclusive(Owner, Use({Fill}, {}))) = 3
         /\ Fits(Exclusive(Owner, << >>), B)
<1>1. R(Owner) \in B \cup {R(Owner)} /\ W(Owner) \in B \cup {W(Owner)} /\ Owner \in Locks
  BY LocksAre
<1>2. /\ MayRead(Fill, B \cup {R(Owner)})
      /\ MayRead(Fill, B \cup {W(Owner)}) /\ MayWrite(Fill, B \cup {W(Owner)})
  BY <1>1, Permits
<1>3. {Fill} \in SUBSET Data /\ {} \in SUBSET Data
  BY DataAre
<1>4. /\ Fits(Use({Fill}, {Fill}), B \cup {W(Owner)}) /\ Len(Use({Fill}, {Fill})) = 1
      /\ Fits(Use({Fill}, {}), B \cup {W(Owner)}) /\ Len(Use({Fill}, {})) = 1
      /\ Fits(Use({Fill}, {}), B \cup {R(Owner)})
  BY <1>2, <1>3, UseFits
<1> DEFINE u == Use({Fill}, {Fill})
           v == Use({Fill}, {})
<1> HIDE DEF u, v
<1>5. Fits(SetFill, B) /\ Len(SetFill) = 3
  <2>1. Fits(Exclusive(Owner, u), B) /\ Len(Exclusive(Owner, u)) = Len(u) + 2
    BY <1>1, <1>4, ExclusiveFits DEF u
  <2>2. Len(u) = 1
    BY <1>4 DEF u
  <2>3. 1 + 2 = 3
    OBVIOUS
  <2>4. QED
    BY <2>1, <2>2, <2>3, Zenon DEF SetFill, u
<1>6. Fits(Exclusive(Owner, v), B) /\ Len(Exclusive(Owner, v)) = 3
  <2>1. Fits(Exclusive(Owner, v), B) /\ Len(Exclusive(Owner, v)) = Len(v) + 2
    BY <1>1, <1>4, ExclusiveFits DEF v
  <2>2. Len(v) = 1
    BY <1>4 DEF v
  <2>3. QED
    BY <2>1, <2>2
<1>7. Fits(Initialize, B)
  BY <1>1, <1>4, SharedFits DEF Initialize
<1>8. Fits(Exclusive(Owner, << >>), B)
  BY <1>1, NothingFits, ExclusiveFits
<1>9. QED
  BY <1>5, <1>6, <1>7, <1>8 DEF Rollback, CountChunks, v

LEMMA ApplyColumnFits ==
  ASSUME NEW B, NEW c \in All, Inside(B, Column), W(Latch(c)) \in B
  PROVE  Fits(ApplyColumn(c), B) /\ Len(ApplyColumn(c)) = 3
<1> DEFINE C == B \cup {R(Column)}
<1>1. MayRead(Slice, C) /\ MayWrite(Cell(c), C)
  <2>1. R(Column) \in C /\ W(Latch(c)) \in C
    OBVIOUS
  <2>2. QED
    BY <2>1, Permits
<1>2. {Slice} \in SUBSET Data /\ {Cell(c)} \in SUBSET Data
  BY DataAre
<1> HIDE DEF C
<1>3. Fits(Use({Slice}, {Cell(c)}), C) /\ Len(Use({Slice}, {Cell(c)})) = 1
  BY <1>1, <1>2, UseFits
<1> DEFINE u == Use({Slice}, {Cell(c)})
<1> HIDE DEF u
<1>4. Fits(Shared(Column, u), B) /\ Len(Shared(Column, u)) = Len(u) + 2
  BY <1>3, LocksAre, SharedFits DEF C, u
<1>5. Len(u) = 1
  BY <1>3 DEF u
<1>6. 1 + 2 = 3
  OBVIOUS
<1>7. QED
  BY <1>4, <1>5, <1>6, Zenon DEF ApplyColumn, u

LEMMA ApplySortedFits ==
  ASSUME NEW B, Inside(B, Sorted)
  PROVE  Fits(ApplySorted, B) /\ Len(ApplySorted) = 7
<1> DEFINE C == B \cup {R(Sorted)}
           D == C \cup {W(Back)}
           E == D \cup {W(Tree)}
<1>0. Rank(Sorted) < Rank(Back) /\ Rank(Back) < Rank(Tree)
  BY RankOf
<1>1. Inside(C, Back)
  BY <1>0, InsideMore
<1>2. Inside(D, Tree)
  BY <1>0, <1>1, InsideMore
<1>3. MayWrite(Items, E)
  <2>1. W(Tree) \in E
    OBVIOUS
  <2> HIDE DEF E
  <2>2. QED
    BY <2>1, Permits
<1>4. Fits(Use({}, {Items}), E) /\ Len(Use({}, {Items})) = 1
  <2>1. {Items} \in SUBSET Data /\ {} \in SUBSET Data
    BY DataAre
  <2> HIDE DEF E
  <2>2. QED
    BY <1>3, <2>1, UseFits
<1> DEFINE u == Use({}, {Items})
           v == Exclusive(Tree, u)
           w == Exclusive(Back, v)
           x == Shared(Sorted, w)
<1> HIDE DEF u, v, w, x, C, D, E
<1>5. Fits(v, D) /\ Len(v) = Len(u) + 2
  BY <1>2, <1>4, LocksAre, ExclusiveFits DEF u, v, E
<1>6. Fits(w, C) /\ Len(w) = Len(v) + 2
  BY <1>1, <1>5, LocksAre, ExclusiveFits DEF w, D
<1>7. Fits(x, B) /\ Len(x) = Len(w) + 2
  BY <1>6, LocksAre, SharedFits DEF x, C
<1>8. x = ApplySorted /\ Len(u) = 1
  BY <1>4 DEF ApplySorted, u, v, w, x
<1>9. QED
  BY <1>5, <1>6, <1>7, <1>8

LEMMA ChunksAre ==
  /\ 0 \in Int /\ Chunks - 1 \in Int /\ 0 <= Chunks - 1 /\ All = 0 .. Chunks - 1
BY LatchesAssumption DEF All

\* The same for every chunk of the collection.
LEMMA EachChunkFits ==
  ASSUME NEW body, NEW n \in Nat \ {0}, \A c \in All : Fits(body[c], {}) /\ Len(body[c]) = n
  PROVE  Fits(EachChunk(body), {})
BY ChunksAre, EachFits DEF EachChunk

LEMMA LatchInside ==
  ASSUME NEW c \in All
  PROVE  /\ Latch(c) \in Locks
         /\ Inside({R(Latch(c))}, Owner) /\ Inside({R(Latch(c))}, Column)
         /\ Inside({W(Latch(c))}, Owner) /\ Inside({W(Latch(c))}, Column)
         /\ Inside({W(Latch(c))}, Sorted)
<1>1. R(Latch(c))[1] = Latch(c) /\ W(Latch(c))[1] = Latch(c)
  BY DEF R, W
<1>2. QED
  BY <1>1, RankOf, LocksAre DEF Inside

LEMMA QueryAtFits ==
  ASSUME NEW c \in All
  PROVE  Fits(QueryAt(c), {}) /\ Len(QueryAt(c)) = 3
<1> DEFINE u == Use({Cell(c)}, {})
           C == {} \cup {R(Latch(c))}
<1>1. MayRead(Cell(c), C)
  <2>1. R(Latch(c)) \in C
    OBVIOUS
  <2>2. QED
    BY <2>1, Permits
<1>2. {Cell(c)} \in SUBSET Data /\ {} \in SUBSET Data
  BY DataAre
<1> HIDE DEF C
<1>3. Fits(u, C) /\ Len(u) = 1
  BY <1>1, <1>2, UseFits
<1> HIDE DEF u
<1>4. Fits(Shared(Latch(c), u), {}) /\ Len(Shared(Latch(c), u)) = Len(u) + 2
  BY <1>3, InsideNothing, LocksAre, SharedFits DEF C
<1>5. 1 + 2 = 3
  OBVIOUS
<1>6. QED
  BY <1>3, <1>4, <1>5, Zenon DEF QueryAt, u

LEMMA RangeReadFits == Fits(RangeRead, {})
<1> DEFINE body == [c \in All |-> Shared(Latch(c), Use({Cell(c)}, {}))]
<1>1. \A c \in All : body[c] = QueryAt(c)
  BY DEF QueryAt
<1> HIDE DEF body
<1>2. \A c \in All : Fits(body[c], {}) /\ Len(body[c]) = 3
  BY <1>1, QueryAtFits
<1>3. 3 \in Nat \ {0} /\ RangeRead = EachChunk(body)
  BY DEF RangeRead, body
<1>4. QED
  BY <1>2, <1>3, EachChunkFits, Zenon

LEMMA RangeReadPairFits == Fits(RangeReadPair, {})
<1> DEFINE Pair(c) == Shared(Latch(c), Shared(Column, Use({Slice}, {})) \o Use({Cell(c)}, {}))
           body == [c \in All |-> Pair(c)]
<1>1. ASSUME NEW c \in All PROVE Fits(Pair(c), {}) /\ Len(Pair(c)) = 6
  <2> DEFINE C == {} \cup {R(Latch(c))}
             D == C \cup {R(Column)}
             u == Use({Slice}, {})
             v == Shared(Column, u)
             w == Use({Cell(c)}, {})
             x == v \o w
             y == Shared(Latch(c), x)
  <2>1. MayRead(Slice, D) /\ MayRead(Cell(c), C)
    <3>1. R(Column) \in D /\ R(Latch(c)) \in C
      OBVIOUS
    <3> HIDE DEF C, D
    <3>2. QED
      BY <3>1, Permits
  <2>2. {Slice} \in SUBSET Data /\ {Cell(c)} \in SUBSET Data /\ {} \in SUBSET Data
    BY DataAre
  <2>3. C = {R(Latch(c))}
    OBVIOUS
  <2> HIDE DEF C, D
  <2>4. Fits(u, D) /\ Len(u) = 1
    BY <2>1, <2>2, UseFits
  <2>5. Fits(w, C) /\ Len(w) = 1
    BY <2>1, <2>2, UseFits
  <2>6. Inside(C, Column)
    BY <2>3, LatchInside
  <2>7. y = Pair(c)
    OBVIOUS
  <2> HIDE DEF u, v, w, x, y, Pair
  <2>8. Fits(v, C) /\ Len(v) = Len(u) + 2
    BY <2>4, <2>6, LocksAre, SharedFits DEF v, D
  <2>9. Fits(x, C) /\ Len(x) = Len(v) + Len(w)
    BY <2>5, <2>8, ThenFits DEF x
  <2>10. Fits(y, {}) /\ Len(y) = Len(x) + 2
    BY <2>9, InsideNothing, LocksAre, SharedFits DEF y, C
  <2>11. QED
    BY <2>4, <2>5, <2>7, <2>8, <2>9, <2>10
<1>2. \A c \in All : body[c] = Pair(c)
  OBVIOUS
<1>3. RangeReadPair = EachChunk(body)
  BY DEF RangeReadPair
<1> HIDE DEF body, Pair
<1>4. \A c \in All : Fits(body[c], {}) /\ Len(body[c]) = 6
  BY <1>1, <1>2
<1>5. 6 \in Nat \ {0}
  OBVIOUS
<1>6. QED
  BY <1>3, <1>4, <1>5, EachChunkFits, Zenon

LEMMA AscendFits == Fits(Ascend, {})
<1> DEFINE C == {} \cup {R(Owner)}
           D == C \cup {R(Tree)}
           u == Use({Items}, {})
           v == Shared(Tree, u)
           w == Shared(Owner, v)
<1>1. MayRead(Items, D)
  <2>1. R(Tree) \in D
    OBVIOUS
  <2> HIDE DEF D
  <2>2. QED
    BY <2>1, Permits
<1>2. {Items} \in SUBSET Data /\ {} \in SUBSET Data
  BY DataAre
<1>3. Inside(C, Tree)
  <2>1. Rank(Owner) < Rank(Tree)
    BY RankOf
  <2>2. QED
    BY <2>1, InsideNothing, InsideMore
<1> HIDE DEF C, D
<1>4. Fits(u, D)
  BY <1>1, <1>2, UseFits
<1>5. Ascend = Initialize \o w
  BY DEF Ascend
<1> HIDE DEF u, v, w
<1>6. Fits(v, C)
  BY <1>3, <1>4, LocksAre, SharedFits DEF v, D
<1>7. Fits(w, {})
  BY <1>6, InsideNothing, LocksAre, SharedFits DEF w, C
<1>8. Fits(Initialize, {})
  BY InsideNothing, OwnerFits
<1>9. QED
  BY <1>5, <1>7, <1>8, ThenFits

LEMMA CommitCapacityFits ==
  ASSUME NEW grow \in BOOLEAN
  PROVE  Fits(CommitCapacity(grow), {})
<1> DEFINE C == {} \cup {W(Owner)}
           D == C \cup {W(Column)}
           u == Use({Fill}, {Fill})
           v == Use({}, {Slice})
           w == Exclusive(Column, v)
           x == Exclusive(Sorted, << >>)
           y == Use({Fill}, {})
           z == IF grow THEN u \o w \o x ELSE y
<1>1. MayRead(Fill, C) /\ MayWrite(Fill, C) /\ MayWrite(Slice, D)
  <2>1. W(Owner) \in C /\ W(Owner) \in D /\ W(Column) \in D
    OBVIOUS
  <2> HIDE DEF C, D
  <2>2. QED
    BY <2>1, Permits
<1>2. {Fill} \in SUBSET Data /\ {Slice} \in SUBSET Data /\ {} \in SUBSET Data
  BY DataAre
<1>3. Inside(C, Column) /\ Inside(C, Sorted)
  <2>1. Rank(Owner) < Rank(Column) /\ Rank(Owner) < Rank(Sorted)
    BY RankOf
  <2>2. QED
    BY <2>1, InsideNothing, InsideMore
<1> HIDE DEF C, D
<1>4. Fits(u, C) /\ Fits(v, D) /\ Fits(y, C)
  BY <1>1, <1>2, UseFits
<1>5. CommitCapacity(grow) = Exclusive(Owner, z)
  BY DEF CommitCapacity
<1> HIDE DEF u, v, w, x, y, z
<1>6. Fits(w, C)
  BY <1>3, <1>4, LocksAre, ExclusiveFits DEF w, D
<1>7. Fits(x, C)
  BY <1>3, NothingFits, LocksAre, ExclusiveFits DEF x
<1>8. Fits(u \o w, C)
  BY <1>4, <1>6, ThenFits
<1>9. Fits((u \o w) \o x, C)
  BY <1>7, <1>8, ThenFits
<1>10. Fits(z, C)
  BY <1>4, <1>9, Zenon DEF z
<1>11. QED
  BY <1>5, <1>10, InsideNothing, LocksAre, ExclusiveFits DEF C

\* What a commit does to one chunk, under its latch.
LEMMA WriteFits ==
  ASSUME NEW c \in All, NEW markers \in BOOLEAN
  PROVE  LET p == Exclusive(Latch(c),
                    Shared(Owner, Use({Fill}, {ID(c)}))
                    \o (IF markers THEN CommitMarkers(c) ELSE << >>)
                    \o CommitUpdates(c))
         IN  Fits(p, {}) /\ Len(p) = IF markers THEN 31 ELSE 15
<1> DEFINE C == {} \cup {W(Latch(c))}
           D == C \cup {R(Owner)}
           u == Use({Fill}, {ID(c)})
           v == Shared(Owner, u)
           w == Exclusive(Owner, Use({Fill}, {}))
           m1 == SetFill \o ApplyColumn(c)
           m2 == m1 \o ApplySorted
           m == m2 \o w
           x == IF markers THEN m ELSE << >>
           y == ApplyColumn(c) \o ApplySorted
           z == v \o x \o y
           p == Exclusive(Latch(c), z)
<1>1. MayRead(Fill, D) /\ MayWrite(ID(c), D)
  <2>1. R(Owner) \in D /\ W(Latch(c)) \in D
    OBVIOUS
  <2> HIDE DEF D
  <2>2. QED
    BY <2>1, Permits
<1>2. {Fill} \in SUBSET Data /\ {ID(c)} \in SUBSET Data
  BY DataAre
<1>3. /\ Inside(C, Owner) /\ Inside(C, Column) /\ Inside(C, Sorted) /\ W(Latch(c)) \in C
  <2>1. C = {W(Latch(c))}
    OBVIOUS
  <2>2. QED
    BY <2>1, LatchInside
<1> HIDE DEF C, D
<1>4. Fits(u, D) /\ Len(u) = 1
  BY <1>1, <1>2, UseFits
<1>5. p = Exclusive(Latch(c),
            Shared(Owner, Use({Fill}, {ID(c)}))
            \o (IF markers THEN CommitMarkers(c) ELSE << >>)
            \o CommitUpdates(c))
  BY DEF CommitMarkers, CommitUpdates
<1>6. Fits(w, C) /\ Len(w) = 3 /\ Fits(SetFill, C) /\ Len(SetFill) = 3
  BY <1>3, OwnerFits
<1>7. /\ Fits(ApplyColumn(c), C) /\ Len(ApplyColumn(c)) = 3
      /\ Fits(ApplySorted, C) /\ Len(ApplySorted) = 7
  BY <1>3, ApplyColumnFits, ApplySortedFits
<1> HIDE DEF u, v, w, m1, m2, m, x, y, z, p
<1>8. Fits(v, C) /\ Len(v) = Len(u) + 2
  BY <1>3, <1>4, LocksAre, SharedFits DEF v, D
<1>9. Fits(m1, C) /\ Len(m1) = Len(SetFill) + Len(ApplyColumn(c))
  <2> DEFINE a == SetFill
             b == ApplyColumn(c)
  <2>1. m1 = a \o b
    BY DEF m1
  <2>2. Fits(a, C) /\ Fits(b, C)
    BY <1>6, <1>7
  <2> HIDE DEF a, b
  <2>3. Fits(a \o b, C) /\ Len(a \o b) = Len(a) + Len(b)
    BY <2>2, ThenFits
  <2>4. QED
    BY <2>1, <2>3 DEF a, b
<1>10. Fits(m2, C) /\ Len(m2) = Len(m1) + Len(ApplySorted)
  <2> DEFINE a == ApplySorted
  <2>1. m2 = m1 \o a
    BY DEF m2
  <2>2. Fits(m1, C) /\ Fits(a, C)
    BY <1>7, <1>9
  <2> HIDE DEF a
  <2>3. Fits(m1 \o a, C) /\ Len(m1 \o a) = Len(m1) + Len(a)
    BY <2>2, ThenFits
  <2>4. QED
    BY <2>1, <2>3 DEF a
<1>11. Fits(m, C) /\ Len(m) = Len(m2) + Len(w)
  <2>1. m = m2 \o w
    BY DEF m
  <2>2. Fits(m2, C) /\ Fits(w, C)
    BY <1>6, <1>10
  <2>3. Fits(m2 \o w, C) /\ Len(m2 \o w) = Len(m2) + Len(w)
    BY <2>2, ThenFits
  <2>4. QED
    BY <2>1, <2>3
<1>12. Fits(x, C) /\ Len(x) = IF markers THEN Len(m) ELSE 0
  <2>1. Fits(<< >>, C) /\ Len(<< >>) = 0
    BY NothingFits
  <2>2. CASE markers
    <3>1. x = m
      BY <2>2 DEF x
    <3>2. QED
      BY <1>11, <2>2, <3>1
  <2>3. CASE ~markers
    <3>1. x = << >>
      BY <2>3 DEF x
    <3>2. QED
      BY <2>1, <2>3, <3>1
  <2>4. QED
    BY <2>2, <2>3
<1>13. Fits(y, C) /\ Len(y) = Len(ApplyColumn(c)) + Len(ApplySorted)
  BY <1>7, ThenFits DEF y
<1>14. Fits(v \o x, C) /\ Len(v \o x) = Len(v) + Len(x)
  BY <1>8, <1>12, ThenFits
<1>15. Fits(z, C) /\ Len(z) = Len(v \o x) + Len(y)
  BY <1>13, <1>14, ThenFits DEF z
<1>16. Fits(p, {}) /\ Len(p) = Len(z) + 2
  BY <1>15, InsideNothing, LocksAre, ExclusiveFits DEF p, C
<1>17. Len(p) = IF markers THEN 31 ELSE 15
  <2>1. Len(m) = 16 /\ Len(v) = 3 /\ Len(y) = 10
    BY <1>4, <1>6, <1>7, <1>8, <1>9, <1>10, <1>11, <1>13
  <2>2. QED
    BY <1>12, <1>14, <1>15, <1>16, <2>1
<1>18. QED
  BY <1>5, <1>16, <1>17

LEMMA RangeWriteFits ==
  ASSUME NEW first \in All, NEW last \in All, first <= last, NEW markers \in BOOLEAN
  PROVE  Fits(RangeWrite(first, last, markers), {})
<1> DEFINE Write(c) == Exclusive(Latch(c),
                         Shared(Owner, Use({Fill}, {ID(c)}))
                         \o (IF markers THEN CommitMarkers(c) ELSE << >>)
                         \o CommitUpdates(c))
           body == [c \in first .. last |-> Write(c)]
           n == IF markers THEN 31 ELSE 15
<1>1. \A c \in All : Fits(Write(c), {}) /\ Len(Write(c)) = n
  BY WriteFits
<1>2. RangeWrite(first, last, markers) = Each(first, last, body)
  BY DEF RangeWrite
<1>3. \A c \in first .. last : body[c] = Write(c)
  OBVIOUS
<1>4. first \in Int /\ last \in Int /\ \A c \in first .. last : c \in All
  BY LatchesAssumption DEF All
<1>5. n \in Nat \ {0}
  OBVIOUS
<1> HIDE DEF Write, body, n
<1>6. \A c \in first .. last : Len(body[c]) = n /\ Fits(body[c], {})
  BY <1>1, <1>3, <1>4
<1>7. QED
  BY <1>2, <1>4, <1>5, <1>6, EachFits

LEMMA CommitFits ==
  ASSUME NEW first \in All, NEW last \in All, first <= last,
         NEW markers \in BOOLEAN, NEW grow \in BOOLEAN
  PROVE  Fits(Commit(first, last, markers, grow), {})
BY CommitCapacityFits, RangeWriteFits, ThenFits DEF Commit

LEMMA ReadChunkFits ==
  ASSUME NEW c \in All
  PROVE  Fits(ReadChunk(c), {}) /\ Len(ReadChunk(c)) = 5
<1> DEFINE C == {} \cup {R(Latch(c))}
           D == C \cup {W(Owner)}
           u == Use({ID(c), Fill, Slice, Cell(c)}, {})
           v == Exclusive(Owner, u)
           w == Shared(Latch(c), v)
<1>1. MayRead(ID(c), D) /\ MayRead(Fill, D) /\ MayRead(Slice, D) /\ MayRead(Cell(c), D)
  <2>1. W(Owner) \in D /\ R(Latch(c)) \in D
    OBVIOUS
  <2> HIDE DEF D
  <2>2. QED
    BY <2>1, Permits
<1>2. {ID(c), Fill, Slice, Cell(c)} \in SUBSET Data /\ {} \in SUBSET Data
  BY DataAre
<1>3. Inside(C, Owner)
  <2>1. C = {R(Latch(c))}
    OBVIOUS
  <2>2. QED
    BY <2>1, LatchInside
<1> HIDE DEF C, D
<1>4. Fits(u, D) /\ Len(u) = 1
  BY <1>1, <1>2, UseFits
<1>5. w = ReadChunk(c)
  BY DEF ReadChunk
<1> HIDE DEF u, v, w
<1>6. Fits(v, C) /\ Len(v) = Len(u) + 2
  BY <1>3, <1>4, LocksAre, ExclusiveFits DEF v, D
<1>7. Fits(w, {}) /\ Len(w) = Len(v) + 2
  BY <1>6, InsideNothing, LocksAre, SharedFits DEF w, C
<1>8. QED
  BY <1>4, <1>5, <1>6, <1>7

\* Every operation takes the locks in their order, and uses only what they protect.
LEMMA OperationsFit == \A p \in Operations : Fits(p, {})
<1> DEFINE last == Chunks - 1
<1>1. /\ Fits(SetFill, {}) /\ Fits(Rollback, {}) /\ Fits(CountChunks, {}) /\ Fits(Initialize, {})
      /\ Fits(Exclusive(Owner, << >>), {})
  BY InsideNothing, OwnerFits
<1>2. Fits(Selection, {})
  BY <1>1, RangeReadPairFits, ThenFits DEF Selection
<1>3. Fits(UpdateAll, {})
  <2>1. 0 \in All /\ last \in All /\ 0 <= last
    BY ChunksAre
  <2>2. Fits(Commit(0, last, FALSE, FALSE), {})
    <3>1. FALSE \in BOOLEAN
      OBVIOUS
    <3>2. QED
      BY <2>1, <3>1, CommitFits
  <2>3. Fits(Selection \o RangeRead, {})
    BY <1>2, RangeReadFits, ThenFits
  <2>4. Fits((Selection \o RangeRead) \o Commit(0, last, FALSE, FALSE), {})
    BY <2>2, <2>3, ThenFits
  <2>5. QED
    BY <2>4 DEF UpdateAll
<1>4. Fits(Snapshot, {})
  <2> DEFINE body == [c \in All |-> ReadChunk(c)]
  <2>1. \A c \in All : Fits(body[c], {}) /\ Len(body[c]) = 5
    BY ReadChunkFits
  <2>2. 5 \in Nat \ {0}
    OBVIOUS
  <2> HIDE DEF body
  <2>3. Fits(EachChunk(body), {})
    BY <2>1, <2>2, EachChunkFits, Zenon
  <2>4. QED
    BY <1>1, <2>3, ThenFits DEF Snapshot, body
<1>5. Fits(CreateSortIndex, {})
  <2> DEFINE body == [c \in All |-> ApplySorted]
             a == Exclusive(Owner, << >>)
  <2>1. \A c \in All : Fits(body[c], {}) /\ Len(body[c]) = 7
    BY InsideNothing, ApplySortedFits
  <2>2. 7 \in Nat \ {0} /\ CreateSortIndex = a \o CountChunks \o EachChunk(body)
    BY DEF CreateSortIndex
  <2> HIDE DEF body, a
  <2>3. Fits(EachChunk(body), {})
    BY <2>1, <2>2, EachChunkFits, Zenon
  <2>4. Fits(a \o CountChunks, {})
    BY <1>1, ThenFits DEF a
  <2>5. Fits((a \o CountChunks) \o EachChunk(body), {})
    BY <2>3, <2>4, ThenFits
  <2>6. QED
    BY <2>2, <2>5
<1>6. ASSUME NEW c \in All, NEW markers \in BOOLEAN, NEW grow \in BOOLEAN
      PROVE  Fits(Commit(c, c, markers, grow), {}) /\ Fits(QueryAt(c), {})
  <2>1. c <= c
    BY ChunksAre
  <2>2. QED
    BY <2>1, CommitFits, QueryAtFits
<1>7. ASSUME NEW c \in All, NEW grow \in BOOLEAN PROVE Fits(Insertion(c, grow), {})
  <2>1. Fits(Commit(c, c, TRUE, grow), {}) /\ Fits(QueryAt(c), {})
    BY <1>6
  <2>2. Fits(SetFill \o QueryAt(c), {})
    BY <1>1, <2>1, ThenFits
  <2>3. Fits((SetFill \o QueryAt(c)) \o Commit(c, c, TRUE, grow), {})
    BY <2>1, <2>2, ThenFits
  <2>4. QED
    BY <2>3 DEF Insertion
<1>8. ASSUME NEW c \in All PROVE Fits(FailedInsertion(c), {})
  <2>1. Fits(SetFill \o QueryAt(c), {})
    BY <1>1, QueryAtFits, ThenFits
  <2>2. Fits((SetFill \o QueryAt(c)) \o SetFill, {})
    BY <1>1, <2>1, ThenFits
  <2>3. Fits(((SetFill \o QueryAt(c)) \o SetFill) \o Rollback, {})
    BY <1>1, <2>2, ThenFits
  <2>4. QED
    BY <2>3 DEF FailedInsertion
<1>9. ASSUME NEW c \in All PROVE Fits(DeleteAt(c), {}) /\ Fits(AscendAndSet(c), {})
  <2>1. Fits(Commit(c, c, TRUE, FALSE), {}) /\ Fits(Commit(c, c, FALSE, FALSE), {})
    BY <1>6
  <2>2. QED
    BY <1>1, <2>1, AscendFits, ThenFits DEF DeleteAt, AscendAndSet
<1>10. QED
  BY <1>2, <1>3, <1>4, <1>5, <1>7, <1>8, <1>9, OperationsAssumption DEF ClientOperations

-----------------------------------------------------------------------------
(* Goroutines *)

\* The claims of a goroutine at the step that is next.
ClaimsOf(p) == CHOOSE h : Claims(h, p, {})
Has(t) == ClaimsOf(program[t])[pc[t]]

Types ==
  /\ DOMAIN program = Thread /\ DOMAIN pc = Thread
  /\ \A t \in Thread : /\ Fits(program[t], {})
                       /\ pc[t] \in 1 .. Len(program[t]) + 1
                       /\ pc[t] = Len(program[t]) + 1 => program[t] = << >>
  /\ DOMAIN writer = Locks
  /\ sharers \in [Locks -> SUBSET Thread] /\ parked \in [Locks -> SUBSET Thread]

\* A claim is a lock that the goroutine has; who writes is alone; and only
\* goroutines that want to read a lock wait for its writer.
Locking ==
  \A l \in Locks :
    /\ \A t \in Thread : t \in sharers[l] <=> R(l) \in Has(t)
    /\ \A t \in Thread : W(l) \in Has(t) => writer[l] = t /\ sharers[l] = {}
    /\ \A t \in Thread : writer[l] = t => W(l) \in Has(t) \/ Pends(t, l)
    /\ \A t \in parked[l] : At(t, "RLock") /\ On(t) = l

LockInv == Types /\ Locking

LEMMA ClaimsFit ==
  ASSUME NEW p, Fits(p, {})
  PROVE  /\ p \in Seq(Steps) /\ Len(p) \in Nat
         /\ ClaimsOf(p)[1] = {} /\ ClaimsOf(p)[Len(p) + 1] = {}
         /\ \A i \in 1 .. Len(p) :
              p[i] \in Steps /\ Allowed(p[i], ClaimsOf(p)[i], ClaimsOf(p)[i + 1])
<1>1. p \in Seq(Steps) /\ \E h : Claims(h, p, {})
  BY DEF Fits
<1>2. Claims(ClaimsOf(p), p, {})
  BY <1>1 DEF ClaimsOf
<1>3. Len(p) \in Nat /\ \A i \in 1 .. Len(p) : p[i] \in Steps
  BY <1>1
<1>4. QED
  BY <1>1, <1>2, <1>3 DEF Claims

\* The step that is next, and the claims before it.
LEMMA NextStep ==
  ASSUME Types, NEW t \in Thread, pc[t] <= Len(program[t])
  PROVE  /\ pc[t] \in 1 .. Len(program[t]) /\ program[t][pc[t]] \in Steps
         /\ Allowed(program[t][pc[t]], Has(t), ClaimsOf(program[t])[pc[t] + 1])
         /\ program[t][pc[t]][1] \in {"RLock", "RUnlock", "Lock", "Unlock"} => On(t) \in Locks
<1>1. Fits(program[t], {}) /\ pc[t] \in 1 .. Len(program[t]) + 1
  BY DEF Types
<1>2. pc[t] \in 1 .. Len(program[t])
  BY <1>1, ClaimsFit
<1>3. /\ program[t][pc[t]] \in Steps
      /\ Allowed(program[t][pc[t]], Has(t), ClaimsOf(program[t])[pc[t] + 1])
  BY <1>1, <1>2, ClaimsFit DEF Has
<1>4. \A s \in Steps : s[1] \in {"RLock", "RUnlock", "Lock", "Unlock"} => s[2] \in Locks
  BY DEF Steps
<1>5. QED
  BY <1>2, <1>3, <1>4 DEF On

\* Goroutines that go on take their steps, and at the end of a program have no
\* claims; the others stay where they are.
LEMMA Advances ==
  ASSUME Types, NEW S \in SUBSET Thread, Advance(S), \A t \in S : pc[t] <= Len(program[t])
  PROVE  /\ DOMAIN program' = Thread /\ DOMAIN pc' = Thread
         /\ \A t \in Thread : /\ Fits(program'[t], {})
                              /\ pc'[t] \in 1 .. Len(program'[t]) + 1
                              /\ pc'[t] = Len(program'[t]) + 1 => program'[t] = << >>
         /\ \A t \in S : Allowed(program[t][pc[t]], Has(t), Has(t)')
         /\ \A t \in Thread \ S : program'[t] = program[t] /\ pc'[t] = pc[t] /\ Has(t)' = Has(t)
<1> DEFINE done == {t \in S : pc[t] = Len(program[t])}
<1>1. /\ program' = [t \in Thread |-> IF t \in done THEN << >> ELSE program[t]]
      /\ pc' = [t \in Thread |-> IF t \in done THEN 1 ELSE IF t \in S THEN pc[t] + 1 ELSE pc[t]]
  BY DEF Advance
<1>2. ASSUME NEW t \in done
      PROVE  /\ program'[t] = << >> /\ pc'[t] = 1
             /\ Allowed(program[t][pc[t]], Has(t), Has(t)')
  <2>1. program'[t] = << >> /\ pc'[t] = 1 /\ t \in Thread /\ pc[t] = Len(program[t])
    BY <1>1
  <2>2. Has(t)' = {}
    <3>1. ClaimsOf(<< >>)[1] = {}
      BY NothingFits, ClaimsFit
    <3>2. QED
      BY <2>1, <3>1 DEF Has
  <2>3. ClaimsOf(program[t])[pc[t] + 1] = {}
    BY <2>1, ClaimsFit DEF Types
  <2>4. QED
    BY <2>1, <2>2, <2>3, NextStep
<1>3. ASSUME NEW t \in S \ done
      PROVE  /\ program'[t] = program[t] /\ pc'[t] = pc[t] + 1
             /\ pc'[t] \in 1 .. Len(program[t])
             /\ Allowed(program[t][pc[t]], Has(t), Has(t)')
  <2>1. program'[t] = program[t] /\ pc'[t] = pc[t] + 1 /\ t \in Thread /\ pc[t] # Len(program[t])
    BY <1>1
  <2>2. pc[t] \in 1 .. Len(program[t])
    BY NextStep
  <2>3. Len(program[t]) \in Nat
    BY <2>1, ClaimsFit DEF Types
  <2>4. pc'[t] \in 1 .. Len(program[t])
    BY <2>1, <2>2, <2>3
  <2>5. Has(t)' = ClaimsOf(program[t])[pc[t] + 1]
    BY <2>1 DEF Has
  <2>6. QED
    BY <2>1, <2>4, <2>5, NextStep
<1>4. ASSUME NEW t \in Thread \ S
      PROVE  program'[t] = program[t] /\ pc'[t] = pc[t] /\ Has(t)' = Has(t)
  BY <1>1 DEF Has
<1>5. ASSUME NEW t \in Thread
      PROVE  /\ Fits(program'[t], {})
             /\ pc'[t] \in 1 .. Len(program'[t]) + 1
             /\ pc'[t] = Len(program'[t]) + 1 => program'[t] = << >>
  <2>1. CASE t \in done
    <3>1. Fits(<< >>, {}) /\ Len(<< >>) = 0
      BY NothingFits
    <3>2. QED
      BY <1>2, <2>1, <3>1
  <2>2. CASE t \in S \ done
    <3>1. program'[t] = program[t] /\ pc'[t] \in 1 .. Len(program[t]) /\ Len(program[t]) \in Nat
      BY <1>3, <2>2, ClaimsFit DEF Types
    <3>2. QED
      BY <3>1 DEF Types
  <2>3. CASE t \notin S
    BY <1>4, <2>3 DEF Types
  <2>4. QED
    BY <2>1, <2>2, <2>3
<1> HIDE DEF done
<1>6. DOMAIN program' = Thread /\ DOMAIN pc' = Thread
  BY <1>1
<1>7. \A t \in S : Allowed(program[t][pc[t]], Has(t), Has(t)')
  BY <1>2, <1>3
<1>8. QED
  BY <1>4, <1>5, <1>6, <1>7

LEMMA ClaimNames ==
  /\ \A l, m : R(l) = R(m) => l = m
  /\ \A l, m : W(l) = W(m) => l = m
  /\ \A l, m : R(l) # W(m)
BY DEF R, W

\* What a step does to the claims of its goroutine.
LEMMA StepOf ==
  ASSUME NEW t, NEW act, At(t, act), NEW H, Allowed(program[t][pc[t]], Has(t), H)
  PROVE  /\ act = "use" => H = Has(t)
         /\ act = "RLock" => H = Has(t) \cup {R(On(t))}
         /\ act = "Lock" => H = Has(t) \cup {W(On(t))}
         /\ act = "RUnlock" => H = Has(t) \ {R(On(t))}
         /\ act = "Unlock" => W(On(t)) \in Has(t) /\ H = Has(t) \ {W(On(t))}
<1> DEFINE s == program[t][pc[t]]
<1>1. s[1] = act /\ On(t) = s[2]
  BY DEF At, On
<1> HIDE DEF s
<1>2. Allowed(s, Has(t), H)
  BY DEF s
<1>3. QED
  BY <1>1, <1>2 DEF Allowed

\* A goroutine that does not move wants what it wanted.
LEMMA Unmoved ==
  ASSUME NEW t, program'[t] = program[t], pc'[t] = pc[t]
  PROVE  /\ Has(t)' = Has(t) /\ On(t)' = On(t)
         /\ \A act : At(t, act)' <=> At(t, act)
         /\ \A l : Pends(t, l)' <=> Pends(t, l)
<1>1. Has(t)' = Has(t) /\ On(t)' = On(t)
  BY DEF Has, On
<1>2. \A act : At(t, act)' <=> At(t, act)
  BY DEF At
<1>3. QED
  BY <1>1, <1>2 DEF Pends

\* A goroutine is at one kind of step, and waits for nothing else.
LEMMA OneStep ==
  ASSUME Locking, NEW t, NEW act, At(t, act)
  PROVE  /\ \A a : At(t, a) => a = act
         /\ \A l \in Locks : act # "RLock" => t \notin parked[l]
         /\ \A l : Pends(t, l) => act = "Lock" /\ On(t) = l
<1>1. \A a : At(t, a) => a = act
  BY DEF At
<1>2. QED
  BY <1>1 DEF Locking, Pends

LEMMA LockInit == Init => LockInv
<1> SUFFICES ASSUME Init PROVE LockInv
  OBVIOUS
<1>1. \A t \in Thread : program[t] = << >> /\ pc[t] = 1
  BY DEF Init
<1>2. Fits(<< >>, {}) /\ Len(<< >>) = 0
  BY NothingFits
<1>3. Types
  <2>1. DOMAIN program = Thread /\ DOMAIN pc = Thread /\ DOMAIN writer = Locks
    BY DEF Init
  <2>2. sharers \in [Locks -> SUBSET Thread] /\ parked \in [Locks -> SUBSET Thread]
    BY DEF Init
  <2>3. QED
    BY <1>1, <1>2, <2>1, <2>2 DEF Types
<1>4. \A t \in Thread : Has(t) = {}
  BY <1>1, <1>2, ClaimsFit DEF Has
<1>5. \A l \in Locks : sharers[l] = {} /\ parked[l] = {} /\ writer[l] \notin Thread
  BY LatchesAssumption DEF Init
<1>6. Locking
  BY <1>4, <1>5 DEF Locking
<1>7. QED
  BY <1>3, <1>6 DEF LockInv

LEMMA BeginKeeps ==
  ASSUME LockInv, NEW t \in Thread, Begin(t)
  PROVE  LockInv'
<1> USE DEF LockInv
<1>1. PICK p \in Operations : /\ program[t] = << >> /\ program' = [program EXCEPT ![t] = p]
                              /\ UNCHANGED <<pc, sharers, writer, parked>>
  BY DEF Begin
<1>2. Len(<< >>) = 0 /\ ClaimsOf(<< >>)[1] = {}
  BY NothingFits, ClaimsFit
<1>3. pc[t] = 1 /\ Has(t) = {} /\ \A a : ~At(t, a)
  <2>1. pc[t] \in 1 .. 0 + 1
    BY <1>1, <1>2 DEF Types
  <2>2. pc[t] = 1
    BY <2>1
  <2>3. QED
    BY <1>1, <1>2, <2>2 DEF Has, At
<1>4. Fits(p, {}) /\ p \in Seq(Steps) /\ Len(p) \in Nat /\ ClaimsOf(p)[1] = {}
  BY OperationsFit, ClaimsFit
<1>5. program'[t] = p /\ pc'[t] = 1 /\ \A u \in Thread : u # t => program'[u] = program[u] /\ pc'[u] = pc[u]
  BY <1>1, <1>3 DEF Types
<1>6. Types'
  <2>1. /\ pc'[t] \in 1 .. Len(program'[t]) + 1
        /\ pc'[t] = Len(program'[t]) + 1 => program'[t] = << >>
    <3>1. 1 \in 1 .. Len(p) + 1 /\ (1 = Len(p) + 1 => Len(p) = 0)
      BY <1>4
    <3>2. Len(p) = 0 => p = << >>
      BY <1>4
    <3>3. QED
      BY <1>5, <3>1, <3>2
  <2>2. \A u \in Thread : /\ Fits(program'[u], {})
                          /\ pc'[u] \in 1 .. Len(program'[u]) + 1
                          /\ pc'[u] = Len(program'[u]) + 1 => program'[u] = << >>
    BY <1>4, <1>5, <2>1 DEF Types
  <2>3. QED
    BY <1>1, <2>2 DEF Types
<1>7. Has(t)' = {}
  BY <1>4, <1>5 DEF Has
<1>8. Locking'
  <2> SUFFICES ASSUME NEW l \in Locks
               PROVE  /\ \A u \in Thread : u \in sharers[l] <=> R(l) \in Has(u)'
                      /\ \A u \in Thread : W(l) \in Has(u)' => writer[l] = u /\ sharers[l] = {}
                      /\ \A u \in Thread : writer[l] = u => W(l) \in Has(u)' \/ Pends(u, l)'
                      /\ \A u \in parked[l] : At(u, "RLock")' /\ On(u)' = l
    BY <1>1 DEF Locking
  <2>1. t \notin sharers[l] /\ writer[l] # t /\ t \notin parked[l]
    BY <1>3 DEF Locking, Pends
  <2>2. \A u \in Thread : u # t => /\ Has(u)' = Has(u) /\ On(u)' = On(u)
                                   /\ At(u, "RLock")' <=> At(u, "RLock")
                                   /\ Pends(u, l)' <=> Pends(u, l)
    BY <1>5, Unmoved
  <2>3. parked[l] \subseteq Thread
    BY DEF Types
  <2>4. QED
    BY <1>7, <2>1, <2>2, <2>3 DEF Locking
<1>9. QED
  BY <1>6, <1>8

\* One goroutine goes on, from a step that is no release of a writer.
LEMMA OneAdvances ==
  ASSUME LockInv, NEW t \in Thread, NEW act, At(t, act), Advance({t})
  PROVE  /\ DOMAIN program' = Thread /\ DOMAIN pc' = Thread
         /\ \A u \in Thread : /\ Fits(program'[u], {})
                              /\ pc'[u] \in 1 .. Len(program'[u]) + 1
                              /\ pc'[u] = Len(program'[u]) + 1 => program'[u] = << >>
         /\ act = "use" => Has(t)' = Has(t)
         /\ act = "RLock" => Has(t)' = Has(t) \cup {R(On(t))}
         /\ act = "Lock" => Has(t)' = Has(t) \cup {W(On(t))}
         /\ act = "RUnlock" => Has(t)' = Has(t) \ {R(On(t))}
         /\ act # "use" => (act \in {"RLock", "RUnlock", "Lock", "Unlock"} => On(t) \in Locks)
         /\ \A u \in Thread : u # t => /\ Has(u)' = Has(u) /\ On(u)' = On(u)
                                       /\ \A a : At(u, a)' <=> At(u, a)
                                       /\ \A l : Pends(u, l)' <=> Pends(u, l)
<1> USE DEF LockInv
<1>1. {t} \in SUBSET Thread /\ \A u \in {t} : pc[u] <= Len(program[u])
  BY DEF At
<1>2. /\ DOMAIN program' = Thread /\ DOMAIN pc' = Thread
      /\ \A u \in Thread : /\ Fits(program'[u], {})
                           /\ pc'[u] \in 1 .. Len(program'[u]) + 1
                           /\ pc'[u] = Len(program'[u]) + 1 => program'[u] = << >>
      /\ \A u \in {t} : Allowed(program[u][pc[u]], Has(u), Has(u)')
      /\ \A u \in Thread \ {t} : program'[u] = program[u] /\ pc'[u] = pc[u]
  BY <1>1, Advances
<1>3. Allowed(program[t][pc[t]], Has(t), Has(t)')
  BY <1>2
<1>4. /\ act = "use" => Has(t)' = Has(t)
      /\ act = "RLock" => Has(t)' = Has(t) \cup {R(On(t))}
      /\ act = "Lock" => Has(t)' = Has(t) \cup {W(On(t))}
      /\ act = "RUnlock" => Has(t)' = Has(t) \ {R(On(t))}
  BY <1>3, StepOf
<1>5. act \in {"RLock", "RUnlock", "Lock", "Unlock"} => On(t) \in Locks
  BY <1>1, NextStep DEF At
<1>6. \A u \in Thread : u # t => /\ Has(u)' = Has(u) /\ On(u)' = On(u)
                                 /\ \A a : At(u, a)' <=> At(u, a)
                                 /\ \A l : Pends(u, l)' <=> Pends(u, l)
  BY <1>2, Unmoved
<1>7. QED
  BY <1>2, <1>4, <1>5, <1>6

LEMMA AccessKeeps ==
  ASSUME LockInv, NEW t \in Thread, Access(t)
  PROVE  LockInv'
<1> USE DEF LockInv
<1>1. At(t, "use") /\ Advance({t}) /\ UNCHANGED <<sharers, writer, parked>>
  BY DEF Access
<1>2. /\ DOMAIN program' = Thread /\ DOMAIN pc' = Thread
      /\ \A u \in Thread : /\ Fits(program'[u], {})
                           /\ pc'[u] \in 1 .. Len(program'[u]) + 1
                           /\ pc'[u] = Len(program'[u]) + 1 => program'[u] = << >>
      /\ Has(t)' = Has(t)
      /\ \A u \in Thread : u # t => /\ Has(u)' = Has(u) /\ On(u)' = On(u)
                                    /\ \A a : At(u, a)' <=> At(u, a)
                                    /\ \A l : Pends(u, l)' <=> Pends(u, l)
  BY <1>1, OneAdvances
<1>3. Types'
  BY <1>1, <1>2 DEF Types
<1>4. \A l \in Locks : t \notin parked[l] /\ ~Pends(t, l) /\ parked[l] \subseteq Thread
  BY <1>1, OneStep DEF Types
<1>5. /\ \A u \in Thread : Has(u)' = Has(u)
      /\ \A u \in Thread : u # t => On(u)' = On(u) /\ (At(u, "RLock")' <=> At(u, "RLock"))
      /\ \A u \in Thread : u # t => \A m : Pends(u, m)' <=> Pends(u, m)
  BY <1>2
<1>6. ASSUME NEW l \in Locks
      PROVE  /\ \A u \in Thread : u \in sharers[l] <=> R(l) \in Has(u)'
             /\ \A u \in Thread : W(l) \in Has(u)' => writer[l] = u /\ sharers[l] = {}
             /\ \A u \in Thread : writer[l] = u => W(l) \in Has(u)' \/ Pends(u, l)'
             /\ \A u \in parked[l] : At(u, "RLock")' /\ On(u)' = l
  <2>1. /\ \A u \in Thread : u \in sharers[l] <=> R(l) \in Has(u)
        /\ \A u \in Thread : W(l) \in Has(u) => writer[l] = u /\ sharers[l] = {}
        /\ \A u \in Thread : writer[l] = u => W(l) \in Has(u) \/ Pends(u, l)
        /\ \A u \in parked[l] : At(u, "RLock") /\ On(u) = l
    BY DEF Locking
  <2>2. \A u \in Thread : Pends(u, l) => Pends(u, l)'
    BY <1>4, <1>5
  <2>3. \A u \in parked[l] : At(u, "RLock")' /\ On(u)' = l
    BY <1>4, <1>5, <2>1
  <2>4. \A u \in Thread : Has(u)' = Has(u)
    BY <1>5
  <2>5. \A u \in Thread : /\ u \in sharers[l] <=> R(l) \in Has(u)'
                          /\ W(l) \in Has(u)' => writer[l] = u /\ sharers[l] = {}
                          /\ writer[l] = u => W(l) \in Has(u)' \/ Pends(u, l)'
    BY <2>1, <2>2, <2>4
  <2>6. QED
    BY <2>3, <2>5
<1>7. Locking'
  BY <1>1, <1>6 DEF Locking
<1>8. QED
  BY <1>3, <1>7

LEMMA RLockKeeps ==
  ASSUME LockInv, NEW t \in Thread, RLock(t)
  PROVE  LockInv'
<1> USE DEF LockInv
<1> DEFINE l == On(t)
<1>1. /\ At(t, "RLock") /\ t \notin parked[l] /\ UNCHANGED writer
      /\ \/ /\ writer[l] = None /\ sharers' = [sharers EXCEPT ![l] = @ \cup {t}]
            /\ Advance({t}) /\ UNCHANGED parked
         \/ /\ parked' = [parked EXCEPT ![l] = @ \cup {t}]
            /\ UNCHANGED <<program, pc, sharers>>
  BY DEF RLock
<1>2. CASE UNCHANGED <<program, pc, sharers>>
  <2>1. parked' = [parked EXCEPT ![l] = @ \cup {t}] \/ UNCHANGED parked
    BY <1>1
  <2>2. Types'
    <3>1. parked' \in [Locks -> SUBSET Thread]
      BY <2>1 DEF Types
    <3>2. QED
      BY <1>1, <1>2, <3>1 DEF Types
  <2>3. \A u : /\ Has(u)' = Has(u) /\ On(u)' = On(u) /\ (At(u, "RLock")' <=> At(u, "RLock"))
               /\ \A m : Pends(u, m)' <=> Pends(u, m)
    BY <1>2 DEF Has, On, At, Pends
  <2>4. \A m \in Locks : \A u \in parked'[m] : u \in parked[m] \/ (u = t /\ m = l)
    BY <2>1 DEF Types
  <2>5. Locking'
    BY <1>1, <1>2, <2>3, <2>4 DEF Locking
  <2>6. QED
    BY <2>2, <2>5
<1>3. CASE /\ writer[l] = None /\ sharers' = [sharers EXCEPT ![l] = @ \cup {t}]
           /\ Advance({t}) /\ UNCHANGED parked
  <2>1. /\ DOMAIN program' = Thread /\ DOMAIN pc' = Thread
        /\ \A u \in Thread : /\ Fits(program'[u], {})
                             /\ pc'[u] \in 1 .. Len(program'[u]) + 1
                             /\ pc'[u] = Len(program'[u]) + 1 => program'[u] = << >>
        /\ Has(t)' = Has(t) \cup {R(l)} /\ l \in Locks
        /\ \A u \in Thread : u # t => /\ Has(u)' = Has(u) /\ On(u)' = On(u)
                                      /\ \A a : At(u, a)' <=> At(u, a)
                                      /\ \A m : Pends(u, m)' <=> Pends(u, m)
    BY <1>1, <1>3, OneAdvances
  <2>2. Types'
    <3>1. sharers' \in [Locks -> SUBSET Thread]
      BY <1>3, <2>1 DEF Types
    <3>2. QED
      BY <1>1, <1>3, <2>1, <3>1 DEF Types
  <2>3. \A m \in Locks : t \notin parked[m] /\ ~Pends(t, m) /\ parked[m] \subseteq Thread
    <3>1. \A m \in Locks : t \in parked[m] => m = l
      BY DEF Locking
    <3>2. QED
      BY <1>1, <3>1, OneStep DEF Types
  <2>4. \A m \in Locks : sharers'[m] = IF m = l THEN sharers[m] \cup {t} ELSE sharers[m]
    BY <1>3, <2>1 DEF Types
  <2> HIDE DEF l
  <2>5. ASSUME NEW m \in Locks, NEW u \in Thread
        PROVE  /\ u \in sharers'[m] <=> R(m) \in Has(u)'
               /\ W(m) \in Has(u)' => writer[m] = u /\ sharers'[m] = {}
               /\ writer[m] = u => W(m) \in Has(u)' \/ Pends(u, m)'
    <3>1. u \in sharers'[m] <=> u \in sharers[m] \/ (u = t /\ m = l)
      BY <2>4
    <3>2. /\ R(m) \in Has(u)' <=> R(m) \in Has(u) \/ (u = t /\ m = l)
          /\ W(m) \in Has(u)' <=> W(m) \in Has(u)
      BY <2>1, ClaimNames
    <3>3. W(m) \in Has(u) => writer[m] = u /\ sharers[m] = {} /\ m # l
      BY <1>3, LatchesAssumption DEF Locking
    <3>4. writer[m] = u => W(m) \in Has(u) \/ (Pends(u, m) /\ u # t)
      BY <2>3 DEF Locking
    <3>5. QED
      BY <2>1, <2>4, <3>1, <3>2, <3>3, <3>4 DEF Locking
  <2>6. \A m \in Locks : \A u \in parked[m] : At(u, "RLock")' /\ On(u)' = m
    BY <2>1, <2>3 DEF Locking
  <2>7. Locking'
    BY <1>1, <1>3, <2>5, <2>6 DEF Locking
  <2>8. QED
    BY <2>2, <2>7
<1>4. QED
  BY <1>1, <1>2, <1>3

LEMMA RUnlockKeeps ==
  ASSUME LockInv, NEW t \in Thread, RUnlock(t)
  PROVE  LockInv'
<1> USE DEF LockInv
<1> DEFINE l == On(t)
<1>1. /\ At(t, "RUnlock") /\ Advance({t}) /\ UNCHANGED <<writer, parked>>
      /\ sharers' = [sharers EXCEPT ![l] = @ \ {t}]
  BY DEF RUnlock
<1>2. /\ DOMAIN program' = Thread /\ DOMAIN pc' = Thread
      /\ \A u \in Thread : /\ Fits(program'[u], {})
                           /\ pc'[u] \in 1 .. Len(program'[u]) + 1
                           /\ pc'[u] = Len(program'[u]) + 1 => program'[u] = << >>
      /\ Has(t)' = Has(t) \ {R(l)} /\ l \in Locks
      /\ \A u \in Thread : u # t => /\ Has(u)' = Has(u) /\ On(u)' = On(u)
                                    /\ \A a : At(u, a)' <=> At(u, a)
                                    /\ \A m : Pends(u, m)' <=> Pends(u, m)
  BY <1>1, OneAdvances
<1>3. Types'
  <2>1. sharers' \in [Locks -> SUBSET Thread]
    BY <1>1, <1>2 DEF Types
  <2>2. QED
    BY <1>1, <1>2, <2>1 DEF Types
<1>4. \A m \in Locks : t \notin parked[m] /\ ~Pends(t, m) /\ parked[m] \subseteq Thread
  BY <1>1, OneStep DEF Types
<1>5. \A m \in Locks : sharers'[m] = IF m = l THEN sharers[m] \ {t} ELSE sharers[m]
  BY <1>1, <1>2 DEF Types
<1> HIDE DEF l
<1>6. ASSUME NEW m \in Locks, NEW u \in Thread
      PROVE  /\ u \in sharers'[m] <=> R(m) \in Has(u)'
             /\ W(m) \in Has(u)' => writer[m] = u /\ sharers'[m] = {}
             /\ writer[m] = u => W(m) \in Has(u)' \/ Pends(u, m)'
  <2>1. u \in sharers'[m] <=> u \in sharers[m] /\ ~(u = t /\ m = l)
    BY <1>5
  <2>2. /\ R(m) \in Has(u)' <=> R(m) \in Has(u) /\ ~(u = t /\ m = l)
        /\ W(m) \in Has(u)' <=> W(m) \in Has(u)
    BY <1>2, ClaimNames
  <2>3. W(m) \in Has(u) => writer[m] = u /\ sharers[m] = {} /\ sharers'[m] = {}
    BY <1>5 DEF Locking
  <2>4. writer[m] = u => W(m) \in Has(u) \/ (Pends(u, m) /\ u # t)
    BY <1>4 DEF Locking
  <2>5. QED
    BY <1>2, <2>1, <2>2, <2>3, <2>4 DEF Locking
<1>7. \A m \in Locks : \A u \in parked[m] : At(u, "RLock")' /\ On(u)' = m
  BY <1>2, <1>4 DEF Locking
<1>8. Locking'
  BY <1>1, <1>6, <1>7 DEF Locking
<1>9. QED
  BY <1>3, <1>8

LEMMA LockKeeps ==
  ASSUME LockInv, NEW t \in Thread, Lock(t)
  PROVE  LockInv'
<1> USE DEF LockInv
<1> DEFINE l == On(t)
<1>1. /\ At(t, "Lock") /\ writer[l] \in {None, t} /\ UNCHANGED <<sharers, parked>>
      /\ writer' = [writer EXCEPT ![l] = t]
      /\ \/ sharers[l] = {} /\ Advance({t})
         \/ sharers[l] # {} /\ writer[l] = None /\ UNCHANGED <<program, pc>>
  BY DEF Lock
<1>2. l \in Locks
  BY <1>1, NextStep DEF At
<1>3. \A m \in Locks : writer'[m] = IF m = l THEN t ELSE writer[m]
  BY <1>1, <1>2 DEF Types
<1>4. \A m \in Locks : \A u \in Thread : W(m) \in Has(u) /\ m = l => u = t
  BY <1>1, LatchesAssumption DEF Locking
<1>5. CASE sharers[l] # {} /\ writer[l] = None /\ UNCHANGED <<program, pc>>
  <2>1. Types'
    BY <1>1, <1>5 DEF Types
  <2>2. \A u : /\ Has(u)' = Has(u) /\ On(u)' = On(u) /\ (At(u, "RLock")' <=> At(u, "RLock"))
               /\ \A m : Pends(u, m)' <=> Pends(u, m)
    BY <1>5 DEF Has, On, At, Pends
  <2>3. Pends(t, l)
    BY <1>1 DEF Pends
  <2> HIDE DEF l
  <2>4. ASSUME NEW m \in Locks, NEW u \in Thread
        PROVE  /\ W(m) \in Has(u)' => writer'[m] = u /\ sharers[m] = {}
               /\ writer'[m] = u => W(m) \in Has(u)' \/ Pends(u, m)'
    <3>1. CASE m = l
      <4>1. W(l) \notin Has(u)
        BY <1>4, <1>5, <3>1 DEF Locking
      <4>2. writer'[l] = t
        BY <1>3, <3>1
      <4>3. QED
        BY <2>2, <2>3, <3>1, <4>1, <4>2
    <3>2. CASE m # l
      BY <1>3, <2>2, <3>2 DEF Locking
    <3>3. QED
      BY <3>1, <3>2
  <2>5. Locking'
    BY <1>1, <2>2, <2>4 DEF Locking
  <2>6. QED
    BY <2>1, <2>5
<1>6. CASE sharers[l] = {} /\ Advance({t})
  <2>1. /\ DOMAIN program' = Thread /\ DOMAIN pc' = Thread
        /\ \A u \in Thread : /\ Fits(program'[u], {})
                             /\ pc'[u] \in 1 .. Len(program'[u]) + 1
                             /\ pc'[u] = Len(program'[u]) + 1 => program'[u] = << >>
        /\ Has(t)' = Has(t) \cup {W(l)}
        /\ \A u \in Thread : u # t => /\ Has(u)' = Has(u) /\ On(u)' = On(u)
                                      /\ \A a : At(u, a)' <=> At(u, a)
                                      /\ \A m : Pends(u, m)' <=> Pends(u, m)
    BY <1>1, <1>6, OneAdvances
  <2>2. Types'
    BY <1>1, <2>1 DEF Types
  <2>3. \A m \in Locks : t \notin parked[m] /\ parked[m] \subseteq Thread
    BY <1>1, OneStep DEF Types
  <2>4. \A m : Pends(t, m) => m = l
    BY <1>1, OneStep
  <2> HIDE DEF l
  <2>5. ASSUME NEW m \in Locks, NEW u \in Thread
        PROVE  /\ u \in sharers[m] <=> R(m) \in Has(u)'
               /\ W(m) \in Has(u)' => writer'[m] = u /\ sharers[m] = {}
               /\ writer'[m] = u => W(m) \in Has(u)' \/ Pends(u, m)'
    <3>1. /\ R(m) \in Has(u)' <=> R(m) \in Has(u)
          /\ W(m) \in Has(u)' <=> W(m) \in Has(u) \/ (u = t /\ m = l)
      BY <2>1, ClaimNames
    <3>2. W(m) \in Has(u)' => writer'[m] = u /\ sharers[m] = {}
      BY <1>3, <1>4, <1>6, <3>1 DEF Locking
    <3>3. writer'[m] = u => W(m) \in Has(u)' \/ Pends(u, m)'
      <4>1. CASE m = l
        BY <1>3, <3>1, <4>1
      <4>2. CASE m # l
        BY <1>3, <2>1, <2>4, <3>1, <4>2 DEF Locking
      <4>3. QED
        BY <4>1, <4>2
    <3>4. QED
      BY <3>1, <3>2, <3>3 DEF Locking
  <2>6. \A m \in Locks : \A u \in parked[m] : At(u, "RLock")' /\ On(u)' = m
    BY <2>1, <2>3 DEF Locking
  <2>7. Locking'
    BY <1>1, <2>5, <2>6 DEF Locking
  <2>8. QED
    BY <2>2, <2>7
<1>7. QED
  BY <1>1, <1>5, <1>6

LEMMA UnlockKeeps ==
  ASSUME LockInv, NEW t \in Thread, Unlock(t)
  PROVE  LockInv'
<1> USE DEF LockInv
<1> DEFINE l == On(t)
           S == {t} \cup parked[l]
<1>1. /\ At(t, "Unlock") /\ Advance(S)
      /\ writer' = [writer EXCEPT ![l] = None]
      /\ sharers' = [sharers EXCEPT ![l] = @ \cup parked[l]]
      /\ parked' = [parked EXCEPT ![l] = {}]
  BY DEF Unlock
<1>2. l \in Locks
  BY <1>1, NextStep DEF At
<1>3. S \in SUBSET Thread /\ parked[l] \subseteq Thread /\ t \notin parked[l]
  BY <1>1, <1>2, OneStep DEF Types
<1>4. \A u \in parked[l] : At(u, "RLock") /\ On(u) = l
  BY <1>2 DEF Locking
<1>5. \A u \in S : pc[u] <= Len(program[u])
  BY <1>1, <1>4 DEF At
<1> HIDE DEF S
<1>6. /\ DOMAIN program' = Thread /\ DOMAIN pc' = Thread
      /\ \A u \in Thread : /\ Fits(program'[u], {})
                           /\ pc'[u] \in 1 .. Len(program'[u]) + 1
                           /\ pc'[u] = Len(program'[u]) + 1 => program'[u] = << >>
      /\ \A u \in S : Allowed(program[u][pc[u]], Has(u), Has(u)')
      /\ \A u \in Thread \ S : program'[u] = program[u] /\ pc'[u] = pc[u]
  BY <1>1, <1>3, <1>5, Advances
<1>7. W(l) \in Has(t) /\ Has(t)' = Has(t) \ {W(l)}
  BY <1>1, <1>6, StepOf DEF S
<1>8. \A u \in parked[l] : Has(u)' = Has(u) \cup {R(l)}
  BY <1>4, <1>6, StepOf DEF S
<1>9. \A u \in Thread : u # t /\ u \notin parked[l] =>
        /\ Has(u)' = Has(u) /\ On(u)' = On(u)
        /\ \A a : At(u, a)' <=> At(u, a)
        /\ \A m : Pends(u, m)' <=> Pends(u, m)
  BY <1>6, Unmoved DEF S
<1>10. writer[l] = t /\ sharers[l] = {}
  BY <1>2, <1>7 DEF Locking
<1>11. Types'
  <2>1. sharers' \in [Locks -> SUBSET Thread] /\ parked' \in [Locks -> SUBSET Thread]
    BY <1>1, <1>2, <1>3 DEF Types
  <2>2. QED
    BY <1>1, <1>6, <2>1 DEF Types
<1>12. \A m \in Locks : /\ writer'[m] = IF m = l THEN None ELSE writer[m]
                        /\ sharers'[m] = IF m = l THEN parked[l] ELSE sharers[m]
                        /\ parked'[m] = IF m = l THEN {} ELSE parked[m]
  BY <1>1, <1>2, <1>10 DEF Types
<1>13. \A m \in Locks : \A u \in Thread : u = t \/ u \in parked[l] => ~Pends(u, m)
  BY <1>1, <1>4, OneStep
<1>14. \A m \in Locks : m # l => \A u \in parked[m] : u # t /\ u \notin parked[l] /\ u \in Thread
  <2>1. \A m \in Locks : t \notin parked[m] /\ parked[m] \subseteq Thread
    BY <1>1, OneStep DEF Types
  <2>2. \A m \in Locks : \A u \in parked[m] : On(u) = m
    BY DEF Locking
  <2>3. QED
    BY <1>4, <2>1, <2>2
<1> HIDE DEF l
<1>15. ASSUME NEW m \in Locks, NEW u \in Thread
       PROVE  /\ u \in sharers'[m] <=> R(m) \in Has(u)'
              /\ W(m) \in Has(u)' => writer'[m] = u /\ sharers'[m] = {}
              /\ writer'[m] = u => W(m) \in Has(u)' \/ Pends(u, m)'
  <2>1. /\ R(m) \in Has(u)' <=> R(m) \in Has(u) \/ (m = l /\ u \in parked[l])
        /\ W(m) \in Has(u)' <=> W(m) \in Has(u) /\ ~(m = l /\ u = t)
    BY <1>3, <1>7, <1>8, <1>9, ClaimNames
  <2>2. CASE m = l
    <3>1. R(l) \notin Has(u)
      BY <1>2, <1>10 DEF Locking
    <3>2. W(l) \in Has(u) => u = t
      BY <1>2, <1>10 DEF Locking
    <3>3. writer'[l] # u /\ sharers'[l] = parked[l]
      BY <1>2, <1>12, LatchesAssumption
    <3>4. QED
      BY <2>1, <2>2, <3>1, <3>2, <3>3
  <2>3. CASE m # l
    <3>1. writer'[m] = writer[m] /\ sharers'[m] = sharers[m]
      BY <1>12, <2>3
    <3>2. Pends(u, m) => Pends(u, m)'
      BY <1>9, <1>13
    <3>3. QED
      BY <2>1, <2>3, <3>1, <3>2 DEF Locking
  <2>4. QED
    BY <2>2, <2>3
<1>16. \A m \in Locks : \A u \in parked'[m] : At(u, "RLock")' /\ On(u)' = m
  BY <1>9, <1>12, <1>14 DEF Locking
<1>17. Locking'
  BY <1>15, <1>16 DEF Locking
<1>18. QED
  BY <1>11, <1>17

\* The inductive invariant: programs keep to the order, and claims are locks.
LEMMA LockInvariant == Spec => []LockInv
<1>1. Init => LockInv
  BY LockInit
<1>2. LockInv /\ [Next]_vars => LockInv'
  <2> SUFFICES ASSUME LockInv, [Next]_vars PROVE LockInv'
    OBVIOUS
  <2>1. CASE Next
    <3>1. PICK t \in Thread :
            Begin(t) \/ Access(t) \/ RLock(t) \/ RUnlock(t) \/ Lock(t) \/ Unlock(t)
      BY <2>1 DEF Next
    <3>2. QED
      BY <3>1, BeginKeeps, AccessKeeps, RLockKeeps, RUnlockKeeps, LockKeeps, UnlockKeeps
  <2>2. CASE UNCHANGED vars
    <3>1. UNCHANGED <<program, pc, sharers, writer, parked>>
      BY <2>2 DEF vars
    <3>2. Types'
      BY <3>1 DEF LockInv, Types
    <3>3. \A u : /\ Has(u)' = Has(u) /\ On(u)' = On(u) /\ (At(u, "RLock")' <=> At(u, "RLock"))
                 /\ \A m : Pends(u, m)' <=> Pends(u, m)
      BY <3>1 DEF Has, On, At, Pends
    <3>4. Locking'
      BY <3>1, <3>3 DEF LockInv, Locking
    <3>5. QED
      BY <3>2, <3>4 DEF LockInv
  <2>3. QED
    BY <2>1, <2>2
<1>3. QED
  BY <1>1, <1>2, PTL DEF Spec

-----------------------------------------------------------------------------
(* What follows for a collection *)

LEMMA InvIsOrdered == LockInv => LocksAreOrdered
<1> SUFFICES ASSUME LockInv, NEW t \in Thread, At(t, "Lock") \/ At(t, "RLock")
             PROVE  On(t) \in Locks /\ \A l \in Locks : Holds(t, l) => Rank(l) < Rank(On(t))
  BY DEF LocksAreOrdered
<1>1. pc[t] <= Len(program[t]) /\ program[t][pc[t]][1] \in {"Lock", "RLock"}
  BY DEF At
<1>2. /\ On(t) \in Locks
      /\ Allowed(program[t][pc[t]], Has(t), ClaimsOf(program[t])[pc[t] + 1])
  BY <1>1, NextStep DEF LockInv
<1>3. Inside(Has(t), On(t))
  BY <1>1, <1>2 DEF Allowed, On
<1>4. ASSUME NEW l \in Locks, Holds(t, l)
      PROVE  Rank(l) < Rank(On(t))
  <2>1. R(l) \in Has(t) \/ W(l) \in Has(t)
    BY <1>4 DEF Holds, LockInv, Locking
  <2>2. R(l)[1] = l /\ W(l)[1] = l
    BY DEF R, W
  <2>3. QED
    BY <1>3, <2>1, <2>2 DEF Inside
<1>5. QED
  BY <1>2, <1>4

\* Every operation takes the locks of a collection in one order, at any time,
\* with any number of goroutines, chunks and latches.
THEOREM LocksKeepTheirOrder == Spec => []LocksAreOrdered
BY LockInvariant, InvIsOrdered, PTL

\* Of several goroutines there is one that wants a lock that none of the others
\* wants a lock inside of.
LEMMA InnermostExists ==
  ASSUME NEW S, S # {}
  PROVE  \E t \in S : \A u \in S : Rank(On(u)) <= Rank(On(t))
<1> DEFINE AtLeast(n) == \E t \in S : Rank(On(t)) >= n
<1> HIDE DEF AtLeast
<1>1. AtLeast(0) /\ ~AtLeast(6)
  BY RankType DEF AtLeast
<1>2. \E n \in 0 .. 5 : AtLeast(n) /\ ~AtLeast(n + 1)
  BY <1>1
<1>3. PICK n \in 0 .. 5 : AtLeast(n) /\ ~AtLeast(n + 1)
  BY <1>2
<1>4. PICK t \in S : Rank(On(t)) >= n
  BY <1>3 DEF AtLeast
<1>5. \A u \in S : Rank(On(u)) <= n
  BY <1>3, RankType DEF AtLeast
<1>6. QED
  BY <1>4, <1>5, RankType

\* A goroutine that waits for another one wants a lock that the other one has,
\* or wants to write what the other one waits to write.
LEMMA WaitsForHolder ==
  ASSUME NEW t \in Thread, NEW u \in Thread, u \in WaitsFor(t)
  PROVE  /\ At(t, "Lock") \/ At(t, "RLock")
         /\ Holds(u, On(t)) \/ (Pends(u, On(t)) /\ writer[On(t)] = u)
BY DEF WaitsFor, Holds

\* Who waits for the readers of a lock waits for one that has it.
LEMMA PendingWaitsForReaders ==
  ASSUME NEW t \in Thread, NEW u \in Thread, NEW l,
         Pends(t, l), writer[l] = t, u \in WaitsFor(t)
  PROVE  On(t) = l /\ Holds(u, l)
BY DEF WaitsFor, Holds, Pends, At

\* Acquired in this order, the locks of a collection never make goroutines wait
\* for each other in a circle.  Of those in a circle, take the one that wants the
\* innermost lock: a goroutine that has this lock would want one further inside.
\* So it waits for one that waits to write, which in turn waits for a goroutine
\* that has the lock.
LEMMA OrderPreventsCircles == LocksAreOrdered => NobodyWaitsInACircle
<1> SUFFICES ASSUME LocksAreOrdered, NEW S \in (SUBSET Thread) \ {{}},
                    \A t \in S : WaitsFor(t) \cap S # {}
             PROVE  FALSE
  BY DEF NobodyWaitsInACircle
<1>1. PICK t \in S : \A u \in S : Rank(On(u)) <= Rank(On(t))
  BY InnermostExists
<1>2. ASSUME NEW u \in S PROVE ~Holds(u, On(t))
  <2>1. PICK v \in S : v \in WaitsFor(u)
    BY <1>2
  <2>2. At(u, "Lock") \/ At(u, "RLock")
    BY <1>2, <2>1, WaitsForHolder
  <2>3. PICK w \in S : w \in WaitsFor(t)
    BY <1>1
  <2>4. On(t) \in Locks
    BY <1>1, <2>3, WaitsForHolder DEF LocksAreOrdered
  <2>5. ~(Rank(On(t)) < Rank(On(u)))
    BY <1>1, <1>2, RankType
  <2>6. QED
    BY <1>2, <2>2, <2>4, <2>5 DEF LocksAreOrdered
<1>3. PICK u \in S : u \in WaitsFor(t)
  BY <1>1
<1>4. Pends(u, On(t)) /\ writer[On(t)] = u
  BY <1>1, <1>2, <1>3, WaitsForHolder
<1>5. PICK v \in S : v \in WaitsFor(u)
  BY <1>3
<1>6. Holds(v, On(t))
  BY <1>3, <1>4, <1>5, PendingWaitsForReaders
<1>7. QED
  BY <1>2, <1>5, <1>6

\* Whatever operations run at the same time, no goroutines ever wait for each
\* other in a circle.
THEOREM CollectionsDoNotDeadlock == Spec => []NobodyWaitsInACircle
BY LocksKeepTheirOrder, OrderPreventsCircles, PTL

\* What a goroutine claims of the locks of a datum.
LEMMA AccessClaims ==
  ASSUME LockInv, NEW t \in Thread, At(t, "use")
  PROVE  /\ On(t)[1] \in SUBSET Data /\ On(t)[2] \in SUBSET Data
         /\ \A d \in On(t)[1] : MayRead(d, Has(t))
         /\ \A d \in On(t)[2] : MayWrite(d, Has(t))
<1> DEFINE s == program[t][pc[t]]
<1>1. s[1] = "use" /\ On(t) = s[2] /\ pc[t] <= Len(program[t])
  BY DEF At, On
<1>2. s \in Steps /\ Allowed(s, Has(t), ClaimsOf(program[t])[pc[t] + 1])
  BY <1>1, NextStep DEF LockInv
<1> HIDE DEF s
<1>3. s \in {"use"} \X ((SUBSET Data) \X (SUBSET Data))
  BY <1>1, <1>2 DEF Steps
<1>4. QED
  BY <1>1, <1>2, <1>3 DEF Allowed

LEMMA GuardIsLock == \A d \in Data : Guard(d) \in Locks
BY DataAre, GuardOf, LocksAre DEF Data

\* A lock that a goroutine has for writing no other one has.
LEMMA WritersAreAlone ==
  ASSUME LockInv, NEW t \in Thread, NEW u \in Thread, t # u, NEW l \in Locks, W(l) \in Has(t)
  PROVE  R(l) \notin Has(u) /\ W(l) \notin Has(u)
BY DEF LockInv, Locking

\* No goroutine is about to write what another one is about to read or write.
LEMMA InvExcludesRaces == LockInv => NoDataRace
<1> SUFFICES ASSUME LockInv, NEW t \in Thread, NEW u \in Thread, t # u,
                    At(t, "use"), At(u, "use"),
                    NEW d \in On(t)[2], d \in On(u)[1] \cup On(u)[2]
             PROVE  FALSE
  BY DEF NoDataRace
<1>1. d \in Data /\ MayWrite(d, Has(t)) /\ (MayRead(d, Has(u)) \/ MayWrite(d, Has(u)))
  BY AccessClaims
<1>2. Guard(d) \in Locks /\ Owner \in Locks
  BY <1>1, GuardIsLock DEF Locks
<1>3. /\ R(Guard(d)) \notin Has(u) /\ W(Guard(d)) \notin Has(u)
  BY <1>1, <1>2, WritersAreAlone DEF MayWrite
<1>4. d = Slice => W(Owner) \notin Has(u)
  BY <1>1, <1>2, WritersAreAlone DEF MayWrite
<1>5. QED
  BY <1>1, <1>3, <1>4 DEF MayRead, MayWrite

\* The locks that the functions take protect what they read and write, with any
\* number of goroutines, chunks and latches.
THEOREM LocksProtectData == Spec => []NoDataRace
BY LockInvariant, InvExcludesRaces, PTL
=============================================================================
