---------------------------- MODULE WebDAVProofs ----------------------------
(***************************************************************************)
(* The catalogue of a pool and its disk agree, and what WebDAV makes of    *)
(* several calls loses nothing: proof, for any number of names, folders,   *)
(* files, requests and faults.                                             *)
(***************************************************************************)
EXTENDS WebDAVInv, TLAPS, FiniteSetTheorems, SequenceTheorems

(***************************************************************************)
(* Paths.                                                                  *)
(***************************************************************************)
Spots == Paths \cup {Root}

LEMMA PathsAre ==
  /\ \A p : p \in Paths <=> p \in Seq(Names) /\ Len(p) \in Nat /\ 1 <= Len(p) /\ Len(p) <= Depth
  /\ \A p \in Spots : p \in Seq(Names) /\ Len(p) \in Nat /\ \A i \in 1..Len(p) : p[i] \in Names
  /\ Root \in Seq(Names) /\ Len(Root) = 0 /\ Root \notin Paths
<1>1. ASSUME NEW p, p \in Paths
      PROVE  p \in Seq(Names) /\ Len(p) \in Nat /\ 1 <= Len(p) /\ Len(p) <= Depth
  <2>1. PICK n \in 1..Depth : p \in [1..n -> Names]
    BY <1>1 DEF Paths
  <2>2. n \in Nat /\ 1 <= n /\ n <= Depth
    BY <2>1, TreeAssumption
  <2>3. p \in Seq(Names) /\ Len(p) = n
    BY <2>1, <2>2, SeqDef
  <2> QED  BY <2>2, <2>3
<1>2. ASSUME NEW p, p \in Seq(Names), Len(p) \in Nat, 1 <= Len(p), Len(p) <= Depth
      PROVE  p \in Paths
  <2>1. p \in [1..Len(p) -> Names]
    BY <1>2, LenProperties
  <2>2. Len(p) \in 1..Depth
    BY <1>2, TreeAssumption
  <2> QED  BY <2>1, <2>2 DEF Paths
<1>3. Root \in Seq(Names) /\ Len(Root) = 0
  BY EmptySeq DEF Root
<1>4. Root \notin Paths
  BY <1>1, <1>3
<1>5. \A p \in Spots : p \in Seq(Names)
  BY <1>1, <1>3 DEF Spots
<1>6. \A p \in Spots : Len(p) \in Nat /\ \A i \in 1..Len(p) : p[i] \in Names
  BY <1>5, LenProperties, ElementOfSeq
<1> QED  BY <1>1, <1>2, <1>3, <1>4, <1>5, <1>6

\* What is below a path begins with its names.
LEMMA BelowIs ==
  ASSUME NEW p \in Spots
  PROVE  /\ Below[p] \subseteq Paths
         /\ \A q \in Paths : q \in Below[p] <=> Len(p) <= Len(q) /\ \A i \in 1..Len(p) : q[i] = p[i]
<1>1. Below[p] = {q \in Paths : Len(q) >= Len(p) /\ SubSeq(q, 1, Len(p)) = p}
  BY DEF Below, Spots
<1>2. p \in Seq(Names) /\ Len(p) \in Nat
  BY PathsAre
<1>3. ASSUME NEW q \in Paths, Len(p) <= Len(q)
      PROVE  SubSeq(q, 1, Len(p)) = p <=> \A i \in 1..Len(p) : q[i] = p[i]
  <2>1. Len(q) \in Nat /\ \A i \in 1..Len(q) : q[i] \in Names
    BY PathsAre DEF Spots
  <2>2. 1 \in Int /\ Len(p) \in Int /\ \A i \in 1..Len(p) : q[i] \in Names
    BY <1>2, <1>3, <2>1
  <2>3. /\ SubSeq(q, 1, Len(p)) \in Seq(Names)
        /\ Len(SubSeq(q, 1, Len(p))) = IF 1 <= Len(p) THEN Len(p) - 1 + 1 ELSE 0
        /\ \A i \in 1..(Len(p) - 1 + 1) : SubSeq(q, 1, Len(p))[i] = q[1 + i - 1]
    BY <2>2, SubSeqProperties
  <2>4. /\ Len(SubSeq(q, 1, Len(p))) = Len(p)
        /\ \A i \in 1..Len(p) : SubSeq(q, 1, Len(p))[i] = q[i]
    BY <1>2, <2>3
  <2>5. ASSUME \A i \in 1..Len(p) : q[i] = p[i]
        PROVE  SubSeq(q, 1, Len(p)) = p
    BY <1>2, <2>3, <2>4, <2>5, SeqEqual
  <2> QED  BY <2>4, <2>5
<1>4. \A q \in Paths : Len(q) \in Nat
  BY PathsAre
<1> QED  BY <1>1, <1>2, <1>3, <1>4

LEMMA AboveIs ==
  ASSUME NEW p \in Spots
  PROVE  /\ Above[p] \subseteq Paths
         /\ \A q \in Paths : q \in Above[p] <=> p \in Below[q]
BY DEF Above, Spots

\* To lie below is an order, in which what is above a path forms a chain.
LEMMA BelowOrder ==
  /\ \A p \in Paths : p \in Below[p] /\ p \in Above[p] /\ p \in Below[Root]
  /\ \A p, q \in Spots : \A s \in Paths : q \in Below[p] /\ s \in Below[q] => s \in Below[p]
  /\ \A p, q \in Spots : \A s \in Paths : s \in Below[p] /\ s \in Below[q] =>
       p = Root \/ q = Root \/ p \in Below[q] \/ q \in Below[p]
  /\ \A p, q \in Paths : p \in Below[q] /\ q \in Below[p] => p = q
<1>1. ASSUME NEW p \in Paths
      PROVE  p \in Below[p] /\ p \in Above[p] /\ p \in Below[Root]
  <2>1. p \in Spots /\ Root \in Spots /\ Len(p) \in Nat /\ Len(Root) = 0
    BY PathsAre DEF Spots
  <2>2. p \in Below[p] /\ p \in Below[Root]
    BY <2>1, BelowIs
  <2> QED  BY <2>1, <2>2, AboveIs
<1>2. ASSUME NEW p \in Spots, NEW q \in Spots, NEW s \in Paths, q \in Below[p], s \in Below[q]
      PROVE  s \in Below[p]
  <2>1. q \in Paths
    BY <1>2, BelowIs
  <2>2. Len(p) \in Nat /\ Len(q) \in Nat /\ Len(s) \in Nat
    BY PathsAre DEF Spots
  <2>3. /\ Len(p) <= Len(q) /\ \A i \in 1..Len(p) : q[i] = p[i]
        /\ Len(q) <= Len(s) /\ \A i \in 1..Len(q) : s[i] = q[i]
    BY <1>2, <2>1, BelowIs
  <2>4. Len(p) <= Len(s) /\ \A i \in 1..Len(p) : s[i] = p[i]
    BY <2>2, <2>3
  <2> QED  BY <2>4, BelowIs
<1>3. ASSUME NEW p \in Spots, NEW q \in Spots, NEW s \in Paths, s \in Below[p], s \in Below[q],
             p # Root, q # Root
      PROVE  p \in Below[q] \/ q \in Below[p]
  <2>1. p \in Paths /\ q \in Paths
    BY <1>3 DEF Spots
  <2>2. Len(p) \in Nat /\ Len(q) \in Nat /\ Len(s) \in Nat
    BY PathsAre DEF Spots
  <2>3. /\ Len(p) <= Len(s) /\ \A i \in 1..Len(p) : s[i] = p[i]
        /\ Len(q) <= Len(s) /\ \A i \in 1..Len(q) : s[i] = q[i]
    BY <1>3, BelowIs
  <2>4. CASE Len(p) <= Len(q)
    <3>1. \A i \in 1..Len(p) : q[i] = p[i]
      BY <2>2, <2>3, <2>4
    <3> QED  BY <2>1, <2>4, <3>1, BelowIs
  <2>5. CASE Len(q) <= Len(p)
    <3>1. \A i \in 1..Len(q) : p[i] = q[i]
      BY <2>2, <2>3, <2>5
    <3> QED  BY <2>1, <2>5, <3>1, BelowIs
  <2> QED  BY <2>2, <2>4, <2>5
<1>4. ASSUME NEW p \in Paths, NEW q \in Paths, p \in Below[q], q \in Below[p]
      PROVE  p = q
  <2>1. p \in Spots /\ q \in Spots /\ Len(p) \in Nat /\ Len(q) \in Nat
    BY PathsAre DEF Spots
  <2>2. /\ Len(p) <= Len(q) /\ \A i \in 1..Len(p) : q[i] = p[i]
        /\ Len(q) <= Len(p)
    BY <1>4, <2>1, BelowIs
  <2>3. p \in Seq(Names) /\ q \in Seq(Names) /\ Len(p) = Len(q)
    BY <2>1, <2>2, PathsAre
  <2> QED  BY <2>2, <2>3, SeqEqual
<1> QED  BY <1>1, <1>2, <1>3, <1>4

LEMMA NothingAboveTheRoot == Above[Root] = {}
BY AboveIs, BelowIs, PathsAre DEF Spots

LEMMA ParentIs ==
  ASSUME NEW p \in Paths
  PROVE  /\ Parent(p) \in Spots /\ Parent(p) # p /\ p \in Below[Parent(p)]
         /\ Above[Parent(p)] = Above[p] \ {p}
<1>1. /\ p \in Spots /\ p \in Seq(Names) /\ Len(p) \in Nat /\ 1 <= Len(p) /\ Len(p) <= Depth
      /\ \A i \in 1..Len(p) : p[i] \in Names
  BY PathsAre DEF Spots
<1> DEFINE a == Parent(p)
<1>2. 1 \in Int /\ Len(p) - 1 \in Int /\ \A i \in 1..(Len(p) - 1) : p[i] \in Names
  BY <1>1
<1>3. /\ a \in Seq(Names)
      /\ Len(a) = IF 1 <= Len(p) - 1 THEN Len(p) - 1 - 1 + 1 ELSE 0
      /\ \A i \in 1..(Len(p) - 1 - 1 + 1) : a[i] = p[1 + i - 1]
  BY <1>2, SubSeqProperties DEF Parent
<1>4. Len(a) = Len(p) - 1
  <2> DEFINE n == Len(p)  k == Len(a)
  <2>1. n \in Nat /\ 1 <= n /\ k = IF 1 <= n - 1 THEN n - 1 - 1 + 1 ELSE 0
    BY <1>1, <1>3
  <2> HIDE DEF n, k
  <2>2. k = n - 1
    BY <2>1
  <2> QED  BY <2>2 DEF n, k
<1>5. \A i \in 1..Len(a) : a[i] = p[i]
  <2>1. \A i \in 1..Len(a) : i \in 1..(Len(p) - 1 - 1 + 1) /\ 1 + i - 1 = i
    BY <1>1, <1>4
  <2> QED  BY <1>3, <2>1
<1> HIDE DEF a
<1>6. a \in Spots
  <2>1. CASE Len(a) = 0
    BY <1>3, <2>1, EmptySeq DEF Spots, Root
  <2>2. CASE Len(a) # 0
    <3>1. Len(a) \in Nat /\ 1 <= Len(a) /\ Len(a) <= Depth
      BY <1>1, <1>4, <2>2, TreeAssumption
    <3> QED  BY <1>3, <3>1, PathsAre DEF Spots
  <2> QED  BY <2>1, <2>2
<1>7. a # p
  BY <1>1, <1>4
<1>8. p \in Below[a]
  <2>1. Len(a) <= Len(p)
    BY <1>1, <1>4
  <2> QED  BY <1>5, <1>6, <2>1, BelowIs
<1>9. ASSUME NEW q \in Paths
      PROVE  q \in Above[a] <=> q \in Above[p] /\ q # p
  <2>1. q \in Spots /\ q \in Seq(Names) /\ Len(q) \in Nat
    BY PathsAre DEF Spots
  <2>2. ASSUME q \in Above[a]
        PROVE  q \in Above[p] /\ q # p
    <3>1. a \in Below[q] /\ a \in Paths
      BY <1>6, <2>1, <2>2, AboveIs, BelowIs
    <3>2. p \in Below[q]
      BY <1>6, <1>8, <2>1, <3>1, BelowOrder
    <3>3. q # p
      BY <1>7, <1>8, <3>1, BelowOrder
    <3> QED  BY <1>1, <3>2, <3>3, AboveIs
  <2>3. ASSUME q \in Above[p], q # p
        PROVE  q \in Above[a]
    <3>1. p \in Below[q]
      BY <1>1, <2>3, AboveIs
    <3>2. Len(q) <= Len(p) /\ \A i \in 1..Len(q) : p[i] = q[i]
      BY <2>1, <3>1, BelowIs
    <3>3. Len(q) # Len(p)
      BY <1>1, <2>1, <2>3, <3>2, SeqEqual
    <3>4. 1 <= Len(q)
      BY PathsAre
    <3>5. /\ Len(q) <= Len(a) /\ 1 <= Len(a) /\ Len(a) \in Nat /\ Len(a) <= Depth
          /\ \A i \in 1..Len(q) : a[i] = q[i]
      BY <1>1, <1>4, <1>5, <2>1, <3>2, <3>3, <3>4, TreeAssumption
    <3>6. a \in Paths
      BY <1>3, <3>5, PathsAre
    <3> QED  BY <1>6, <2>1, <3>5, <3>6, AboveIs, BelowIs
  <2> QED  BY <2>2, <2>3
<1>10. Above[a] = Above[p] \ {p}
  BY <1>1, <1>6, <1>9, AboveIs
<1> QED  BY <1>6, <1>7, <1>8, <1>10 DEF a

\* The names of a path that is moved along with what is above it.
LEMMA RebasedIs ==
  ASSUME NEW p \in Paths, NEW t \in Paths, NEW q \in Below[p]
  PROVE  LET x == Rebased(q, p, t) IN
         /\ x \in Seq(Names) /\ Len(x) = Len(t) + (Len(q) - Len(p)) /\ Len(x) \in Nat
         /\ \A i \in 1..Len(x) : x[i] = IF i <= Len(t) THEN t[i] ELSE q[Len(p) + (i - Len(t))]
<1> DEFINE x == Rebased(q, p, t)  z == SubSeq(q, Len(p) + 1, Len(q))
<1>1. /\ q \in Paths /\ p \in Spots /\ t \in Spots /\ q \in Spots
      /\ Len(p) \in Nat /\ Len(q) \in Nat /\ Len(t) \in Nat /\ t \in Seq(Names)
      /\ \A i \in 1..Len(q) : q[i] \in Names
  BY BelowIs, PathsAre DEF Spots
<1>2. Len(p) <= Len(q)
  BY <1>1, BelowIs
<1>3. Len(p) + 1 \in Int /\ Len(q) \in Int /\ \A i \in (Len(p) + 1)..Len(q) : q[i] \in Names
  BY <1>1
<1>4. /\ z \in Seq(Names)
      /\ Len(z) = IF Len(p) + 1 <= Len(q) THEN Len(q) - (Len(p) + 1) + 1 ELSE 0
      /\ \A i \in 1..(Len(q) - (Len(p) + 1) + 1) : z[i] = q[Len(p) + 1 + i - 1]
  BY <1>3, SubSeqProperties
<1>5. Len(z) = Len(q) - Len(p) /\ Len(z) \in Nat
  <2> DEFINE n == Len(p)  k == Len(q)  m == Len(z)
  <2>1. /\ n \in Nat /\ k \in Nat /\ n <= k
        /\ m = IF n + 1 <= k THEN k - (n + 1) + 1 ELSE 0
    BY <1>1, <1>2, <1>4
  <2> HIDE DEF n, k, m
  <2>2. m = k - n /\ m \in Nat
    BY <2>1
  <2> QED  BY <2>2 DEF n, k, m
<1>6. \A i \in 1..Len(z) : z[i] = q[Len(p) + i]
  <2>1. \A i \in 1..Len(z) : i \in 1..(Len(q) - (Len(p) + 1) + 1) /\ Len(p) + 1 + i - 1 = Len(p) + i
    BY <1>1, <1>2, <1>5
  <2> QED  BY <1>4, <2>1
<1>7. x = t \o z
  BY DEF Rebased
<1> HIDE DEF z, x
<1>8. /\ x \in Seq(Names) /\ Len(x) = Len(t) + Len(z)
      /\ \A i \in 1..(Len(t) + Len(z)) : x[i] = IF i <= Len(t) THEN t[i] ELSE z[i - Len(t)]
  BY <1>1, <1>4, <1>7, ConcatProperties
<1>9. Len(x) = Len(t) + (Len(q) - Len(p)) /\ Len(x) \in Nat
  BY <1>1, <1>2, <1>5, <1>8
<1>10. ASSUME NEW i \in 1..Len(x)
       PROVE  x[i] = IF i <= Len(t) THEN t[i] ELSE q[Len(p) + (i - Len(t))]
  <2>1. CASE i <= Len(t)
    BY <1>8, <2>1
  <2>2. CASE ~(i <= Len(t))
    <3>1. i - Len(t) \in 1..Len(z)
      BY <1>1, <1>5, <1>8, <2>2
    <3> QED  BY <1>6, <1>8, <2>2, <3>1
  <2> QED  BY <2>1, <2>2
<1> QED  BY <1>8, <1>9, <1>10 DEF x

\* A move keeps what is below what, and the move back undoes it.
LEMMA RebasedBack ==
  ASSUME NEW p \in Paths, NEW t \in Paths, NEW q \in Below[p], Rebased(q, p, t) \in Paths
  PROVE  /\ Rebased(q, p, t) \in Below[t]
         /\ Rebased(Rebased(q, p, t), t, p) = q
         /\ Rebased(p, p, t) = t /\ (q # p => Rebased(q, p, t) # t)
<1> DEFINE x == Rebased(q, p, t)  y == Rebased(x, t, p)  w == Rebased(p, p, t)
<1>1. /\ q \in Paths /\ p \in Spots /\ t \in Spots /\ q \in Seq(Names) /\ t \in Seq(Names)
      /\ Len(p) \in Nat /\ Len(q) \in Nat /\ Len(t) \in Nat
  BY BelowIs, PathsAre DEF Spots
<1>2. Len(p) <= Len(q) /\ \A i \in 1..Len(p) : q[i] = p[i]
  BY <1>1, BelowIs
<1>3. /\ x \in Seq(Names) /\ Len(x) = Len(t) + (Len(q) - Len(p)) /\ Len(x) \in Nat
      /\ \A i \in 1..Len(x) : x[i] = IF i <= Len(t) THEN t[i] ELSE q[Len(p) + (i - Len(t))]
  BY RebasedIs
<1>4. x \in Below[t]
  <2>1. Len(t) <= Len(x) /\ \A i \in 1..Len(t) : x[i] = t[i]
    BY <1>1, <1>2, <1>3
  <2> QED  BY <1>1, <2>1, BelowIs
<1>5. y = q
  <2>1. /\ y \in Seq(Names) /\ Len(y) = Len(p) + (Len(x) - Len(t))
        /\ \A i \in 1..Len(y) : y[i] = IF i <= Len(p) THEN p[i] ELSE x[Len(t) + (i - Len(p))]
    BY <1>4, RebasedIs
  <2> HIDE DEF y, x
  <2>2. Len(y) = Len(q)
    BY <1>1, <1>3, <2>1
  <2>3. ASSUME NEW i \in 1..Len(y)
        PROVE  y[i] = q[i]
    <3>1. CASE i <= Len(p)
      BY <1>1, <1>2, <2>1, <3>1
    <3>2. CASE ~(i <= Len(p))
      <4> DEFINE j == Len(t) + (i - Len(p))
      <4>1. j \in 1..Len(x) /\ ~(j <= Len(t)) /\ Len(p) + (j - Len(t)) = i
        BY <1>1, <1>2, <1>3, <2>2, <3>2
      <4>2. x[j] = q[i]
        BY <1>3, <4>1
      <4> QED  BY <2>1, <3>2, <4>2
    <3> QED  BY <3>1, <3>2
  <2> QED  BY <1>1, <2>1, <2>2, <2>3, SeqEqual
<1>6. w = t
  <2>1. p \in Below[p]
    BY BelowOrder
  <2>2. /\ w \in Seq(Names) /\ Len(w) = Len(t) + (Len(p) - Len(p))
        /\ \A i \in 1..Len(w) : w[i] = IF i <= Len(t) THEN t[i] ELSE p[Len(p) + (i - Len(t))]
    BY <2>1, RebasedIs
  <2> HIDE DEF w
  <2>3. Len(w) = Len(t) /\ \A i \in 1..Len(w) : w[i] = t[i]
    BY <1>1, <2>2
  <2> QED  BY <1>1, <2>2, <2>3, SeqEqual
<1>7. q # p => x # t
  <2>1. ASSUME x = t
        PROVE  q = p
    <3>1. Len(q) = Len(p)
      BY <1>1, <1>3, <2>1
    <3>2. p \in Seq(Names)
      BY PathsAre
    <3> QED  BY <1>1, <1>2, <3>1, <3>2, SeqEqual
  <2> QED  BY <2>1
<1> QED  BY <1>4, <1>5, <1>6, <1>7

LEMMA RebasedOrder ==
  ASSUME NEW p \in Paths, NEW t \in Paths, NEW q \in Below[p], NEW s \in Below[q],
         Rebased(s, p, t) \in Paths
  PROVE  Rebased(q, p, t) \in Paths /\ Rebased(s, p, t) \in Below[Rebased(q, p, t)]
<1> DEFINE x == Rebased(q, p, t)  y == Rebased(s, p, t)
<1>1. /\ q \in Paths /\ s \in Paths /\ p \in Spots /\ q \in Spots
      /\ Len(p) \in Nat /\ Len(q) \in Nat /\ Len(t) \in Nat /\ Len(s) \in Nat
      /\ 1 <= Len(t) /\ Len(y) \in Nat /\ Len(y) <= Depth
  BY BelowIs, PathsAre DEF Spots
<1>2. s \in Below[p]
  BY <1>1, BelowOrder
<1>3. /\ Len(p) <= Len(q) /\ Len(q) <= Len(s)
      /\ \A i \in 1..Len(q) : s[i] = q[i]
  BY <1>1, BelowIs
<1>4. /\ x \in Seq(Names) /\ Len(x) = Len(t) + (Len(q) - Len(p)) /\ Len(x) \in Nat
      /\ \A i \in 1..Len(x) : x[i] = IF i <= Len(t) THEN t[i] ELSE q[Len(p) + (i - Len(t))]
  BY RebasedIs
<1>5. /\ y \in Seq(Names) /\ Len(y) = Len(t) + (Len(s) - Len(p)) /\ Len(y) \in Nat
      /\ \A i \in 1..Len(y) : y[i] = IF i <= Len(t) THEN t[i] ELSE s[Len(p) + (i - Len(t))]
  BY <1>2, RebasedIs
<1> HIDE DEF x, y
<1>6. 1 <= Len(x) /\ Len(x) <= Len(y) /\ Len(x) <= Depth
  BY <1>1, <1>3, <1>4, <1>5, TreeAssumption
<1>7. x \in Paths
  BY <1>4, <1>6, PathsAre
<1>8. ASSUME NEW i \in 1..Len(x)
      PROVE  y[i] = x[i]
  <2>1. i \in 1..Len(y)
    BY <1>4, <1>5, <1>6
  <2>2. CASE i <= Len(t)
    BY <1>4, <1>5, <2>1, <2>2
  <2>3. CASE ~(i <= Len(t))
    <3>1. Len(p) + (i - Len(t)) \in 1..Len(q)
      BY <1>1, <1>3, <1>4, <2>3
    <3> QED  BY <1>3, <1>4, <1>5, <2>1, <2>3, <3>1
  <2> QED  BY <2>2, <2>3
<1>9. y \in Paths
  BY DEF y
<1>10. y \in Below[x]
  BY <1>6, <1>7, <1>8, <1>9, BelowIs DEF Spots
<1> QED  BY <1>7, <1>10 DEF x, y

(***************************************************************************)
(* Unrelated paths.                                                        *)
(***************************************************************************)
LEMMA RelatedIs ==
  ASSUME NEW p \in Paths, NEW q \in Paths
  PROVE  /\ Related(p, q) <=> q \in Below[p] \/ p \in Below[q]
         /\ Related(p, q) <=> Related(q, p)
         /\ Related(p, p)
BY AboveIs, BelowOrder DEF Related, Spots

LEMMA RelatedBelow ==
  ASSUME NEW p \in Paths, NEW q \in Below[p], NEW s \in Paths, Related(q, s)
  PROVE  Related(p, s)
<1>1. q \in Paths /\ p \in Spots /\ q \in Spots /\ s \in Spots
  BY BelowIs DEF Spots
<1>2. CASE s \in Below[q]
  BY <1>1, <1>2, BelowOrder, RelatedIs
<1>3. CASE q \in Below[s]
  BY <1>1, <1>3, BelowOrder, RelatedIs, PathsAre
<1> QED  BY <1>1, <1>2, <1>3, RelatedIs

\* Everything in T lies below something in S.
Within(S, T) == \A q \in T : \E p \in S : q \in Below[p]

LEMMA SeparateWithin ==
  ASSUME NEW S \in SUBSET Paths, NEW T \in SUBSET Paths, NEW U \in SUBSET Paths,
         Separate(S, U), Within(S, T)
  PROVE  Separate(T, U)
BY RelatedBelow DEF Separate, Within

LEMMA SeparateSym ==
  ASSUME NEW S \in SUBSET Paths, NEW T \in SUBSET Paths, Separate(S, T)
  PROVE  Separate(T, S)
BY RelatedIs DEF Separate

(***************************************************************************)
(* The tables and the disk.                                                *)
(***************************************************************************)
DirTable == dirs \in [DirIds -> DirRows \cup {None}] /\ OnePerPath(dirs)
FileTable ==
  /\ files \in [FileIds -> FileRows \cup {None}] /\ OnePerPath(files)
  /\ \A f \in FileIds : files[f] # None => files[f].content # Torn
DiskOK ==
  /\ disk \in [Paths -> Contents \cup {Absent, Folder}] /\ InFolders
  /\ \A q \in Paths : disk[q] # Torn

Tree == DirTable /\ FileTable /\ DiskOK

LEMMA SoundIs ==
  Sound <=> /\ Tree /\ Queues /\ Noted
            /\ ops \in 0..MaxOps /\ faults \in 0..MaxFaults
            /\ calm \in BOOLEAN /\ crossed \subseteq FileIds \cup DirIds
<1>1. ASSUME Queues, NEW r \in Requests, NEW i \in DOMAIN req[r]
      PROVE  req[r][i] \in Items
  <2>1. WellMade(req[r][i])
    BY <1>1 DEF Queues
  <2> QED  BY <2>1 DEF WellMade
<1>2. Queues => \A r \in Requests : \A i \in DOMAIN req[r] : req[r][i] \in Items
  BY <1>1
<1> QED  BY <1>2 DEF Sound, Tree, DirTable, FileTable, DiskOK, TreeTypeOK, Whole

LEMMA DirRowIs ==
  ASSUME DirTable, NEW d \in DirIds, dirs[d] # None
  PROVE  dirs[d] \in DirRows /\ dirs[d].path \in Paths /\ dirs[d].trashed \in BOOLEAN
BY DEF DirTable, DirRows

LEMMA FileRowIs ==
  ASSUME FileTable, NEW f \in FileIds, files[f] # None
  PROVE  /\ files[f] \in FileRows /\ files[f].path \in Paths /\ files[f].trashed \in BOOLEAN
         /\ files[f].content \in FileIds
BY DEF FileTable, FileRows, Contents

\* What a step does to the tables and the disk that is about the paths S:
\* rows come, go and change below them, and folders appear above.
DirsStep(S) ==
  \A d \in DirIds : dirs'[d] = dirs[d] \/
    /\ dirs[d] = None \/ \E y \in S : dirs[d].path \in Below[y]
    /\ dirs'[d] = None \/ \E y \in S : dirs'[d].path \in Below[y]

FilesStep(S) ==
  \A f \in FileIds : files'[f] = files[f] \/
    /\ files[f] = None \/ \E y \in S : files[f].path \in Below[y]
    /\ files'[f] = None \/ \E y \in S : files'[f].path \in Below[y]

DiskStep(S) ==
  \A q \in Paths :
    \/ disk'[q] = disk[q]
    \/ \E y \in S : q \in Below[y]
    \/ disk[q] = Absent /\ disk'[q] = Folder /\ \E y \in S : q \in Above[y]

Touches(S) == DirsStep(S) /\ FilesStep(S) /\ DiskStep(S)

LEMMA ReachIs ==
  ASSUME DirTable, FileTable, NEW i \in Items
  PROVE  /\ Reach(i) \subseteq Paths
         /\ i.from \in Paths => i.from \in Reach(i)
         /\ i.to \in Paths => i.to \in Reach(i)
         /\ i.id \in DirIds /\ dirs[i.id] # None => dirs[i.id].path \in Reach(i)
         /\ i.id \in FileIds /\ files[i.id] # None => files[i.id].path \in Reach(i)
<1>1. i.from \in Spots /\ i.to \in Spots
  BY DEF Items, Spots
<1>2. CASE i.op = "purge"
  <2>1. Reach(i) = Paths
    BY <1>2 DEF Reach
  <2> QED  BY <2>1, DirRowIs, FileRowIs
<1>3. CASE i.op # "purge"
  <2>1. Reach(i) = ({i.from, i.to} \ {Root})
          \cup {dirs[d].path : d \in {d \in DirIds : d = i.id /\ dirs[d] # None}}
          \cup {files[f].path : f \in {f \in FileIds : f = i.id /\ files[f] # None}}
    BY <1>3 DEF Reach
  <2>2. {dirs[d].path : d \in {d \in DirIds : d = i.id /\ dirs[d] # None}} \subseteq Paths
    BY DirRowIs
  <2>3. {files[f].path : f \in {f \in FileIds : f = i.id /\ files[f] # None}} \subseteq Paths
    BY FileRowIs
  <2>4. {i.from, i.to} \ {Root} \subseteq Paths
    BY <1>1 DEF Spots
  <2>5. Root \notin Paths
    BY PathsAre
  <2> QED  BY <2>1, <2>2, <2>3, <2>4, <2>5
<1> QED  BY <1>2, <1>3

\* What a step about S leaves alone: everything about paths unrelated to S.
LEMMA LeftAlone ==
  ASSUME Tree, Tree', NEW S \in SUBSET Paths, Touches(S), NEW z \in Paths,
         \A y \in S : ~Related(y, z)
  PROVE  /\ \A d \in DirIds : dirs[d] # None /\ Related(dirs[d].path, z) => dirs'[d] = dirs[d]
         /\ \A d \in DirIds : dirs'[d] # None /\ Related(dirs'[d].path, z) => dirs'[d] = dirs[d]
         /\ \A f \in FileIds : files[f] # None /\ Related(files[f].path, z) => files'[f] = files[f]
         /\ \A f \in FileIds : files'[f] # None /\ Related(files'[f].path, z) => files'[f] = files[f]
         /\ \A q \in Below[z] : disk'[q] = disk[q]
         /\ \A q \in Above[z] : disk[q] = Folder => disk'[q] = Folder
<1>1. ASSUME NEW q \in Paths, Related(q, z)
      PROVE  \A y \in S : q \notin Below[y]
  BY <1>1, RelatedBelow
<1>2. \A d \in DirIds : dirs[d] # None /\ Related(dirs[d].path, z) => dirs'[d] = dirs[d]
  BY <1>1, DirRowIs DEF Touches, DirsStep, Tree
<1>3. \A d \in DirIds : dirs'[d] # None /\ Related(dirs'[d].path, z) => dirs'[d] = dirs[d]
  <2>1. \A d \in DirIds : dirs'[d] # None => dirs'[d].path \in Paths
    BY DEF Tree, DirTable, DirRows
  <2> QED  BY <1>1, <2>1 DEF Touches, DirsStep
<1>4. \A f \in FileIds : files[f] # None /\ Related(files[f].path, z) => files'[f] = files[f]
  BY <1>1, FileRowIs DEF Touches, FilesStep, Tree
<1>5. \A f \in FileIds : files'[f] # None /\ Related(files'[f].path, z) => files'[f] = files[f]
  <2>1. \A f \in FileIds : files'[f] # None => files'[f].path \in Paths
    BY DEF Tree, FileTable, FileRows
  <2> QED  BY <1>1, <2>1 DEF Touches, FilesStep
<1>6. ASSUME NEW q \in Below[z]
      PROVE  disk'[q] = disk[q]
  <2>1. q \in Paths /\ z \in Spots /\ q \in Spots
    BY BelowIs DEF Spots
  <2>2. Related(q, z)
    BY <2>1, RelatedIs
  <2>3. ASSUME NEW y \in S, q \in Above[y]
        PROVE  FALSE
    <3>1. y \in Paths /\ y \in Below[q] /\ y \in Spots
      BY <2>1, <2>3, AboveIs DEF Spots
    <3>2. y \in Below[z]
      BY <2>1, <3>1, BelowOrder
    <3> QED  BY <3>1, <3>2, RelatedIs
  <2> QED  BY <1>1, <2>1, <2>2, <2>3 DEF Touches, DiskStep
<1>7. ASSUME NEW q \in Above[z], disk[q] = Folder
      PROVE  disk'[q] = Folder
  <2>1. q \in Paths /\ z \in Below[q]
    BY AboveIs DEF Spots
  <2>2. Related(q, z)
    BY <2>1, RelatedIs
  <2>3. Folder # Absent
    BY DEF Folder, Absent
  <2> QED  BY <1>1, <1>7, <2>1, <2>2, <2>3 DEF Touches, DiskStep
<1> QED  BY <1>2, <1>3, <1>4, <1>5, <1>6, <1>7

\* History and faults only grow.
Grows == crossed \cap Rows' \subseteq crossed' /\ (faults' = 0 => faults = 0)

LEMMA OthersKeepReach ==
  ASSUME Tree, Tree', NEW S \in SUBSET Paths, Touches(S),
         NEW i \in Items, HasRow(i), Separate(S, Reach(i))
  PROVE  /\ Reach(i)' = Reach(i) /\ HasRow(i)'
         /\ i.id \in DirIds => dirs'[i.id] = dirs[i.id]
         /\ i.id \in FileIds => files'[i.id] = files[i.id]
<1>1. DirTable /\ FileTable
  BY DEF Tree
<1>2. ASSUME i.id \in DirIds
      PROVE  dirs'[i.id] = dirs[i.id] /\ dirs[i.id] # None
  <2>1. dirs[i.id] # None
    BY <1>2 DEF HasRow
  <2> DEFINE z == dirs[i.id].path
  <2>2. z \in Paths /\ z \in Reach(i)
    BY <1>1, <1>2, <2>1, DirRowIs, ReachIs
  <2>3. \A y \in S : ~Related(y, z)
    BY <2>2 DEF Separate
  <2>4. Related(z, z)
    BY <2>2, RelatedIs
  <2> QED  BY <1>2, <2>1, <2>2, <2>3, <2>4, LeftAlone
<1>3. ASSUME i.id \in FileIds
      PROVE  files'[i.id] = files[i.id] /\ files[i.id] # None
  <2>1. files[i.id] # None
    BY <1>3 DEF HasRow
  <2> DEFINE z == files[i.id].path
  <2>2. z \in Paths /\ z \in Reach(i)
    BY <1>1, <1>3, <2>1, FileRowIs, ReachIs
  <2>3. \A y \in S : ~Related(y, z)
    BY <2>2 DEF Separate
  <2>4. Related(z, z)
    BY <2>2, RelatedIs
  <2> QED  BY <1>3, <2>1, <2>2, <2>3, <2>4, LeftAlone
<1>4. HasRow(i)'
  BY <1>2, <1>3 DEF HasRow
<1>5. {dirs'[d].path : d \in {d \in DirIds : d = i.id /\ dirs'[d] # None}}
        = {dirs[d].path : d \in {d \in DirIds : d = i.id /\ dirs[d] # None}}
  BY <1>2
<1>6. {files'[f].path : f \in {f \in FileIds : f = i.id /\ files'[f] # None}}
        = {files[f].path : f \in {f \in FileIds : f = i.id /\ files[f] # None}}
  BY <1>3
<1>7. Reach(i)' = Reach(i)
  BY <1>5, <1>6 DEF Reach
<1> QED  BY <1>2, <1>3, <1>4, <1>7

LEMMA OthersKeepRenamed ==
  ASSUME Tree, Tree', NEW S \in SUBSET Paths, Touches(S), Grows,
         NEW p \in Paths, NEW t \in Paths, Renamed(p, t),
         \A y \in S : ~Related(y, p) /\ ~Related(y, t)
  PROVE  Renamed(p, t)'
<1>1. /\ p \in Spots /\ t \in Spots /\ t \in Below[t] /\ Below[p] \subseteq Paths /\ Below[t] \subseteq Paths
      /\ Above[p] \subseteq Paths
  BY BelowIs, AboveIs, BelowOrder DEF Spots
<1>2. /\ \A q \in Below[p] : disk'[q] = disk[q]
      /\ \A q \in Below[t] : disk'[q] = disk[q]
      /\ \A q \in Above[p] : disk[q] = Folder => disk'[q] = Folder
  BY LeftAlone
<1>3. \A q \in Below[t] : Related(q, t)
  BY <1>1, RelatedIs
<1>4. \A q \in Below[p] : Related(q, p)
  BY <1>1, RelatedIs
<1>5. /\ p \notin Below[t] /\ disk'[t] # Absent
      /\ \A q \in Below[p] : disk'[q] = Absent
      /\ \A q \in Above[p] \ {p} : disk'[q] = Folder
  BY <1>1, <1>2 DEF Renamed
<1>6. ASSUME NEW f \in FileIds \ crossed', files'[f] # None
      PROVE  /\ files'[f].path \notin Below[t]
             /\ files'[f].path \in Below[p] =>
                  /\ Rebased(files'[f].path, p, t) \in Paths
                  /\ disk'[Rebased(files'[f].path, p, t)] = files'[f].content
  <2> DEFINE x == files'[f].path
  <2>1. files[f] # None => f \notin crossed
    BY <1>6 DEF Grows, Rows
  <2>2. x \in Below[t] \/ x \in Below[p] => files'[f] = files[f]
    BY <1>1, <1>3, <1>4, <1>6, LeftAlone
  <2>3. x \notin Below[t]
    BY <1>6, <2>1, <2>2 DEF Renamed
  <2>4. ASSUME x \in Below[p]
        PROVE  Rebased(x, p, t) \in Paths /\ disk'[Rebased(x, p, t)] = files'[f].content
    <3>1. Rebased(x, p, t) \in Paths /\ disk[Rebased(x, p, t)] = files'[f].content
      BY <1>6, <2>1, <2>2, <2>4 DEF Renamed
    <3>2. Rebased(x, p, t) \in Below[t]
      BY <2>4, <3>1, RebasedBack
    <3> QED  BY <1>2, <3>1, <3>2
  <2> QED  BY <2>3, <2>4
<1>7. ASSUME faults' = 0, NEW d \in DirIds \ crossed', dirs'[d] # None, ~dirs'[d].trashed
      PROVE  /\ dirs'[d].path \notin Below[t]
             /\ dirs'[d].path \in Below[p] =>
                  /\ Rebased(dirs'[d].path, p, t) \in Paths
                  /\ disk'[Rebased(dirs'[d].path, p, t)] = Folder
  <2> DEFINE x == dirs'[d].path
  <2>1. (dirs[d] # None => d \notin crossed) /\ faults = 0
    BY <1>7 DEF Grows, Rows
  <2>2. x \in Below[t] \/ x \in Below[p] => dirs'[d] = dirs[d]
    BY <1>1, <1>3, <1>4, <1>7, LeftAlone
  <2>3. x \notin Below[t]
    BY <1>7, <2>1, <2>2 DEF Renamed
  <2>4. ASSUME x \in Below[p]
        PROVE  Rebased(x, p, t) \in Paths /\ disk'[Rebased(x, p, t)] = Folder
    <3>1. Rebased(x, p, t) \in Paths /\ disk[Rebased(x, p, t)] = Folder
      BY <1>7, <2>1, <2>2, <2>4 DEF Renamed
    <3>2. Rebased(x, p, t) \in Below[t]
      BY <2>4, <3>1, RebasedBack
    <3> QED  BY <1>2, <3>1, <3>2
  <2> QED  BY <2>3, <2>4
<1> QED  BY <1>5, <1>6, <1>7 DEF Renamed

LEMMA OthersKeepUnderway ==
  ASSUME Tree, Tree', NEW S \in SUBSET Paths, Touches(S), Grows,
         NEW i \in Items, WellMade(i), HasRow(i), Separate(S, Reach(i)), Underway(i)
  PROVE  Underway(i)'
<1>1. DirTable /\ FileTable
  BY DEF Tree
<1>2. \A z \in Reach(i) : z \in Paths /\ \A y \in S : ~Related(y, z)
  BY <1>1, ReachIs DEF Separate
<1>3. /\ i.id \in DirIds => dirs'[i.id] = dirs[i.id]
      /\ i.id \in FileIds => files'[i.id] = files[i.id]
  BY OthersKeepReach
<1>4. ASSUME i.to \in Paths
      PROVE  /\ i.to \in Reach(i) /\ i.to \in Below[i.to]
             /\ ~DestinationOccupied(i.to) => ~DestinationOccupied(i.to)'
             /\ disk'[i.to] = disk[i.to]
             /\ \A f \in FileIds : files[f] # None /\ files[f].path = i.to => files'[f] = files[f]
  <2>1. i.to \in Reach(i) /\ i.to \in Below[i.to] /\ Related(i.to, i.to)
    BY <1>1, <1>4, ReachIs, BelowOrder, RelatedIs
  <2>2. /\ \A d \in DirIds : dirs'[d] # None /\ dirs'[d].path = i.to => dirs'[d] = dirs[d]
        /\ \A f \in FileIds : files'[f] # None /\ files'[f].path = i.to => files'[f] = files[f]
        /\ \A f \in FileIds : files[f] # None /\ files[f].path = i.to => files'[f] = files[f]
        /\ disk'[i.to] = disk[i.to]
    BY <1>2, <1>4, <2>1, LeftAlone
  <2>3. DestinationOccupied(i.to)' => DestinationOccupied(i.to)
    BY <2>2 DEF DestinationOccupied, FilesAt, DirsAt
  <2> QED  BY <2>1, <2>2, <2>3
<1>5. ReadStill(i)'
  <2>1. /\ i.op \in {"rmdir", "erase", "restore", "movedir"} => i.id \in DirIds
        /\ i.op \in {"mkdir", "movedir"} => i.to \in Paths
    BY DEF WellMade
  <2>2. ReadStill(i)
    BY DEF Underway
  <2> QED  BY <1>3, <1>4, <2>1, <2>2 DEF ReadStill
<1>6. HalfWay(i)'
  <2>1. SUFFICES ASSUME i.op = "movedir", i.step \in {"row", "undo"}
                 PROVE  Renamed(i.from, i.to)'
    BY DEF HalfWay
  <2>2. i.from \in Paths /\ i.to \in Paths
    BY <2>1 DEF WellMade
  <2>3. Renamed(i.from, i.to)
    BY <2>1 DEF Underway, HalfWay
  <2>4. \A y \in S : ~Related(y, i.from) /\ ~Related(y, i.to)
    BY <1>1, <1>2, <2>2, ReachIs
  <2> QED  BY <2>2, <2>3, <2>4, OthersKeepRenamed
<1>7. CopyKept(i)'
  <2>1. CopyKept(i)
    BY DEF Underway
  <2>2. i.op \in {"over", "file"} => i.id \in FileIds
    BY DEF WellMade
  <2>3. ASSUME i.op = "file", i.copied # None
        PROVE  \E f \in FileIds \ {i.id} :
                 /\ files'[f] # None /\ ~files'[f].trashed
                 /\ files'[f].path = i.to /\ files'[f].content = i.copied
    <3>1. PICK f \in FileIds \ {i.id} :
            /\ files[f] # None /\ ~files[f].trashed
            /\ files[f].path = i.to /\ files[f].content = i.copied
      BY <2>1, <2>3 DEF CopyKept
    <3>2. i.to \in Paths
      BY <1>1, <3>1, FileRowIs
    <3>3. files'[f] = files[f]
      BY <1>4, <3>1, <3>2
    <3> QED  BY <3>1, <3>3
  <2> QED  BY <1>3, <2>1, <2>2, <2>3 DEF CopyKept
<1> QED  BY <1>5, <1>6, <1>7 DEF Underway

(***************************************************************************)
(* The requests.                                                           *)
(***************************************************************************)
LEMMA QueueIs ==
  ASSUME Queues, NEW r \in Requests
  PROVE  /\ req[r] \in Seq(Items) /\ Len(req[r]) \in Nat /\ DOMAIN req[r] = 1..Len(req[r])
         /\ \A i \in Work(r) : WellMade(i) /\ i \in Items
         /\ Busy(r) => 1 \in DOMAIN req[r] /\ Now(r) = req[r][1] /\ Now(r) \in Work(r)
         /\ ~Busy(r) => Work(r) = {}
<1>1. req[r] \in Seq(Items)
  BY DEF Queues
<1>2. Len(req[r]) \in Nat /\ DOMAIN req[r] = 1..Len(req[r])
  BY <1>1, LenProperties
<1>3. \A i \in Work(r) : WellMade(i) /\ i \in Items
  BY DEF Queues, WellMade, Work
<1>4. ASSUME Busy(r)
      PROVE  1 \in DOMAIN req[r] /\ Now(r) = req[r][1] /\ Now(r) \in Work(r)
  <2>1. Len(req[r]) \in Nat \ {0}
    BY <1>1, <1>4, EmptySeq DEF Busy
  <2> QED  BY <1>2, <2>1 DEF Now, Work
<1>5. ASSUME ~Busy(r)
      PROVE  Work(r) = {}
  BY <1>2, <1>5, EmptySeq DEF Busy, Work
<1> QED  BY <1>1, <1>2, <1>3, <1>4, <1>5

LEMMA UnrelatedIs ==
  ASSUME NEW S
  PROVE  Unrelated(S) <=> \A r \in Requests : \A i \in Work(r) : Separate(S, Reach(i))
BY DEF Unrelated, Work, Separate

\* What each request is at, and what it would find.
InHand == \A r \in Requests : \A i \in Work(r) : i = Now(r) => Underway(i)

Calls == Present /\ Apart /\ InHand

LEMMA OthersKept ==
  ASSUME Tree, Tree', Queues, Calls, NEW S \in SUBSET Paths, Touches(S), Grows,
         NEW s \in Requests, req'[s] = req[s],
         \A i \in Work(s) : Separate(S, Reach(i))
  PROVE  /\ Work(s)' = Work(s)
         /\ \A i \in Work(s) : /\ HasRow(i)' /\ Reach(i)' = Reach(i)
                               /\ (i = Now(s))' => Underway(i)'
<1>1. Work(s)' = Work(s) /\ Now(s)' = Now(s)
  BY DEF Work, Now
<1>2. ASSUME NEW i \in Work(s)
      PROVE  HasRow(i)' /\ Reach(i)' = Reach(i) /\ (i = Now(s) => Underway(i)')
  <2>1. i \in Items /\ WellMade(i) /\ HasRow(i) /\ (i = Now(s) => Underway(i))
    BY QueueIs DEF Calls, Present, InHand
  <2>2. Separate(S, Reach(i))
    OBVIOUS
  <2>3. HasRow(i)' /\ Reach(i)' = Reach(i)
    BY <2>1, <2>2, OthersKeepReach
  <2>4. i = Now(s) => Underway(i)'
    BY <2>1, <2>2, OthersKeepUnderway
  <2> QED  BY <2>3, <2>4
<1> QED  BY <1>1, <1>2

Region(r) == UNION {Reach(i) : i \in Work(r)}

LEMMA CallsKept ==
  ASSUME Tree, Tree', Queues, Queues', Calls, Grows,
         NEW r \in Requests, NEW S \in SUBSET Region(r), Touches(S),
         \A s \in Requests \ {r} : req'[s] = req[s],
         \A i \in Work(r)' : /\ HasRow(i)' /\ Within(Region(r), Reach(i)')
                             /\ (i = Now(r))' => Underway(i)'
  PROVE  Calls'
<1>1. DirTable /\ FileTable /\ DirTable' /\ FileTable'
  BY DEF Tree
<1>2. \A s \in Requests : \A i \in Work(s) : i \in Items /\ Reach(i) \subseteq Paths
  BY <1>1, QueueIs, ReachIs
<1>3. Region(r) \subseteq Paths /\ S \subseteq Paths
  BY <1>2 DEF Region
<1>4. ASSUME NEW s \in Requests \ {r}
      PROVE  \A i \in Work(s) : Separate(Region(r), Reach(i))
  BY <1>4 DEF Calls, Apart, Region, Separate
<1>5. ASSUME NEW s \in Requests \ {r}
      PROVE  /\ Work(s)' = Work(s)
             /\ \A i \in Work(s) : /\ HasRow(i)' /\ Reach(i)' = Reach(i)
                                   /\ (i = Now(s))' => Underway(i)'
  <2>1. \A i \in Work(s) : Separate(S, Reach(i))
    BY <1>4 DEF Separate
  <2> QED  BY <1>3, <2>1, OthersKept
<1>6. Present'
  BY <1>5 DEF Present
<1>7. InHand'
  BY <1>5 DEF InHand
<1>8. ASSUME NEW s \in Requests \ {r}, NEW i \in Work(r)', NEW j \in Work(s)'
      PROVE  Separate(Reach(i)', Reach(j)') /\ Separate(Reach(j)', Reach(i)')
  <2>1. j \in Work(s) /\ Reach(j)' = Reach(j) /\ Reach(j) \subseteq Paths
    BY <1>2, <1>5
  <2>2. Separate(Region(r), Reach(j))
    BY <1>4, <2>1
  <2>3. i \in Items /\ Reach(i)' \subseteq Paths
    <3>1. i \in Items
      BY <1>8 DEF Queues, Work, WellMade
    <3>2. \A k \in Items : Reach(k)' \subseteq Paths
      <4>1. /\ \A d \in DirIds : dirs'[d] # None => dirs'[d].path \in Paths
            /\ \A f \in FileIds : files'[f] # None => files'[f].path \in Paths
        BY <1>1 DEF DirTable, FileTable, DirRows, FileRows
      <4> QED  BY <4>1 DEF Reach, Items
    <3> QED  BY <3>1, <3>2
  <2>4. Separate(Reach(i)', Reach(j))
    BY <1>3, <2>1, <2>2, <2>3, SeparateWithin
  <2> QED  BY <2>1, <2>3, <2>4, SeparateSym
<1>9. Apart'
  <2>1. SUFFICES ASSUME NEW a \in Requests, NEW b \in Requests, a # b,
                        NEW i \in Work(a)', NEW j \in Work(b)'
                 PROVE  Separate(Reach(i)', Reach(j)')
    BY DEF Apart, Separate
  <2>2. CASE a = r
    BY <1>8, <2>1, <2>2
  <2>3. CASE b = r
    BY <1>8, <2>1, <2>3
  <2>4. CASE a # r /\ b # r
    BY <1>5, <2>1, <2>4 DEF Calls, Apart
  <2> QED  BY <2>2, <2>3, <2>4
<1> QED  BY <1>6, <1>7, <1>9 DEF Calls

\* The same for an operation on a file, which is one action.
LEMMA CallsKeptByFiles ==
  ASSUME Tree, Tree', Queues, Calls, Grows, req' = req,
         NEW S \in SUBSET Paths, Touches(S), Unrelated(S)
  PROVE  Calls'
<1>1. ASSUME NEW s \in Requests
      PROVE  /\ Work(s)' = Work(s)
             /\ \A i \in Work(s) : /\ HasRow(i)' /\ Reach(i)' = Reach(i)
                                   /\ (i = Now(s))' => Underway(i)'
  BY OthersKept, UnrelatedIs
<1>2. Present'
  BY <1>1 DEF Present
<1>3. InHand'
  BY <1>1 DEF InHand
<1>4. Apart'
  BY <1>1 DEF Calls, Apart
<1> QED  BY <1>2, <1>3, <1>4 DEF Calls

(***************************************************************************)
(* What the provider of the pool does to the disk.                         *)
(***************************************************************************)
LEMMA KindsApart ==
  /\ Folder # Absent /\ Folder \notin Contents /\ Absent \notin Contents /\ Torn \in Contents
  /\ FileIds \subseteq Contents /\ Torn \notin FileIds /\ None \notin Contents
BY TreeAssumption DEF Contents, Absent, Folder

LEMMA MkdirAllIs ==
  ASSUME DiskOK, NEW p \in Spots, CanMkdirAll(p), disk' = MkdirAll(p)
  PROVE  /\ DiskOK' /\ \A q \in Above[p] : disk'[q] = Folder
         /\ \A q \in Paths : disk'[q] = disk[q] \/
              (disk[q] = Absent /\ disk'[q] = Folder /\ q \in Above[p])
<1>1. \A q \in Paths : disk'[q] = IF q \in Above[p] THEN Folder ELSE disk[q]
  BY DEF MkdirAll
<1>2. Above[p] \subseteq Paths
  BY AboveIs
<1>3. \A q \in Above[p] : disk'[q] = Folder
  BY <1>1, <1>2
<1>4. \A q \in Paths : disk'[q] = disk[q] \/
        (disk[q] = Absent /\ disk'[q] = Folder /\ q \in Above[p])
  <2>1. \A q \in Paths : disk[q] \in Contents \cup {Absent, Folder}
    BY DEF DiskOK
  <2>2. \A q \in Above[p] : disk[q] = Absent \/ disk[q] = Folder
    BY <1>2, <2>1 DEF CanMkdirAll
  <2> TAKE q \in Paths
  <2>3. CASE q \in Above[p]
    BY <1>3, <2>2, <2>3
  <2>4. CASE q \notin Above[p]
    BY <1>1, <2>4
  <2> QED  BY <2>3, <2>4
<1>5. disk' \in [Paths -> Contents \cup {Absent, Folder}] /\ \A q \in Paths : disk'[q] # Torn
  BY <1>1, KindsApart DEF MkdirAll, DiskOK
<1>6. ASSUME NEW q \in Paths, NEW a \in Above[q] \ {q}, disk'[q] # Absent
      PROVE  disk'[a] = Folder
  <2>1. a \in Paths /\ q \in Spots /\ a \in Spots /\ q \in Below[a]
    BY AboveIs DEF Spots
  <2>2. CASE q \in Above[p]
    <3>1. p \in Below[q]
      BY <2>2, AboveIs
    <3>2. p \in Below[a]
      BY <2>1, <3>1, BelowIs, BelowOrder
    <3> QED  BY <1>1, <2>1, <3>2, AboveIs
  <2>3. CASE q \notin Above[p]
    <3>1. disk[a] = Folder
      BY <1>1, <1>6, <2>3 DEF DiskOK, InFolders
    <3> QED  BY <1>1, <2>1, <3>1
  <2> QED  BY <2>2, <2>3
<1>7. InFolders'
  BY <1>6 DEF InFolders
<1> QED  BY <1>3, <1>4, <1>5, <1>7 DEF DiskOK

LEMMA RemovedIs ==
  ASSUME DiskOK, NEW p \in Paths, CanRemove(p), disk' = Removed(p)
  PROVE  /\ DiskOK' /\ disk'[p] = Absent
         /\ \A q \in Paths : q # p => disk'[q] = disk[q]
<1>1. disk'[p] = Absent /\ \A q \in Paths : q # p => disk'[q] = disk[q]
  BY DEF Removed, DiskOK
<1>2. disk' \in [Paths -> Contents \cup {Absent, Folder}] /\ \A q \in Paths : disk'[q] # Torn
  BY KindsApart DEF Removed, DiskOK
<1>3. ASSUME NEW q \in Paths, NEW a \in Above[q] \ {q}, disk'[q] # Absent
      PROVE  disk'[a] = Folder
  <2>1. a \in Paths /\ q \in Below[a]
    BY AboveIs DEF Spots
  <2>2. q # p /\ disk[q] # Absent
    BY <1>1, <1>3
  <2>3. disk[a] = Folder
    BY <2>2 DEF DiskOK, InFolders
  <2>4. a # p
    BY <2>1, <2>2 DEF CanRemove
  <2> QED  BY <1>1, <2>1, <2>3, <2>4
<1>4. InFolders'
  BY <1>3 DEF InFolders
<1> QED  BY <1>1, <1>2, <1>4 DEF DiskOK

LEMMA UploadedDiskIs ==
  ASSUME DiskOK, NEW p \in Paths, NEW c \in FileIds, CanPlace(p), disk' = UploadedDisk(p, c)
  PROVE  /\ DiskOK' /\ disk'[p] = c
         /\ \A q \in Paths \ {p} : disk'[q] = disk[q] \/
              (disk[q] = Absent /\ disk'[q] = Folder /\ q \in Above[p])
<1>1. /\ Parent(p) \in Spots /\ Above[Parent(p)] = Above[p] \ {p} /\ p \in Spots
      /\ Above[p] \subseteq Paths
  BY ParentIs, AboveIs DEF Spots
<1>2. CanMkdirAll(Parent(p)) /\ disk[p] # Folder
  BY DEF CanPlace
<1>3. /\ disk'[p] = c
      /\ \A q \in Paths \ {p} : disk'[q] = IF q \in Above[p] THEN Folder ELSE disk[q]
  BY <1>1 DEF UploadedDisk, MkdirAll
<1>4. disk' \in [Paths -> Contents \cup {Absent, Folder}]
  BY KindsApart DEF UploadedDisk, MkdirAll, DiskOK
<1>5. \A q \in Paths : disk'[q] # Torn
  BY <1>3, KindsApart DEF DiskOK
<1>6. \A q \in Paths \ {p} : disk'[q] = disk[q] \/
        (disk[q] = Absent /\ disk'[q] = Folder /\ q \in Above[p])
  <2>1. \A q \in Paths : disk[q] \in Contents \cup {Absent, Folder}
    BY DEF DiskOK
  <2>2. \A q \in Above[p] \ {p} : disk[q] = Absent \/ disk[q] = Folder
    BY <1>1, <1>2, <2>1 DEF CanMkdirAll
  <2> TAKE q \in Paths \ {p}
  <2>3. CASE q \in Above[p]
    <3>1. disk'[q] = Folder
      BY <1>3, <2>3
    <3> QED  BY <2>2, <2>3, <3>1
  <2>4. CASE q \notin Above[p]
    BY <1>3, <2>4
  <2> QED  BY <2>3, <2>4
<1>7. ASSUME NEW q \in Paths, NEW a \in Above[q] \ {q}, disk'[q] # Absent
      PROVE  disk'[a] = Folder
  <2>1. a \in Paths /\ q \in Spots /\ a \in Spots /\ q \in Below[a]
    BY AboveIs DEF Spots
  <2>2. CASE q \in Above[p]
    <3>1. p \in Below[q]
      BY <1>1, <2>2, AboveIs
    <3>2. p \in Below[a]
      BY <2>1, <3>1, BelowOrder
    <3>3. a # p
      BY <1>7, <2>1, <3>1, BelowOrder
    <3> QED  BY <1>1, <1>3, <2>1, <3>2, <3>3, AboveIs
  <2>3. CASE q \notin Above[p]
    <3>1. q # p
      BY <2>3, BelowOrder
    <3>2. disk[a] = Folder
      BY <1>3, <1>7, <2>3, <3>1 DEF DiskOK, InFolders
    <3> QED  BY <1>2, <1>3, <2>1, <3>2
  <2> QED  BY <2>2, <2>3
<1>8. InFolders'
  BY <1>7 DEF InFolders
<1> QED  BY <1>3, <1>4, <1>5, <1>6, <1>8 DEF DiskOK

\* What lies below p goes below t.
LEMMA MovedIs ==
  ASSUME DiskOK, NEW p \in Paths, NEW t \in Paths, CanMove(p, t), disk' = Moved(p, t)
  PROVE  /\ DiskOK' /\ disk[p] # Absent
         /\ p \notin Below[t] /\ t \notin Below[p]
         /\ \A q \in Below[t] \ {t} : disk[q] = Absent
         /\ \A q \in Below[p] : disk'[q] = Absent
         /\ \A q \in Below[p] : Rebased(q, p, t) \in Paths => disk'[Rebased(q, p, t)] = disk[q]
         /\ disk'[t] = disk[p]
         /\ \A q \in Above[p] \ {p} : disk'[q] = Folder
         /\ \A q \in Paths \ (Below[p] \cup Below[t]) : disk'[q] = disk[q] \/
              (disk[q] = Absent /\ disk'[q] = Folder /\ q \in Above[t])
<1>1. /\ Parent(t) \in Spots /\ Above[Parent(t)] = Above[t] \ {t} /\ p \in Spots /\ t \in Spots
      /\ Above[t] \subseteq Paths /\ Above[p] \subseteq Paths
      /\ Below[p] \subseteq Paths /\ Below[t] \subseteq Paths
      /\ p \in Below[p] /\ t \in Below[t]
  BY ParentIs, AboveIs, BelowIs, BelowOrder DEF Spots
<1>2. /\ CanMkdirAll(Parent(t)) /\ disk[p] # Absent /\ disk[t] # Folder
      /\ (disk[p] = Folder => disk[t] = Absent) /\ t \notin Below[p]
  BY DEF CanMove
<1>3. \A q \in Paths : disk'[q] =
        IF q \in Below[t]
        THEN IF Rebased(q, t, p) \in Paths THEN disk[Rebased(q, t, p)] ELSE Absent
        ELSE IF q \in Below[p] THEN Absent
        ELSE IF q \in Above[t] \ {t} THEN Folder ELSE disk[q]
  BY <1>1 DEF Moved
<1>4. p \notin Below[t]
  <2>1. SUFFICES ASSUME p \in Below[t] PROVE FALSE
    OBVIOUS
  <2>2. t \in Above[p] \ {p}
    BY <1>1, <1>2, <2>1, AboveIs
  <2>3. disk[t] = Folder
    BY <1>2, <2>2 DEF DiskOK, InFolders
  <2> QED  BY <1>2, <2>3
<1>5. \A q \in Paths : ~(q \in Below[p] /\ q \in Below[t])
  BY <1>1, <1>2, <1>4, BelowOrder, PathsAre
<1>6. ASSUME NEW q \in Below[t] \ {t}
      PROVE  disk[q] = Absent
  <2>1. q \in Paths /\ t \in Above[q] \ {q}
    BY <1>1, AboveIs DEF Spots
  <2> QED  BY <1>2, <2>1 DEF DiskOK, InFolders
<1>7. \A q \in Below[p] : disk'[q] = Absent
  BY <1>1, <1>3, <1>5
<1>8. ASSUME NEW q \in Below[p], Rebased(q, p, t) \in Paths
      PROVE  disk'[Rebased(q, p, t)] = disk[q]
  <2> DEFINE x == Rebased(q, p, t)
  <2>1. q \in Paths /\ x \in Paths /\ x \in Below[t] /\ Rebased(x, t, p) = q
    BY <1>1, <1>8, RebasedBack
  <2> QED  BY <1>3, <2>1
<1>9. disk'[t] = disk[p]
  <2>1. Rebased(p, p, t) = t
    <3>1. Rebased(t, t, p) = p
      <4> DEFINE x == Rebased(t, t, p)  y == Rebased(p, p, t)
      <4>1. /\ x \in Seq(Names) /\ Len(x) = Len(p) + (Len(t) - Len(t)) /\ Len(x) \in Nat
            /\ \A i \in 1..Len(x) : x[i] = IF i <= Len(p) THEN p[i] ELSE t[Len(t) + (i - Len(p))]
        BY <1>1, RebasedIs
      <4>2. p \in Seq(Names) /\ Len(p) \in Nat /\ Len(t) \in Nat
        BY PathsAre
      <4> HIDE DEF x
      <4>3. Len(x) = Len(p) /\ \A i \in 1..Len(x) : x[i] = p[i]
        BY <4>1, <4>2
      <4>4. x = p
        BY <4>1, <4>2, <4>3, SeqEqual
      <4> QED  BY <4>4 DEF x
    <3> QED  BY <1>1, <3>1, RebasedBack
  <2> QED  BY <1>1, <1>8, <2>1
<1>10. ASSUME NEW q \in Above[t] \ {t}
       PROVE  disk'[q] = Folder
  <2>1. q \in Paths /\ t \in Below[q] /\ q \in Spots
    BY <1>1, AboveIs DEF Spots
  <2>2. q \notin Below[t]
    BY <1>10, <2>1, BelowOrder
  <2>3. q \notin Below[p]
    BY <1>1, <1>2, <2>1, BelowOrder
  <2> QED  BY <1>3, <1>10, <2>1, <2>2, <2>3
<1>11. \A q \in Paths \ (Below[p] \cup Below[t]) : disk'[q] = disk[q] \/
         (disk[q] = Absent /\ disk'[q] = Folder /\ q \in Above[t])
  <2>1. \A q \in Paths : disk[q] \in Contents \cup {Absent, Folder}
    BY DEF DiskOK
  <2>2. \A q \in Above[t] \ {t} : disk[q] = Absent \/ disk[q] = Folder
    BY <1>1, <1>2, <2>1 DEF CanMkdirAll
  <2> TAKE q \in Paths \ (Below[p] \cup Below[t])
  <2>3. CASE q \in Above[t] \ {t}
    <3>1. disk'[q] = Folder
      BY <1>10, <2>3
    <3> QED  BY <2>2, <2>3, <3>1
  <2>4. CASE q \notin Above[t] \ {t}
    BY <1>3, <2>4
  <2> QED  BY <2>3, <2>4
<1>12. ASSUME NEW q \in Above[p] \ {p}
       PROVE  disk'[q] = Folder
  <2>1. q \in Paths /\ p \in Below[q] /\ q \in Spots
    BY <1>1, AboveIs DEF Spots
  <2>2. q \notin Below[p]
    BY <1>12, <2>1, BelowOrder
  <2>3. q \notin Below[t]
    BY <1>1, <1>4, <2>1, BelowOrder
  <2>4. disk[q] = Folder
    BY <1>2 DEF DiskOK, InFolders
  <2>5. disk'[q] = disk[q] \/ disk'[q] = Folder
    BY <1>11, <2>1, <2>2, <2>3
  <2> QED  BY <2>4, <2>5
<1>13. ASSUME NEW q \in Paths, NEW a \in Above[q] \ {q}, disk'[q] # Absent
       PROVE  disk'[a] = Folder
  <2>1. a \in Paths /\ q \in Spots /\ a \in Spots /\ q \in Below[a]
    BY AboveIs DEF Spots
  <2>2. CASE q \in Below[t]
    <3>1. CASE a \in Below[t]
      <4> DEFINE o == Rebased(q, t, p)  b == Rebased(a, t, p)
      <4>1. o \in Paths /\ disk[o] # Absent
        BY <1>3, <1>13, <2>2
      <4>2. b \in Paths /\ o \in Below[b]
        BY <2>1, <3>1, <4>1, RebasedOrder
      <4>3. b # o
        <5>1. Rebased(o, p, t) = q /\ Rebased(b, p, t) = a
          BY <2>2, <3>1, <4>1, <4>2, RebasedBack
        <5> HIDE DEF o, b
        <5> QED  BY <1>13, <5>1
      <4>4. b \in Above[o] \ {o}
        BY <4>1, <4>2, <4>3, AboveIs DEF Spots
      <4>5. disk[b] = Folder
        BY <4>1, <4>4 DEF DiskOK, InFolders
      <4> QED  BY <1>3, <2>1, <3>1, <4>2, <4>5
    <3>2. CASE a \notin Below[t]
      <4>1. a # t /\ t \in Below[a]
        BY <1>1, <2>1, <2>2, <3>2, BelowOrder, PathsAre
      <4> QED  BY <1>1, <1>10, <2>1, <4>1, AboveIs
    <3> QED  BY <3>1, <3>2
  <2>3. CASE q \notin Below[t]
    <3>1. q \notin Below[p]
      BY <1>7, <1>13
    <3>2. a \notin Below[t] /\ a \notin Below[p]
      BY <1>1, <2>1, <2>3, <3>1, BelowOrder
    <3>3. CASE q \in Above[t] \ {t}
      <4>1. t \in Below[q]
        BY <1>1, <3>3, AboveIs
      <4>2. t \in Below[a] /\ a # t
        BY <1>1, <2>1, <3>2, <4>1, BelowOrder
      <4> QED  BY <1>1, <1>10, <2>1, <4>2, AboveIs
    <3>4. CASE q \notin Above[t] \ {t}
      <4>1. disk[q] # Absent
        BY <1>3, <1>13, <2>3, <3>1, <3>4
      <4>2. disk[a] = Folder
        BY <4>1 DEF DiskOK, InFolders
      <4> QED  BY <1>11, <2>1, <3>2, <4>2
    <3> QED  BY <3>3, <3>4
  <2> QED  BY <2>2, <2>3
<1>14. InFolders'
  BY <1>13 DEF InFolders
<1>15. \A q \in Paths : disk'[q] \in Contents \cup {Absent, Folder} /\ disk'[q] # Torn
  BY <1>3, KindsApart DEF DiskOK
<1>16. disk' \in [Paths -> Contents \cup {Absent, Folder}]
  BY <1>15 DEF Moved
<1> QED  BY <1>2, <1>4, <1>6, <1>7, <1>8, <1>9, <1>11, <1>12, <1>14, <1>15, <1>16 DEF DiskOK

\* The contents of the files that are purged go, and nothing else.
LEMMA PurgedDiskIs ==
  ASSUME DiskOK, FileTable, NEW S \in SUBSET {f \in FileIds : files[f] # None},
         \A f \in S : CanRemove(files[f].path),
         disk' = [q \in Paths |-> IF \E f \in S : files[f].path = q THEN Absent ELSE disk[q]]
  PROVE  /\ DiskOK'
         /\ \A q \in Paths : (\E f \in S : files[f].path = q) \/ disk'[q] = disk[q]
<1>1. \A q \in Paths : disk'[q] = IF \E f \in S : files[f].path = q THEN Absent ELSE disk[q]
  OBVIOUS
<1>2. \A q \in Paths : disk'[q] \in Contents \cup {Absent, Folder} /\ disk'[q] # Torn
  BY <1>1, KindsApart DEF DiskOK
<1>3. disk' \in [Paths -> Contents \cup {Absent, Folder}]
  BY <1>2
<1>4. ASSUME NEW q \in Paths, NEW a \in Above[q] \ {q}, disk'[q] # Absent
      PROVE  disk'[a] = Folder
  <2>1. a \in Paths /\ q \in Below[a]
    BY AboveIs DEF Spots
  <2>2. disk[q] # Absent
    BY <1>1, <1>4
  <2>3. disk[a] = Folder
    BY <2>2 DEF DiskOK, InFolders
  <2>4. ~\E f \in S : files[f].path = a
    BY <1>4, <2>1, <2>2 DEF CanRemove
  <2> QED  BY <1>1, <2>1, <2>3, <2>4
<1>5. InFolders'
  BY <1>4 DEF InFolders
<1> QED  BY <1>1, <1>2, <1>3, <1>5 DEF DiskOK

\* In short, what of this is about the path of the step.
LEMMA DiskStepIs ==
  ASSUME NEW S \in SUBSET Paths, NEW p \in S, NEW t \in S,
         \A q \in Paths \ (Below[p] \cup Below[t]) : disk'[q] = disk[q] \/
           (disk[q] = Absent /\ disk'[q] = Folder /\ q \in Above[t])
  PROVE  DiskStep(S)
BY DEF DiskStep

(***************************************************************************)
(* What the actions do to the tables.                                      *)
(***************************************************************************)
LEMMA RowRecords ==
  /\ \A p \in Paths, b \in BOOLEAN : [path |-> p, trashed |-> b] \in DirRows
  /\ \A p \in Paths, b \in BOOLEAN, c \in Contents :
       [path |-> p, trashed |-> b, content |-> c] \in FileRows
  /\ None \notin DirRows /\ None \notin FileRows
BY TreeAssumption DEF DirRows, FileRows

\* A row of a folder that is written keeps the table in order.
LEMMA DirWritten ==
  ASSUME DirTable, NEW d \in DirIds, NEW row \in DirRows \cup {None},
         dirs' = [dirs EXCEPT ![d] = row],
         row # None => \A e \in DirIds \ {d} : dirs[e] # None => dirs[e].path # row.path
  PROVE  DirTable' /\ dirs'[d] = row /\ \A e \in DirIds \ {d} : dirs'[e] = dirs[e]
<1>1. /\ dirs' \in [DirIds -> DirRows \cup {None}] /\ dirs'[d] = row
      /\ \A e \in DirIds \ {d} : dirs'[e] = dirs[e]
  BY DEF DirTable
<1>2. ASSUME NEW a \in DirIds, NEW b \in DirIds,
             dirs'[a] # None, dirs'[b] # None, dirs'[a].path = dirs'[b].path
      PROVE  a = b
  <2>1. \A i, j \in DirIds : dirs[i] # None /\ dirs[j] # None /\ dirs[i].path = dirs[j].path => i = j
    BY DEF DirTable, OnePerPath
  <2>2. CASE a = d
    BY <1>1, <1>2, <2>2
  <2>3. CASE b = d
    BY <1>1, <1>2, <2>3
  <2>4. CASE a # d /\ b # d
    BY <1>1, <1>2, <2>1, <2>4
  <2> QED  BY <2>2, <2>3, <2>4
<1>3. DOMAIN dirs' = DirIds
  BY <1>1
<1>4. OnePerPath(dirs)'
  BY <1>2, <1>3 DEF OnePerPath
<1> QED  BY <1>1, <1>4 DEF DirTable

LEMMA FileWritten ==
  ASSUME FileTable, NEW f \in FileIds, NEW row \in FileRows \cup {None},
         files' = [files EXCEPT ![f] = row],
         row # None => row.content # Torn /\
           \A g \in FileIds \ {f} : files[g] # None => files[g].path # row.path
  PROVE  FileTable' /\ files'[f] = row /\ \A g \in FileIds \ {f} : files'[g] = files[g]
<1>1. /\ files' \in [FileIds -> FileRows \cup {None}] /\ files'[f] = row
      /\ \A g \in FileIds \ {f} : files'[g] = files[g]
  BY DEF FileTable
<1>2. ASSUME NEW a \in FileIds, NEW b \in FileIds,
             files'[a] # None, files'[b] # None, files'[a].path = files'[b].path
      PROVE  a = b
  <2>1. \A i, j \in FileIds : files[i] # None /\ files[j] # None /\ files[i].path = files[j].path => i = j
    BY DEF FileTable, OnePerPath
  <2>2. CASE a = f
    BY <1>1, <1>2, <2>2
  <2>3. CASE b = f
    BY <1>1, <1>2, <2>3
  <2>4. CASE a # f /\ b # f
    BY <1>1, <1>2, <2>1, <2>4
  <2> QED  BY <2>2, <2>3, <2>4
<1>3. DOMAIN files' = FileIds
  BY <1>1
<1>4. OnePerPath(files)'
  BY <1>2, <1>3 DEF OnePerPath
<1>5. \A g \in FileIds : files'[g] # None => files'[g].content # Torn
  BY <1>1 DEF FileTable
<1> QED  BY <1>1, <1>4, <1>5 DEF FileTable

(***************************************************************************)
(* How a request goes on.                                                  *)
(***************************************************************************)
\* What waits behind the first call of a request.
Later(r) == {req[r][k] : k \in DOMAIN req[r] \ {1}}

LEMMA LaterIs ==
  ASSUME Queues, NEW r \in Requests, Busy(r)
  PROVE  /\ Later(r) \subseteq Work(r) /\ Tail(req[r]) \in Seq(Items)
         /\ Len(req[r]) \in Nat /\ 1 <= Len(req[r]) /\ Len(Tail(req[r])) = Len(req[r]) - 1
         /\ \A k \in 1..Len(Tail(req[r])) :
              /\ Tail(req[r])[k] \in Later(r) /\ WellMade(Tail(req[r])[k])
              /\ Follows(Now(r), k + 1, Tail(req[r])[k])
         /\ Now(r).op \notin Waiting \cup {"over"} => Tail(req[r]) = <<>>
<1>1. req[r] \in Seq(Items) /\ Len(req[r]) \in Nat /\ DOMAIN req[r] = 1..Len(req[r]) /\ req[r] # <<>>
  BY QueueIs DEF Busy
<1>2. Len(req[r]) # 0
  BY <1>1, EmptySeq
<1>3. /\ Tail(req[r]) \in Seq(Items) /\ Len(Tail(req[r])) = Len(req[r]) - 1
      /\ \A k \in 1..Len(Tail(req[r])) : Tail(req[r])[k] = req[r][k + 1]
  BY <1>1, HeadTailProperties
<1>4. ASSUME NEW k \in 1..Len(Tail(req[r]))
      PROVE  /\ Tail(req[r])[k] \in Later(r) /\ WellMade(Tail(req[r])[k])
             /\ Follows(Now(r), k + 1, Tail(req[r])[k])
  <2>1. k + 1 \in DOMAIN req[r] \ {1} /\ k + 1 > 1
    BY <1>1, <1>2, <1>3
  <2>2. WellMade(req[r][k + 1]) /\ Follows(req[r][1], k + 1, req[r][k + 1])
    BY <2>1 DEF Queues
  <2>3. Now(r) = req[r][1]
    BY QueueIs
  <2> QED  BY <1>3, <2>1, <2>2, <2>3 DEF Later
<1>5. Later(r) \subseteq Work(r)
  BY DEF Later, Work
<1>6. ASSUME Now(r).op \notin Waiting \cup {"over"}
      PROVE  Tail(req[r]) = <<>>
  <2>1. Len(Tail(req[r])) \in Nat
    BY <1>3, LenProperties
  <2>2. Len(Tail(req[r])) = 0
    <3>1. SUFFICES ASSUME Len(Tail(req[r])) # 0 PROVE FALSE
      OBVIOUS
    <3> DEFINE n == Len(Tail(req[r]))
    <3>2. 1 \in 1..n
      <4>1. n \in Nat /\ n # 0
        BY <2>1, <3>1
      <4> HIDE DEF n
      <4> QED  BY <4>1
    <3> QED  BY <1>4, <1>6, <3>2 DEF Follows
  <2> QED  BY <1>3, <2>2, EmptySeq
<1> QED  BY <1>1, <1>2, <1>3, <1>4, <1>5, <1>6

\* A list of calls in place of the first one.
LEMMA ThenIs ==
  ASSUME Queues, NEW r \in Requests, Busy(r), NEW work \in Seq(Items), Then(r, work),
         \A k \in 1..Len(work) : WellMade(work[k]),
         \/ \A k \in 1..Len(work) : Chore(work[k]) /\ Now(r).op # "over"
         \/ Tail(req[r]) = <<>> /\ \A k \in 1..Len(work) : k > 1 => Follows(work[1], k, work[k])
         \/ Len(work) = 1 /\ Now(r).op = work[1].op /\ Now(r).op \in Waiting
         \/ work = <<>>
  PROVE  /\ Queues' /\ \A s \in Requests \ {r} : req'[s] = req[s]
         /\ \A i \in Work(r)' : (\E k \in 1..Len(work) : i = work[k]) \/ i \in Later(r)
         /\ work # <<>> /\ Busy(r)' => Now(r)' = work[1]
<1> DEFINE tail == Tail(req[r])
<1>1. /\ tail \in Seq(Items) /\ Len(tail) \in Nat
      /\ \A k \in 1..Len(tail) : /\ tail[k] \in Later(r) /\ WellMade(tail[k])
                                 /\ Follows(Now(r), k + 1, tail[k])
  BY LaterIs, LenProperties
<1>2. /\ req'[r] = work \o tail /\ \A s \in Requests \ {r} : req'[s] = req[s]
      /\ DOMAIN req' = Requests /\ req' = [req EXCEPT ![r] = work \o tail]
  BY DEF Then, Queues
<1>3. tail = <<>> => Len(tail) = 0
  BY EmptySeq
<1> HIDE DEF tail
<1> DEFINE new == req'[r]
<1>4. /\ new \in Seq(Items) /\ Len(new) = Len(work) + Len(tail) /\ Len(work) \in Nat /\ Len(new) \in Nat
      /\ \A k \in 1..Len(work) + Len(tail) : new[k] = IF k <= Len(work) THEN work[k] ELSE tail[k - Len(work)]
      /\ DOMAIN new = 1..Len(new)
  BY <1>1, <1>2, ConcatProperties, LenProperties
<1>5. req' \in [Requests -> Seq(Items)]
  BY <1>1, <1>2, <1>4 DEF Queues
<1> HIDE DEF new
<1>6. ASSUME NEW k \in DOMAIN new
      PROVE  \/ k \in 1..Len(work) /\ new[k] = work[k]
             \/ k - Len(work) \in 1..Len(tail) /\ new[k] = tail[k - Len(work)] /\ k > Len(work)
  BY <1>1, <1>4
<1>7. \A k \in DOMAIN new : WellMade(new[k])
  BY <1>1, <1>6
<1>8. ASSUME NEW k \in DOMAIN new, k > 1
      PROVE  Follows(new[1], k, new[k])
  <2>1. CASE \A j \in 1..Len(work) : Chore(work[j]) /\ Now(r).op # "over"
    <3>1. ASSUME NEW j \in DOMAIN new
          PROVE  Chore(new[j])
      <4>1. CASE j \in 1..Len(work) /\ new[j] = work[j]
        BY <2>1, <4>1
      <4>2. CASE j - Len(work) \in 1..Len(tail) /\ new[j] = tail[j - Len(work)]
        <5>1. CASE Now(r).op # "over"
          BY <1>1, <4>2, <5>1 DEF Follows
        <5>2. CASE Now(r).op = "over"
          <6>1. Len(work) = 0
            BY <1>4, <2>1, <5>2
          <6>2. Len(tail) <= 1
            <7>1. SUFFICES ASSUME 2 \in 1..Len(tail) PROVE FALSE
              BY <1>1
            <7>2. Follows(Now(r), 3, tail[2])
              BY <1>1, <7>1
            <7> QED  BY <5>2, <7>2 DEF Follows, Waiting
          <6> QED  BY <1>4, <1>8, <6>1, <6>2
        <5> QED  BY <5>1, <5>2
      <4> QED  BY <1>6, <4>1, <4>2
    <3>2. 1 \in DOMAIN new
      BY <1>4, <1>8
    <3> QED  BY <1>8, <3>1, <3>2 DEF Follows, Chore
  <2>2. CASE tail = <<>> /\ \A j \in 1..Len(work) : j > 1 => Follows(work[1], j, work[j])
    <3>1. k \in 1..Len(work) /\ new[k] = work[k] /\ 1 \in 1..Len(work) /\ 1 \in DOMAIN new
      BY <1>3, <1>4, <1>8, <2>2
    <3>2. new[1] = work[1]
      BY <1>3, <1>4, <2>2, <3>1
    <3> QED  BY <1>8, <2>2, <3>1, <3>2
  <2>3. CASE Len(work) = 1 /\ Now(r).op = work[1].op /\ Now(r).op \in Waiting
    <3>1. /\ k - 1 \in 1..Len(tail) /\ new[k] = tail[k - 1] /\ new[1] = work[1] /\ k - 1 + 1 = k
      BY <1>1, <1>4, <1>8, <2>3
    <3>2. Follows(Now(r), k, new[k])
      BY <1>1, <3>1
    <3> QED  BY <2>3, <3>1, <3>2 DEF Follows, Waiting
  <2>4. CASE work = <<>>
    <3>0. Len(work) = 0
      BY <2>4, EmptySeq
    <3>1. k \in 1..Len(tail) /\ new[k] = tail[k] /\ 1 \in 1..Len(tail) /\ new[1] = tail[1]
      BY <1>1, <1>4, <1>8, <3>0
    <3>2. Follows(Now(r), k + 1, tail[k]) /\ Follows(Now(r), 1 + 1, tail[1])
      BY <1>1, <3>1
    <3>3. CASE Now(r).op = "over"
      BY <1>8, <3>1, <3>2, <3>3 DEF Follows, Waiting
    <3>4. CASE Now(r).op # "over"
      BY <3>1, <3>2, <3>4 DEF Follows, Chore
    <3> QED  BY <3>3, <3>4
  <2> QED  BY <2>1, <2>2, <2>3, <2>4 DEF tail
<1>9. Queues'
  <2> SUFFICES ASSUME NEW s \in Requests, NEW k \in DOMAIN req'[s]
               PROVE  /\ WellMade(req'[s][k])
                      /\ k > 1 => Follows(req'[s][1], k, req'[s][k])
    BY <1>5 DEF Queues
  <2>1. CASE s = r
    BY <1>7, <1>8, <2>1 DEF new
  <2>2. CASE s # r
    BY <1>2, <2>2 DEF Queues
  <2> QED  BY <2>1, <2>2
<1>10. \A i \in Work(r)' : (\E k \in 1..Len(work) : i = work[k]) \/ i \in Later(r)
  BY <1>1, <1>6 DEF Work, new
<1>11. ASSUME work # <<>>, Busy(r)'
       PROVE  Now(r)' = work[1]
  <2>1. Len(work) # 0
    BY <1>11, EmptySeq
  <2>2. 1 \in 1..Len(work) + Len(tail) /\ 1 <= Len(work)
    BY <1>1, <1>4, <2>1
  <2>3. new[1] = work[1]
    BY <1>4, <2>2
  <2>4. Now(r)' = new[1]
    BY <1>4 DEF Now, new
  <2> QED  BY <2>3, <2>4
<1> QED  BY <1>2, <1>9, <1>10, <1>11

LEMMA SingleIs ==
  ASSUME NEW item \in Items
  PROVE  <<item>> \in Seq(Items) /\ Len(<<item>>) = 1 /\ <<item>>[1] = item /\ <<item>> # <<>>
OBVIOUS

\* The next step of a call.
LEMMA ContinueIs ==
  ASSUME Queues, NEW r \in Requests, Busy(r), NEW item, WellMade(item), Continue(r, item),
         item.op = Now(r).op, item.op # "over"
  PROVE  /\ Queues' /\ \A s \in Requests \ {r} : req'[s] = req[s]
         /\ \A i \in Work(r)' : i = item \/ i \in Later(r)
         /\ \A i : (i = Now(r))' => i = item \/ ~Busy(r)'
<1>1. item \in Items
  BY DEF WellMade
<1>2. Then(r, <<item>>)
  BY DEF Continue, Then
<1>3. \/ Tail(req[r]) = <<>>
      \/ Now(r).op = <<item>>[1].op /\ Now(r).op \in Waiting
  BY LaterIs
<1> DEFINE work == <<item>>
<1>4. work \in Seq(Items) /\ Len(work) = 1 /\ work[1] = item /\ work # <<>>
  BY <1>1, SingleIs
<1>5. \A k \in 1..Len(work) : k = 1
  BY <1>4
<1>6. \A k \in 1..Len(work) : WellMade(work[k])
  BY <1>4, <1>5
<1>7. \/ Tail(req[r]) = <<>> /\ \A k \in 1..Len(work) : k > 1 => Follows(work[1], k, work[k])
      \/ Len(work) = 1 /\ Now(r).op = work[1].op /\ Now(r).op \in Waiting
  BY <1>3, <1>4, <1>5
<1>8. Then(r, work)
  BY <1>2
<1> HIDE DEF work
<1>9. /\ Queues' /\ \A s \in Requests \ {r} : req'[s] = req[s]
      /\ \A i \in Work(r)' : (\E k \in 1..Len(work) : i = work[k]) \/ i \in Later(r)
      /\ work # <<>> /\ Busy(r)' => Now(r)' = work[1]
  BY <1>4, <1>6, <1>7, <1>8, ThenIs
<1> QED  BY <1>4, <1>5, <1>9

LEMMA AnswerIs ==
  ASSUME Queues, NEW r \in Requests, Answer(r)
  PROVE  Queues' /\ (\A s \in Requests \ {r} : req'[s] = req[s]) /\ Work(r)' = {} /\ ~Busy(r)'
<1>1. req' = [req EXCEPT ![r] = <<>>] /\ req \in [Requests -> Seq(Items)]
  BY DEF Answer, Queues
<1>2. <<>> \in Seq(Items) /\ DOMAIN <<>> = {}
  BY EmptySeq, LenProperties
<1>3. req'[r] = <<>> /\ \A s \in Requests \ {r} : req'[s] = req[s]
  BY <1>1
<1>4. req' \in [Requests -> Seq(Items)]
  BY <1>1, <1>2
<1>5. Queues'
  <2> SUFFICES ASSUME NEW s \in Requests, NEW k \in DOMAIN req'[s]
               PROVE  /\ WellMade(req'[s][k])
                      /\ k > 1 => Follows(req'[s][1], k, req'[s][k])
    BY <1>4 DEF Queues
  <2>1. s # r
    BY <1>2, <1>3
  <2> QED  BY <1>3, <2>1 DEF Queues
<1> QED  BY <1>2, <1>3, <1>5 DEF Work, Busy

\* Where a call reaches after a step about S, if before it did not leave R.
LEMMA ReachWithin ==
  ASSUME Tree, Tree', NEW R \in SUBSET Paths, NEW S \in SUBSET R, Touches(S),
         NEW j \in Items, j.op = "purge" => R = Paths,
         j.from \in R \cup {Root}, j.to \in R \cup {Root},
         j.id \in DirIds /\ dirs[j.id] # None => \E y \in R : dirs[j.id].path \in Below[y],
         j.id \in FileIds /\ files[j.id] # None => \E y \in R : files[j.id].path \in Below[y]
  PROVE  Within(R, Reach(j)')
<1>1. \A y \in R : y \in Below[y]
  BY BelowOrder
<1>2. CASE j.op = "purge"
  <2>1. Reach(j)' = R
    BY <1>2 DEF Reach
  <2> QED  BY <1>1, <2>1 DEF Within
<1>3. CASE j.op # "purge"
  <2>1. ASSUME NEW d \in DirIds, d = j.id, dirs'[d] # None
        PROVE  \E y \in R : dirs'[d].path \in Below[y]
    BY <2>1 DEF Touches, DirsStep
  <2>2. ASSUME NEW f \in FileIds, f = j.id, files'[f] # None
        PROVE  \E y \in R : files'[f].path \in Below[y]
    BY <2>2 DEF Touches, FilesStep
  <2>3. Reach(j)' = ({j.from, j.to} \ {Root})
          \cup {dirs'[d].path : d \in {d \in DirIds : d = j.id /\ dirs'[d] # None}}
          \cup {files'[f].path : f \in {f \in FileIds : f = j.id /\ files'[f] # None}}
    BY <1>3 DEF Reach
  <2> QED  BY <1>1, <2>1, <2>2, <2>3 DEF Within
<1> QED  BY <1>2, <1>3

RowsStay ==
  /\ \A d \in DirIds : dirs[d] # None => dirs'[d] # None
  /\ \A f \in FileIds : files[f] # None => files'[f] # None

LEMMA RegionIs ==
  ASSUME Tree, Queues, NEW r \in Requests
  PROVE  /\ Region(r) \subseteq Paths
         /\ \A i \in Work(r) :
              /\ i \in Items /\ WellMade(i) /\ Reach(i) \subseteq Region(r)
              /\ i.op = "purge" => Region(r) = Paths
              /\ i.from \in Region(r) \cup {Root} /\ i.to \in Region(r) \cup {Root}
              /\ i.id \in DirIds /\ dirs[i.id] # None => dirs[i.id].path \in Region(r)
              /\ i.id \in FileIds /\ files[i.id] # None => files[i.id].path \in Region(r)
<1>1. DirTable /\ FileTable
  BY DEF Tree
<1>2. \A i \in Work(r) : i \in Items /\ WellMade(i) /\ Reach(i) \subseteq Region(r) /\ Reach(i) \subseteq Paths
  BY <1>1, QueueIs, ReachIs DEF Region
<1>3. Region(r) \subseteq Paths
  BY <1>2 DEF Region
<1>4. ASSUME NEW i \in Work(r)
      PROVE  /\ i.op = "purge" => Region(r) = Paths
             /\ i.from \in Region(r) \cup {Root} /\ i.to \in Region(r) \cup {Root}
             /\ i.id \in DirIds /\ dirs[i.id] # None => dirs[i.id].path \in Region(r)
             /\ i.id \in FileIds /\ files[i.id] # None => files[i.id].path \in Region(r)
  <2>1. i.from \in Paths \cup {Root} /\ i.to \in Paths \cup {Root}
    BY <1>2 DEF Items
  <2>2. i.op = "purge" => Reach(i) = Paths
    BY DEF Reach
  <2> QED  BY <1>1, <1>2, <1>3, <2>1, <2>2, ReachIs
<1> QED  BY <1>2, <1>3, <1>4

\* A call that waits, and takes its turn or not, is where it was.
LEMMA LaterKept ==
  ASSUME Tree, Tree', Queues, Calls, NEW r \in Requests, Busy(r), Now(r).op # "over", RowsStay,
         NEW S \in SUBSET Region(r), Touches(S), NEW i \in Later(r)
  PROVE  HasRow(i)' /\ Within(Region(r), Reach(i)') /\ Underway(i)'
<1>1. i \in Work(r)
  BY LaterIs
<1>2. /\ Region(r) \subseteq Paths /\ i \in Items
      /\ i.op = "purge" => Region(r) = Paths
      /\ i.from \in Region(r) \cup {Root} /\ i.to \in Region(r) \cup {Root}
      /\ i.id \in DirIds /\ dirs[i.id] # None => dirs[i.id].path \in Region(r)
      /\ i.id \in FileIds /\ files[i.id] # None => files[i.id].path \in Region(r)
  BY <1>1, RegionIs
<1>3. HasRow(i)'
  BY <1>1 DEF Calls, Present, HasRow, RowsStay
<1>4. Within(Region(r), Reach(i)')
  <2>1. \A y \in Region(r) : y \in Below[y]
    BY <1>2, BelowOrder
  <2> QED  BY <1>2, <2>1, ReachWithin
<1>5. Chore(i)
  <2>1. PICK k \in DOMAIN req[r] \ {1} : i = req[r][k]
    BY DEF Later
  <2>2. k > 1
    BY <2>1, QueueIs
  <2>3. Follows(req[r][1], k, i)
    BY <2>1, <2>2 DEF Queues
  <2>4. Now(r) = req[r][1]
    BY QueueIs
  <2> QED  BY <2>3, <2>4 DEF Follows
<1>6. Underway(i)'
  BY <1>5 DEF Chore, Waiting, Underway, ReadStill, HalfWay, CopyKept
<1> QED  BY <1>3, <1>4, <1>6

(***************************************************************************)
(* The invariant after a step.                                             *)
(***************************************************************************)
LEMMA InvIs ==
  IInv <=> /\ Tree /\ Queues /\ Noted
           /\ ops \in 0..MaxOps /\ faults \in 0..MaxFaults
           /\ calm \in BOOLEAN /\ crossed \subseteq FileIds \cup DirIds
           /\ calm => Calls /\ FilesHold /\ FoldersHold
BY SoundIs DEF IInv, Calm, Calls, InHand

Kept == Tree' /\ Queues' /\ (calm' => Calls' /\ FilesHold' /\ FoldersHold')

LEMMA GrowsIs ==
  ASSUME IInv, NoteCrossed, faults' = faults \/ faults' = faults + 1
  PROVE  Grows
<1>1. faults \in Nat
  BY InvIs, TreeAssumption
<1> QED  BY <1>1 DEF Grows, NoteCrossed

LEMMA InvOf ==
  ASSUME Kept, Noted', crossed' \subseteq FileIds \cup DirIds,
         ops' \in 0..MaxOps, faults' \in 0..MaxFaults, calm' \in BOOLEAN
  PROVE  IInv'
<1>1. \A r \in Requests : \A i \in DOMAIN req'[r] : req'[r][i] \in Items
  BY DEF Kept, Queues, WellMade
<1>2. Sound'
  BY <1>1 DEF Kept, Sound, Tree, DirTable, FileTable, DiskOK, TreeTypeOK, Whole
<1>3. calm' => Calm'
  BY DEF Kept, Calm, Calls, InHand
<1> QED  BY <1>2, <1>3 DEF IInv

LEMMA InvKept ==
  ASSUME IInv, NoteCrossed, Kept, ops' \in 0..MaxOps, faults' \in 0..MaxFaults, calm' \in BOOLEAN
  PROVE  IInv'
<1>1. crossed' \subseteq FileIds \cup DirIds /\ Noted'
  BY DEF NoteCrossed, CrossedFiles, CrossedDirs, Rows, Noted
<1> QED  BY <1>1, InvOf

\* A request that has renamed a folder and not its rows.
Half(r) == At(r, "movedir", "row") \/ At(r, "movedir", "undo")

\* A file that was where the catalogue says stays there, a request moves it,
\* or the step has put its content where the row says.
LEMMA FilesKept ==
  ASSUME FilesHold, Grows, NEW r \in Requests, \A s \in Requests \ {r} : req'[s] = req[s],
         \A f \in FileIds \ crossed' : files'[f] # None =>
           \/ disk'[files'[f].path] = files'[f].content
           \/ Half(r)' /\ files'[f].path \in Below[Now(r)'.from]
           \/ /\ files[f] # None /\ files'[f].path = files[f].path
              /\ files'[f].content = files[f].content
              /\ disk[files[f].path] = files[f].content => disk'[files[f].path] = files[f].content
              /\ ~(Half(r) /\ files[f].path \in Below[Now(r).from])
  PROVE  FilesHold'
<1> SUFFICES ASSUME NEW f \in FileIds \ crossed', files'[f] # None, ~Moving(f)'
             PROVE  disk'[files'[f].path] = files'[f].content
  BY DEF FilesHold
<1>1. ~(Half(r)' /\ files'[f].path \in Below[Now(r)'.from])
  BY DEF Half, Moving
<1>2. ASSUME files[f] # None, files'[f].path = files[f].path,
             ~(Half(r) /\ files[f].path \in Below[Now(r).from])
      PROVE  disk[files[f].path] = files[f].content
  <2>1. ~Moving(f)
    <3>1. SUFFICES ASSUME NEW s \in Requests, Half(s), files[f].path \in Below[Now(s).from]
                   PROVE  FALSE
      BY DEF Half, Moving
    <3>2. s # r
      BY <1>2, <3>1
    <3>3. Half(s)' /\ Now(s)' = Now(s)
      BY <3>1, <3>2 DEF Half, At, Busy, Now
    <3>4. files'[f].path \in Below[Now(s)'.from]
      BY <1>2, <3>1, <3>3
    <3> QED  BY <3>3, <3>4 DEF Half, Moving
  <2>2. f \notin crossed
    BY <1>2 DEF Grows, Rows
  <2> QED  BY <1>2, <2>1, <2>2 DEF FilesHold
<1> QED  BY <1>1, <1>2

\* The same of the folders.
LEMMA FoldersKept ==
  ASSUME FoldersHold, Grows, NEW r \in Requests, \A s \in Requests \ {r} : req'[s] = req[s],
         faults' = 0 => \A d \in DirIds \ crossed' : dirs'[d] # None /\ ~dirs'[d].trashed =>
           \/ disk'[dirs'[d].path] = Folder
           \/ Leaving(r, d)'
           \/ /\ dirs'[d] = dirs[d] /\ ~Leaving(r, d)
              /\ disk[dirs[d].path] = Folder => disk'[dirs[d].path] = Folder
  PROVE  FoldersHold'
<1> SUFFICES ASSUME faults' = 0, NEW d \in DirIds \ crossed', dirs'[d] # None, ~dirs'[d].trashed
             PROVE  disk'[dirs'[d].path] = Folder \/ \E s \in Requests : Leaving(s, d)'
  BY DEF FoldersHold
<1>1. ASSUME dirs'[d] = dirs[d], ~Leaving(r, d)
      PROVE  disk[dirs[d].path] = Folder \/ \E s \in Requests : Leaving(s, d)'
  <2>1. d \notin crossed /\ faults = 0
    BY <1>1 DEF Grows, Rows
  <2>2. disk[dirs[d].path] = Folder \/ \E s \in Requests : Leaving(s, d)
    BY <1>1, <2>1 DEF FoldersHold
  <2>3. ASSUME NEW s \in Requests, Leaving(s, d)
        PROVE  Leaving(s, d)'
    <3>1. s # r
      BY <1>1, <2>3
    <3>2. req'[s] = req[s]
      BY <3>1
    <3> QED  BY <1>1, <2>3, <3>2 DEF Leaving, At, Busy, Now
  <2> QED  BY <2>2, <2>3
<1> QED  BY <1>1

\* What is left of a request after one of its steps.
Rest(r) ==
  \A i \in Work(r)' : HasRow(i)' /\ Within(Region(r), Reach(i)') /\ ((i = Now(r))' => Underway(i)')

LEMMA StepKept ==
  ASSUME IInv, Grows, NEW r \in Requests, Going, Tree', Queues',
         \A s \in Requests \ {r} : req'[s] = req[s],
         calm => /\ Touches(Region(r)) /\ Rest(r)
                 /\ \A f \in FileIds \ crossed' : files'[f] # None =>
                      \/ disk'[files'[f].path] = files'[f].content
                      \/ Half(r)' /\ files'[f].path \in Below[Now(r)'.from]
                      \/ /\ files[f] # None /\ files'[f].path = files[f].path
                         /\ files'[f].content = files[f].content
                         /\ disk[files[f].path] = files[f].content => disk'[files[f].path] = files[f].content
                         /\ ~(Half(r) /\ files[f].path \in Below[Now(r).from])
                 /\ faults' = 0 => \A d \in DirIds \ crossed' : dirs'[d] # None /\ ~dirs'[d].trashed =>
                      \/ disk'[dirs'[d].path] = Folder
                      \/ Leaving(r, d)'
                      \/ /\ dirs'[d] = dirs[d] /\ ~Leaving(r, d)
                         /\ disk[dirs[d].path] = Folder => disk'[dirs[d].path] = Folder
  PROVE  Kept
<1>1. ASSUME calm
      PROVE  Calls' /\ FilesHold' /\ FoldersHold'
  <2>1. Calls /\ FilesHold /\ FoldersHold /\ Tree /\ Queues
    BY <1>1, InvIs
  <2>2. Calls'
    BY <1>1, <2>1, CallsKept DEF Rest
  <2>3. FilesHold'
    BY <1>1, <2>1, FilesKept
  <2>4. FoldersHold'
    BY <1>1, <2>1, FoldersKept
  <2> QED  BY <2>2, <2>3, <2>4
<1> QED  BY <1>1 DEF Kept, Going

(***************************************************************************)
(* What is left of a request: the next step of its call, its other calls,  *)
(* or nothing.                                                             *)
(***************************************************************************)
LEMMA CallIs ==
  ASSUME IInv, NEW r \in Requests, Busy(r)
  PROVE  /\ Now(r) \in Work(r) /\ Now(r) \in Items /\ WellMade(Now(r))
         /\ Region(r) \subseteq Paths /\ Later(r) \subseteq Work(r)
         /\ Now(r).op = "purge" => Region(r) = Paths
         /\ Now(r).from \in Region(r) \cup {Root} /\ Now(r).to \in Region(r) \cup {Root}
         /\ Now(r).id \in DirIds /\ dirs[Now(r).id] # None => dirs[Now(r).id].path \in Region(r)
         /\ Now(r).id \in FileIds /\ files[Now(r).id] # None => files[Now(r).id].path \in Region(r)
         /\ Now(r).op \notin Waiting \cup {"over"} => Later(r) = {}
         /\ calm => HasRow(Now(r)) /\ Underway(Now(r))
<1>1. Tree /\ Queues /\ (calm => Calls)
  BY InvIs
<1>2. Now(r) \in Work(r) /\ Later(r) \subseteq Work(r)
  BY <1>1, QueueIs, LaterIs
<1>3. Now(r).op \notin Waiting \cup {"over"} => Later(r) = {}
  <2>1. /\ Len(req[r]) \in Nat /\ 1 <= Len(req[r]) /\ Len(Tail(req[r])) = Len(req[r]) - 1
        /\ DOMAIN req[r] = 1..Len(req[r])
        /\ Now(r).op \notin Waiting \cup {"over"} => Tail(req[r]) = <<>>
    BY <1>1, LaterIs, QueueIs
  <2>2. Tail(req[r]) = <<>> => Len(Tail(req[r])) = 0
    BY EmptySeq
  <2>3. Tail(req[r]) = <<>> => DOMAIN req[r] = {1}
    <3> DEFINE n == Len(req[r])  m == Len(Tail(req[r]))
    <3>1. n \in Nat /\ m = n - 1 /\ DOMAIN req[r] = 1..n /\ (Tail(req[r]) = <<>> => m = 0)
      BY <2>1, <2>2
    <3> HIDE DEF n, m
    <3> QED  BY <3>1
  <2> QED  BY <2>1, <2>3 DEF Later
<1> QED  BY <1>1, <1>2, <1>3, RegionIs DEF Calls, Present, InHand

LEMMA Answered ==
  ASSUME IInv, NEW r \in Requests, Answer(r)
  PROVE  Queues' /\ (\A s \in Requests \ {r} : req'[s] = req[s]) /\ Rest(r) /\ ~Busy(r)'
BY AnswerIs, InvIs DEF Rest

LEMMA WentOn ==
  ASSUME IInv, NEW r \in Requests, Busy(r), NEW item, WellMade(item), Continue(r, item),
         item.op = Now(r).op, item.op # "over", item.id = Now(r).id,
         item.from \in Region(r) \cup {Root}, item.to \in Region(r) \cup {Root}
  PROVE  /\ Queues' /\ \A s \in Requests \ {r} : req'[s] = req[s]
         /\ Busy(r)' /\ Now(r)' = item
         /\ calm /\ Tree' /\ Touches(Region(r)) /\ (RowsStay \/ item.op = "purge") /\ Underway(item)'
              => Rest(r)
<1>1. Tree /\ Queues /\ (calm => Calls)
  BY InvIs
<1>2. /\ Queues' /\ \A s \in Requests \ {r} : req'[s] = req[s]
      /\ \A i \in Work(r)' : i = item \/ i \in Later(r)
      /\ \A i : (i = Now(r))' => i = item \/ ~Busy(r)'
  BY <1>1, ContinueIs
<1>3. Busy(r)'
  <2>1. req'[r] = <<item>> \o Tail(req[r])
    BY <1>1 DEF Continue, Queues
  <2>2. item \in Items /\ Tail(req[r]) \in Seq(Items)
    BY <1>1, LaterIs DEF WellMade
  <2>3. Len(<<item>> \o Tail(req[r])) = 1 + Len(Tail(req[r])) /\ Len(Tail(req[r])) \in Nat
    BY <2>2, SingleIs, ConcatProperties, LenProperties
  <2>4. Len(req'[r]) # 0
    BY <2>1, <2>3
  <2> QED  BY <2>4, EmptySeq DEF Busy
<1>4. ASSUME calm, Tree', Touches(Region(r)), RowsStay \/ item.op = "purge", Underway(item)'
      PROVE  Rest(r)
  <2>1. Calls /\ Region(r) \subseteq Paths /\ HasRow(Now(r)) /\ item \in Items
    BY <1>1, <1>4, CallIs DEF WellMade
  <2>2. ASSUME NEW i \in Later(r)
        PROVE  HasRow(i)' /\ Within(Region(r), Reach(i)') /\ Underway(i)'
    <3>1. RowsStay
      BY <1>4, <2>2, CallIs DEF Waiting
    <3> QED  BY <1>1, <1>4, <2>1, <2>2, <3>1, LaterKept
  <2>3. HasRow(item)'
    <3>1. CASE RowsStay
      BY <2>1, <3>1 DEF HasRow, RowsStay
    <3>2. CASE item.op = "purge"
      BY <3>2, TreeAssumption DEF WellMade, HasRow, Contents
    <3> QED  BY <1>4, <3>1, <3>2
  <2>4. Within(Region(r), Reach(item)')
    <3>1. \A y \in Region(r) : y \in Below[y]
      BY <2>1, BelowOrder
    <3>2. /\ item.op = "purge" => Region(r) = Paths
          /\ item.id \in DirIds /\ dirs[item.id] # None => dirs[item.id].path \in Region(r)
          /\ item.id \in FileIds /\ files[item.id] # None => files[item.id].path \in Region(r)
      BY CallIs
    <3> QED  BY <1>1, <1>4, <2>1, <3>1, <3>2, ReachWithin
  <2> QED  BY <1>2, <1>4, <2>2, <2>3, <2>4 DEF Rest
<1> QED  BY <1>2, <1>3, <1>4

\* The call is done, and the next one, if there is one, takes its turn.
LEMMA Finished ==
  ASSUME IInv, NEW r \in Requests, Busy(r), Then(r, <<>>)
  PROVE  /\ Queues' /\ \A s \in Requests \ {r} : req'[s] = req[s]
         /\ \A i \in Work(r)' : i \in Later(r)
         /\ calm /\ Tree' /\ Touches(Region(r)) /\ RowsStay /\ Now(r).op # "over" => Rest(r)
         /\ Busy(r)' /\ Now(r).op # "over" => Chore(Now(r)')
<1>1. Tree /\ Queues /\ (calm => Calls)
  BY InvIs
<1> DEFINE work == <<>>
<1>2. work \in Seq(Items) /\ Len(work) = 0 /\ \A k \in 1..Len(work) : WellMade(work[k])
  <2>1. Len(work) = 0 /\ work \in Seq(Items)
    BY EmptySeq
  <2> QED  BY <2>1
<1>3. Then(r, work) /\ work = <<>>
  OBVIOUS
<1> HIDE DEF work
<1>4. /\ Queues' /\ \A s \in Requests \ {r} : req'[s] = req[s]
      /\ \A i \in Work(r)' : (\E k \in 1..Len(work) : i = work[k]) \/ i \in Later(r)
  BY <1>1, <1>2, <1>3, ThenIs
<1>5. \A i \in Work(r)' : i \in Later(r)
  BY <1>2, <1>4
<1>6. ASSUME calm, Tree', Touches(Region(r)), RowsStay, Now(r).op # "over"
      PROVE  Rest(r)
  BY <1>1, <1>5, <1>6, LaterKept DEF Rest
<1>7. ASSUME Busy(r)', Now(r).op # "over"
      PROVE  Chore(Now(r)')
  <2>1. req'[r] = Tail(req[r])
    <3>1. req'[r] = work \o Tail(req[r]) /\ Tail(req[r]) \in Seq(Items)
      BY <1>1, <1>3, LaterIs DEF Then, Queues
    <3> QED  BY <1>3, <3>1, ConcatEmptySeq
  <2>2. /\ Tail(req[r]) \in Seq(Items) /\ Tail(req[r]) # <<>>
        /\ \A k \in 1..Len(Tail(req[r])) : Follows(Now(r), k + 1, Tail(req[r])[k])
    BY <1>1, <1>7, <2>1, LaterIs DEF Busy
  <2>3. Len(Tail(req[r])) \in Nat /\ Len(Tail(req[r])) # 0
    BY <2>2, EmptySeq, LenProperties
  <2>4. 1 \in 1..Len(Tail(req[r]))
    <3> DEFINE m == Len(Tail(req[r]))
    <3>1. m \in Nat /\ m # 0
      BY <2>3
    <3> HIDE DEF m
    <3>2. 1 \in 1..m
      BY <3>1
    <3> QED  BY <3>2 DEF m
  <2>5. Now(r)' = Tail(req[r])[1]
    <3> DEFINE tail == Tail(req[r])
    <3>1. Now(r)' = Head(tail) /\ tail \in Seq(Items) /\ tail # <<>>
      BY <2>1, <2>2 DEF Now
    <3> HIDE DEF tail
    <3>2. Now(r)' = tail[1]
      BY <3>1, HeadTailProperties
    <3> QED  BY <3>2 DEF tail
  <2> QED  BY <1>7, <2>2, <2>4, <2>5 DEF Follows
<1> QED  BY <1>4, <1>5, <1>6, <1>7

(***************************************************************************)
(* The steps of the requests, one by one.                                  *)
(***************************************************************************)
\* A step that at most makes the folders above a path.
LEMMA MadeIs ==
  ASSUME Tree, UNCHANGED tables, NEW S \in SUBSET Paths, NEW p \in Spots,
         \A q \in Above[p] : \E y \in S : q \in Above[y],
         disk' = disk \/ (CanMkdirAll(p) /\ disk' = MkdirAll(p))
  PROVE  /\ Tree' /\ RowsStay /\ Touches(S)
         /\ \A f \in FileIds : files[f] # None /\ disk[files[f].path] = files[f].content =>
              disk'[files[f].path] = files[f].content
         /\ \A q \in Paths : disk[q] = Folder => disk'[q] = Folder
<1>1. DirTable /\ FileTable /\ DiskOK /\ dirs' = dirs /\ files' = files
  BY DEF Tree, tables
<1>2. DirTable' /\ FileTable'
  BY <1>1 DEF DirTable, FileTable, OnePerPath
<1>3. DiskOK' /\ \A q \in Paths : disk'[q] = disk[q] \/
        (disk[q] = Absent /\ disk'[q] = Folder /\ q \in Above[p])
  <2>1. CASE disk' = disk
    BY <1>1, <2>1 DEF DiskOK, InFolders
  <2>2. CASE CanMkdirAll(p) /\ disk' = MkdirAll(p)
    BY <1>1, <2>2, MkdirAllIs
  <2> QED  BY <2>1, <2>2
<1>4. Touches(S)
  BY <1>1, <1>3 DEF Touches, DirsStep, FilesStep, DiskStep
<1>5. \A f \in FileIds : files[f] # None /\ disk[files[f].path] = files[f].content =>
        disk'[files[f].path] = files[f].content
  BY <1>1, <1>3, FileRowIs, KindsApart
<1>6. \A q \in Paths : disk[q] = Folder => disk'[q] = Folder
  BY <1>3
<1> QED  BY <1>1, <1>2, <1>3, <1>4, <1>5, <1>6 DEF Tree, RowsStay

\* A step that only reads, of a request that has taken nothing away.
LEMMA Quiet ==
  ASSUME IInv, Grows, NEW r \in Requests, Going, UNCHANGED <<tables, disk>>,
         ~Half(r), \A d \in DirIds : ~Leaving(r, d),
         Queues', \A s \in Requests \ {r} : req'[s] = req[s],
         calm /\ Tree' /\ Touches(Region(r)) /\ RowsStay => Rest(r)
  PROVE  Kept
<1>1. Tree /\ Queues
  BY InvIs
<1>2. Region(r) \subseteq Paths
  BY <1>1, RegionIs
<1>3. UNCHANGED tables /\ disk' = disk /\ dirs' = dirs /\ files' = files
  BY DEF tables
<1>4. Tree' /\ RowsStay /\ Touches(Region(r))
  BY <1>1, <1>2, <1>3, MadeIs, NothingAboveTheRoot DEF Spots
<1>5. calm => Rest(r)
  BY <1>4
<1> QED  BY <1>3, <1>4, <1>5, StepKept

LEMMA AtStart ==
  ASSUME NEW r, NEW op, At(r, op, "start")
  PROVE  Busy(r) /\ Now(r).op = op /\ Now(r).step = "start" /\ ~Half(r) /\ \A d : ~Leaving(r, d)
BY DEF At, Now, Half, Leaving

LEMMA AtIs ==
  ASSUME NEW r, NEW op, NEW step
  PROVE  At(r, op, step) <=> Busy(r) /\ Now(r).op = op /\ Now(r).step = step
BY DEF At, Now

\* A call that has come to another step.
Stepped(j, i, from, to, flag, step) ==
  /\ j \in Items /\ j.op = i.op /\ j.id = i.id /\ j.copied = i.copied
  /\ j.from = from /\ j.to = to /\ j.flag = flag /\ j.step = step

LEMMA NextStepIs ==
  ASSUME NEW i \in Items, NEW step \in {"start", "disk", "row", "undo"}, NEW p \in Spots,
         NEW b \in BOOLEAN
  PROVE  /\ Stepped([i EXCEPT !.step = step], i, i.from, i.to, i.flag, step)
         /\ Stepped([i EXCEPT !.from = p, !.step = step], i, p, i.to, i.flag, step)
         /\ Stepped([i EXCEPT !.to = p, !.step = step], i, i.from, p, i.flag, step)
         /\ Stepped([i EXCEPT !.from = p, !.flag = b, !.step = step], i, p, i.to, b, step)
<1>1. Stepped([i EXCEPT !.step = step], i, i.from, i.to, i.flag, step)
  BY DEF Items, Spots, Stepped
<1>2. Stepped([i EXCEPT !.from = p, !.step = step], i, p, i.to, i.flag, step)
  BY DEF Items, Spots, Stepped
<1>3. Stepped([i EXCEPT !.to = p, !.step = step], i, i.from, p, i.flag, step)
  BY DEF Items, Spots, Stepped
<1>4. Stepped([i EXCEPT !.from = p, !.flag = b, !.step = step], i, p, i.to, b, step)
  BY DEF Items, Spots, Stepped
<1> QED  BY <1>1, <1>2, <1>3, <1>4

\* A name is looked for in the trash before anything is touched.
LEMMA NameChecked ==
  ASSUME IInv, NoteCrossed, NEW r \in Requests, NEW i, i = Now(r), Busy(r), i.step = "start",
         i.op \in {"mkdir", "put"}, Going, UNCHANGED <<tables, disk>>,
         faults' = faults \/ faults' = faults + 1, ToStep(r, "disk") \/ Answer(r)
  PROVE  Kept
<1>1. Grows /\ ~Half(r) /\ \A d \in DirIds : ~Leaving(r, d)
  BY GrowsIs DEF At, Now, Half, Leaving
<1>2. i \in Items /\ WellMade(i) /\ i.from \in Region(r) \cup {Root} /\ i.to \in Region(r) \cup {Root}
  BY CallIs
<1>3. CASE Answer(r)
  BY <1>1, <1>3, Answered, Quiet
<1>4. CASE ToStep(r, "disk")
  <2>1. PICK j : Continue(r, j) /\ Stepped(j, i, i.from, i.to, i.flag, "disk")
    BY <1>2, <1>4, NextStepIs, ZenonT(60) DEF ToStep, Spots
  <2>2. WellMade(j)
    BY <1>2, <2>1 DEF WellMade, Stepped
  <2>3. Underway(j)'
    BY <2>1 DEF Underway, ReadStill, HalfWay, CopyKept, Stepped
  <2>4. /\ Queues' /\ \A s \in Requests \ {r} : req'[s] = req[s]
        /\ calm /\ Tree' /\ Touches(Region(r)) /\ RowsStay => Rest(r)
    BY <1>2, <2>1, <2>2, <2>3, WentOn DEF Stepped
  <2> QED  BY <1>1, <2>4, Quiet
<1> QED  BY <1>3, <1>4

LEMMA MkdirCheckKept ==
  ASSUME IInv, NoteCrossed, NEW r \in Requests, MkdirCheck(r)
  PROVE  Kept
<1>1. PICK i : i = Now(r)
  OBVIOUS
<1>2. Busy(r) /\ i.op = "mkdir" /\ i.step = "start" /\ Going /\ UNCHANGED <<tables, disk>>
  BY <1>1, AtStart DEF MkdirCheck
<1>3. (faults' = faults \/ faults' = faults + 1) /\ (ToStep(r, "disk") \/ Answer(r))
  BY DEF MkdirCheck, NamePasses
<1> QED  BY <1>1, <1>2, <1>3, NameChecked

\* The row is read, and what was asked of it is taken on.
LEMMA CheckedIs ==
  ASSUME IInv, NoteCrossed, NEW r \in Requests, NEW i, i = Now(r), Busy(r), i.step = "start",
         i.op \in {"rmdir", "erase", "movedir"}, Going, UNCHANGED <<tables, disk, faults>>,
         dirs[i.id] # None, NEW b \in BOOLEAN,
         Continue(r, [i EXCEPT !.from = dirs[i.id].path, !.flag = b, !.step = "disk"]),
         i.op = "movedir" => i.to \notin Below[dirs[i.id].path] /\ ~DestinationOccupied(i.to)
  PROVE  Kept
<1>1. /\ ~Half(r) /\ \A d \in DirIds : ~Leaving(r, d)
      /\ UNCHANGED <<tables, disk>> /\ dirs' = dirs /\ files' = files /\ Grows
  BY GrowsIs DEF At, Now, Half, Leaving, tables
<1>2. i \in Items /\ WellMade(i) /\ i.from \in Region(r) \cup {Root} /\ i.to \in Region(r) \cup {Root}
  BY CallIs
<1>3. i.id \in DirIds /\ dirs[i.id].path \in Region(r) /\ dirs[i.id].path \in Paths
  BY <1>2, CallIs, InvIs, DirRowIs DEF WellMade, Tree
<1>4. PICK j : Continue(r, j) /\ Stepped(j, i, dirs[i.id].path, i.to, b, "disk")
  BY <1>2, <1>3, NextStepIs, ZenonT(60) DEF Spots
<1>5. WellMade(j)
  BY <1>2, <1>3, <1>4 DEF WellMade, Stepped
<1>6. Underway(j)'
  <2>1. DestinationOccupied(i.to)' = DestinationOccupied(i.to)
    BY <1>1 DEF DestinationOccupied, FilesAt, DirsAt
  <2> QED  BY <1>1, <1>2, <1>4, <2>1 DEF Underway, ReadStill, HalfWay, CopyKept, Stepped
<1>7. /\ Queues' /\ \A s \in Requests \ {r} : req'[s] = req[s]
      /\ calm /\ Tree' /\ Touches(Region(r)) /\ RowsStay => Rest(r)
  BY <1>2, <1>3, <1>4, <1>5, <1>6, WentOn DEF Stepped
<1> QED  BY <1>1, <1>7, Quiet

LEMMA QuietAnswer ==
  ASSUME IInv, NoteCrossed, NEW r \in Requests, Busy(r), Now(r).step = "start",
         Answer(r), Going, UNCHANGED <<tables, disk, faults>>
  PROVE  Kept
<1>1. /\ ~Half(r) /\ \A d \in DirIds : ~Leaving(r, d)
      /\ UNCHANGED <<tables, disk>> /\ Grows
  BY GrowsIs DEF At, Now, Half, Leaving
<1> QED  BY <1>1, Answered, Quiet

LEMMA DeleteCheckKept ==
  ASSUME IInv, NoteCrossed, NEW r \in Requests, DeleteCheck(r)
  PROVE  Kept
<1>1. PICK i : i = Now(r)
  OBVIOUS
<1>2. Busy(r) /\ i.op = "rmdir" /\ i.step = "start" /\ Going /\ UNCHANGED <<tables, disk, faults>>
  BY <1>1, AtStart DEF DeleteCheck
<1>3. CASE Answer(r)
  BY <1>1, <1>2, <1>3, QuietAnswer
<1>4. ASSUME dirs[i.id] # None, Continue(r, [i EXCEPT !.from = dirs[i.id].path, !.step = "disk"])
      PROVE  Kept
  <2>1. i \in Items
    BY <1>1, <1>2, CallIs
  <2>2. /\ [i EXCEPT !.from = dirs[i.id].path, !.step = "disk"]
             = [i EXCEPT !.from = dirs[i.id].path, !.flag = i.flag, !.step = "disk"]
        /\ i.flag \in BOOLEAN
    BY <2>1 DEF Items
  <2>3. Continue(r, [i EXCEPT !.from = dirs[i.id].path, !.flag = i.flag, !.step = "disk"])
    BY <1>4, <2>2
  <2> QED  BY <1>1, <1>2, <1>4, <2>2, <2>3, CheckedIs, ZenonT(60)
<1> QED  BY <1>1, <1>3, <1>4 DEF DeleteCheck

LEMMA EraseCheckKept ==
  ASSUME IInv, NoteCrossed, NEW r \in Requests, EraseCheck(r)
  PROVE  Kept
<1>1. PICK i : i = Now(r)
  OBVIOUS
<1>2. Busy(r) /\ i.op = "erase" /\ i.step = "start" /\ Going /\ UNCHANGED <<tables, disk, faults>>
  BY <1>1, AtStart DEF EraseCheck
<1>3. CASE Answer(r)
  BY <1>1, <1>2, <1>3, QuietAnswer
<1>4. ASSUME dirs[i.id] # None,
             Continue(r, [i EXCEPT !.from = dirs[i.id].path, !.flag = dirs[i.id].trashed, !.step = "disk"])
      PROVE  Kept
  <2>1. i.id \in DirIds /\ dirs[i.id].trashed \in BOOLEAN
    BY <1>1, <1>2, <1>4, CallIs, InvIs, DirRowIs DEF WellMade, Tree
  <2> QED  BY <1>1, <1>2, <1>4, <2>1, CheckedIs, ZenonT(60)
<1> QED  BY <1>1, <1>3, <1>4 DEF EraseCheck

LEMMA MoveCheckKept ==
  ASSUME IInv, NoteCrossed, NEW r \in Requests, MoveCheck(r)
  PROVE  Kept
<1>1. PICK i : i = Now(r)
  OBVIOUS
<1>2. Busy(r) /\ i.op = "movedir" /\ i.step = "start" /\ Going /\ UNCHANGED <<tables, disk, faults>>
  BY <1>1, AtStart DEF MoveCheck
<1>3. CASE Answer(r)
  BY <1>1, <1>2, <1>3, QuietAnswer
<1>4. ASSUME dirs[i.id] # None, i.to \notin Below[dirs[i.id].path], ~DestinationOccupied(i.to),
             Continue(r, [i EXCEPT !.from = dirs[i.id].path, !.step = "disk"])
      PROVE  Kept
  <2>1. i \in Items
    BY <1>1, <1>2, CallIs
  <2>2. /\ [i EXCEPT !.from = dirs[i.id].path, !.step = "disk"]
             = [i EXCEPT !.from = dirs[i.id].path, !.flag = i.flag, !.step = "disk"]
        /\ i.flag \in BOOLEAN
    BY <2>1 DEF Items
  <2>3. Continue(r, [i EXCEPT !.from = dirs[i.id].path, !.flag = i.flag, !.step = "disk"])
    BY <1>4, <2>2
  <2> QED  BY <1>1, <1>2, <1>4, <2>2, <2>3, CheckedIs, ZenonT(60)
<1> QED  BY <1>1, <1>3, <1>4 DEF MoveCheck

\* A step that makes the folders above a path that the request is about.
LEMMA MakingKept ==
  ASSUME IInv, Grows, NEW r \in Requests, Going, UNCHANGED tables, ~Half(r),
         NEW p \in Spots, \A q \in Above[p] : \E y \in Region(r) : q \in Above[y],
         disk' = disk \/ (CanMkdirAll(p) /\ disk' = MkdirAll(p)),
         Queues', \A s \in Requests \ {r} : req'[s] = req[s],
         calm /\ Tree' /\ Touches(Region(r)) /\ RowsStay => Rest(r),
         calm => \A d \in DirIds \ crossed' : dirs[d] # None /\ Leaving(r, d) => disk'[dirs[d].path] = Folder
  PROVE  Kept
<1>1. Tree /\ Queues /\ Region(r) \subseteq Paths /\ dirs' = dirs /\ files' = files
  BY InvIs, RegionIs DEF tables
<1>2. /\ Tree' /\ RowsStay /\ Touches(Region(r))
      /\ \A f \in FileIds : files[f] # None /\ disk[files[f].path] = files[f].content =>
           disk'[files[f].path] = files[f].content
      /\ \A q \in Paths : disk[q] = Folder => disk'[q] = Folder
  BY <1>1, MadeIs
<1>3. \A d \in DirIds : dirs[d] # None => dirs[d].path \in Paths
  BY <1>1, DirRowIs DEF Tree
<1>4. ASSUME calm
      PROVE  /\ Rest(r)
             /\ \A f \in FileIds \ crossed' : files'[f] # None =>
                  /\ files[f] # None /\ files'[f].path = files[f].path
                  /\ files'[f].content = files[f].content
                  /\ disk[files[f].path] = files[f].content => disk'[files[f].path] = files[f].content
             /\ \A d \in DirIds \ crossed' : dirs'[d] # None /\ ~dirs'[d].trashed =>
                  \/ disk'[dirs'[d].path] = Folder
                  \/ /\ dirs'[d] = dirs[d] /\ ~Leaving(r, d)
                     /\ disk[dirs[d].path] = Folder => disk'[dirs[d].path] = Folder
  BY <1>1, <1>2, <1>3, <1>4
<1> QED  BY <1>2, <1>4, StepKept

LEMMA MkdirDiskKept ==
  ASSUME IInv, NoteCrossed, NEW r \in Requests, MkdirDisk(r)
  PROVE  Kept
<1>1. PICK i : i = Now(r)
  OBVIOUS
<1>2. /\ Busy(r) /\ i.op = "mkdir" /\ i.step = "disk" /\ Going /\ UNCHANGED tables /\ Grows
      /\ ~Half(r) /\ \A d \in DirIds : ~Leaving(r, d)
  BY <1>1, AtIs, GrowsIs DEF MkdirDisk, Half, Leaving
<1>3. i \in Items /\ WellMade(i) /\ i.from \in Region(r) \cup {Root} /\ i.to \in Region(r) \cup {Root}
  BY <1>1, <1>2, CallIs
<1>4. i.to \in Paths /\ i.to \in Region(r) /\ i.to \in Spots /\ Above[i.to] \subseteq Paths /\ i.to \in Above[i.to]
  BY <1>2, <1>3, PathsAre, AboveIs, BelowOrder DEF WellMade, Spots
<1>5. CASE disk' = disk /\ Answer(r)
  BY <1>2, <1>4, <1>5, Answered, MakingKept
<1>6. CASE CanMkdirAll(i.to) /\ disk' = MkdirAll(i.to) /\ ToStep(r, "row")
  <2>1. PICK j : Continue(r, j) /\ Stepped(j, i, i.from, i.to, i.flag, "row")
    BY <1>1, <1>3, <1>6, NextStepIs, ZenonT(60) DEF ToStep, Spots
  <2>2. WellMade(j)
    BY <1>2, <1>3, <2>1 DEF WellMade, Stepped
  <2>3. disk'[i.to] = Folder
    BY <1>4, <1>6 DEF MkdirAll
  <2>4. Underway(j)'
    BY <1>2, <2>1, <2>3 DEF Underway, ReadStill, HalfWay, CopyKept, Stepped
  <2>5. /\ Queues' /\ \A s \in Requests \ {r} : req'[s] = req[s]
        /\ calm /\ Tree' /\ Touches(Region(r)) /\ RowsStay => Rest(r)
    BY <1>1, <1>2, <1>3, <2>1, <2>2, <2>4, WentOn DEF Stepped
  <2> QED  BY <1>2, <1>4, <1>6, <2>5, MakingKept
<1> QED  BY <1>1, <1>5, <1>6 DEF MkdirDisk

LEMMA RestoreDiskKept ==
  ASSUME IInv, NoteCrossed, NEW r \in Requests, RestoreDisk(r)
  PROVE  Kept
<1>1. PICK i : i = Now(r)
  OBVIOUS
<1>2. /\ Busy(r) /\ i.op = "restore" /\ i.step = "disk" /\ Going /\ UNCHANGED tables /\ Grows
      /\ ~Half(r) /\ Answer(r) /\ \A d \in DirIds : Leaving(r, d) => d = i.id
      /\ disk' = IF CanMkdirAll(i.to) THEN MkdirAll(i.to) ELSE disk
  BY <1>1, AtIs, GrowsIs DEF RestoreDisk, Half, Leaving
<1>3. i \in Items /\ WellMade(i) /\ i.to \in Region(r) \cup {Root} /\ (calm => Underway(i) /\ HasRow(i))
  BY <1>1, <1>2, CallIs
<1>4. i.to \in Paths /\ i.to \in Region(r) /\ i.to \in Spots /\ Above[i.to] \subseteq Paths /\ i.to \in Above[i.to]
  BY <1>2, <1>3, PathsAre, AboveIs, BelowOrder DEF WellMade, Spots
<1>5. ASSUME calm, NEW d \in DirIds \ crossed', dirs[d] # None, Leaving(r, d)
      PROVE  disk'[dirs[d].path] = Folder
  <2>1. d = i.id /\ dirs[d].path = i.to
    BY <1>2, <1>3, <1>5 DEF Underway, ReadStill
  <2>2. CASE CanMkdirAll(i.to)
    BY <1>2, <1>4, <2>1, <2>2 DEF MkdirAll
  <2>3. CASE ~CanMkdirAll(i.to)
    <3>1. PICK q \in Above[i.to] : disk[q] \in Contents
      BY <2>3 DEF CanMkdirAll
    <3>2. dirs'[d] # None /\ dirs'[d].path = i.to /\ disk'[q] \in Contents
      BY <1>2, <1>5, <2>1, <2>3, <3>1 DEF tables
    <3>3. d \in CrossedDirs'
      BY <3>1, <3>2 DEF CrossedDirs
    <3> QED  BY <1>5, <3>3 DEF NoteCrossed
  <2> QED  BY <2>2, <2>3
<1> QED  BY <1>2, <1>4, <1>5, Answered, MakingKept

LEMMA MkdirRowKept ==
  ASSUME IInv, NoteCrossed, NEW r \in Requests, MkdirRow(r)
  PROVE  Kept
<1>1. PICK i : i = Now(r)
  OBVIOUS
<1>2. /\ Busy(r) /\ i.op = "mkdir" /\ i.step = "row" /\ Going /\ UNCHANGED <<files, disk>> /\ Grows
      /\ ~Half(r) /\ (\A d \in DirIds : ~Leaving(r, d)) /\ Then(r, <<>>)
  BY <1>1, AtIs, GrowsIs DEF MkdirRow, Half, Leaving
<1>3. /\ i \in Items /\ WellMade(i) /\ i.to \in Region(r) \cup {Root} /\ (calm => Underway(i))
      /\ Tree /\ Queues /\ Region(r) \subseteq Paths
  BY <1>1, <1>2, CallIs, InvIs
<1>4. i.to \in Paths /\ i.to \in Region(r) /\ i.to \in Below[i.to]
  BY <1>2, <1>3, PathsAre, BelowOrder DEF WellMade
<1>5. /\ Queues' /\ \A s \in Requests \ {r} : req'[s] = req[s]
      /\ calm /\ Tree' /\ Touches(Region(r)) /\ RowsStay => Rest(r)
  BY <1>1, <1>2, Finished
<1>6. CASE dirs' = dirs
  BY <1>2, <1>5, <1>6, Quiet DEF tables
<1>7. ASSUME DirsAt(i.to) = {}, NEW d \in DirIds, dirs[d] = None,
             dirs' = [dirs EXCEPT ![d] = [path |-> i.to, trashed |-> FALSE]]
      PROVE  Kept
  <2> DEFINE row == [path |-> i.to, trashed |-> FALSE]
  <2>1. row \in DirRows /\ row # None /\ row.path = i.to
    BY <1>4, RowRecords
  <2>2. \A e \in DirIds \ {d} : dirs[e] # None => dirs[e].path # i.to
    BY <1>7 DEF DirsAt
  <2> HIDE DEF row
  <2>3. DirTable' /\ dirs'[d] = row /\ \A e \in DirIds \ {d} : dirs'[e] = dirs[e]
    BY <1>3, <1>7, <2>1, <2>2, DirWritten, ZenonT(60) DEF Tree, row
  <2>4. Tree'
    BY <1>2, <1>3, <2>3 DEF Tree, FileTable, DiskOK, InFolders, OnePerPath
  <2>5. Touches(Region(r))
    BY <1>2, <1>4, <1>7, <2>1, <2>3 DEF Touches, DirsStep, FilesStep, DiskStep
  <2>6. RowsStay
    BY <1>2, <1>7, <2>1, <2>3 DEF RowsStay
  <2>7. calm => disk'[i.to] = Folder
    BY <1>2, <1>3 DEF Underway, ReadStill
  <2>8. calm => \A e \in DirIds : dirs'[e] # None =>
          disk'[dirs'[e].path] = Folder \/ (dirs'[e] = dirs[e] /\ disk' = disk)
    BY <1>2, <2>1, <2>3, <2>7
  <2> QED  BY <1>2, <1>5, <2>4, <2>5, <2>6, <2>8, StepKept
<1> QED  BY <1>1, <1>6, <1>7 DEF MkdirRow

\* A folder goes from the disk with the call that is about its row.
LEMMA FolderRemoved ==
  ASSUME IInv, NoteCrossed, NEW r \in Requests, NEW i, i = Now(r), Busy(r),
         i.op \in {"rmdir", "erase"}, i.step = "disk", Going, UNCHANGED <<tables, faults>>,
         disk' = IF CanRemove(i.from) THEN Removed(i.from) ELSE disk,
         ToStep(r, "row") \/ (Answer(r) /\ ~CanRemove(i.from))
  PROVE  Kept
<1>1. /\ ~Half(r) /\ (\A d \in DirIds : ~Leaving(r, d)) /\ Grows
      /\ dirs' = dirs /\ files' = files
  BY GrowsIs DEF At, Now, Half, Leaving, tables
<1>2. /\ i \in Items /\ WellMade(i) /\ i.from \in Region(r) \cup {Root} /\ i.to \in Region(r) \cup {Root}
      /\ calm => HasRow(i) /\ Underway(i)
      /\ Tree /\ Queues /\ Region(r) \subseteq Paths
  BY CallIs, InvIs
<1>3. i.from \in Paths /\ i.from \in Region(r) /\ i.id \in DirIds /\ i.from \in Below[i.from]
  BY <1>2, PathsAre, BelowOrder DEF WellMade
<1>4. /\ DiskOK' /\ \A q \in Paths : q # i.from => disk'[q] = disk[q]
      /\ ~CanRemove(i.from) => disk' = disk
  <2>1. CASE CanRemove(i.from)
    BY <1>2, <1>3, <2>1, RemovedIs DEF Tree
  <2>2. CASE ~CanRemove(i.from)
    BY <1>2, <2>2 DEF Tree, DiskOK, InFolders
  <2> QED  BY <2>1, <2>2
<1>5. Tree' /\ RowsStay
  BY <1>1, <1>2, <1>4 DEF Tree, FileTable, DirTable, OnePerPath, RowsStay
<1>6. Touches(Region(r))
  BY <1>1, <1>3, <1>4 DEF Touches, DirsStep, FilesStep, DiskStep
<1>7. ASSUME calm
      PROVE  dirs[i.id] # None /\ dirs[i.id].path = i.from
  BY <1>2, <1>3, <1>7 DEF HasRow, Underway, ReadStill
<1>8. ASSUME calm, NEW f \in FileIds \ crossed', files'[f] # None
      PROVE  /\ files[f] # None /\ files'[f].path = files[f].path /\ files'[f].content = files[f].content
             /\ disk'[files[f].path] = disk[files[f].path]
  <2>1. files[f].path \in Paths
    BY <1>1, <1>2, <1>8, FileRowIs DEF Tree
  <2>2. files[f].path # i.from
    <3>1. SUFFICES ASSUME files[f].path = i.from PROVE FALSE
      OBVIOUS
    <3>2. i.id \in DirsAt(files[f].path)'
      BY <1>1, <1>3, <1>7, <1>8, <3>1 DEF DirsAt
    <3>3. f \in CrossedFiles'
      BY <1>8, <3>2 DEF CrossedFiles
    <3> QED  BY <1>8, <3>3 DEF NoteCrossed
  <2> QED  BY <1>1, <1>4, <1>8, <2>1, <2>2
<1>9. ASSUME calm, NEW d \in DirIds, dirs[d] # None, d # i.id
      PROVE  disk'[dirs[d].path] = disk[dirs[d].path]
  <2>1. dirs[d].path \in Paths
    BY <1>2, <1>9, DirRowIs DEF Tree
  <2>2. dirs[d].path # i.from
    BY <1>2, <1>3, <1>7, <1>9 DEF Tree, DirTable, OnePerPath
  <2> QED  BY <1>4, <2>1, <2>2
<1>10. CASE Answer(r) /\ ~CanRemove(i.from)
  BY <1>1, <1>4, <1>10, Answered, Quiet
<1>11. CASE ToStep(r, "row")
  <2>1. PICK j : Continue(r, j) /\ Stepped(j, i, i.from, i.to, i.flag, "row")
    BY <1>2, <1>11, NextStepIs, ZenonT(60) DEF ToStep, Spots
  <2>2. WellMade(j)
    BY <1>2, <2>1 DEF WellMade, Stepped
  <2>3. calm => Underway(j)'
    BY <1>1, <1>2, <2>1 DEF Underway, ReadStill, HalfWay, CopyKept, Stepped
  <2>4. /\ Queues' /\ \A s \in Requests \ {r} : req'[s] = req[s]
        /\ calm => Rest(r)
        /\ Busy(r)' /\ Now(r)' = j
    BY <1>2, <1>5, <1>6, <2>1, <2>2, <2>3, WentOn DEF Stepped
  <2>5. Leaving(r, i.id)'
    BY <2>1, <2>4 DEF Leaving, At, Now, Stepped
  <2>6. calm => \A d \in DirIds : dirs'[d] # None =>
          \/ Leaving(r, d)'
          \/ dirs'[d] = dirs[d] /\ disk'[dirs[d].path] = disk[dirs[d].path]
    BY <1>1, <1>9, <2>5
  <2> QED  BY <1>1, <1>5, <1>6, <1>8, <2>4, <2>6, StepKept
<1> QED  BY <1>10, <1>11

LEMMA DeleteDiskKept ==
  ASSUME IInv, NoteCrossed, NEW r \in Requests, DeleteDisk(r)
  PROVE  Kept
<1>1. PICK i : i = Now(r)
  OBVIOUS
<1>2. Busy(r) /\ i.op = "rmdir" /\ i.step = "disk"
  BY <1>1, AtIs DEF DeleteDisk
<1> QED  BY <1>1, <1>2, FolderRemoved DEF DeleteDisk, CanRemove

LEMMA EraseDiskKept ==
  ASSUME IInv, NoteCrossed, NEW r \in Requests, EraseDisk(r)
  PROVE  Kept
<1>1. PICK i : i = Now(r)
  OBVIOUS
<1>2. Busy(r) /\ i.op = "erase" /\ i.step = "disk"
  BY <1>1, AtIs DEF EraseDisk
<1> QED  BY <1>1, <1>2, FolderRemoved DEF EraseDisk, CanRemove

\* The row of a folder is written by the call that is about it.
Writes(r, d, row) ==
  /\ Busy(r) /\ d = Now(r).id /\ d \in DirIds /\ dirs[d] # None
  /\ row = None \/ (row \in DirRows /\ row.path = dirs[d].path)
  /\ dirs' = [dirs EXCEPT ![d] = row] /\ UNCHANGED <<files, disk>>

LEMMA RowWritten ==
  ASSUME IInv, NEW r \in Requests, NEW d, NEW row, Writes(r, d, row)
  PROVE  /\ Tree' /\ Touches(Region(r)) /\ (row \in DirRows => RowsStay)
         /\ dirs'[d] = row /\ \A e \in DirIds \ {d} : dirs'[e] = dirs[e]
<1>0. /\ Busy(r) /\ d = Now(r).id /\ d \in DirIds /\ dirs[d] # None
      /\ row = None \/ (row \in DirRows /\ row.path = dirs[d].path)
      /\ row \in DirRows \cup {None} /\ (row # None => row.path = dirs[d].path)
      /\ dirs' = [dirs EXCEPT ![d] = row] /\ files' = files /\ disk' = disk
  BY DEF Writes
<1>1. Tree /\ Region(r) \subseteq Paths /\ dirs[d].path \in Region(r)
  BY <1>0, CallIs, InvIs
<1>2. row # None => \A e \in DirIds \ {d} : dirs[e] # None => dirs[e].path # row.path
  BY <1>0, <1>1 DEF Tree, DirTable, OnePerPath
<1>3. DirTable' /\ dirs'[d] = row /\ \A e \in DirIds \ {d} : dirs'[e] = dirs[e]
  BY <1>0, <1>1, <1>2, DirWritten DEF Tree
<1>4. Tree'
  BY <1>0, <1>1, <1>3 DEF Tree, FileTable, DiskOK, InFolders, OnePerPath
<1>5. dirs[d].path \in Below[dirs[d].path]
  BY <1>1, BelowOrder
<1>6. Touches(Region(r))
  BY <1>0, <1>1, <1>3, <1>5 DEF Touches, DirsStep, FilesStep, DiskStep
<1>7. row \in DirRows => RowsStay
  BY <1>0, <1>3, TreeAssumption DEF RowsStay
<1> QED  BY <1>3, <1>4, <1>6, <1>7

LEMMA RowFlagged ==
  ASSUME DirTable, NEW d \in DirIds, dirs[d] # None, NEW b \in BOOLEAN
  PROVE  LET row == [dirs[d] EXCEPT !.trashed = b] IN
         /\ row \in DirRows /\ row # None /\ row.path = dirs[d].path /\ row.trashed = b
         /\ [dirs EXCEPT ![d].trashed = b] = [dirs EXCEPT ![d] = row]
<1>1. dirs[d] \in [path : Paths, trashed : BOOLEAN]
  BY DirRowIs DEF DirRows
<1>2. /\ [dirs[d] EXCEPT !.trashed = b] \in [path : Paths, trashed : BOOLEAN]
      /\ [dirs[d] EXCEPT !.trashed = b].path = dirs[d].path
      /\ [dirs[d] EXCEPT !.trashed = b].trashed = b
  BY <1>1
<1>3. [dirs EXCEPT ![d].trashed = b] = [dirs EXCEPT ![d] = [dirs[d] EXCEPT !.trashed = b]]
  BY DEF DirTable
<1> QED  BY <1>2, <1>3, RowRecords DEF DirRows

LEMMA SoftDeleteKept ==
  ASSUME IInv, NoteCrossed, NEW r \in Requests, SoftDeleteDirectory(r)
  PROVE  Kept
<1>1. PICK i, d : i = Now(r) /\ d = i.id
  OBVIOUS
<1>2. /\ Busy(r) /\ i.op = "rmdir" /\ i.step = "row" /\ Going /\ UNCHANGED <<files, disk>> /\ Grows
      /\ ~Half(r) /\ \A e \in DirIds : Leaving(r, e) <=> e = d
  BY <1>1, AtIs, GrowsIs DEF SoftDeleteDirectory, Half, Leaving
<1>3. d \in DirIds /\ Tree /\ Queues /\ d = Now(r).id
  BY <1>1, <1>2, CallIs, InvIs DEF WellMade
<1>4. CASE dirs[d] # None
  <2>0. PICK row : row = [dirs[d] EXCEPT !.trashed = TRUE]
    OBVIOUS
  <2>1. dirs' = [dirs EXCEPT ![d] = row] /\ Then(r, <<>>)
    BY <1>1, <1>3, <1>4, <2>0, RowFlagged DEF SoftDeleteDirectory, Tree
  <2>2. row \in DirRows /\ row # None /\ row.path = dirs[d].path /\ row.trashed
    BY <1>3, <1>4, <2>0, RowFlagged DEF Tree
  <2>3. Tree' /\ Touches(Region(r)) /\ RowsStay /\ dirs'[d] = row /\ \A e \in DirIds \ {d} : dirs'[e] = dirs[e]
    <3>1. Writes(r, d, row)
      BY <1>1, <1>2, <1>3, <1>4, <2>1, <2>2 DEF Writes
    <3> QED  BY <2>2, <3>1, RowWritten
  <2>4. /\ Queues' /\ \A s \in Requests \ {r} : req'[s] = req[s]
        /\ calm => Rest(r)
    BY <1>1, <1>2, <2>1, <2>3, Finished
  <2>5. \A e \in DirIds : dirs'[e] # None /\ ~dirs'[e].trashed => dirs'[e] = dirs[e] /\ ~Leaving(r, e)
    BY <1>2, <2>2, <2>3
  <2> QED  BY <1>2, <2>3, <2>4, <2>5, StepKept
<1>5. CASE dirs[d] = None
  <2>1. UNCHANGED tables /\ dirs' = dirs /\ files' = files /\ disk' = disk /\ Answer(r)
    BY <1>1, <1>2, <1>5 DEF SoftDeleteDirectory, tables
  <2>2. Tree' /\ Touches(Region(r))
    BY <1>3, <2>1, MadeIs, NothingAboveTheRoot, RegionIs DEF Spots
  <2>3. Queues' /\ (\A s \in Requests \ {r} : req'[s] = req[s]) /\ Rest(r)
    BY <2>1, Answered
  <2>4. \A e \in DirIds : dirs'[e] # None => dirs'[e] = dirs[e] /\ ~Leaving(r, e)
    BY <1>2, <1>5, <2>1
  <2> QED  BY <1>2, <2>1, <2>2, <2>3, <2>4, StepKept
<1> QED  BY <1>4, <1>5

LEMMA EraseRowKept ==
  ASSUME IInv, NoteCrossed, NEW r \in Requests, EraseRow(r)
  PROVE  Kept
<1>1. PICK i, d : i = Now(r) /\ d = i.id
  OBVIOUS
<1>2. /\ Busy(r) /\ i.op = "erase" /\ i.step = "row" /\ Going /\ UNCHANGED <<files, disk>> /\ Grows
      /\ ~Half(r) /\ (\A e \in DirIds : Leaving(r, e) <=> e = d) /\ Answer(r)
      /\ dirs' = [dirs EXCEPT ![d] = None]
  BY <1>1, AtIs, GrowsIs DEF EraseRow, Half, Leaving
<1>3. d \in DirIds /\ Tree /\ Queues /\ d = Now(r).id
  BY <1>1, <1>2, CallIs, InvIs DEF WellMade
<1>4. /\ Tree' /\ Touches(Region(r))
      /\ dirs'[d] = None /\ \A e \in DirIds \ {d} : dirs'[e] = dirs[e]
  <2>1. CASE dirs[d] # None
    <3>1. Writes(r, d, None)
      BY <1>1, <1>2, <1>3, <2>1 DEF Writes
    <3> QED  BY <3>1, RowWritten
  <2>2. CASE dirs[d] = None
    <3>1. dirs' = dirs /\ UNCHANGED tables /\ disk' = disk
      BY <1>2, <1>3, <2>2 DEF Tree, DirTable, tables
    <3> QED  BY <1>3, <2>2, <3>1, MadeIs, NothingAboveTheRoot, RegionIs DEF Spots
  <2> QED  BY <2>1, <2>2
<1>5. Queues' /\ (\A s \in Requests \ {r} : req'[s] = req[s]) /\ Rest(r)
  BY <1>2, Answered
<1>6. \A e \in DirIds : dirs'[e] # None => dirs'[e] = dirs[e] /\ ~Leaving(r, e)
  BY <1>2, <1>4
<1> QED  BY <1>2, <1>4, <1>5, <1>6, StepKept

LEMMA RestoreCheckKept ==
  ASSUME IInv, NoteCrossed, NEW r \in Requests, RestoreCheck(r)
  PROVE  Kept
<1>1. PICK i, d : i = Now(r) /\ d = i.id
  OBVIOUS
<1>2. /\ Busy(r) /\ i.op = "restore" /\ i.step = "start" /\ Going /\ UNCHANGED <<tables, disk, faults>>
      /\ Grows /\ ~Half(r) /\ (\A e \in DirIds : ~Leaving(r, e)) /\ UNCHANGED <<tables, disk>>
      /\ dirs' = dirs
  BY <1>1, AtIs, GrowsIs DEF RestoreCheck, Half, Leaving, tables
<1>3. /\ i \in Items /\ WellMade(i) /\ i.from \in Region(r) \cup {Root} /\ d \in DirIds
      /\ Tree /\ (dirs[d] # None => dirs[d].path \in Region(r))
  BY <1>1, <1>2, CallIs, InvIs DEF WellMade
<1>4. CASE Answer(r)
  BY <1>1, <1>2, <1>4, QuietAnswer
<1>5. CASE dirs[d] # None /\ Continue(r, [i EXCEPT !.to = dirs[d].path, !.step = "row"])
  <2>1. dirs[d].path \in Paths /\ dirs[d].path \in Spots
    BY <1>3, <1>5, DirRowIs DEF Tree, Spots
  <2>2. PICK j : Continue(r, j) /\ Stepped(j, i, i.from, dirs[d].path, i.flag, "row")
    BY <1>3, <1>5, <2>1, NextStepIs, ZenonT(60)
  <2>3. WellMade(j)
    BY <1>2, <1>3, <2>1, <2>2 DEF WellMade, Stepped
  <2>4. Underway(j)'
    BY <1>1, <1>2, <2>2 DEF Underway, ReadStill, HalfWay, CopyKept, Stepped
  <2>5. /\ Queues' /\ \A s \in Requests \ {r} : req'[s] = req[s]
        /\ calm /\ Tree' /\ Touches(Region(r)) /\ RowsStay => Rest(r)
    BY <1>1, <1>2, <1>3, <1>5, <2>2, <2>3, <2>4, WentOn DEF Stepped
  <2> QED  BY <1>2, <2>5, Quiet
<1> QED  BY <1>1, <1>4, <1>5 DEF RestoreCheck

LEMMA RestoreRowKept ==
  ASSUME IInv, NoteCrossed, NEW r \in Requests, RestoreRow(r)
  PROVE  Kept
<1>1. PICK i, d : i = Now(r) /\ d = i.id
  OBVIOUS
<1>2. /\ Busy(r) /\ i.op = "restore" /\ i.step = "row" /\ Going /\ UNCHANGED <<files, disk>> /\ Grows
      /\ ~Half(r) /\ \A e \in DirIds : ~Leaving(r, e)
  BY <1>1, AtIs, GrowsIs DEF RestoreRow, Half, Leaving
<1>3. /\ i \in Items /\ WellMade(i) /\ i.from \in Region(r) \cup {Root} /\ d \in DirIds
      /\ i.to \in Region(r) \cup {Root} /\ Tree /\ Queues /\ (calm => Underway(i))
  BY <1>1, <1>2, CallIs, InvIs DEF WellMade
<1>4. CASE dirs[d] = None
  <2>1. Answer(r) /\ UNCHANGED <<tables, disk>>
    BY <1>1, <1>2, <1>4 DEF RestoreRow, tables
  <2> QED  BY <1>2, <2>1, Answered, Quiet
<1>5. CASE dirs[d] # None
  <2>0. PICK row : row = [dirs[d] EXCEPT !.trashed = FALSE]
    OBVIOUS
  <2>1. dirs' = [dirs EXCEPT ![d] = row]
    BY <1>1, <1>3, <1>5, <2>0, RowFlagged DEF RestoreRow, Tree
  <2>2. row \in DirRows /\ row # None /\ row.path = dirs[d].path
    BY <1>3, <1>5, <2>0, RowFlagged, ZenonT(60) DEF Tree
  <2>3. PICK j : Continue(r, j) /\ Stepped(j, i, i.from, i.to, i.flag, "disk")
    <3>1. ToStep(r, "disk")
      BY <1>1, <1>5 DEF RestoreRow
    <3> QED  BY <1>1, <1>3, <3>1, NextStepIs, ZenonT(60) DEF ToStep, Spots
  <2>4. Tree' /\ Touches(Region(r)) /\ RowsStay /\ dirs'[d] = row /\ \A e \in DirIds \ {d} : dirs'[e] = dirs[e]
    <3>1. Writes(r, d, row)
      BY <1>1, <1>2, <1>3, <1>5, <2>1, <2>2 DEF Writes
    <3> QED  BY <2>2, <3>1, RowWritten
  <2>5. WellMade(j)
    BY <1>2, <1>3, <2>3 DEF WellMade, Stepped
  <2>6. calm => Underway(j)'
    <3>1. calm => dirs[d].path = i.to
      BY <1>1, <1>2, <1>3 DEF Underway, ReadStill
    <3> QED  BY <1>1, <1>2, <2>2, <2>3, <2>4, <3>1 DEF Underway, ReadStill, HalfWay, CopyKept, Stepped
  <2>7. /\ Queues' /\ \A s \in Requests \ {r} : req'[s] = req[s]
        /\ Busy(r)' /\ Now(r)' = j /\ (calm => Rest(r))
    BY <1>1, <1>2, <1>3, <2>3, <2>4, <2>5, <2>6, WentOn DEF Stepped
  <2>8. Leaving(r, d)'
    BY <1>1, <1>2, <2>3, <2>7 DEF Leaving, At, Now, Stepped
  <2>9. \A e \in DirIds : Leaving(r, e)' \/ (dirs'[e] = dirs[e] /\ ~Leaving(r, e))
    BY <1>2, <2>4, <2>8
  <2> QED  BY <1>2, <2>4, <2>7, <2>9, StepKept
<1> QED  BY <1>4, <1>5

\* The tables could not follow the rename of a folder: it is to be undone.
LEMMA ToUndoKept ==
  ASSUME IInv, Grows, NEW r \in Requests, At(r, "movedir", "row"), Going,
         UNCHANGED <<tables, disk>>, ToStep(r, "undo")
  PROVE  Kept
<1>1. PICK i : i = Now(r)
  OBVIOUS
<1>2. /\ Busy(r) /\ i.op = "movedir" /\ i.step = "row" /\ dirs' = dirs /\ files' = files
      /\ UNCHANGED tables /\ disk' = disk
  BY <1>1, AtIs DEF tables
<1>3. /\ i \in Items /\ WellMade(i) /\ i.from \in Region(r) \cup {Root} /\ i.to \in Region(r) \cup {Root}
      /\ Tree /\ Queues /\ Region(r) \subseteq Paths /\ (calm => Underway(i))
  BY <1>1, <1>2, CallIs, InvIs
<1>4. i.from \in Paths /\ i.to \in Paths
  BY <1>2, <1>3 DEF WellMade
<1>5. Tree' /\ RowsStay /\ Touches(Region(r)) /\ Touches({})
  BY <1>2, <1>3, MadeIs, NothingAboveTheRoot DEF Spots
<1>6. calm => Renamed(i.from, i.to)'
  <2>1. calm => Renamed(i.from, i.to)
    BY <1>2, <1>3 DEF Underway, HalfWay
  <2> QED  BY <1>3, <1>4, <1>5, <2>1, OthersKeepRenamed
<1>7. PICK j : Continue(r, j) /\ Stepped(j, i, i.from, i.to, i.flag, "undo")
  BY <1>1, <1>3, NextStepIs, ZenonT(60) DEF ToStep, Spots
<1>8. WellMade(j)
  BY <1>2, <1>3, <1>7 DEF WellMade, Stepped
<1>9. calm => Underway(j)'
  <2>1. DestinationOccupied(i.to)' = DestinationOccupied(i.to)
    BY <1>2 DEF DestinationOccupied, FilesAt, DirsAt
  <2> QED  BY <1>2, <1>3, <1>6, <1>7, <2>1 DEF Underway, ReadStill, HalfWay, CopyKept, Stepped
<1>10. /\ Queues' /\ \A s \in Requests \ {r} : req'[s] = req[s]
       /\ Busy(r)' /\ Now(r)' = j /\ (calm => Rest(r))
  BY <1>1, <1>2, <1>3, <1>5, <1>7, <1>8, <1>9, WentOn DEF Stepped
<1>11. Half(r)' /\ Now(r)'.from = Now(r).from
  BY <1>1, <1>2, <1>7, <1>10 DEF Half, At, Now, Stepped
<1>12. \A d \in DirIds : Leaving(r, d) => Leaving(r, d)'
  BY <1>1, <1>2, <1>11 DEF Leaving, Half, At, Now
<1> QED  BY <1>2, <1>5, <1>10, <1>11, <1>12, StepKept

LEMMA DatabaseErrorKept ==
  ASSUME IInv, NoteCrossed, NEW r \in Requests, DatabaseError(r)
  PROVE  Kept
<1>1. /\ Busy(r) /\ Now(r).step = "row" /\ Going /\ faults' = faults + 1 /\ UNCHANGED <<tables, disk>>
      /\ dirs' = dirs /\ files' = files /\ UNCHANGED tables /\ disk' = disk /\ Grows
  BY GrowsIs DEF DatabaseError, tables
<1>2. Tree /\ Queues /\ faults' # 0
  BY <1>1, InvIs, TreeAssumption
<1>3. CASE Now(r).op = "movedir"
  <2>1. At(r, "movedir", "row") /\ ToStep(r, "undo")
    BY <1>1, <1>3 DEF At, Now, DatabaseError
  <2> QED  BY <1>1, <2>1, ToUndoKept
<1>4. CASE Now(r).op # "movedir"
  <2>1. Answer(r) /\ ~Half(r)
    BY <1>4 DEF Half, At, Now, DatabaseError
  <2>2. Queues' /\ (\A s \in Requests \ {r} : req'[s] = req[s]) /\ Rest(r)
    BY <2>1, Answered
  <2>3. Tree' /\ Touches(Region(r))
    BY <1>1, <1>2, MadeIs, NothingAboveTheRoot, RegionIs DEF Spots
  <2> QED  BY <1>1, <1>2, <2>1, <2>2, <2>3, StepKept
<1> QED  BY <1>3, <1>4

(***************************************************************************)
(* The purge, which is about every path.                                   *)
(***************************************************************************)
LEMMA TouchesAll ==
  ASSUME Tree, Tree'
  PROVE  Touches(Paths)
<1>1. \A p \in Paths : p \in Below[p]
  BY BelowOrder
<1>2. /\ \A d \in DirIds : dirs[d] # None => dirs[d].path \in Paths
      /\ \A f \in FileIds : files[f] # None => files[f].path \in Paths
  BY DirRowIs, FileRowIs DEF Tree
<1>3. /\ \A d \in DirIds : dirs'[d] # None => dirs'[d].path \in Paths
      /\ \A f \in FileIds : files'[f] # None => files'[f].path \in Paths
  BY DEF Tree, DirTable, FileTable, DirRows, FileRows
<1> QED  BY <1>1, <1>2, <1>3 DEF Touches, DirsStep, FilesStep, DiskStep

LEMMA PurgeFilesKept ==
  ASSUME IInv, NoteCrossed, NEW r \in Requests, PurgeFiles(r)
  PROVE  Kept
<1>1. PICK i : i = Now(r)
  OBVIOUS
<1>2. /\ Busy(r) /\ i.op = "purge" /\ i.step = "start" /\ Going /\ dirs' = dirs /\ Grows
      /\ ~Half(r) /\ \A e \in DirIds : ~Leaving(r, e)
  BY <1>1, AtIs, GrowsIs DEF PurgeFiles, Half, Leaving
<1>3. /\ i \in Items /\ WellMade(i) /\ i.from \in Region(r) \cup {Root} /\ i.to \in Region(r) \cup {Root}
      /\ Tree /\ Queues /\ Noted /\ Region(r) = Paths
  BY <1>1, <1>2, CallIs, InvIs
<1>4. PICK S \in SUBSET {f \in FileIds : files[f] # None /\ files[f].trashed} :
        /\ \A f \in S : CanRemove(files[f].path)
        /\ disk' = [q \in Paths |-> IF \E f \in S : files[f].path = q THEN Absent ELSE disk[q]]
        /\ files' = [f \in FileIds |-> IF f \in S THEN None ELSE files[f]]
  BY DEF PurgeFiles
<1>5. /\ DiskOK'
      /\ \A q \in Paths : (\E f \in S : files[f].path = q) \/ disk'[q] = disk[q]
  BY <1>3, <1>4, PurgedDiskIs DEF Tree
<1>6. \A f \in FileIds : files'[f] = IF f \in S THEN None ELSE files[f]
  BY <1>4
<1>7. Tree'
  <2>1. files' \in [FileIds -> FileRows \cup {None}] /\ DOMAIN files' = FileIds
    BY <1>3, <1>4 DEF Tree, FileTable
  <2>2. FileTable'
    BY <1>3, <1>6, <2>1 DEF Tree, FileTable, OnePerPath
  <2> QED  BY <1>2, <1>3, <1>5, <2>2 DEF Tree, DirTable, OnePerPath
<1>8. Touches(Region(r))
  BY <1>3, <1>7, TouchesAll
<1>9. \A f \in FileIds \ crossed' : files'[f] # None =>
        /\ files[f] # None /\ files'[f] = files[f]
        /\ disk'[files[f].path] = disk[files[f].path]
  <2> TAKE f \in FileIds \ crossed'
  <2> HAVE files'[f] # None
  <2>1. f \notin S /\ files'[f] = files[f] /\ files[f] # None
    BY <1>6
  <2>2. files[f].path \in Paths
    BY <1>3, <2>1, FileRowIs DEF Tree
  <2>3. ~\E g \in S : files[g].path = files[f].path
    BY <1>3, <2>1 DEF Tree, FileTable, OnePerPath
  <2> QED  BY <1>5, <2>1, <2>2, <2>3
<1>10. \A d \in DirIds \ crossed' : dirs'[d] # None => disk'[dirs[d].path] = disk[dirs[d].path]
  <2> TAKE d \in DirIds \ crossed'
  <2> HAVE dirs'[d] # None
  <2>1. dirs[d] # None /\ dirs[d].path \in Paths
    BY <1>2, <1>3, DirRowIs DEF Tree
  <2>2. d \notin crossed
    BY <1>2, <2>1 DEF Grows, Rows
  <2>3. ~\E g \in S : files[g].path = dirs[d].path
    <3>1. SUFFICES ASSUME NEW g \in S, files[g].path = dirs[d].path PROVE FALSE
      OBVIOUS
    <3>2. g \in FilesAt(dirs[d].path) /\ dirs[d].path \in Above[dirs[d].path]
      BY <2>1, <3>1, BelowOrder DEF FilesAt
    <3>3. d \in CrossedDirs
      BY <2>1, <3>2 DEF CrossedDirs
    <3> QED  BY <1>3, <2>2, <3>3 DEF Noted
  <2> QED  BY <1>5, <2>1, <2>3
<1>11. Queues' /\ (\A s \in Requests \ {r} : req'[s] = req[s]) /\ (calm => Rest(r))
  <2>1. CASE Answer(r)
    BY <2>1, Answered
  <2>2. CASE ToStep(r, "row")
    <3>1. PICK j : Continue(r, j) /\ Stepped(j, i, i.from, i.to, i.flag, "row")
      BY <1>1, <1>3, <2>2, NextStepIs, ZenonT(60) DEF ToStep, Spots
    <3>2. WellMade(j)
      BY <1>2, <1>3, <3>1 DEF WellMade, Stepped
    <3>3. Underway(j)'
      BY <1>2, <3>1 DEF Underway, ReadStill, HalfWay, CopyKept, Stepped
    <3> QED  BY <1>1, <1>2, <1>3, <1>7, <1>8, <3>1, <3>2, <3>3, WentOn DEF Stepped
  <2> QED  BY <2>1, <2>2 DEF PurgeFiles
<1> QED  BY <1>2, <1>7, <1>8, <1>9, <1>10, <1>11, StepKept

LEMMA PurgeDirectoriesKept ==
  ASSUME IInv, NoteCrossed, NEW r \in Requests, PurgeDirectories(r)
  PROVE  Kept
<1>1. /\ Busy(r) /\ Now(r).op = "purge" /\ Going /\ UNCHANGED <<files, disk>> /\ Grows /\ Answer(r)
      /\ ~Half(r) /\ \A e \in DirIds : ~Leaving(r, e)
  BY AtIs, GrowsIs DEF PurgeDirectories, Half, Leaving
<1>2. Tree /\ Queues /\ Region(r) = Paths
  BY <1>1, CallIs, InvIs
<1>3. PICK S \in SUBSET DirIds : dirs' = [d \in DirIds |-> IF d \in S THEN None ELSE dirs[d]]
  BY DEF PurgeDirectories
<1>4. \A d \in DirIds : dirs'[d] = IF d \in S THEN None ELSE dirs[d]
  BY <1>3
<1>5. Tree'
  <2>1. dirs' \in [DirIds -> DirRows \cup {None}] /\ DOMAIN dirs' = DirIds
    BY <1>2, <1>3 DEF Tree, DirTable
  <2>2. DirTable'
    BY <1>2, <1>4, <2>1 DEF Tree, DirTable, OnePerPath
  <2> QED  BY <1>1, <1>2, <2>2 DEF Tree, FileTable, DiskOK, InFolders, OnePerPath
<1>6. Touches(Region(r))
  BY <1>2, <1>5, TouchesAll
<1>7. Queues' /\ (\A s \in Requests \ {r} : req'[s] = req[s]) /\ Rest(r)
  BY <1>1, Answered
<1>8. \A d \in DirIds : dirs'[d] # None => dirs'[d] = dirs[d]
  BY <1>4
<1> QED  BY <1>1, <1>5, <1>6, <1>7, <1>8, StepKept

(***************************************************************************)
(* The move of a folder.                                                   *)
(***************************************************************************)
\* Nobody else is at what lies near the paths of a request.
LEMMA NobodyElse ==
  ASSUME IInv, calm, NEW r \in Requests, NEW y \in Region(r), NEW x \in Paths, Related(y, x)
  PROVE  /\ \A s \in Requests \ {r} : Half(s) => x \notin Below[Now(s).from]
         /\ \A s \in Requests \ {r} : \A d \in DirIds :
              dirs[d] # None /\ dirs[d].path = x => ~Leaving(s, d)
<1>1. Tree /\ Queues /\ Calls /\ Region(r) \subseteq Paths
  BY InvIs, RegionIs
<1>2. ASSUME NEW s \in Requests \ {r}, Busy(s), NEW z \in Paths, z \in Reach(Now(s))
      PROVE  ~Related(y, z)
  <2>1. Now(s) \in Work(s)
    BY <1>1, <1>2, QueueIs
  <2>2. PICK i \in Work(r) : y \in Reach(i)
    BY DEF Region
  <2>3. Separate(Reach(i), Reach(Now(s)))
    BY <1>1, <2>1, <2>2 DEF Calls, Apart
  <2> QED  BY <1>2, <2>2, <2>3 DEF Separate
<1>3. ASSUME NEW s \in Requests \ {r}, Half(s)
      PROVE  x \notin Below[Now(s).from]
  <2>1. Busy(s) /\ Now(s).op = "movedir" /\ Now(s).step # "start"
    BY <1>3 DEF Half, At, Now
  <2>2. Now(s) \in Items /\ WellMade(Now(s))
    BY <1>1, <2>1, QueueIs
  <2>3. Now(s).from \in Paths
    BY <2>1, <2>2 DEF WellMade
  <2>4. Now(s).from \in Reach(Now(s))
    BY <1>1, <2>2, <2>3, ReachIs DEF Tree
  <2>5. ~Related(y, Now(s).from)
    BY <1>2, <2>1, <2>3, <2>4
  <2> QED  BY <1>1, <2>3, <2>5, RelatedIs, RelatedBelow
<1>4. ASSUME NEW s \in Requests \ {r}, NEW d \in DirIds, dirs[d] # None, dirs[d].path = x, Leaving(s, d)
      PROVE  FALSE
  <2>1. CASE Half(s) /\ x \in Below[Now(s).from]
    BY <1>3, <2>1
  <2>2. CASE Busy(s) /\ Now(s).id = d
    <3>1. Now(s) \in Items
      BY <1>1, <2>2, QueueIs
    <3>2. x \in Reach(Now(s))
      BY <1>1, <1>4, <2>2, <3>1, ReachIs DEF Tree
    <3> QED  BY <1>2, <2>2, <3>2
  <2> QED  BY <1>4, <2>1, <2>2 DEF Leaving, Half, At
<1> QED  BY <1>3, <1>4

\* So a file that no one moves is where its row says, and a folder too.
LEMMA NearIsThere ==
  ASSUME IInv, calm, NEW r \in Requests, NEW y \in Region(r), NEW x \in Paths, Related(y, x)
  PROVE  /\ \A f \in FileIds \ crossed :
              files[f] # None /\ files[f].path = x /\ ~(Half(r) /\ x \in Below[Now(r).from])
                => disk[x] = files[f].content
         /\ faults = 0 => \A d \in DirIds \ crossed :
              dirs[d] # None /\ ~dirs[d].trashed /\ dirs[d].path = x /\ ~Leaving(r, d)
                => disk[x] = Folder
<1>1. FilesHold /\ FoldersHold
  BY InvIs
<1>2. \A f \in FileIds : files[f] # None /\ files[f].path = x /\ Moving(f) =>
        Half(r) /\ x \in Below[Now(r).from]
  BY NobodyElse DEF Moving, Half
<1>3. \A d \in DirIds : dirs[d] # None /\ dirs[d].path = x => \A s \in Requests : Leaving(s, d) => s = r
  BY NobodyElse
<1> QED  BY <1>1, <1>2, <1>3 DEF FilesHold, FoldersHold

LEMMA MoveDiskKept ==
  ASSUME IInv, NoteCrossed, NEW r \in Requests, MoveDisk(r)
  PROVE  Kept
<1>1. PICK i, p, t : i = Now(r) /\ p = i.from /\ t = i.to
  OBVIOUS
<1>2. /\ Busy(r) /\ i.op = "movedir" /\ i.step = "disk" /\ Going /\ UNCHANGED tables /\ Grows
      /\ ~Half(r) /\ (\A e \in DirIds : ~Leaving(r, e)) /\ Fits(Held, p, t)
      /\ dirs' = dirs /\ files' = files
  BY <1>1, AtIs, GrowsIs DEF MoveDisk, Half, Leaving, tables
<1>3. /\ i \in Items /\ WellMade(i) /\ p \in Region(r) \cup {Root} /\ t \in Region(r) \cup {Root}
      /\ Tree /\ Queues /\ Region(r) \subseteq Paths
      /\ calm => HasRow(i) /\ Underway(i)
  BY <1>1, <1>2, CallIs, InvIs
<1>4. /\ p \in Paths /\ t \in Paths /\ i.id \in DirIds /\ p \in Region(r) /\ t \in Region(r)
      /\ t \in Above[t] /\ p \in Below[p] /\ t \in Below[t]
  BY <1>1, <1>2, <1>3, PathsAre, BelowOrder DEF WellMade
<1>5. CASE disk' = NotMoved(t) /\ Answer(r)
  <2>1. Parent(t) \in Spots /\ Above[Parent(t)] = Above[t] \ {t}
    BY <1>4, ParentIs
  <2>2. \A q \in Above[Parent(t)] : \E y \in Region(r) : q \in Above[y]
    BY <1>4, <2>1
  <2>3. disk' = disk \/ (CanMkdirAll(Parent(t)) /\ disk' = MkdirAll(Parent(t)))
    BY <1>5 DEF NotMoved
  <2> QED  BY <1>2, <1>5, <2>1, <2>2, <2>3, Answered, MakingKept
<1>6. CASE CanMove(p, t) /\ disk' = Moved(p, t) /\ ToStep(r, "row")
  <2>1. /\ DiskOK' /\ disk[p] # Absent
        /\ p \notin Below[t] /\ t \notin Below[p]
        /\ \A q \in Below[t] \ {t} : disk[q] = Absent
        /\ \A q \in Below[p] : disk'[q] = Absent
        /\ \A q \in Below[p] : Rebased(q, p, t) \in Paths => disk'[Rebased(q, p, t)] = disk[q]
        /\ disk'[t] = disk[p]
        /\ \A q \in Above[p] \ {p} : disk'[q] = Folder
        /\ \A q \in Paths \ (Below[p] \cup Below[t]) : disk'[q] = disk[q] \/
             (disk[q] = Absent /\ disk'[q] = Folder /\ q \in Above[t])
    BY <1>3, <1>4, <1>6, MovedIs DEF Tree
  <2>2. Tree' /\ RowsStay
    BY <1>2, <1>3, <2>1 DEF Tree, FileTable, DirTable, OnePerPath, RowsStay
  <2>3. Touches(Region(r))
    BY <1>2, <1>3, <1>4, <2>1, DiskStepIs DEF Touches, DirsStep, FilesStep
  <2>4. calm => dirs[i.id].path = p /\ ~DestinationOccupied(t)
    BY <1>1, <1>2, <1>3 DEF Underway, ReadStill
  <2>5. ASSUME calm, NEW f \in FileIds \ crossed', files[f] # None
        PROVE  /\ files[f].path \in Paths /\ files[f].path \notin Below[t]
               /\ files[f].path \in Below[p] =>
                    /\ Rebased(files[f].path, p, t) \in Paths
                    /\ disk'[Rebased(files[f].path, p, t)] = files[f].content
    <3> DEFINE x == files[f].path
    <3>1. x \in Paths /\ files[f].content \in FileIds /\ f \notin crossed
      BY <1>2, <1>3, <2>5, FileRowIs DEF Tree, Grows, Rows
    <3>2. x \in Below[p] \/ x \in Below[t] => disk[x] = files[f].content
      BY <1>2, <1>4, <2>5, <3>1, RelatedIs, NearIsThere
    <3>3. x \notin Below[t]
      <4>1. x # t
        BY <2>4, <2>5 DEF DestinationOccupied, FilesAt
      <4> QED  BY <2>1, <3>1, <3>2, <4>1, KindsApart
    <3>4. ASSUME x \in Below[p]
          PROVE  Rebased(x, p, t) \in Paths /\ disk'[Rebased(x, p, t)] = files[f].content
      <4>1. x \in Held
        BY <3>1, <3>2, <3>4, KindsApart DEF Held
      <4>2. Rebased(x, p, t) \in Paths
        BY <1>2, <3>4, <4>1 DEF Fits
      <4> QED  BY <2>1, <3>2, <3>4, <4>2
    <3> QED  BY <3>1, <3>3, <3>4
  <2>6. ASSUME calm, faults' = 0, NEW d \in DirIds \ crossed', dirs[d] # None, ~dirs[d].trashed
        PROVE  /\ dirs[d].path \in Paths /\ dirs[d].path \notin Below[t]
               /\ dirs[d].path \in Below[p] =>
                    /\ Rebased(dirs[d].path, p, t) \in Paths
                    /\ disk'[Rebased(dirs[d].path, p, t)] = Folder
    <3> DEFINE x == dirs[d].path
    <3>1. x \in Paths /\ d \notin crossed /\ faults = 0
      BY <1>2, <1>3, <2>6, DirRowIs DEF Tree, Grows, Rows
    <3>2. x \in Below[p] \/ x \in Below[t] => disk[x] = Folder
      BY <1>2, <1>4, <2>6, <3>1, RelatedIs, NearIsThere
    <3>3. x \notin Below[t]
      <4>1. x # t
        BY <2>4, <2>6 DEF DestinationOccupied, DirsAt
      <4> QED  BY <2>1, <3>1, <3>2, <4>1, KindsApart
    <3>4. ASSUME x \in Below[p]
          PROVE  Rebased(x, p, t) \in Paths /\ disk'[Rebased(x, p, t)] = Folder
      <4>1. x \in Held
        BY <3>1, <3>2, <3>4, KindsApart DEF Held
      <4>2. Rebased(x, p, t) \in Paths
        BY <1>2, <3>4, <4>1 DEF Fits
      <4> QED  BY <2>1, <3>2, <3>4, <4>2
    <3> QED  BY <3>1, <3>3, <3>4
  <2>7. calm => Renamed(p, t)'
    BY <1>2, <2>1, <2>5, <2>6 DEF Renamed
  <2>8. PICK j : Continue(r, j) /\ Stepped(j, i, p, t, i.flag, "row")
    BY <1>1, <1>3, <1>6, NextStepIs, ZenonT(60) DEF ToStep, Spots
  <2>9. WellMade(j)
    BY <1>1, <1>2, <1>3, <2>8 DEF WellMade, Stepped
  <2>10. calm => Underway(j)'
    <3>1. DestinationOccupied(t)' = DestinationOccupied(t)
      BY <1>2 DEF DestinationOccupied, FilesAt, DirsAt
    <3> QED  BY <1>2, <2>4, <2>7, <2>8, <3>1 DEF Underway, ReadStill, HalfWay, CopyKept, Stepped
  <2>11. /\ Queues' /\ \A s \in Requests \ {r} : req'[s] = req[s]
         /\ Busy(r)' /\ Now(r)' = j /\ (calm => Rest(r))
    BY <1>1, <1>2, <1>3, <2>2, <2>3, <2>8, <2>9, <2>10, WentOn DEF Stepped
  <2>12. Half(r)' /\ Now(r)'.from = p
    BY <1>2, <2>8, <2>11 DEF Half, At, Now, Stepped
  <2>13. \A d \in DirIds : dirs[d].path \in Below[p] => Leaving(r, d)'
    BY <1>2, <2>12 DEF Leaving, Half, At, Now
  <2>14. calm => \A f \in FileIds \ crossed' : files'[f] # None =>
           \/ Half(r)' /\ files'[f].path \in Below[Now(r)'.from]
           \/ disk[files[f].path] = files[f].content => disk'[files[f].path] = files[f].content
    <3>1. \A f \in FileIds : files[f] # None => files[f].content \in FileIds
      BY <1>3, FileRowIs DEF Tree
    <3> QED  BY <1>2, <2>1, <2>5, <2>12, <3>1, KindsApart
  <2>15. calm /\ faults' = 0 => \A d \in DirIds \ crossed' : dirs'[d] # None /\ ~dirs'[d].trashed =>
           \/ Leaving(r, d)'
           \/ disk[dirs[d].path] = Folder => disk'[dirs[d].path] = Folder
    BY <1>2, <2>1, <2>6, <2>13, KindsApart
  <2> QED  BY <1>2, <2>2, <2>3, <2>11, <2>14, <2>15, StepKept
<1> QED  BY <1>1, <1>5, <1>6 DEF MoveDisk

LEMMA DirRowMoved ==
  ASSUME NEW row \in DirRows, NEW p \in Paths
  PROVE  /\ [row EXCEPT !.path = p] \in DirRows /\ [row EXCEPT !.path = p] # None
         /\ [row EXCEPT !.path = p].path = p /\ [row EXCEPT !.path = p].trashed = row.trashed
<1>1. [row EXCEPT !.path = p] \in DirRows
  BY DEF DirRows
<1> QED  BY <1>1, RowRecords DEF DirRows

LEMMA FileRowMoved ==
  ASSUME NEW row \in FileRows, NEW p \in Paths
  PROVE  /\ [row EXCEPT !.path = p] \in FileRows /\ [row EXCEPT !.path = p] # None
         /\ [row EXCEPT !.path = p].path = p /\ [row EXCEPT !.path = p].trashed = row.trashed
         /\ [row EXCEPT !.path = p].content = row.content
<1>1. [row EXCEPT !.path = p] \in FileRows
  BY DEF FileRows
<1> QED  BY <1>1, RowRecords DEF FileRows

\* What MoveDirectoryTree makes of the tables.
LEMMA RelocatedIs ==
  ASSUME DirTable, FileTable, NEW d \in DirIds, dirs[d] # None, NEW p \in Paths, NEW t \in Paths,
         t \notin Below[p], Fits(RowPaths, p, t),
         dirs' = Relocated([dirs EXCEPT ![d].path = t], p, t), files' = Relocated(files, p, t),
         OnePerPath(dirs'), OnePerPath(files')
  PROVE  /\ DirTable' /\ FileTable' /\ RowsStay
         /\ dirs'[d].path = t /\ dirs'[d].trashed = dirs[d].trashed /\ dirs'[d] # None
         /\ \A e \in DirIds \ {d} :
              \/ dirs'[e] = dirs[e] /\ (dirs[e] # None => dirs[e].path \notin Below[p] \ {p})
              \/ /\ dirs[e] # None /\ dirs[e].path \in Below[p] \ {p} /\ dirs'[e] # None
                 /\ Rebased(dirs[e].path, p, t) \in Paths
                 /\ dirs'[e].path = Rebased(dirs[e].path, p, t) /\ dirs'[e].trashed = dirs[e].trashed
         /\ \A f \in FileIds :
              \/ files'[f] = files[f] /\ (files[f] # None => files[f].path \notin Below[p] \ {p})
              \/ /\ files[f] # None /\ files[f].path \in Below[p] \ {p} /\ files'[f] # None
                 /\ Rebased(files[f].path, p, t) \in Paths
                 /\ files'[f].path = Rebased(files[f].path, p, t) /\ files'[f].content = files[f].content
<1>1. /\ \A e \in DirIds : dirs[e] # None => dirs[e] \in DirRows /\ dirs[e].path \in RowPaths
      /\ \A f \in FileIds : files[f] # None => files[f] \in FileRows /\ files[f].path \in RowPaths
  BY DirRowIs, FileRowIs DEF RowPaths
<1>2. \A q \in RowPaths \cap Below[p] : Rebased(q, p, t) \in Paths
  BY DEF Fits
<1> DEFINE mid == [dirs EXCEPT ![d].path = t]
<1>3. /\ DOMAIN mid = DirIds /\ mid[d] = [dirs[d] EXCEPT !.path = t]
      /\ \A e \in DirIds \ {d} : mid[e] = dirs[e]
  BY DEF DirTable
<1>4. mid[d] \in DirRows /\ mid[d] # None /\ mid[d].path = t /\ mid[d].trashed = dirs[d].trashed
  BY <1>1, <1>3, DirRowMoved
<1>5. dirs' = [e \in DirIds |-> IF mid[e] # None /\ mid[e].path \in Below[p] \ {p}
                                THEN [mid[e] EXCEPT !.path = Rebased(mid[e].path, p, t)] ELSE mid[e]]
  BY <1>3 DEF Relocated
<1> HIDE DEF mid
<1>6. dirs'[d] = mid[d]
  BY <1>4, <1>5
<1>7. ASSUME NEW e \in DirIds \ {d}
      PROVE  \/ dirs'[e] = dirs[e] /\ (dirs[e] # None => dirs[e].path \notin Below[p] \ {p})
             \/ /\ dirs[e] # None /\ dirs[e].path \in Below[p] \ {p} /\ dirs'[e] # None
                /\ Rebased(dirs[e].path, p, t) \in Paths /\ dirs'[e] \in DirRows
                /\ dirs'[e].path = Rebased(dirs[e].path, p, t) /\ dirs'[e].trashed = dirs[e].trashed
  <2>1. CASE dirs[e] # None /\ dirs[e].path \in Below[p] \ {p}
    <3>1. dirs'[e] = [dirs[e] EXCEPT !.path = Rebased(dirs[e].path, p, t)]
      BY <1>3, <1>5, <2>1
    <3>2. Rebased(dirs[e].path, p, t) \in Paths /\ dirs[e] \in DirRows
      BY <1>1, <1>2, <2>1
    <3>3. PICK row, x : row = dirs[e] /\ x = Rebased(dirs[e].path, p, t)
      OBVIOUS
    <3>4. /\ [row EXCEPT !.path = x] \in DirRows /\ [row EXCEPT !.path = x] # None
          /\ [row EXCEPT !.path = x].path = x /\ [row EXCEPT !.path = x].trashed = row.trashed
      BY <3>2, <3>3, DirRowMoved
    <3> QED  BY <2>1, <3>1, <3>2, <3>3, <3>4
  <2>2. CASE ~(dirs[e] # None /\ dirs[e].path \in Below[p] \ {p})
    BY <1>3, <1>5, <2>2
  <2> QED  BY <2>1, <2>2
<1>8. files' = [f \in FileIds |-> IF files[f] # None /\ files[f].path \in Below[p] \ {p}
                                  THEN [files[f] EXCEPT !.path = Rebased(files[f].path, p, t)] ELSE files[f]]
  BY DEF Relocated, FileTable
<1>9. ASSUME NEW f \in FileIds
      PROVE  \/ files'[f] = files[f] /\ (files[f] # None => files[f].path \notin Below[p] \ {p})
             \/ /\ files[f] # None /\ files[f].path \in Below[p] \ {p} /\ files'[f] # None
                /\ Rebased(files[f].path, p, t) \in Paths /\ files'[f] \in FileRows
                /\ files'[f].path = Rebased(files[f].path, p, t) /\ files'[f].content = files[f].content
  <2>1. CASE files[f] # None /\ files[f].path \in Below[p] \ {p}
    <3>1. files'[f] = [files[f] EXCEPT !.path = Rebased(files[f].path, p, t)]
      BY <1>8, <2>1
    <3>2. Rebased(files[f].path, p, t) \in Paths /\ files[f] \in FileRows
      BY <1>1, <1>2, <2>1
    <3> QED  BY <2>1, <3>1, <3>2, FileRowMoved
  <2>2. CASE ~(files[f] # None /\ files[f].path \in Below[p] \ {p})
    BY <1>8, <2>2
  <2> QED  BY <2>1, <2>2
<1>10. DirTable'
  <2>1. \A e \in DirIds : dirs'[e] \in DirRows \cup {None}
    BY <1>4, <1>6, <1>7 DEF DirTable
  <2>2. dirs' \in [DirIds -> DirRows \cup {None}]
    BY <1>5, <2>1
  <2> QED  BY <2>2 DEF DirTable, OnePerPath
<1>11. FileTable'
  <2>1. \A f \in FileIds : files'[f] \in FileRows \cup {None}
    BY <1>9 DEF FileTable
  <2>2. files' \in [FileIds -> FileRows \cup {None}]
    BY <1>8, <2>1
  <2>3. \A f \in FileIds : files'[f] # None => files'[f].content # Torn
    BY <1>9 DEF FileTable
  <2> QED  BY <2>2, <2>3 DEF FileTable, OnePerPath
<1>12. RowsStay
  BY <1>4, <1>6, <1>7, <1>9 DEF RowsStay
<1> QED  BY <1>4, <1>6, <1>7, <1>9, <1>10, <1>11, <1>12

LEMMA MoveDirectoryTreeKept ==
  ASSUME IInv, NoteCrossed, NEW r \in Requests, MoveDirectoryTree(r)
  PROVE  Kept
<1>1. PICK i, d, p, t : i = Now(r) /\ d = i.id /\ p = i.from /\ t = i.to
  OBVIOUS
<1>2. /\ Busy(r) /\ i.op = "movedir" /\ i.step = "row" /\ Going /\ disk' = disk /\ Grows
      /\ At(r, "movedir", "row") /\ Half(r) /\ Fits(RowPaths, p, t)
  BY <1>1, AtIs, GrowsIs DEF MoveDirectoryTree, Half
<1>3. /\ i \in Items /\ WellMade(i) /\ p \in Region(r) \cup {Root} /\ t \in Region(r) \cup {Root}
      /\ Tree /\ Queues /\ Noted /\ Region(r) \subseteq Paths
      /\ calm => HasRow(i) /\ Underway(i)
  BY <1>1, <1>2, CallIs, InvIs
<1>4. /\ p \in Paths /\ t \in Paths /\ d \in DirIds /\ p \in Region(r) /\ t \in Region(r)
      /\ p \in Below[p] /\ t \in Below[t] /\ t \notin Below[p]
  BY <1>1, <1>2, <1>3, PathsAre, BelowOrder DEF WellMade
<1>5. CASE UNCHANGED tables /\ ToStep(r, "undo")
  BY <1>2, <1>5, ToUndoKept DEF tables
<1>6. ASSUME dirs[d] # None, dirs' = Relocated([dirs EXCEPT ![d].path = t], p, t),
             files' = Relocated(files, p, t), OnePerPath(dirs'), OnePerPath(files'), Then(r, <<>>)
      PROVE  Kept
  <2>1. /\ DirTable' /\ FileTable' /\ RowsStay
        /\ dirs'[d].path = t /\ dirs'[d].trashed = dirs[d].trashed /\ dirs'[d] # None
        /\ \A e \in DirIds \ {d} :
             \/ dirs'[e] = dirs[e] /\ (dirs[e] # None => dirs[e].path \notin Below[p] \ {p})
             \/ /\ dirs[e] # None /\ dirs[e].path \in Below[p] \ {p} /\ dirs'[e] # None
                /\ Rebased(dirs[e].path, p, t) \in Paths
                /\ dirs'[e].path = Rebased(dirs[e].path, p, t) /\ dirs'[e].trashed = dirs[e].trashed
        /\ \A f \in FileIds :
             \/ files'[f] = files[f] /\ (files[f] # None => files[f].path \notin Below[p] \ {p})
             \/ /\ files[f] # None /\ files[f].path \in Below[p] \ {p} /\ files'[f] # None
                /\ Rebased(files[f].path, p, t) \in Paths
                /\ files'[f].path = Rebased(files[f].path, p, t) /\ files'[f].content = files[f].content
    BY <1>2, <1>3, <1>4, <1>6, RelocatedIs DEF Tree
  <2>2. Tree'
    BY <1>2, <1>3, <2>1 DEF Tree, DiskOK, InFolders
  <2>3. calm => dirs[d].path = p /\ Renamed(p, t)
    BY <1>1, <1>2, <1>3 DEF Underway, ReadStill, HalfWay
  <2>4. \A q \in Below[p] : Rebased(q, p, t) \in Paths => Rebased(q, p, t) \in Below[t]
    BY <1>4, RebasedBack
  <2>5. calm => DirsStep(Region(r))
    BY <1>4, <2>1, <2>3, <2>4 DEF DirsStep
  <2>6. FilesStep(Region(r))
    BY <1>4, <2>1, <2>4 DEF FilesStep
  <2>7. calm => Touches(Region(r))
    BY <1>2, <2>5, <2>6 DEF Touches, DiskStep
  <2>8. /\ Queues' /\ \A s \in Requests \ {r} : req'[s] = req[s]
        /\ calm => Rest(r)
    BY <1>1, <1>2, <1>6, <2>1, <2>2, <2>7, Finished
  <2>9. ASSUME calm, NEW f \in FileIds \ crossed', files'[f] # None
        PROVE  \/ disk'[files'[f].path] = files'[f].content
               \/ /\ files[f] # None /\ files'[f] = files[f]
                  /\ ~(Half(r) /\ files[f].path \in Below[Now(r).from])
    <3>1. files[f] # None /\ f \notin crossed
      BY <1>2, <2>1, <2>9 DEF Grows, Rows
    <3>2. files[f].path # p
      <4>1. SUFFICES ASSUME files[f].path = p PROVE FALSE
        OBVIOUS
      <4>2. d \in DirsAt(files[f].path)
        BY <1>4, <1>6, <2>3, <2>9, <4>1 DEF DirsAt
      <4>3. f \in CrossedFiles
        BY <3>1, <4>2 DEF CrossedFiles
      <4> QED  BY <1>3, <3>1, <4>3 DEF Noted
    <3>3. CASE files[f].path \in Below[p]
      <4>1. disk[Rebased(files[f].path, p, t)] = files[f].content
        BY <2>3, <2>9, <3>1, <3>3 DEF Renamed
      <4>2. files'[f].path = Rebased(files[f].path, p, t) /\ files'[f].content = files[f].content
        BY <2>1, <3>1, <3>2, <3>3
      <4> QED  BY <1>2, <4>1, <4>2
    <3>4. CASE files[f].path \notin Below[p]
      BY <1>1, <2>1, <3>1, <3>4
    <3> QED  BY <3>3, <3>4
  <2>10. ASSUME calm, faults' = 0, NEW e \in DirIds \ crossed', dirs'[e] # None, ~dirs'[e].trashed
         PROVE  \/ disk'[dirs'[e].path] = Folder
                \/ dirs'[e] = dirs[e] /\ ~Leaving(r, e)
    <3>1. dirs[e] # None /\ e \notin crossed /\ faults = 0 /\ ~dirs[e].trashed
      BY <1>2, <1>6, <2>1, <2>10 DEF Grows, Rows
    <3>2. CASE dirs[e].path \in Below[p]
      <4>1. disk[Rebased(dirs[e].path, p, t)] = Folder
        BY <2>3, <2>10, <3>1, <3>2 DEF Renamed
      <4>2. CASE e = d
        <5>1. Rebased(p, p, t) = t
          <6>1. Rebased(p, p, t) \in Paths
            BY <1>4, <2>3, <2>10, <3>1, <3>2, <4>2 DEF Renamed
          <6> QED  BY <1>4, <6>1, RebasedBack
        <5> QED  BY <1>2, <2>1, <2>3, <2>10, <4>1, <4>2, <5>1
      <4>3. CASE e # d
        <5>1. dirs[e].path # p
          BY <1>3, <1>4, <1>6, <2>3, <2>10, <3>1, <4>3 DEF Tree, DirTable, OnePerPath
        <5>2. dirs'[e].path = Rebased(dirs[e].path, p, t)
          BY <2>1, <3>1, <3>2, <4>3, <5>1
        <5> QED  BY <1>2, <4>1, <5>2
      <4> QED  BY <4>2, <4>3
    <3>3. CASE dirs[e].path \notin Below[p]
      <4>1. e # d
        BY <1>4, <2>3, <2>10, <3>3
      <4>2. ~Leaving(r, e)
        BY <1>1, <1>2, <3>3 DEF Leaving, At, Now
      <4> QED  BY <2>1, <3>3, <4>1, <4>2
    <3> QED  BY <3>2, <3>3
  <2> QED  BY <1>2, <2>2, <2>7, <2>8, <2>9, <2>10, StepKept
<1> QED  BY <1>1, <1>5, <1>6 DEF MoveDirectoryTree

LEMMA MoveUndoKept ==
  ASSUME IInv, NoteCrossed, NEW r \in Requests, MoveUndo(r)
  PROVE  Kept
<1>1. PICK i, p, t : i = Now(r) /\ p = i.from /\ t = i.to
  OBVIOUS
<1>2. /\ Busy(r) /\ i.op = "movedir" /\ i.step = "undo" /\ Going /\ UNCHANGED tables /\ Grows
      /\ dirs' = dirs /\ files' = files /\ Half(r) /\ Answer(r)
      /\ disk' = IF CanMove(t, p) THEN Moved(t, p) ELSE NotMoved(p)
  BY <1>1, AtIs, GrowsIs DEF MoveUndo, Half, tables
<1>3. /\ i \in Items /\ WellMade(i) /\ p \in Region(r) \cup {Root} /\ t \in Region(r) \cup {Root}
      /\ Tree /\ Queues /\ Region(r) \subseteq Paths
      /\ calm => HasRow(i) /\ Underway(i)
  BY <1>1, <1>2, CallIs, InvIs
<1>4. /\ p \in Paths /\ t \in Paths /\ p \in Region(r) /\ t \in Region(r)
      /\ p \in Below[p] /\ t \in Below[t] /\ t \notin Below[p]
      /\ Parent(p) \in Spots /\ Above[Parent(p)] = Above[p] \ {p}
  BY <1>1, <1>2, <1>3, PathsAre, BelowOrder, ParentIs DEF WellMade
<1>5. Queues' /\ (\A s \in Requests \ {r} : req'[s] = req[s]) /\ Rest(r)
  BY <1>2, Answered
<1>6. CASE ~CanMove(t, p)
  <2>1. disk' = disk \/ (CanMkdirAll(Parent(p)) /\ disk' = MkdirAll(Parent(p)))
    BY <1>2, <1>6 DEF NotMoved
  <2>2. Tree'
    BY <1>2, <1>3, <1>4, <2>1, MadeIs
  <2>3. ~calm
    <3>1. SUFFICES ASSUME calm PROVE FALSE
      OBVIOUS
    <3>2. Renamed(p, t)
      BY <1>1, <1>2, <1>3, <3>1 DEF Underway, HalfWay
    <3>3. CanMkdirAll(Parent(p))
      BY <1>4, <3>2, KindsApart DEF Renamed, CanMkdirAll
    <3>4. disk[p] = Absent /\ disk[t] # Absent /\ p \notin Below[t]
      BY <1>4, <3>2 DEF Renamed
    <3> QED  BY <1>6, <3>3, <3>4, KindsApart DEF CanMove
  <2> QED  BY <1>2, <1>5, <2>2, <2>3, StepKept
<1>7. CASE CanMove(t, p)
  <2>1. /\ DiskOK' /\ p \notin Below[t] /\ t \notin Below[p]
        /\ \A q \in Below[t] : Rebased(q, t, p) \in Paths => disk'[Rebased(q, t, p)] = disk[q]
        /\ \A q \in Paths \ (Below[t] \cup Below[p]) : disk'[q] = disk[q] \/
             (disk[q] = Absent /\ disk'[q] = Folder /\ q \in Above[p])
    BY <1>2, <1>3, <1>4, <1>7, MovedIs DEF Tree
  <2>2. Tree' /\ RowsStay
    BY <1>2, <1>3, <2>1 DEF Tree, FileTable, DirTable, OnePerPath, RowsStay
  <2>3. Touches(Region(r))
    BY <1>2, <1>3, <1>4, <2>1, DiskStepIs DEF Touches, DirsStep, FilesStep
  <2>4. calm => Renamed(p, t)
    BY <1>1, <1>2, <1>3 DEF Underway, HalfWay
  <2>5. \A q \in Below[p] : Rebased(q, p, t) \in Paths =>
          /\ Rebased(q, p, t) \in Below[t] /\ Rebased(Rebased(q, p, t), t, p) = q /\ q \in Paths
    BY <1>4, RebasedBack, BelowIs DEF Spots
  <2>6. \A q \in Below[p] : Rebased(q, p, t) \in Paths => disk'[q] = disk[Rebased(q, p, t)]
    BY <2>1, <2>5
  <2>7. ASSUME calm, NEW f \in FileIds \ crossed', files'[f] # None
        PROVE  \/ disk'[files'[f].path] = files'[f].content
               \/ /\ disk[files[f].path] = files[f].content => disk'[files[f].path] = files[f].content
                  /\ ~(Half(r) /\ files[f].path \in Below[Now(r).from])
    <3>1. /\ files[f] # None /\ f \notin crossed /\ files[f].path \in Paths
          /\ files[f].content \in FileIds
      BY <1>2, <1>3, <2>7, FileRowIs DEF Tree, Grows, Rows
    <3>2. /\ files[f].path \notin Below[t]
          /\ files[f].path \in Below[p] =>
               /\ Rebased(files[f].path, p, t) \in Paths
               /\ disk[Rebased(files[f].path, p, t)] = files[f].content
      BY <2>4, <2>7, <3>1 DEF Renamed
    <3>3. CASE files[f].path \in Below[p]
      BY <1>2, <2>6, <3>2, <3>3
    <3>4. CASE files[f].path \notin Below[p]
      BY <1>1, <2>1, <3>1, <3>2, <3>4, KindsApart
    <3> QED  BY <3>3, <3>4
  <2>8. ASSUME calm, faults' = 0, NEW d \in DirIds \ crossed', dirs'[d] # None, ~dirs'[d].trashed
        PROVE  \/ disk'[dirs'[d].path] = Folder
               \/ /\ ~Leaving(r, d)
                  /\ disk[dirs[d].path] = Folder => disk'[dirs[d].path] = Folder
    <3>1. dirs[d] # None /\ d \notin crossed /\ faults = 0 /\ ~dirs[d].trashed /\ dirs[d].path \in Paths
      BY <1>2, <1>3, <2>8, DirRowIs DEF Tree, Grows, Rows
    <3>2. /\ dirs[d].path \notin Below[t]
          /\ dirs[d].path \in Below[p] =>
               /\ Rebased(dirs[d].path, p, t) \in Paths
               /\ disk[Rebased(dirs[d].path, p, t)] = Folder
      BY <2>4, <2>8, <3>1 DEF Renamed
    <3>3. CASE dirs[d].path \in Below[p]
      BY <1>2, <2>6, <3>2, <3>3
    <3>4. CASE dirs[d].path \notin Below[p]
      <4>1. ~Leaving(r, d)
        BY <1>1, <1>2, <3>4 DEF Leaving, At, Now
      <4> QED  BY <2>1, <3>1, <3>2, <3>4, <4>1, KindsApart
    <3> QED  BY <3>3, <3>4
  <2> QED  BY <1>2, <1>5, <2>2, <2>3, <2>7, <2>8, StepKept
<1> QED  BY <1>6, <1>7

LEMMA DirectoryStepKept ==
  ASSUME IInv, NoteCrossed, NEW r \in Requests, DirectoryStep(r)
  PROVE  Kept
BY MkdirCheckKept, MkdirDiskKept, MkdirRowKept, DeleteCheckKept, DeleteDiskKept, SoftDeleteKept,
   EraseCheckKept, EraseDiskKept, EraseRowKept, RestoreCheckKept, RestoreRowKept, RestoreDiskKept,
   MoveCheckKept, MoveDiskKept, MoveDirectoryTreeKept, MoveUndoKept, PurgeFilesKept, PurgeDirectoriesKept
   DEF DirectoryStep

(***************************************************************************)
(* Files.                                                                  *)
(***************************************************************************)
\* A content is stored at a path.
LEMMA StoredIs ==
  ASSUME Tree, dirs' = dirs, NEW p \in Paths, NEW f \in FileIds, NEW c \in FileIds, Stored(p, f, c)
  PROVE  /\ Tree' /\ RowsStay /\ \A S \in SUBSET Paths : p \in S => Touches(S)
         /\ files[f] = None \/ files[f].path = p
         /\ files'[f] # None /\ files'[f].path = p /\ ~files'[f].trashed /\ files'[f].content = c
         /\ \A g \in FileIds \ {f} : files'[g] = files[g]
         /\ \A g \in FileIds : files'[g] # None =>
              \/ disk'[files'[g].path] = files'[g].content
              \/ /\ files[g] # None /\ files'[g] = files[g]
                 /\ disk[files[g].path] = files[g].content => disk'[files[g].path] = files[g].content
         /\ \A d \in DirIds : dirs[d] # None /\ disk[dirs[d].path] = Folder => disk'[dirs[d].path] = Folder
<1>1. DirTable /\ FileTable /\ DiskOK /\ p \in Below[p]
  BY BelowOrder DEF Tree
<1>2. CanPlace(p) /\ disk' = UploadedDisk(p, c) /\ disk[p] # Folder
  BY DEF Stored, CanPlace
<1>3. /\ DiskOK' /\ disk'[p] = c
      /\ \A q \in Paths \ {p} : disk'[q] = disk[q] \/
           (disk[q] = Absent /\ disk'[q] = Folder /\ q \in Above[p])
  BY <1>1, <1>2, UploadedDiskIs
<1>4. PICK row : /\ files' = [files EXCEPT ![f] = row] /\ row \in FileRows
                 /\ row.path = p /\ ~row.trashed /\ row.content = c
                 /\ files[f] = None \/ files[f].path = p
                 /\ \A g \in FileIds \ {f} : files[g] # None => files[g].path # p
  <2>1. PICK row : row = [path |-> p, trashed |-> FALSE, content |-> c]
    OBVIOUS
  <2>2. row \in FileRows /\ row.path = p /\ ~row.trashed /\ row.content = c
    BY <2>1, KindsApart DEF FileRows
  <2>3. files' = [files EXCEPT ![f] = row]
    BY <2>1 DEF Stored
  <2>4. CASE f \in FilesAt(p)
    <3>1. files[f] # None /\ files[f].path = p
      BY <2>4 DEF FilesAt
    <3>2. \A g \in FileIds \ {f} : files[g] # None => files[g].path # p
      BY <1>1, <3>1 DEF FileTable, OnePerPath
    <3> QED  BY <2>2, <2>3, <3>1, <3>2
  <2>5. CASE FilesAt(p) = {} /\ Fresh(f)
    <3>1. files[f] = None /\ \A g \in FileIds \ {f} : files[g] # None => files[g].path # p
      BY <2>5 DEF Fresh, FilesAt
    <3> QED  BY <2>2, <2>3, <3>1
  <2> QED  BY <2>4, <2>5 DEF Stored
<1>5. row # None /\ row.content # Torn
  BY <1>4, RowRecords, KindsApart
<1>6. FileTable' /\ files'[f] = row /\ \A g \in FileIds \ {f} : files'[g] = files[g]
  <2>1. row \in FileRows \cup {None}
    BY <1>4
  <2>2. files' = [files EXCEPT ![f] = row]
    BY <1>4
  <2>3. row # None => row.content # Torn /\
           \A g \in FileIds \ {f} : files[g] # None => files[g].path # row.path
    BY <1>4, <1>5
  <2> QED  BY <1>1, <2>1, <2>2, <2>3, FileWritten
<1>7. Tree'
  BY <1>1, <1>3, <1>6 DEF Tree, DirTable, OnePerPath
<1>8. RowsStay
  BY <1>5, <1>6 DEF RowsStay
<1>9. ASSUME NEW S \in SUBSET Paths, p \in S
      PROVE  Touches(S)
  <2>1. FilesStep(S)
    BY <1>1, <1>4, <1>6, <1>9 DEF FilesStep
  <2>2. DiskStep(S)
    BY <1>1, <1>3, <1>9 DEF DiskStep
  <2> QED  BY <2>1, <2>2 DEF Touches, DirsStep
<1>10. ASSUME NEW g \in FileIds, files'[g] # None
       PROVE  \/ disk'[files'[g].path] = files'[g].content
              \/ /\ files[g] # None /\ files'[g] = files[g]
                 /\ disk[files[g].path] = files[g].content => disk'[files[g].path] = files[g].content
  <2>1. CASE g = f
    BY <1>3, <1>4, <1>6, <2>1
  <2>2. CASE g # f
    <3>1. files'[g] = files[g] /\ files[g] # None /\ files[g].path # p
      BY <1>4, <1>6, <1>10, <2>2
    <3>2. files[g].path \in Paths /\ files[g].content \in FileIds
      BY <1>1, <3>1, FileRowIs
    <3> QED  BY <1>3, <3>1, <3>2, KindsApart
  <2> QED  BY <2>1, <2>2
<1>11. ASSUME NEW d \in DirIds, dirs[d] # None, disk[dirs[d].path] = Folder
       PROVE  disk'[dirs[d].path] = Folder
  <2>1. dirs[d].path \in Paths
    BY <1>1, <1>11, DirRowIs
  <2> QED  BY <1>2, <1>3, <1>11, <2>1
<1> QED  BY <1>4, <1>5, <1>6, <1>7, <1>8, <1>9, <1>10, <1>11

\* A file is moved.
LEMMA MovedFileIs ==
  ASSUME Tree, Noted, Grows, dirs' = dirs, NEW f \in FileIds, NEW t \in Paths, MayMoveFile(f, t),
         CanMove(files[f].path, t), disk' = Moved(files[f].path, t),
         files' = [files EXCEPT ![f].path = t]
  PROVE  /\ Tree' /\ RowsStay
         /\ files[f] # None /\ files[f].path \in Paths
         /\ \A S \in SUBSET Paths : files[f].path \in S /\ t \in S => Touches(S)
         /\ \A g \in FileIds \ crossed' : files'[g] # None =>
              \/ /\ g = f /\ f \notin crossed
                 /\ disk[files[f].path] = files[f].content => disk'[files'[f].path] = files'[f].content
              \/ /\ files[g] # None /\ files'[g] = files[g]
                 /\ disk[files[g].path] = files[g].content => disk'[files[g].path] = files[g].content
         /\ \A d \in DirIds \ crossed' : dirs[d] # None /\ disk[dirs[d].path] = Folder
              => disk'[dirs[d].path] = Folder
<1>1. PICK x, c : x = files[f].path /\ c = files[f].content
  OBVIOUS
<1>2. /\ files[f] # None /\ ~DestinationOccupied(t) /\ CanMove(x, t) /\ disk' = Moved(x, t)
      /\ files' = [files EXCEPT ![f].path = t]
      /\ DirTable /\ FileTable /\ DiskOK
  BY <1>1 DEF MayMoveFile, Tree
<1>3. x \in Paths /\ c \in FileIds /\ files[f] \in FileRows /\ x \in Spots /\ x \in Below[x] /\ t \in Below[t]
  BY <1>1, <1>2, FileRowIs, BelowOrder DEF Spots
<1>4. /\ DiskOK' /\ x \notin Below[t] /\ t \notin Below[x]
      /\ \A q \in Below[t] \ {t} : disk[q] = Absent
      /\ disk'[t] = disk[x]
      /\ \A q \in Paths \ (Below[x] \cup Below[t]) : disk'[q] = disk[q] \/
           (disk[q] = Absent /\ disk'[q] = Folder /\ q \in Above[t])
  BY <1>2, <1>3, MovedIs
<1>5. PICK row : /\ files' = [files EXCEPT ![f] = row] /\ row \in FileRows /\ row # None
                 /\ row.path = t /\ row.content = c
  <2>1. PICK row : row = [files[f] EXCEPT !.path = t]
    OBVIOUS
  <2>2. row \in FileRows /\ row # None /\ row.path = t /\ row.content = c
    BY <1>1, <1>3, <2>1, FileRowMoved
  <2>3. files' = [files EXCEPT ![f] = row]
    BY <1>2, <2>1 DEF FileTable
  <2> QED  BY <2>2, <2>3
<1>6. /\ \A g \in FileIds : files[g] # None => files[g].path # t
      /\ \A d \in DirIds : dirs[d] # None => dirs[d].path # t
  BY <1>2 DEF DestinationOccupied, FilesAt, DirsAt
<1>7. FileTable' /\ files'[f] = row /\ \A g \in FileIds \ {f} : files'[g] = files[g]
  <2>1. row \in FileRows \cup {None} /\ row.content # Torn
    BY <1>3, <1>5, KindsApart
  <2>2. row # None => row.content # Torn /\
           \A g \in FileIds \ {f} : files[g] # None => files[g].path # row.path
    BY <1>5, <1>6, <2>1
  <2>3. files' = [files EXCEPT ![f] = row]
    BY <1>5
  <2> QED  BY <1>2, <2>1, <2>2, <2>3, FileWritten
<1>8. Tree'
  BY <1>2, <1>4, <1>7 DEF Tree, DirTable, OnePerPath
<1>9. RowsStay
  BY <1>5, <1>7 DEF RowsStay
<1>10. ASSUME NEW S \in SUBSET Paths, x \in S, t \in S
       PROVE  Touches(S)
  <2>1. FilesStep(S)
    BY <1>1, <1>3, <1>5, <1>7, <1>10 DEF FilesStep
  <2>2. DiskStep(S)
    BY <1>4, <1>10, DiskStepIs
  <2> QED  BY <2>1, <2>2 DEF Touches, DirsStep
<1>11. \A i \in FileIds \cup DirIds : i \in Rows' /\ i \notin crossed' => i \notin crossed /\ i \notin CrossedFiles \cup CrossedDirs
  BY DEF Grows, Noted
<1>12. f \in FilesAt(x)
  BY <1>1, <1>2 DEF FilesAt
<1>13. ASSUME NEW g \in FileIds \ crossed', files'[g] # None, g # f
       PROVE  /\ files[g] # None /\ files'[g] = files[g]
              /\ disk[files[g].path] = files[g].content => disk'[files[g].path] = files[g].content
  <2>1. files'[g] = files[g] /\ files[g] # None /\ g \in Rows' /\ files[g].path # x /\ files[g].path # t
    BY <1>1, <1>2, <1>6, <1>7, <1>13 DEF Rows, FileTable, OnePerPath
  <2>2. files[g].path \in Paths /\ files[g].content \in FileIds /\ g \notin CrossedFiles
    BY <1>2, <1>11, <1>13, <2>1, FileRowIs
  <2>3. files[g].path \notin Below[x]
    <3>1. files[g].path \in Below[x] => x \in Above[files[g].path] \ {files[g].path}
      BY <1>3, <2>1, <2>2, AboveIs DEF Spots
    <3> QED  BY <1>12, <2>1, <2>2, <3>1 DEF CrossedFiles
  <2> QED  BY <1>4, <2>1, <2>2, <2>3, KindsApart
<1>14. ASSUME NEW d \in DirIds \ crossed', dirs[d] # None, disk[dirs[d].path] = Folder
       PROVE  disk'[dirs[d].path] = Folder
  <2>1. dirs[d].path \in Paths /\ dirs[d].path # t /\ d \in Rows'
    BY <1>2, <1>6, <1>14, DirRowIs DEF Rows
  <2>2. dirs[d].path \notin Below[x]
    <3>1. dirs[d].path \in Below[x] => x \in Above[dirs[d].path]
      BY <1>3, <2>1, AboveIs DEF Spots
    <3> QED  BY <1>11, <1>12, <1>14, <2>1, <3>1 DEF CrossedDirs
  <2> QED  BY <1>4, <1>14, <2>1, <2>2, KindsApart
<1>15. ASSUME f \notin crossed'
       PROVE  f \notin crossed /\ (disk[x] = c => disk'[files'[f].path] = files'[f].content)
  BY <1>4, <1>5, <1>7, <1>11, <1>15 DEF Rows
<1> QED  BY <1>1, <1>2, <1>3, <1>8, <1>9, <1>10, <1>13, <1>14, <1>15

\* The rename is done or refused.
LEMMA MovesFileIs ==
  ASSUME Tree, Noted, Grows, dirs' = dirs, NEW f \in FileIds, NEW t \in Paths, MovesFile(f, t)
  PROVE  /\ Tree' /\ RowsStay
         /\ files[f] # None /\ files[f].path \in Paths
         /\ \A S \in SUBSET Paths : files[f].path \in S /\ t \in S => Touches(S)
         /\ \A g \in FileIds \ crossed' : files'[g] # None =>
              \/ /\ g = f /\ f \notin crossed
                 /\ disk[files[f].path] = files[f].content => disk'[files'[f].path] = files'[f].content
              \/ /\ files[g] # None /\ files'[g] = files[g]
                 /\ disk[files[g].path] = files[g].content => disk'[files[g].path] = files[g].content
         /\ \A d \in DirIds \ crossed' : dirs[d] # None /\ disk[dirs[d].path] = Folder
              => disk'[dirs[d].path] = Folder
<1>1. CASE CanMove(files[f].path, t)
  BY <1>1, MovedFileIs DEF MovesFile
<1>2. CASE ~CanMove(files[f].path, t)
  <2>1. files[f] # None /\ files' = files /\ disk' = NotMoved(t) /\ UNCHANGED tables
    BY <1>2 DEF MovesFile, MayMoveFile, tables
  <2>2. files[f].path \in Paths
    BY <2>1, FileRowIs DEF Tree
  <2>3. /\ Parent(t) \in Spots /\ Above[Parent(t)] \subseteq Above[t]
        /\ disk' = disk \/ (CanMkdirAll(Parent(t)) /\ disk' = MkdirAll(Parent(t)))
    BY <2>1, ParentIs DEF NotMoved
  <2>4. ASSUME NEW S \in SUBSET Paths, t \in S
        PROVE  /\ Tree' /\ RowsStay /\ Touches(S)
               /\ \A g \in FileIds : files[g] # None /\ disk[files[g].path] = files[g].content =>
                    disk'[files[g].path] = files[g].content
               /\ \A q \in Paths : disk[q] = Folder => disk'[q] = Folder
    <3>1. \A q \in Above[Parent(t)] : \E y \in S : q \in Above[y]
      BY <2>3, <2>4
    <3> QED  BY <2>1, <2>3, <3>1, MadeIs
  <2>5. \A d \in DirIds : dirs[d] # None => dirs[d].path \in Paths
    BY DirRowIs DEF Tree
  <2> QED  BY <2>1, <2>2, <2>4, <2>5
<1> QED  BY <1>1, <1>2

\* A request on a file is done at once, by a request that has nothing to do.
LEMMA DirectKept ==
  ASSUME IInv, Grows, NEW r \in Requests, ~Busy(r), NEW S \in SUBSET Paths, Act(S),
         req' = req, dirs' = dirs, Tree', Touches(S),
         calm' => \A f \in FileIds \ crossed' : files'[f] # None =>
           \/ disk'[files'[f].path] = files'[f].content
           \/ /\ files[f] # None /\ files'[f].path = files[f].path
              /\ files'[f].content = files[f].content
              /\ disk[files[f].path] = files[f].content => disk'[files[f].path] = files[f].content,
         \A d \in DirIds \ crossed' : dirs[d] # None /\ disk[dirs[d].path] = Folder
           => disk'[dirs[d].path] = Folder
  PROVE  Kept
<1>1. Tree /\ Queues /\ (calm => Calls /\ FilesHold /\ FoldersHold)
  BY InvIs
<1>2. calm' => calm /\ Unrelated(S)
  BY DEF Act
<1>3. Queues'
  BY <1>1 DEF Queues
<1>4. ~Half(r) /\ (\A d \in DirIds : ~Leaving(r, d)) /\ \A s \in Requests \ {r} : req'[s] = req[s]
  BY DEF Half, Leaving, At
<1>5. calm' => Calls'
  BY <1>1, <1>2, CallsKeptByFiles
<1>6. calm' => FilesHold'
  BY <1>1, <1>2, <1>4, FilesKept
<1>7. calm' => FoldersHold'
  BY <1>1, <1>2, <1>4, FoldersKept
<1> QED  BY <1>3, <1>5, <1>6, <1>7 DEF Kept

LEMMA NotMoving ==
  ASSUME IInv, NEW S \in SUBSET Paths, Unrelated(S), NEW x \in S, NEW s \in Requests, Half(s)
  PROVE  x \notin Below[Now(s).from]
<1>1. PICK i : i = Now(s)
  OBVIOUS
<1>2. Busy(s) /\ i.op = "movedir" /\ i.step # "start"
  BY <1>1, AtIs DEF Half
<1>3. i \in Work(s) /\ i \in Items /\ WellMade(i) /\ Tree
  BY <1>1, <1>2, CallIs, InvIs
<1>4. i.from \in Paths /\ i.from \in Reach(i)
  BY <1>2, <1>3, ReachIs DEF WellMade, Tree
<1>5. ~Related(x, i.from)
  BY <1>3, <1>4, UnrelatedIs DEF Separate
<1> QED  BY <1>1, <1>4, <1>5, RelatedIs

LEMMA UploadFileKept ==
  ASSUME IInv, NoteCrossed, NEW r \in Requests, ~Busy(r), NEW p \in Paths, NEW f \in FileIds,
         UploadFile(p, f)
  PROVE  Kept
<1>1. /\ Act({p}) /\ Stored(p, f, f) /\ dirs' = dirs /\ req' = req
      /\ faults' = faults \/ faults' = faults + 1
  BY DEF UploadFile, NamePasses
<1>2. Grows /\ Tree
  BY <1>1, GrowsIs, InvIs
<1>3. /\ Tree' /\ Touches({p})
      /\ \A g \in FileIds : files'[g] # None =>
           \/ disk'[files'[g].path] = files'[g].content
           \/ /\ files[g] # None /\ files'[g] = files[g]
              /\ disk[files[g].path] = files[g].content => disk'[files[g].path] = files[g].content
      /\ \A d \in DirIds : dirs[d] # None /\ disk[dirs[d].path] = Folder => disk'[dirs[d].path] = Folder
  BY <1>1, <1>2, StoredIs
<1> QED  BY <1>1, <1>2, <1>3, DirectKept

\* A file goes into the trash or comes out of it.
LEMMA FileFlagged ==
  ASSUME Tree, UNCHANGED <<dirs, disk>>, NEW f \in FileIds, files[f] # None, NEW b \in BOOLEAN,
         files' = [files EXCEPT ![f].trashed = b]
  PROVE  /\ Tree' /\ RowsStay /\ files[f].path \in Paths
         /\ \A S \in SUBSET Paths : files[f].path \in S => Touches(S)
         /\ \A g \in FileIds : files'[g] # None =>
              /\ files[g] # None /\ files'[g].path = files[g].path
              /\ files'[g].content = files[g].content /\ (g # f => files'[g] = files[g])
<1>1. DirTable /\ FileTable /\ DiskOK /\ dirs' = dirs /\ disk' = disk
  BY DEF Tree
<1>2. files[f] \in FileRows /\ files[f].path \in Paths /\ files[f].content \in FileIds
  BY <1>1, FileRowIs
<1>3. PICK row : row = [files[f] EXCEPT !.trashed = b]
  OBVIOUS
<1>4. row \in FileRows /\ row.path = files[f].path /\ row.content = files[f].content
  BY <1>2, <1>3 DEF FileRows
<1>5. row # None /\ row.content # Torn
  BY <1>2, <1>4, RowRecords, KindsApart
<1>6. FileTable' /\ files'[f] = row /\ \A g \in FileIds \ {f} : files'[g] = files[g]
  <2>1. files' = [files EXCEPT ![f] = row]
    BY <1>1, <1>3 DEF FileTable
  <2>2. row # None => row.content # Torn /\
           \A g \in FileIds \ {f} : files[g] # None => files[g].path # row.path
    BY <1>1, <1>4, <1>5 DEF FileTable, OnePerPath
  <2>3. row \in FileRows \cup {None}
    BY <1>4
  <2> QED  BY <1>1, <2>1, <2>2, <2>3, FileWritten
<1>7. Tree'
  BY <1>1, <1>6 DEF Tree, DirTable, OnePerPath, DiskOK, InFolders
<1>8. RowsStay
  BY <1>1, <1>5, <1>6 DEF RowsStay
<1>9. ASSUME NEW S \in SUBSET Paths, files[f].path \in S
      PROVE  Touches(S)
  BY <1>1, <1>2, <1>4, <1>6, <1>9, BelowOrder DEF Touches, DirsStep, FilesStep, DiskStep
<1> QED  BY <1>2, <1>4, <1>5, <1>6, <1>7, <1>8, <1>9

LEMMA FlagFileKept ==
  ASSUME IInv, NoteCrossed, NEW r \in Requests, ~Busy(r), NEW f \in FileIds,
         TrashFile(f) \/ RestoreFile(f)
  PROVE  Kept
<1>1. /\ files[f] # None /\ Act({files[f].path}) /\ UNCHANGED <<dirs, disk>>
      /\ req' = req /\ faults' = faults /\ dirs' = dirs /\ disk' = disk
  BY DEF TrashFile, RestoreFile
<1>2. Grows /\ Tree
  BY <1>1, GrowsIs, InvIs
<1>3. PICK b \in BOOLEAN : files' = [files EXCEPT ![f].trashed = b]
  BY DEF TrashFile, RestoreFile
<1>4. /\ Tree' /\ files[f].path \in Paths
      /\ \A S \in SUBSET Paths : files[f].path \in S => Touches(S)
      /\ \A g \in FileIds : files'[g] # None =>
           /\ files[g] # None /\ files'[g].path = files[g].path
           /\ files'[g].content = files[g].content
  BY <1>1, <1>2, <1>3, FileFlagged
<1>5. Touches({files[f].path}) /\ {files[f].path} \in SUBSET Paths
  BY <1>4
<1> QED  BY <1>1, <1>2, <1>4, <1>5, DirectKept

LEMMA EraseFileKept ==
  ASSUME IInv, NoteCrossed, NEW r \in Requests, ~Busy(r), NEW f \in FileIds, EraseFile(f)
  PROVE  Kept
<1>1. PICK x : x = files[f].path
  OBVIOUS
<1>2. /\ files[f] # None /\ CanRemove(x) /\ Act({x}) /\ disk' = Removed(x)
      /\ files' = [files EXCEPT ![f] = None] /\ dirs' = dirs /\ req' = req /\ faults' = faults
  BY <1>1 DEF EraseFile
<1>3. Grows /\ DirTable /\ FileTable /\ DiskOK /\ Noted
  BY <1>2, GrowsIs, InvIs DEF Tree
<1>4. x \in Paths /\ x \in Below[x] /\ x \in Above[x]
  BY <1>1, <1>2, <1>3, FileRowIs, BelowOrder
<1>5. DiskOK' /\ disk'[x] = Absent /\ \A q \in Paths : q # x => disk'[q] = disk[q]
  BY <1>2, <1>3, <1>4, RemovedIs
<1>6. FileTable' /\ files'[f] = None /\ \A g \in FileIds \ {f} : files'[g] = files[g]
  BY <1>2, <1>3, FileWritten
<1>7. Tree'
  BY <1>2, <1>3, <1>5, <1>6 DEF Tree, DirTable, OnePerPath
<1>8. Touches({x})
  BY <1>1, <1>2, <1>4, <1>5, <1>6 DEF Touches, DirsStep, FilesStep, DiskStep
<1>9. ASSUME NEW g \in FileIds, files'[g] # None
      PROVE  /\ files[g] # None /\ files'[g] = files[g]
             /\ disk[files[g].path] = files[g].content => disk'[files[g].path] = files[g].content
  <2>1. g # f /\ files'[g] = files[g] /\ files[g] # None
    BY <1>6, <1>9
  <2>2. files[g].path \in Paths /\ files[g].path # x
    BY <1>1, <1>2, <1>3, <2>1, FileRowIs DEF FileTable, OnePerPath
  <2> QED  BY <1>5, <2>1, <2>2
<1>10. ASSUME NEW d \in DirIds \ crossed', dirs[d] # None, disk[dirs[d].path] = Folder
       PROVE  disk'[dirs[d].path] = Folder
  <2>1. dirs[d].path \in Paths /\ d \in Rows' /\ d \notin crossed
    BY <1>2, <1>3, <1>10, DirRowIs DEF Rows, Grows
  <2>2. dirs[d].path # x
    BY <1>1, <1>2, <1>3, <1>4, <1>10, <2>1 DEF Noted, CrossedDirs, FilesAt
  <2> QED  BY <1>5, <1>10, <2>1, <2>2
<1>11. {x} \in SUBSET Paths
  BY <1>4
<1> QED  BY <1>2, <1>3, <1>7, <1>8, <1>9, <1>10, <1>11, DirectKept

LEMMA MoveFileKept ==
  ASSUME IInv, NoteCrossed, NEW r \in Requests, ~Busy(r), NEW f \in FileIds, NEW t \in Paths,
         MoveFile(f, t)
  PROVE  Kept
<1>1. PICK S : S = {files[f].path, t}
  OBVIOUS
<1>2. MovesFile(f, t) /\ Act(S) /\ dirs' = dirs /\ req' = req /\ faults' = faults
  BY <1>1 DEF MoveFile
<1>3. Grows /\ Tree /\ Noted /\ (calm => FilesHold)
  BY <1>2, GrowsIs, InvIs
<1>4. /\ Tree' /\ files[f] # None /\ files[f].path \in Paths /\ S \in SUBSET Paths
      /\ Touches(S)
      /\ \A g \in FileIds \ crossed' : files'[g] # None =>
           \/ /\ g = f /\ f \notin crossed
              /\ disk[files[f].path] = files[f].content => disk'[files'[f].path] = files'[f].content
           \/ /\ files[g] # None /\ files'[g] = files[g]
              /\ disk[files[g].path] = files[g].content => disk'[files[g].path] = files[g].content
      /\ \A d \in DirIds \ crossed' : dirs[d] # None /\ disk[dirs[d].path] = Folder
           => disk'[dirs[d].path] = Folder
  BY <1>1, <1>2, <1>3, MovesFileIs
<1>5. ASSUME calm', f \notin crossed
      PROVE  disk[files[f].path] = files[f].content
  <2>1. calm /\ Unrelated(S) /\ files[f].path \in S
    BY <1>1, <1>2, <1>5 DEF Act
  <2>2. ~Moving(f)
    BY <1>4, <2>1, NotMoving DEF Moving, Half
  <2> QED  BY <1>3, <1>4, <1>5, <2>1, <2>2 DEF FilesHold
<1> QED  BY <1>2, <1>3, <1>4, <1>5, DirectKept

LEMMA OnFilesKept ==
  ASSUME IInv, NoteCrossed, NEW r \in Requests, ~Busy(r),
         \/ UploadRequest
         \/ \E f \in FileIds : TrashFile(f) \/ EraseFile(f) \/ RestoreFile(f)
         \/ \E t \in Paths : \E f \in FileIds : MoveFile(f, t)
  PROVE  Kept
BY UploadFileKept, FlagFileKept, EraseFileKept, MoveFileKept DEF UploadRequest

(***************************************************************************)
(* The calls of WebDAV.                                                    *)
(***************************************************************************)
\* The elements of a finite set, one after another.
LEMMA SetToSeqIs ==
  ASSUME NEW S, IsFiniteSet(S)
  PROVE  SetToSeq(S) \in Seq(S)
<1>1. PICK n : n = Cardinality(S)
  OBVIOUS
<1>2. n \in Nat /\ ExistsBijection(1..n, S)
  BY <1>1, FS_CardinalityType
<1>3. \E f \in [1..n -> S] : IsInjective(f)
  BY <1>2 DEF ExistsBijection, Bijection, Injection
<1>4. SetToSeq(S) \in [1..n -> S]
  BY <1>1, <1>3 DEF SetToSeq
<1> QED  BY <1>2, <1>4

\* The calls made for the rows of a folder.
LEMMA CallsFinite ==
  ASSUME NEW p \in Paths
  PROVE  /\ IsFiniteSet({Item("file", f, Root, Root) : f \in FilesIn(p)})
         /\ IsFiniteSet({Item("list", d, dirs[d].path, Root) : d \in DirsIn(p)})
<1>1. IsFiniteSet(FilesIn(p)) /\ IsFiniteSet(DirsIn(p))
  BY TreeAssumption, FS_Subset DEF FilesIn, DirsIn
<1>2. ASSUME NEW S, IsFiniteSet(S), NEW F, F = [s \in S |-> F[s]]
      PROVE  IsFiniteSet({F[s] : s \in S})
  <2>1. F \in Surjection(S, {F[s] : s \in S})
    BY <1>2 DEF Surjection
  <2> QED  BY <1>2, <2>1, FS_Surjection
<1>3. PICK F : F = [f \in FilesIn(p) |-> Item("file", f, Root, Root)]
  OBVIOUS
<1>4. PICK D : D = [d \in DirsIn(p) |-> Item("list", d, dirs[d].path, Root)]
  OBVIOUS
<1>5. IsFiniteSet({F[f] : f \in FilesIn(p)}) /\ IsFiniteSet({D[d] : d \in DirsIn(p)})
  BY <1>1, <1>2, <1>3, <1>4
<1>6. /\ {F[f] : f \in FilesIn(p)} = {Item("file", f, Root, Root) : f \in FilesIn(p)}
      /\ {D[d] : d \in DirsIn(p)} = {Item("list", d, dirs[d].path, Root) : d \in DirsIn(p)}
  BY <1>3, <1>4
<1> QED  BY <1>5, <1>6

Says(i, op, id, from, to) ==
  /\ i \in Items /\ i.op = op /\ i.id = id /\ i.from = from /\ i.to = to
  /\ i.step = "start" /\ i.copied = None /\ i.flag = FALSE

LEMMA ItemIs ==
  ASSUME NEW op \in Kinds, NEW id \in DirIds \cup FileIds \cup {None}, NEW from \in Spots, NEW to \in Spots
  PROVE  Says(Item(op, id, from, to), op, id, from, to)
BY DEF Item, Items, Spots, Says

\* A call that waits has nothing to keep.
LEMMA ChoreUnderway ==
  ASSUME NEW i, Chore(i)
  PROVE  Underway(i) /\ Underway(i)'
BY DEF Chore, Waiting, Underway, ReadStill, HalfWay, CopyKept

\* The paths of a call that says its folder, or none.
LEMMA ReachOfRow ==
  ASSUME Tree, NEW i \in Items, HasRow(i), i.op # "purge", i.to = Root,
         i.id \in DirIds \cup FileIds, NEW q \in Paths,
         i.from = Root \/ i.from = q,
         i.id \in DirIds => dirs[i.id].path = q, i.id \in FileIds => files[i.id].path = q
  PROVE  Reach(i) = {q}
BY TreeAssumption, PathsAre DEF Reach, HasRow

LEMMA RemoveTreeKept ==
  ASSUME IInv, NoteCrossed, NEW r \in Requests, RemoveTree(r)
  PROVE  Kept
<1>1. PICK i, p : i = Now(r) /\ p = i.from
  OBVIOUS
<1>2. /\ Busy(r) /\ i.op = "list" /\ i.step = "start" /\ Going /\ UNCHANGED <<tables, disk>> /\ Grows
      /\ dirs' = dirs /\ files' = files /\ ~Half(r) /\ (\A e \in DirIds : ~Leaving(r, e))
  BY <1>1, AtStart, GrowsIs DEF RemoveTree, tables
<1>3. /\ i \in Items /\ WellMade(i) /\ Tree /\ Queues /\ (calm => Calls)
      /\ Region(r) \subseteq Paths /\ p \in Region(r) \cup {Root}
      /\ i.id \in DirIds /\ dirs[i.id] # None => dirs[i.id].path \in Region(r)
      /\ calm => HasRow(i)
  BY <1>1, <1>2, CallIs, InvIs
<1>4. p \in Paths /\ p \in Region(r) /\ i.id \in DirIds
  BY <1>1, <1>2, <1>3, PathsAre DEF WellMade
<1>5. PICK F, D, rm : /\ F = {Item("file", f, Root, Root) : f \in FilesIn(p)}
                      /\ D = {Item("list", d, dirs[d].path, Root) : d \in DirsIn(p)}
                      /\ rm = Item("rmdir", i.id, Root, Root)
  OBVIOUS
<1>6. PICK U : U = F \cup D \cup {rm}
  OBVIOUS
<1>7. PICK work : work = SetToSeq(F) \o SetToSeq(D) \o <<rm>>
  OBVIOUS
<1>8. Then(r, work)
  BY <1>1, <1>5, <1>7 DEF RemoveTree
<1>9. ASSUME NEW j \in U
      PROVE  /\ WellMade(j) /\ Chore(j) /\ j \in Items
             /\ calm => HasRow(j) /\ Within(Region(r), Reach(j))
  <2>1. CASE j \in F
    <3>1. PICK f \in FilesIn(p) : j = Item("file", f, Root, Root)
      BY <1>5, <2>1
    <3>2. f \in FileIds /\ files[f] # None /\ Parent(files[f].path) = p
      BY <3>1 DEF FilesIn
    <3>3. files[f].path \in Paths /\ files[f].path \in Below[p]
      BY <1>3, <3>2, FileRowIs, ParentIs DEF Tree
    <3>4. /\ j \in Items /\ j.op = "file" /\ j.id = f /\ j.from = Root /\ j.to = Root
          /\ j.step = "start" /\ j.copied = None
      <4>1. "file" \in Kinds /\ f \in DirIds \cup FileIds \cup {None} /\ Root \in Spots
        BY <3>2 DEF Kinds, Spots
      <4>2. Says(j, "file", f, Root, Root)
        BY <3>1, <4>1, ItemIs
      <4> QED  BY <4>2 DEF Says
    <3>5. HasRow(j)
      BY <3>2, <3>4, TreeAssumption DEF HasRow
    <3>6. Reach(j) = {files[f].path}
      BY <1>3, <3>2, <3>3, <3>4, <3>5, TreeAssumption, ReachOfRow
    <3>7. WellMade(j) /\ Chore(j)
      BY <3>2, <3>4, TreeAssumption, KindsApart DEF WellMade, Chore, Waiting
    <3> QED  BY <1>4, <3>3, <3>4, <3>5, <3>6, <3>7 DEF Within
  <2>2. CASE j \in D
    <3>1. PICK d \in DirsIn(p) : j = Item("list", d, dirs[d].path, Root)
      BY <1>5, <2>2
    <3>2. d \in DirIds /\ dirs[d] # None /\ Parent(dirs[d].path) = p
      BY <3>1 DEF DirsIn
    <3>3. dirs[d].path \in Paths /\ dirs[d].path \in Below[p]
      BY <1>3, <3>2, DirRowIs, ParentIs DEF Tree
    <3>4. /\ j \in Items /\ j.op = "list" /\ j.id = d /\ j.from = dirs[d].path /\ j.to = Root
          /\ j.step = "start" /\ j.copied = None
      <4>1. /\ "list" \in Kinds /\ d \in DirIds \cup FileIds \cup {None}
            /\ Root \in Spots /\ dirs[d].path \in Spots
        BY <3>2, <3>3 DEF Kinds, Spots
      <4>2. Says(j, "list", d, dirs[d].path, Root)
        BY <3>1, <4>1, ItemIs
      <4> QED  BY <4>2 DEF Says
    <3>5. HasRow(j)
      BY <3>2, <3>4, TreeAssumption DEF HasRow
    <3>6. Reach(j) = {dirs[d].path}
      BY <1>3, <3>2, <3>3, <3>4, <3>5, TreeAssumption, ReachOfRow
    <3>7. WellMade(j) /\ Chore(j)
      BY <3>2, <3>3, <3>4, TreeAssumption, KindsApart DEF WellMade, Chore, Waiting
    <3> QED  BY <1>4, <3>3, <3>4, <3>5, <3>6, <3>7 DEF Within
  <2>3. CASE j = rm
    <3>1. /\ j \in Items /\ j.op = "rmdir" /\ j.id = i.id /\ j.from = Root /\ j.to = Root
          /\ j.step = "start" /\ j.copied = None
      <4>1. "rmdir" \in Kinds /\ i.id \in DirIds \cup FileIds \cup {None} /\ Root \in Spots
        BY <1>4 DEF Kinds, Spots
      <4>2. Says(j, "rmdir", i.id, Root, Root)
        BY <1>5, <2>3, <4>1, ItemIs
      <4> QED  BY <4>2 DEF Says
    <3>2. WellMade(j) /\ Chore(j)
      BY <1>4, <3>1, TreeAssumption, KindsApart DEF WellMade, Chore, Waiting
    <3>3. ASSUME calm
          PROVE  HasRow(j) /\ Within(Region(r), Reach(j))
      <4>1. dirs[i.id] # None /\ HasRow(j)
        BY <1>3, <1>4, <3>1, <3>3 DEF HasRow
      <4>2. dirs[i.id].path \in Paths /\ dirs[i.id].path \in Region(r)
        BY <1>3, <1>4, <4>1, DirRowIs DEF Tree
      <4>3. Reach(j) = {dirs[i.id].path}
        BY <1>3, <1>4, <3>1, <4>1, <4>2, TreeAssumption, ReachOfRow
      <4> QED  BY <4>1, <4>2, <4>3, BelowOrder DEF Within
    <3> QED  BY <3>1, <3>2, <3>3
  <2> QED  BY <1>6, <2>1, <2>2, <2>3
<1>10. work \in Seq(U) /\ work \in Seq(Items) /\ \A k \in 1..Len(work) : work[k] \in U
  <2>1. SetToSeq(F) \in Seq(F) /\ SetToSeq(D) \in Seq(D)
    BY <1>4, <1>5, CallsFinite, SetToSeqIs
  <2>2. SetToSeq(F) \in Seq(U) /\ SetToSeq(D) \in Seq(U) /\ <<rm>> \in Seq(U)
    BY <1>6, <2>1
  <2>3. work \in Seq(U)
    BY <1>7, <2>2
  <2>4. \A k \in 1..Len(work) : work[k] \in U
    BY <2>3
  <2>5. U \subseteq Items
    BY <1>9
  <2> QED  BY <2>3, <2>4, <2>5
<1>11. /\ Queues' /\ \A s \in Requests \ {r} : req'[s] = req[s]
       /\ \A j \in Work(r)' : j \in U \/ j \in Later(r)
  BY <1>1, <1>2, <1>3, <1>8, <1>9, <1>10, ThenIs
<1>12. ASSUME calm, Tree', Touches(Region(r)), RowsStay
       PROVE  Rest(r)
  <2>1. ASSUME NEW j \in U
        PROVE  HasRow(j)' /\ Within(Region(r), Reach(j)') /\ Underway(j)'
    <3>1. HasRow(j)' = HasRow(j) /\ Reach(j)' = Reach(j)
      BY <1>2 DEF HasRow, Reach
    <3> QED  BY <1>9, <1>12, <3>1, ChoreUnderway
  <2> QED  BY <1>1, <1>2, <1>3, <1>11, <1>12, <2>1, LaterKept DEF Rest
<1> QED  BY <1>2, <1>11, <1>12, Quiet

LEMMA DeleteFileKept ==
  ASSUME IInv, NoteCrossed, NEW r \in Requests, DeleteFile(r)
  PROVE  Kept
<1>1. PICK f : f = Now(r).id
  OBVIOUS
<1>2. /\ Busy(r) /\ Now(r).op = "file" /\ Now(r).step = "start" /\ Going /\ UNCHANGED <<dirs, disk, faults>>
      /\ Grows /\ ~Half(r) /\ \A e \in DirIds : ~Leaving(r, e)
  BY AtStart, GrowsIs DEF DeleteFile
<1>3. /\ WellMade(Now(r)) /\ Tree /\ Region(r) \subseteq Paths
      /\ f \in FileIds /\ files[f] # None => files[f].path \in Region(r)
  BY <1>1, <1>2, CallIs, InvIs
<1>4. f \in FileIds
  BY <1>1, <1>2, <1>3 DEF WellMade
<1>5. CASE files' = files /\ Answer(r)
  BY <1>2, <1>5, QuietAnswer DEF tables
<1>6. CASE files[f] # None /\ files' = [files EXCEPT ![f].trashed = TRUE] /\ Then(r, <<>>)
  <2>1. /\ Tree' /\ RowsStay /\ Touches(Region(r))
        /\ \A g \in FileIds : files'[g] # None =>
             /\ files[g] # None /\ files'[g].path = files[g].path
             /\ files'[g].content = files[g].content
    BY <1>2, <1>3, <1>4, <1>6, FileFlagged
  <2>2. Queues' /\ (\A s \in Requests \ {r} : req'[s] = req[s]) /\ (calm => Rest(r))
    BY <1>2, <1>6, <2>1, Finished
  <2> QED  BY <1>2, <2>1, <2>2, StepKept
<1> QED  BY <1>1, <1>5, <1>6 DEF DeleteFile

LEMMA UploadBeginsKept ==
  ASSUME IInv, NoteCrossed, NEW r \in Requests, UploadBegins(r)
  PROVE  Kept
<1>1. PICK i : i = Now(r)
  OBVIOUS
<1>2. Busy(r) /\ i.op = "put" /\ i.step = "start" /\ Going /\ UNCHANGED <<tables, disk>>
  BY <1>1, AtStart DEF UploadBegins
<1>3. (faults' = faults \/ faults' = faults + 1) /\ (ToStep(r, "disk") \/ Answer(r))
  BY DEF UploadBegins, NamePasses
<1> QED  BY <1>1, <1>2, <1>3, NameChecked

LEMMA BodyBreaksKept ==
  ASSUME IInv, NoteCrossed, NEW r \in Requests, BodyBreaks(r)
  PROVE  Kept
<1>1. PICK i : i = Now(r)
  OBVIOUS
<1>2. /\ Busy(r) /\ i.op = "put" /\ i.step = "disk" /\ Going /\ UNCHANGED <<tables, disk>>
      /\ Grows /\ ~Half(r) /\ (\A e \in DirIds : ~Leaving(r, e))
  BY <1>1, AtIs, GrowsIs DEF BodyBreaks, Half, Leaving
<1>3. i \in Items /\ WellMade(i) /\ i.from \in Region(r) \cup {Root} /\ i.to \in Region(r) \cup {Root}
  BY <1>1, <1>2, CallIs
<1>4. PICK j : j = [i EXCEPT !.flag = TRUE] /\ Continue(r, j)
  BY <1>1 DEF BodyBreaks
<1>5. Stepped(j, i, i.from, i.to, TRUE, "disk")
  BY <1>2, <1>3, <1>4 DEF Stepped, Items
<1>6. WellMade(j)
  BY <1>2, <1>3, <1>5 DEF WellMade, Stepped
<1>7. Underway(j)'
  BY <1>2, <1>5 DEF Underway, ReadStill, HalfWay, CopyKept, Stepped
<1>8. /\ Queues' /\ \A s \in Requests \ {r} : req'[s] = req[s]
      /\ calm /\ Tree' /\ Touches(Region(r)) /\ RowsStay => Rest(r)
  BY <1>1, <1>2, <1>3, <1>4, <1>5, <1>6, <1>7, WentOn DEF Stepped
<1> QED  BY <1>2, <1>8, Quiet

\* Only a body that has not broken off is stored.
LEMMA CloseUploadKept ==
  ASSUME IInv, NoteCrossed, NEW r \in Requests, CloseUpload(r)
  PROVE  Kept
<1>1. PICK p : p = Now(r).to
  OBVIOUS
<1>2. /\ Busy(r) /\ Now(r).op = "put" /\ Now(r).step = "disk" /\ Going /\ UNCHANGED <<dirs, faults>>
      /\ Grows /\ ~Half(r) /\ (\A e \in DirIds : ~Leaving(r, e)) /\ Answer(r)
  BY AtIs, GrowsIs DEF CloseUpload, Half, Leaving
<1>3. WellMade(Now(r)) /\ Tree /\ Region(r) \subseteq Paths /\ p \in Region(r) \cup {Root}
  BY <1>1, <1>2, CallIs, InvIs
<1>4. p \in Paths /\ p \in Region(r)
  BY <1>1, <1>2, <1>3, PathsAre DEF WellMade
<1>5. CASE UNCHANGED <<files, disk>>
  <2>1. UNCHANGED <<tables, disk>>
    BY <1>2, <1>5 DEF tables
  <2> QED  BY <1>2, <2>1, Answered, Quiet
<1>6. CASE ~Now(r).flag /\ PipeEnds(r) /\ ~UNCHANGED <<files, disk>>
  <2>1. PICK f \in FileIds, c \in FileIds : Stored(p, f, c)
    <3>1. \A c : Received(r, c) = c
      BY <1>2, <1>3, <1>6 DEF WellMade, Received
    <3> QED  BY <1>1, <1>6, <3>1 DEF PipeEnds
  <2>2. /\ Tree' /\ Touches(Region(r))
        /\ \A g \in FileIds : files'[g] # None =>
             \/ disk'[files'[g].path] = files'[g].content
             \/ /\ files[g] # None /\ files'[g] = files[g]
                /\ disk[files[g].path] = files[g].content => disk'[files[g].path] = files[g].content
        /\ \A d \in DirIds : dirs[d] # None /\ disk[dirs[d].path] = Folder => disk'[dirs[d].path] = Folder
    BY <1>2, <1>3, <1>4, <2>1, StoredIs
  <2>3. Queues' /\ (\A s \in Requests \ {r} : req'[s] = req[s]) /\ Rest(r)
    BY <1>2, Answered
  <2> QED  BY <1>2, <2>2, <2>3, StepKept
<1> QED  BY <1>5, <1>6 DEF CloseUpload

\* What a MOVE over a file leaves to do is the removal of its source.
LEMMA MoveOverFileKept ==
  ASSUME IInv, NoteCrossed, NEW r \in Requests, MoveOverFile(r)
  PROVE  Kept
<1>1. PICK i, t : i = Now(r) /\ t = i.to
  OBVIOUS
<1>2. /\ Busy(r) /\ i.op = "over" /\ i.step = "start" /\ Going /\ dirs' = dirs
      /\ Grows /\ ~Half(r) /\ \A e \in DirIds : ~Leaving(r, e)
  BY <1>1, AtStart, GrowsIs DEF MoveOverFile, NamePasses
<1>3. /\ i \in Items /\ WellMade(i) /\ Tree /\ Queues /\ Region(r) \subseteq Paths
      /\ t \in Region(r) \cup {Root} /\ (calm => HasRow(i) /\ Underway(i) /\ Calls)
  BY <1>1, <1>2, CallIs, InvIs
<1>4. t \in Paths /\ t \in Region(r) /\ i.id \in FileIds /\ i.copied \in FileIds
  BY <1>1, <1>2, <1>3, PathsAre, KindsApart DEF WellMade, Items, Contents
<1>5. CASE UNCHANGED <<files, disk, faults>> /\ Answer(r)
  BY <1>1, <1>2, <1>5, QuietAnswer DEF tables
<1>6. CASE (\E f \in FileIds : Stored(t, f, i.copied)) /\ Then(r, <<>>)
  <2>1. PICK f \in FileIds : Stored(t, f, i.copied)
    BY <1>6
  <2>2. /\ Tree' /\ RowsStay /\ Touches(Region(r))
        /\ files[f] = None \/ files[f].path = t
        /\ files'[f] # None /\ files'[f].path = t /\ ~files'[f].trashed /\ files'[f].content = i.copied
        /\ \A g \in FileIds : files'[g] # None =>
             \/ disk'[files'[g].path] = files'[g].content
             \/ /\ files[g] # None /\ files'[g] = files[g]
                /\ disk[files[g].path] = files[g].content => disk'[files[g].path] = files[g].content
        /\ \A d \in DirIds : dirs[d] # None /\ disk[dirs[d].path] = Folder => disk'[dirs[d].path] = Folder
    BY <1>2, <1>3, <1>4, <2>1, StoredIs
  <2>3. /\ Queues' /\ \A s \in Requests \ {r} : req'[s] = req[s]
        /\ \A j \in Work(r)' : j \in Later(r)
    BY <1>2, <1>6, Finished
  <2>4. ASSUME calm
        PROVE  Rest(r)
    <3>1. f # i.id
      BY <1>1, <1>2, <1>3, <1>4, <2>2, <2>4 DEF Underway, CopyKept, HasRow
    <3>2. ASSUME NEW j \in Later(r)
          PROVE  HasRow(j)' /\ Within(Region(r), Reach(j)') /\ Underway(j)'
      <4>1. j \in Work(r)
        BY <1>1, <1>2, <1>3, LaterIs
      <4>2. /\ j.op = "file" /\ j.step = "start" /\ j.id = i.id /\ j.to = t /\ j.copied = i.copied
        <5>1. PICK k \in DOMAIN req[r] \ {1} : j = req[r][k]
          BY DEF Later
        <5>2. k > 1 /\ Now(r) = req[r][1]
          BY <1>2, <1>3, <5>1, QueueIs
        <5>3. Follows(i, k, j)
          BY <1>1, <1>3, <5>1, <5>2 DEF Queues
        <5> QED  BY <1>1, <1>2, <5>3 DEF Follows, Waiting
      <4>3. HasRow(j)'
        BY <1>3, <2>2, <2>4, <4>1 DEF Calls, Present, HasRow, RowsStay
      <4>4. Within(Region(r), Reach(j)')
        <5>1. /\ j \in Items /\ (j.op = "purge" => Region(r) = Paths)
              /\ j.from \in Region(r) \cup {Root} /\ j.to \in Region(r) \cup {Root}
              /\ j.id \in DirIds /\ dirs[j.id] # None => dirs[j.id].path \in Region(r)
              /\ j.id \in FileIds /\ files[j.id] # None => files[j.id].path \in Region(r)
          BY <1>3, <4>1, RegionIs
        <5>2. \A y \in Region(r) : y \in Below[y]
          BY <1>3, BelowOrder
        <5> QED  BY <1>3, <2>2, <5>1, <5>2, ReachWithin
      <4>5. CopyKept(j)'
        BY <2>2, <3>1, <4>2 DEF CopyKept
      <4> QED  BY <4>2, <4>3, <4>4, <4>5 DEF Underway, ReadStill, HalfWay
    <3> QED  BY <2>3, <3>2 DEF Rest
  <2> QED  BY <1>2, <2>2, <2>3, <2>4, StepKept
<1> QED  BY <1>1, <1>5, <1>6 DEF MoveOverFile

LEMMA MoveOneFileKept ==
  ASSUME IInv, NoteCrossed, NEW r \in Requests, MoveOneFile(r)
  PROVE  Kept
<1>1. PICK f, t : f = Now(r).id /\ t = Now(r).to
  OBVIOUS
<1>2. /\ Busy(r) /\ Now(r).op = "movefile" /\ Now(r).step = "start" /\ Going /\ UNCHANGED <<dirs, faults>>
      /\ Grows /\ ~Half(r) /\ (\A e \in DirIds : ~Leaving(r, e)) /\ Answer(r)
  BY AtStart, GrowsIs DEF MoveOneFile
<1>3. /\ WellMade(Now(r)) /\ Tree /\ Noted /\ Region(r) \subseteq Paths /\ t \in Region(r) \cup {Root}
      /\ f \in FileIds /\ files[f] # None => files[f].path \in Region(r)
  BY <1>1, <1>2, CallIs, InvIs
<1>4. t \in Paths /\ t \in Region(r) /\ f \in FileIds
  BY <1>1, <1>2, <1>3, PathsAre DEF WellMade
<1>5. CASE UNCHANGED <<files, disk>>
  BY <1>2, <1>5, QuietAnswer DEF tables
<1>6. CASE MovesFile(f, t)
  <2>1. /\ Tree' /\ files[f] # None /\ files[f].path \in Paths
        /\ \A S \in SUBSET Paths : files[f].path \in S /\ t \in S => Touches(S)
        /\ \A g \in FileIds \ crossed' : files'[g] # None =>
             \/ /\ g = f /\ f \notin crossed
                /\ disk[files[f].path] = files[f].content => disk'[files'[f].path] = files'[f].content
             \/ /\ files[g] # None /\ files'[g] = files[g]
                /\ disk[files[g].path] = files[g].content => disk'[files[g].path] = files[g].content
        /\ \A d \in DirIds \ crossed' : dirs[d] # None /\ disk[dirs[d].path] = Folder
             => disk'[dirs[d].path] = Folder
    BY <1>2, <1>3, <1>4, <1>6, MovesFileIs
  <2>2. Touches(Region(r)) /\ files[f].path \in Region(r)
    BY <1>3, <1>4, <2>1
  <2>3. calm /\ f \notin crossed => disk[files[f].path] = files[f].content
    BY <1>2, <1>4, <2>1, <2>2, RelatedIs, NearIsThere
  <2>4. Queues' /\ (\A s \in Requests \ {r} : req'[s] = req[s]) /\ Rest(r)
    BY <1>2, Answered
  <2> QED  BY <1>2, <2>1, <2>2, <2>3, <2>4, StepKept
<1> QED  BY <1>1, <1>5, <1>6 DEF MoveOneFile

\* A call about what lies at p, to be made for the name t.
About(j, p, t) ==
  /\ WellMade(j) /\ HasRow(j) /\ j.from = Root /\ j.to = t /\ j.step = "start" /\ j.op # "purge"
  /\ j.id \in DirIds => dirs[j.id].path = p
  /\ j.id \in FileIds => files[j.id].path = p

LEMMA RenamedInto ==
  ASSUME IInv, NoteCrossed, NEW r \in Requests, At(r, "rename", "start"), Going,
         UNCHANGED <<tables, disk, faults>>, NEW work \in Seq(Items), work # <<>>, Then(r, work),
         \A k \in 1..Len(work) : About(work[k], Now(r).from, Now(r).to),
         \A k \in 1..Len(work) : k > 1 => Follows(work[1], k, work[k]),
         CopyKept(work[1])
  PROVE  Kept
<1>1. PICK i, p, t : i = Now(r) /\ p = i.from /\ t = i.to
  OBVIOUS
<1>2. /\ Busy(r) /\ i.op = "rename" /\ Grows /\ dirs' = dirs /\ files' = files
      /\ ~Half(r) /\ \A e \in DirIds : ~Leaving(r, e)
  BY <1>1, AtStart, GrowsIs DEF tables
<1>3. /\ i \in Items /\ WellMade(i) /\ Tree /\ Queues /\ Region(r) \subseteq Paths
      /\ p \in Region(r) \cup {Root} /\ t \in Region(r) \cup {Root} /\ Later(r) = {}
  BY <1>1, <1>2, CallIs, InvIs DEF Waiting
<1>4. p \in Paths /\ p \in Region(r)
  BY <1>1, <1>2, <1>3, PathsAre DEF WellMade
<1>5. \A k \in 1..Len(work) : WellMade(work[k])
  BY DEF About
<1>6. Tail(req[r]) = <<>>
  BY <1>1, <1>2, <1>3, LaterIs DEF Waiting
<1>7. /\ Queues' /\ \A s \in Requests \ {r} : req'[s] = req[s]
      /\ \A j \in Work(r)' : \E k \in 1..Len(work) : j = work[k]
      /\ Busy(r)' => Now(r)' = work[1]
  BY <1>2, <1>3, <1>5, <1>6, ThenIs
<1>8. ASSUME Tree', Touches(Region(r)), NEW j \in Work(r)'
      PROVE  HasRow(j)' /\ Within(Region(r), Reach(j)') /\ ((j = Now(r))' => Underway(j)')
  <2>1. PICK k \in 1..Len(work) : j = work[k]
    BY <1>7, <1>8
  <2>2. About(j, p, t) /\ j \in Items
    BY <1>1, <2>1 DEF About, WellMade
  <2>3. HasRow(j)'
    BY <1>2, <2>2 DEF About, HasRow
  <2>4. Within(Region(r), Reach(j)')
    <3>1. /\ j.op # "purge" /\ j.from \in Region(r) \cup {Root} /\ j.to \in Region(r) \cup {Root}
          /\ j.id \in DirIds => dirs[j.id].path \in Region(r)
          /\ j.id \in FileIds => files[j.id].path \in Region(r)
      BY <1>3, <1>4, <2>2 DEF About
    <3>2. \A y \in Region(r) : y \in Below[y]
      BY <1>3, BelowOrder
    <3> QED  BY <1>3, <1>8, <2>2, <3>1, <3>2, ReachWithin
  <2>5. ASSUME (j = Now(r))'
        PROVE  Underway(j)'
    <3>1. Busy(r)'
      BY <1>8 DEF Work, Busy
    <3>2. j = work[1] /\ j.step = "start"
      BY <1>7, <2>2, <2>5, <3>1 DEF About
    <3>3. CopyKept(j)'
      BY <1>2, <3>2 DEF CopyKept
    <3> QED  BY <3>2, <3>3 DEF Underway, ReadStill, HalfWay
  <2> QED  BY <2>3, <2>4, <2>5
<1> QED  BY <1>2, <1>7, <1>8, Quiet DEF Rest

\* A call made anew for a row at p.
LEMMA AboutIs ==
  ASSUME NEW p \in Paths, NEW t \in Paths, NEW op \in {"movedir", "movefile"},
         NEW id \in DirIds \cup FileIds,
         op = "movedir" => id \in LiveDirsAt(p), op = "movefile" => id \in LiveFilesAt(p)
  PROVE  /\ About(Item(op, id, Root, t), p, t) /\ CopyKept(Item(op, id, Root, t))
         /\ Item(op, id, Root, t) \in Items
<1>1. PICK j : j = Item(op, id, Root, t)
  OBVIOUS
<1>2. Says(j, op, id, Root, t)
  <2>1. op \in Kinds /\ id \in DirIds \cup FileIds \cup {None} /\ Root \in Spots /\ t \in Spots
    BY DEF Kinds, Spots
  <2> QED  BY <1>1, <2>1, ItemIs
<1>3. /\ op = "movedir" => id \in DirIds /\ dirs[id] # None /\ dirs[id].path = p
      /\ op = "movefile" => id \in FileIds /\ files[id] # None /\ files[id].path = p
  BY DEF LiveDirsAt, LiveFilesAt, DirsAt, FilesAt
<1>4. WellMade(j)
  BY <1>2, <1>3, KindsApart DEF Says, WellMade
<1>5. About(j, p, t)
  BY <1>2, <1>3, <1>4, TreeAssumption DEF Says, About, HasRow
<1>6. CopyKept(j)
  BY <1>2 DEF Says, CopyKept
<1> QED  BY <1>1, <1>2, <1>5, <1>6 DEF Says

\* The two calls of a MOVE over a file: the copy, and the removal.
LEMMA CopyIs ==
  ASSUME NEW p \in Paths, NEW t \in Paths, p # t, NEW f \in LiveFilesAt(p), NEW c \in Contents, c # Torn,
         NEW a, a = [Item("over", f, Root, t) EXCEPT !.copied = c],
         NEW b, b = [Item("file", f, Root, t) EXCEPT !.copied = c]
  PROVE  /\ About(a, p, t) /\ About(b, p, t) /\ CopyKept(a) /\ Follows(a, 2, b)
         /\ a \in Items /\ b \in Items
<1>1. f \in FileIds /\ files[f] # None /\ files[f].path = p
  BY DEF LiveFilesAt, FilesAt
<1>2. PICK x, y : x = Item("over", f, Root, t) /\ y = Item("file", f, Root, t)
  OBVIOUS
<1>3. Says(x, "over", f, Root, t) /\ Says(y, "file", f, Root, t)
  <2>1. /\ "over" \in Kinds /\ "file" \in Kinds /\ f \in DirIds \cup FileIds \cup {None}
        /\ Root \in Spots /\ t \in Spots
    BY <1>1 DEF Kinds, Spots
  <2> QED  BY <1>2, <2>1, ItemIs
<1>4. /\ a \in Items /\ a.op = "over" /\ a.id = f /\ a.from = Root /\ a.to = t
      /\ a.step = "start" /\ a.copied = c
  BY <1>2, <1>3 DEF Says, Items
<1>5. /\ b \in Items /\ b.op = "file" /\ b.id = f /\ b.from = Root /\ b.to = t
      /\ b.step = "start" /\ b.copied = c
  BY <1>2, <1>3 DEF Says, Items
<1>6. c # None /\ f \notin DirIds
  BY <1>1, KindsApart, TreeAssumption
<1>7. WellMade(a) /\ WellMade(b)
  BY <1>1, <1>4, <1>5, <1>6 DEF WellMade
<1>8. About(a, p, t) /\ About(b, p, t)
  BY <1>1, <1>4, <1>5, <1>6, <1>7 DEF About, HasRow
<1>9. CopyKept(a) /\ Follows(a, 2, b)
  BY <1>1, <1>4, <1>5 DEF CopyKept, Follows
<1> QED  BY <1>4, <1>5, <1>8, <1>9

LEMMA RenameKept ==
  ASSUME IInv, NoteCrossed, NEW r \in Requests, Rename(r)
  PROVE  Kept
<1>1. PICK i, p, t : i = Now(r) /\ p = i.from /\ t = i.to
  OBVIOUS
<1>2. At(r, "rename", "start") /\ Busy(r) /\ i.op = "rename" /\ i.step = "start" /\ Going /\ UNCHANGED <<tables, disk, faults>>
  BY <1>1, AtStart DEF Rename
<1>3. WellMade(i) /\ Whole
  BY <1>1, <1>2, CallIs DEF IInv, Sound
<1>4. p \in Paths /\ t \in Paths /\ p # t /\ p # Root
  BY <1>1, <1>2, <1>3, PathsAre DEF WellMade
<1>5. CASE Answer(r)
  BY <1>1, <1>2, <1>5, QuietAnswer
<1>6. CASE /\ Exists(p) /\ (i.flag => IsFile(p) /\ disk[p] \in Contents)
           /\ Then(r, Renaming(p, t, i.flag))
  <2>1. CASE i.flag
    <3>1. PICK f : f = FileOf(p) /\ f \in LiveFilesAt(p)
      BY <1>6, <2>1 DEF IsFile, FileOf
    <3>2. PICK a, b : /\ a = [Item("over", f, Root, t) EXCEPT !.copied = disk[p]]
                      /\ b = [Item("file", f, Root, t) EXCEPT !.copied = disk[p]]
      OBVIOUS
    <3>3. disk[p] \in Contents /\ disk[p] # Torn
      BY <1>3, <1>4, <1>6, <2>1 DEF Whole
    <3>4. /\ About(a, p, t) /\ About(b, p, t) /\ CopyKept(a) /\ Follows(a, 2, b)
          /\ a \in Items /\ b \in Items
      BY <1>4, <3>1, <3>2, <3>3, CopyIs
    <3>5. PICK work : work = <<a, b>>
      OBVIOUS
    <3>6. Then(r, work)
      BY <1>6, <2>1, <3>1, <3>2, <3>5 DEF Renaming
    <3>7. /\ work \in Seq(Items) /\ work # <<>> /\ Len(work) = 2
          /\ work[1] = a /\ work[2] = b
      BY <3>4, <3>5
    <3>8. /\ \A k \in 1..Len(work) : About(work[k], p, t)
          /\ \A k \in 1..Len(work) : k > 1 => Follows(work[1], k, work[k])
      <4>1. \A k \in 1..Len(work) : k = 1 \/ k = 2
        BY <3>7
      <4> QED  BY <3>4, <3>7, <4>1
    <3> QED  BY <1>1, <1>2, <3>4, <3>6, <3>7, <3>8, RenamedInto
  <2>2. CASE ~i.flag
    <3>1. PICK a : /\ Renaming(p, t, i.flag) = <<a>>
                   /\ a \in Items /\ About(a, p, t) /\ CopyKept(a)
      <4>1. CASE IsDir(p)
        <5>1. PICK d : d = DirOf(p) /\ d \in LiveDirsAt(p)
          BY <1>4, <4>1 DEF IsDir, DirOf
        <5>2. d \in DirIds \cup FileIds
          BY <5>1 DEF LiveDirsAt, DirsAt
        <5> QED  BY <1>4, <2>2, <4>1, <5>1, <5>2, AboutIs DEF Renaming
      <4>2. CASE ~IsDir(p)
        <5>1. PICK f : f = FileOf(p) /\ f \in LiveFilesAt(p)
          BY <1>6, <4>2 DEF Exists, IsFile, FileOf
        <5>2. f \in DirIds \cup FileIds
          BY <5>1 DEF LiveFilesAt, FilesAt
        <5> QED  BY <1>4, <2>2, <4>2, <5>1, <5>2, AboutIs DEF Renaming
      <4> QED  BY <4>1, <4>2
    <3>2. PICK work : work = <<a>>
      OBVIOUS
    <3>3. work \in Seq(Items) /\ work # <<>> /\ Len(work) = 1 /\ work[1] = a /\ Then(r, work)
      BY <1>6, <3>1, <3>2
    <3>4. /\ \A k \in 1..Len(work) : About(work[k], p, t)
          /\ \A k \in 1..Len(work) : k > 1 => Follows(work[1], k, work[k])
      <4>1. \A k \in 1..Len(work) : k = 1
        BY <3>3
      <4> QED  BY <3>1, <3>3, <4>1
    <3> QED  BY <1>1, <1>2, <3>1, <3>3, <3>4, RenamedInto
  <2> QED  BY <2>1, <2>2
<1> QED  BY <1>1, <1>5, <1>6 DEF Rename

LEMMA DavStepKept ==
  ASSUME IInv, NoteCrossed, NEW r \in Requests, DavStep(r)
  PROVE  Kept
BY UploadBeginsKept, BodyBreaksKept, CloseUploadKept, RemoveTreeKept, DeleteFileKept, RenameKept, MoveOverFileKept,
   MoveOneFileKept DEF DavStep

(***************************************************************************)
(* The requests.                                                           *)
(***************************************************************************)
\* A call that may open a request.
Opens(item) == WellMade(item) /\ HasRow(item) /\ item.step = "start" /\ item.op # "over" /\ item.copied = None

LEMMA SubmitKept ==
  ASSUME IInv, NoteCrossed, NEW r \in Requests, ~Busy(r), NEW item, Opens(item), Submit(r, item)
  PROVE  Kept
<1>1. /\ Tree /\ Queues /\ (calm => Calls /\ FilesHold /\ FoldersHold)
      /\ UNCHANGED tables /\ dirs' = dirs /\ files' = files /\ disk' = disk /\ faults' = faults /\ Grows
  BY InvIs, GrowsIs DEF Submit, tables
<1>2. item \in Items /\ WellMade(item) /\ HasRow(item) /\ <<item>> \in Seq(Items) /\ Len(<<item>>) = 1
  BY SingleIs DEF Opens, WellMade
<1>3. req'[r] = <<item>> /\ \A s \in Requests \ {r} : req'[s] = req[s]
  BY <1>1 DEF Submit, Queues
<1>4. Tree'
  BY <1>1 DEF Tree, DirTable, FileTable, DiskOK, OnePerPath, InFolders
<1>5. Queues'
  <2>1. req' \in [Requests -> Seq(Items)]
    BY <1>1, <1>2 DEF Submit, Queues
  <2>2. \A k \in DOMAIN req'[r] : k = 1 /\ req'[r][k] = item
    BY <1>2, <1>3
  <2>3. \A k \in DOMAIN req'[r] : WellMade(req'[r][k]) /\ ~(k > 1)
    BY <1>2, <2>2
  <2>4. \A s \in Requests : \A k \in DOMAIN req'[s] :
          WellMade(req'[s][k]) /\ (k > 1 => Follows(req'[s][1], k, req'[s][k]))
    BY <1>1, <1>3, <2>3 DEF Queues
  <2> QED  BY <2>1, <2>4 DEF Queues
<1>6. \A i \in Work(r)' : i = item
  BY <1>2, <1>3 DEF Work
<1>7. ASSUME calm'
      PROVE  Calls'
  <2>1. calm /\ Unrelated(Reach(item)) /\ Calls
    BY <1>1, <1>7 DEF Submit
  <2>2. Touches({}) /\ {} \in SUBSET Paths /\ \A T : Separate({}, T)
    BY <1>1 DEF Touches, DirsStep, FilesStep, DiskStep, Separate
  <2>3. \A s \in Requests \ {r} :
          /\ Work(s)' = Work(s)
          /\ \A i \in Work(s) : /\ HasRow(i)' /\ Reach(i)' = Reach(i)
                                /\ (i = Now(s))' => Underway(i)'
    BY <1>1, <1>3, <1>4, <2>1, <2>2, OthersKept
  <2>4. HasRow(item)' /\ Reach(item)' = Reach(item) /\ Reach(item) \subseteq Paths
    <3>1. HasRow(item)'
      BY <1>1, <1>2 DEF HasRow
    <3>2. Reach(item)' = Reach(item)
      BY <1>1 DEF Reach
    <3>3. Reach(item) \subseteq Paths
      BY <1>1, <1>2, ReachIs DEF Tree
    <3> QED  BY <3>1, <3>2, <3>3
  <2>5. Underway(item)'
    BY DEF Opens, Underway, ReadStill, HalfWay, CopyKept
  <2>6. Present'
    BY <1>6, <2>1, <2>3, <2>4 DEF Present
  <2>7. InHand'
    BY <1>6, <2>3, <2>5 DEF InHand
  <2>8. ASSUME NEW s \in Requests \ {r}, NEW j \in Work(s)
        PROVE  Separate(Reach(item), Reach(j)) /\ Separate(Reach(j), Reach(item))
    <3>1. Separate(Reach(item), Reach(j))
      BY <2>1, UnrelatedIs
    <3>2. Reach(j) \subseteq Paths
      BY <1>1, QueueIs, ReachIs DEF Tree
    <3> QED  BY <2>4, <3>1, <3>2, SeparateSym
  <2>9. Apart'
    <3>1. SUFFICES ASSUME NEW a \in Requests, NEW b \in Requests, a # b,
                          NEW i \in Work(a)', NEW j \in Work(b)'
                   PROVE  Separate(Reach(i)', Reach(j)')
      BY DEF Apart, Separate, Related
    <3>2. CASE a = r
      BY <1>6, <2>3, <2>4, <2>8, <3>1, <3>2
    <3>3. CASE b = r
      BY <1>6, <2>3, <2>4, <2>8, <3>1, <3>3
    <3>4. CASE a # r /\ b # r
      BY <2>1, <2>3, <3>1, <3>4 DEF Calls, Apart
    <3> QED  BY <3>2, <3>3, <3>4
  <2> QED  BY <2>6, <2>7, <2>9 DEF Calls
<1>8. ~Half(r) /\ \A d \in DirIds : ~Leaving(r, d)
  BY DEF Half, Leaving, At
<1>9. calm' => calm
  BY DEF Submit
<1>10. calm' => FilesHold'
  BY <1>1, <1>3, <1>8, <1>9, FilesKept
<1>11. calm' => FoldersHold'
  BY <1>1, <1>3, <1>8, <1>9, FoldersKept
<1> QED  BY <1>4, <1>5, <1>7, <1>10, <1>11 DEF Kept

LEMMA OpensIs ==
  ASSUME NEW op, NEW id, NEW from, NEW to,
         \/ op \in {"mkdir", "put"} /\ id = None /\ from = Root /\ to \in Paths
         \/ op = "purge" /\ id = None /\ from = Root /\ to = Root
         \/ op \in {"rmdir", "erase", "restore"} /\ id \in DirIds /\ dirs[id] # None /\ from = Root /\ to = Root
         \/ op = "movedir" /\ id \in DirIds /\ dirs[id] # None /\ from = Root /\ to \in Paths
         \/ op = "list" /\ id \in DirIds /\ dirs[id] # None /\ from \in Paths /\ to = Root
         \/ op = "file" /\ id \in FileIds /\ files[id] # None /\ from = Root /\ to = Root
  PROVE  Opens(Item(op, id, from, to))
<1>1. PICK j : j = Item(op, id, from, to)
  OBVIOUS
<1>2. /\ op \in Kinds /\ id \in DirIds \cup FileIds \cup {None} /\ from \in Spots /\ to \in Spots
      /\ op \notin {"rename", "over", "movefile"}
  BY DEF Kinds, Spots
<1>3. Says(j, op, id, from, to)
  BY <1>1, <1>2, ItemIs
<1>4. WellMade(j)
  BY <1>2, <1>3, KindsApart DEF Says, WellMade
<1>5. None \notin DirIds \cup FileIds /\ DirIds \cap FileIds = {}
  BY TreeAssumption, KindsApart
<1>6. HasRow(j)
  BY <1>3, <1>5 DEF Says, HasRow
<1> QED  BY <1>1, <1>2, <1>3, <1>4, <1>6 DEF Says, Opens

LEMMA UserRequestKept ==
  ASSUME IInv, NoteCrossed, NEW r \in Requests, MayBegin(r), UserRequest(r)
  PROVE  Kept
<1>1. ~Busy(r)
  BY DEF MayBegin
<1>2. ASSUME NEW op, NEW id, NEW to, Submit(r, Item(op, id, Root, to)),
             \/ op = "mkdir" /\ id = None /\ to \in Paths
             \/ op = "purge" /\ id = None /\ to = Root
             \/ op \in {"rmdir", "erase", "restore"} /\ id \in DirIds /\ dirs[id] # None /\ to = Root
             \/ op = "movedir" /\ id \in DirIds /\ dirs[id] # None /\ to \in Paths
      PROVE  Kept
  <2>1. Opens(Item(op, id, Root, to))
    BY <1>2, OpensIs
  <2> QED  BY <1>1, <1>2, <2>1, SubmitKept
<1>3. CASE MkdirRequest(r) \/ Submit(r, Item("purge", None, Root, Root))
  BY <1>2, <1>3 DEF MkdirRequest
<1>4. CASE RmRequest(r)
  BY <1>1, <1>2, <1>4, OnFilesKept DEF RmRequest
<1>5. CASE MvRequest(r)
  BY <1>1, <1>2, <1>5, OnFilesKept DEF MvRequest
<1>6. CASE TrashRestoreRequest(r)
  BY <1>1, <1>2, <1>6, OnFilesKept DEF TrashRestoreRequest
<1>7. CASE UploadRequest
  BY <1>1, <1>7, OnFilesKept
<1> QED  BY <1>3, <1>4, <1>5, <1>6, <1>7 DEF UserRequest

LEMMA MethodKept ==
  ASSUME IInv, NoteCrossed, NEW r \in Requests, MayBegin(r), Method(r)
  PROVE  Kept
<1>1. ~Busy(r)
  BY DEF MayBegin
<1>2. PICK p \in Paths : \/ Mkcol(r, p) \/ OpenForWrite(r, p) \/ RemoveAll(r, p)
                         \/ \E t \in Paths, overwrite \in BOOLEAN : Move(r, p, t, overwrite)
  BY DEF Method
<1>3. p # Root
  BY PathsAre
<1>4. CASE Mkcol(r, p)
  BY <1>1, <1>4, OpensIs, SubmitKept DEF Mkcol
<1>5. CASE OpenForWrite(r, p)
  BY <1>1, <1>5, OpensIs, SubmitKept DEF OpenForWrite
<1>6. CASE RemoveAll(r, p)
  <2>1. CASE IsDir(p)
    <3>1. PICK d : d = DirOf(p) /\ d \in LiveDirsAt(p)
      BY <1>3, <2>1 DEF IsDir, DirOf
    <3>2. d \in DirIds /\ dirs[d] # None
      BY <3>1 DEF LiveDirsAt, DirsAt
    <3>3. Opens(Item("list", d, p, Root))
      BY <3>2, OpensIs
    <3> QED  BY <1>1, <1>6, <2>1, <3>1, <3>3, SubmitKept DEF RemoveAll
  <2>2. CASE ~IsDir(p)
    <3>1. PICK f : f = FileOf(p) /\ f \in LiveFilesAt(p)
      BY <1>6, <2>2 DEF RemoveAll, Exists, IsFile, FileOf
    <3>2. f \in FileIds /\ files[f] # None
      BY <3>1 DEF LiveFilesAt, FilesAt
    <3>3. Opens(Item("file", f, Root, Root))
      BY <3>2, OpensIs
    <3> QED  BY <1>1, <1>6, <2>2, <3>1, <3>3, SubmitKept DEF RemoveAll
  <2> QED  BY <2>1, <2>2
<1>7. CASE \E t \in Paths, overwrite \in BOOLEAN : Move(r, p, t, overwrite)
  <2>1. PICK t \in Paths, overwrite \in BOOLEAN : Move(r, p, t, overwrite)
    BY <1>7
  <2>2. PICK b \in BOOLEAN : b = Exists(t)
    BY DEF Exists
  <2>3. PICK x, j : x = Item("rename", None, p, t) /\ j = [x EXCEPT !.flag = b]
    OBVIOUS
  <2>4. Says(x, "rename", None, p, t)
    <3>1. "rename" \in Kinds /\ None \in DirIds \cup FileIds \cup {None} /\ p \in Spots /\ t \in Spots
      BY DEF Kinds, Spots
    <3> QED  BY <2>3, <3>1, ItemIs
  <2>5. /\ j \in Items /\ j.op = "rename" /\ j.id = None /\ j.from = p /\ j.to = t
        /\ j.step = "start" /\ j.copied = None
    BY <2>3, <2>4 DEF Says, Items
  <2>6. p # t /\ Submit(r, j)
    BY <2>1, <2>2, <2>3 DEF Move
  <2>7. None \notin DirIds \cup FileIds
    BY TreeAssumption, KindsApart
  <2>8. Opens(j)
    BY <2>5, <2>6, <2>7, KindsApart DEF Opens, WellMade, HasRow
  <2> QED  BY <1>1, <2>6, <2>8, SubmitKept
<1> QED  BY <1>2, <1>4, <1>5, <1>6, <1>7

\* A crash ends every request where it is.
LEMMA CrashKept ==
  ASSUME IInv, NoteCrossed, Crash
  PROVE  Kept
<1>1. /\ Tree /\ Queues /\ (calm => Calls /\ FilesHold /\ FoldersHold)
      /\ dirs' = dirs /\ files' = files /\ disk' = disk /\ faults' = faults + 1 /\ Grows
      /\ req' = [r \in Requests |-> <<>>] /\ faults \in Nat
  BY InvIs, GrowsIs, TreeAssumption DEF Crash, tables
<1>2. Tree'
  BY <1>1 DEF Tree, DirTable, FileTable, DiskOK, OnePerPath, InFolders
<1>3. Queues' /\ \A r \in Requests : Work(r)' = {} /\ ~Busy(r)'
  BY <1>1 DEF Queues, Work, Busy
<1>4. Calls'
  BY <1>3 DEF Calls, Present, Apart, InHand
<1>5. ASSUME calm'
      PROVE  FilesHold'
  <2>1. calm /\ \A r \in Requests : ~Half(r)
    BY <1>5 DEF Crash, Half
  <2>2. \A f \in FileIds : ~Moving(f)
    BY <2>1 DEF Moving, Half
  <2>3. \A f \in FileIds \ crossed' : files[f] # None => f \notin crossed
    BY <1>1 DEF Grows, Rows
  <2> QED  BY <1>1, <2>1, <2>2, <2>3 DEF FilesHold
<1>6. FoldersHold'
  BY <1>1 DEF FoldersHold
<1> QED  BY <1>2, <1>3, <1>4, <1>5, <1>6 DEF Kept

(***************************************************************************)
(* The invariant.                                                          *)
(***************************************************************************)
LEMMA BoundsKept ==
  ASSUME IInv, DavNext \/ Next
  PROVE  ops' \in 0..MaxOps /\ faults' \in 0..MaxFaults /\ calm' \in BOOLEAN
<1>1. /\ ops \in 0..MaxOps /\ faults \in 0..MaxFaults /\ calm \in BOOLEAN
      /\ MaxOps \in Nat /\ MaxFaults \in Nat
  BY InvIs, TreeAssumption
<1>2. ASSUME NEW r \in Requests, DirectoryStep(r) \/ DatabaseError(r) \/ DavStep(r)
      PROVE  Going /\ (faults' = faults \/ (faults < MaxFaults /\ faults' = faults + 1))
  BY <1>2 DEF DirectoryStep, DavStep, DatabaseError, MkdirCheck, MkdirDisk, MkdirRow, DeleteCheck,
     DeleteDisk, SoftDeleteDirectory, EraseCheck, EraseDisk, EraseRow, RestoreCheck, RestoreRow,
     RestoreDisk, MoveCheck, MoveDisk, MoveDirectoryTree, MoveUndo, PurgeFiles, PurgeDirectories,
     UploadBegins, BodyBreaks, CloseUpload, RemoveTree, DeleteFile, Rename, MoveOverFile, MoveOneFile,
     NamePasses
<1>3. ASSUME NEW r \in Requests, MayBegin(r), UserRequest(r) \/ Method(r)
      PROVE  /\ ops < MaxOps /\ ops' = ops + 1 /\ \E S : calm' = (calm /\ Unrelated(S))
             /\ faults' = faults \/ (faults < MaxFaults /\ faults' = faults + 1)
  <2>1. ASSUME NEW item, Submit(r, item)
        PROVE  ops' = ops + 1 /\ faults' = faults /\ \E S : calm' = (calm /\ Unrelated(S))
    BY <2>1 DEF Submit
  <2>2. ASSUME NEW S, Act(S), faults' = faults
        PROVE  ops' = ops + 1 /\ faults' = faults /\ \E T : calm' = (calm /\ Unrelated(T))
    BY <2>2 DEF Act
  <2>3. ops < MaxOps
    BY <1>3 DEF MayBegin
  <2>4. CASE Method(r)
    BY <2>1, <2>3, <2>4 DEF Method, Mkcol, OpenForWrite, RemoveAll, Move
  <2>5. CASE UserRequest(r)
    <3>1. CASE UploadRequest
      BY <2>3, <3>1 DEF UploadRequest, UploadFile, NamePasses, Act
    <3>2. CASE MkdirRequest(r) \/ Submit(r, Item("purge", None, Root, Root))
      BY <2>1, <2>3, <3>2 DEF MkdirRequest
    <3>3. CASE RmRequest(r)
      BY <2>1, <2>2, <2>3, <3>3 DEF RmRequest, TrashFile, EraseFile
    <3>4. CASE MvRequest(r)
      BY <2>1, <2>2, <2>3, <3>4 DEF MvRequest, MoveFile
    <3>5. CASE TrashRestoreRequest(r)
      BY <2>1, <2>2, <2>3, <3>5 DEF TrashRestoreRequest, RestoreFile
    <3> QED  BY <2>5, <3>1, <3>2, <3>3, <3>4, <3>5 DEF UserRequest
  <2> QED  BY <1>3, <2>4, <2>5
<1>4. ASSUME NEW b, calm' = (calm /\ b)
      PROVE  calm' \in BOOLEAN
  BY <1>4
<1>5. ASSUME Crash
      PROVE  ops' \in 0..MaxOps /\ faults' \in 0..MaxFaults /\ calm' \in BOOLEAN
  <2>1. ops' = ops /\ faults < MaxFaults /\ faults' = faults + 1
    BY <1>5 DEF Crash
  <2>2. calm' \in BOOLEAN
    BY <1>5 DEF Crash
  <2> QED  BY <1>1, <2>1, <2>2
<1>6. \/ \E r \in Requests : DirectoryStep(r) \/ DatabaseError(r) \/ DavStep(r)
      \/ \E r \in Requests : MayBegin(r) /\ (UserRequest(r) \/ Method(r))
      \/ Crash
  BY WebDAVAssumption DEF DavNext, Next, TreeNext
<1>7. CASE \E r \in Requests : DirectoryStep(r) \/ DatabaseError(r) \/ DavStep(r)
  BY <1>1, <1>2, <1>7 DEF Going
<1>8. CASE \E r \in Requests : MayBegin(r) /\ (UserRequest(r) \/ Method(r))
  BY <1>1, <1>3, <1>4, <1>8
<1> QED  BY <1>5, <1>6, <1>7, <1>8

LEMMA NextKept ==
  ASSUME IInv, DavNext \/ Next
  PROVE  IInv'
<1>1. NoteCrossed
  BY DEF DavNext, Next
<1>2. Kept
  BY <1>1, WebDAVAssumption, DirectoryStepKept, DavStepKept, DatabaseErrorKept, UserRequestKept,
     MethodKept, CrashKept DEF DavNext, Next, TreeNext
<1> QED  BY <1>1, <1>2, BoundsKept, InvKept

LEMMA StutterKept ==
  ASSUME IInv, UNCHANGED vars
  PROVE  IInv'
<1>1. /\ dirs' = dirs /\ files' = files /\ disk' = disk /\ req' = req
      /\ ops' = ops /\ faults' = faults /\ calm' = calm /\ crossed' = crossed
  BY DEF vars, tables, bounds
<1>2. Tree'
  BY <1>1, InvIs DEF Tree, DirTable, FileTable, DiskOK, OnePerPath, InFolders
<1>3. Queues'
  BY <1>1, InvIs DEF Queues
<1>4. Noted'
  BY <1>1, InvIs DEF Noted, CrossedFiles, CrossedDirs, DirsAt, FilesAt
<1>5. calm => Calls'
  BY <1>1, InvIs DEF Calls, Present, Apart, InHand, Work, HasRow, Separate, Related, Reach, Now, Underway, ReadStill,
     HalfWay, CopyKept, Renamed, DestinationOccupied, DirsAt, FilesAt
<1>6. calm => FilesHold' /\ FoldersHold'
  BY <1>1, InvIs DEF FilesHold, FoldersHold, Moving, Leaving, At, Busy, Now
<1> QED  BY <1>1, <1>2, <1>3, <1>4, <1>5, <1>6, InvIs, InvOf DEF Kept

LEMMA BuiltIs ==
  ASSUME Built
  PROVE  /\ Tree
         /\ \A f \in FileIds : files[f] # None => disk[files[f].path] = files[f].content
         /\ \A d \in DirIds : dirs[d] # None => disk[dirs[d].path] = Folder
<1>1. DirTable
  BY DEF Built, DirTable, DirRows
<1>2. FileTable
  <2>1. files \in [FileIds -> FileRows \cup {None}]
    BY KindsApart DEF Built, FileRows
  <2>2. \A f \in FileIds : files[f] # None => files[f].content # Torn
    BY KindsApart DEF Built
  <2> QED  BY <2>1, <2>2 DEF Built, FileTable
<1>3. ASSUME NEW q \in Paths
      PROVE  /\ DirsAt(q) # {} => disk[q] = Folder
             /\ DirsAt(q) = {} /\ FilesAt(q) = {} => disk[q] = Absent
  BY DEF Built
<1>4. ASSUME NEW f \in FileIds, files[f] # None
      PROVE  files[f].path \in Paths /\ DirsAt(files[f].path) = {} /\ disk[files[f].path] = f
  <2>1. PICK q : q = files[f].path
    OBVIOUS
  <2>2. q \in Paths /\ q \in RowPaths
    BY <1>2, <1>4, <2>1, FileRowIs DEF RowPaths
  <2>3. f \in FilesAt(q) /\ \A g \in FilesAt(q) : g = f
    BY <1>2, <1>4, <2>1 DEF FilesAt, FileTable, OnePerPath
  <2>4. DirsAt(q) = {}
    BY <2>2, <2>3 DEF Built
  <2>5. f = CHOOSE g \in FileIds : g \in FilesAt(q)
    BY <2>3
  <2>6. disk[q] = CHOOSE g \in FileIds : g \in FilesAt(q)
    BY <2>2, <2>3, <2>4 DEF Built
  <2> QED  BY <2>1, <2>2, <2>4, <2>5, <2>6
<1>5. ASSUME NEW d \in DirIds, dirs[d] # None
      PROVE  disk[dirs[d].path] = Folder
  <2>1. dirs[d].path \in Paths
    BY <1>1, <1>5, DirRowIs
  <2>2. DirsAt(dirs[d].path) # {}
    BY <1>5 DEF DirsAt
  <2> QED  BY <1>3, <2>1, <2>2
<1>6. ASSUME NEW q \in Paths
      PROVE  /\ disk[q] \in FileIds \cup {Absent, Folder}
             /\ disk[q] # Absent => q \in RowPaths
  <2>1. CASE DirsAt(q) # {}
    <3>1. q \in RowPaths
      BY <2>1 DEF DirsAt, RowPaths
    <3> QED  BY <1>3, <2>1, <3>1
  <2>2. CASE DirsAt(q) = {} /\ FilesAt(q) # {}
    <3>1. PICK f \in FileIds : files[f] # None /\ files[f].path = q
      BY <2>2 DEF FilesAt
    <3>2. q \in RowPaths
      BY <3>1 DEF RowPaths
    <3> QED  BY <1>4, <3>1, <3>2
  <2> QED  BY <1>3, <2>1, <2>2
<1>7. DiskOK
  <2>1. disk \in [Paths -> Contents \cup {Absent, Folder}]
    <3>1. disk = [q \in Paths |-> disk[q]]
      BY DEF Built
    <3> QED  BY <1>6, <3>1, KindsApart
  <2>2. \A q \in Paths : disk[q] # Torn
    BY <1>6, KindsApart
  <2>3. InFolders
    <3>1. SUFFICES ASSUME NEW q \in Paths, NEW p \in Above[q] \ {q}, disk[q] # Absent
                   PROVE  disk[p] = Folder
      BY DEF InFolders
    <3>2. q \in RowPaths /\ p \in Paths
      BY <1>6, <3>1, AboveIs DEF Spots
    <3>3. LiveDirsAt(p) # {}
      BY <3>1, <3>2 DEF Built
    <3> QED  BY <1>3, <3>2, <3>3 DEF LiveDirsAt
  <2> QED  BY <2>1, <2>2, <2>3 DEF DiskOK
<1>8. \A f \in FileIds : files[f] # None => files[f].content = f
  BY DEF Built
<1> QED  BY <1>1, <1>2, <1>4, <1>5, <1>7, <1>8 DEF Tree

LEMMA InitHolds == Init => IInv
<1>1. SUFFICES ASSUME Init PROVE IInv
  OBVIOUS
<1>2. /\ Tree
      /\ \A f \in FileIds : files[f] # None => disk[files[f].path] = files[f].content
      /\ \A d \in DirIds : dirs[d] # None => disk[dirs[d].path] = Folder
  BY <1>1, BuiltIs DEF Init
<1>3. req = [r \in Requests |-> <<>>] /\ ops = 0 /\ faults = 0 /\ calm = TRUE
  BY <1>1 DEF Init
<1>4. Queues /\ \A r \in Requests : Work(r) = {}
  BY <1>3 DEF Queues, Work
<1>5. Noted /\ crossed \subseteq FileIds \cup DirIds
  BY <1>1 DEF Init, Noted, CrossedFiles, CrossedDirs
<1>6. Calls /\ FilesHold /\ FoldersHold
  BY <1>2, <1>4 DEF Calls, Present, Apart, InHand, FilesHold, FoldersHold
<1>7. ops \in 0..MaxOps /\ faults \in 0..MaxFaults
  BY <1>3, TreeAssumption
<1> QED  BY <1>2, <1>3, <1>4, <1>5, <1>6, <1>7, InvIs

\* The invariant and what follows from it in a state.
LEMMA Always == (DavSpec => []IInv) /\ (Spec => []IInv)
<1>1. IInv /\ [DavNext]_vars => IInv'
  BY NextKept, StutterKept
<1>2. IInv /\ [Next]_vars => IInv'
  BY NextKept, StutterKept
<1> QED  BY InitHolds, <1>1, <1>2, PTL DEF DavSpec, Spec

LEMMA InvTypeOK == IInv => TypeOK
BY DEF IInv, Sound, TypeOK

LEMMA InvFilesStand == IInv => FilesStand
BY InvIs DEF FilesStand, FilesHold

LEMMA InvFoldersStand == IInv => FoldersStand
<1>1. SUFFICES ASSUME IInv, calm, faults = 0, NEW d \in DirIds \ crossed, dirs[d] # None,
                      ~dirs[d].trashed, disk[dirs[d].path] # Folder
               PROVE  \E r \in Requests : Busy(r) /\ \E p \in Reach(Now(r)) : Related(p, dirs[d].path)
  BY DEF FoldersStand
<1>2. PICK r \in Requests : Leaving(r, d)
  BY <1>1, InvIs DEF FoldersHold
<1>3. PICK i : i = Now(r)
  OBVIOUS
<1>4. Busy(r) /\ i.op \in {"rmdir", "erase", "restore", "movedir"} /\ i.step # "start"
  BY <1>2, <1>3, AtIs DEF Leaving
<1>5. i \in Items /\ WellMade(i) /\ DirTable /\ FileTable
  BY <1>1, <1>3, <1>4, CallIs, InvIs DEF Tree
<1>6. PICK q : q = dirs[d].path /\ q \in Paths
  BY <1>1, <1>5, DirRowIs
<1>7. CASE i.id = d
  <2>1. q \in Reach(i)
    BY <1>1, <1>5, <1>6, <1>7, ReachIs
  <2> QED  BY <1>3, <1>4, <1>6, <2>1, RelatedIs
<1>8. CASE i.op = "movedir" /\ q \in Below[i.from]
  <2>1. i.from \in Paths /\ i.from \in Reach(i)
    BY <1>4, <1>5, <1>8, ReachIs DEF WellMade
  <2> QED  BY <1>3, <1>4, <1>6, <1>8, <2>1, RelatedIs
<1> QED  BY <1>2, <1>3, <1>6, <1>7, <1>8, AtIs DEF Leaving

LEMMA InvSourceGoesLast == IInv => SourceGoesLast
<1>1. SUFFICES ASSUME IInv, calm, NEW r \in Requests, At(r, "file", "start"), Now(r).copied # None
               PROVE  \E f \in FileIds \ {Now(r).id} :
                        files[f] # None /\ ~files[f].trashed /\ files[f].content = Now(r).copied
  BY DEF SourceGoesLast
<1>2. Busy(r) /\ Now(r).op = "file"
  BY <1>1, AtIs
<1>3. Underway(Now(r))
  BY <1>1, <1>2, CallIs
<1> QED  BY <1>1, <1>2, <1>3 DEF Underway, CopyKept

LEMMA InvNothingTorn == IInv => NothingTorn
BY DEF IInv, Sound, Whole, NothingTorn

(***************************************************************************)
(* What holds of the tree, whatever the API and WebDAV ask of it.          *)
(***************************************************************************)
\* In every behaviour the invariant holds: the tables, the disk and the calls
\* of every request are as WebDAVInv says (internal/storage, internal/webdav).
THEOREM Invariant == DavSpec => []IInv
BY Always

\* Every variable has its type: the rows, the disk and the requests
\* (the tables directories and files, the provider of the pool).
THEOREM TypeCorrect == DavSpec => []TypeOK
BY Always, InvTypeOK, PTL

\* Requests that meet only on unrelated paths, and database errors, never part
\* a file from its content (MoveDirectoryTree, its undo, WebDAV's calls).
THEOREM FilesStandAlways == DavSpec => []FilesStand
BY Always, InvFilesStand, PTL

\* As long as the database refuses nothing, an active folder is there on disk
\* when nobody is at it (Mkdir, RestoreDirectory, MoveDirectory, DeleteDirectory).
THEOREM FoldersStandAlways == DavSpec => []FoldersStand
BY Always, InvFoldersStand, PTL

\* A MOVE over a file removes its source only when another active file holds
\* the content that was copied (moveOverFile, then DeleteFile).
THEOREM CopyBeforeRemoval == DavSpec => []SourceGoesLast
BY Always, InvSourceGoesLast, PTL

\* A body that broke off never becomes the content of a file (uploadFile.Close).
THEOREM NothingTornAlways == DavSpec => []NothingTorn
BY Always, InvNothingTorn, PTL

\* The API alone, with no WebDAV client, keeps the tree too: files and folders
\* stand where their rows say (the requests of internal/storage).
THEOREM TreeAlone == Spec => [](TreeTypeOK /\ FilesStand /\ FoldersStand)
<1>1. IInv => TreeTypeOK /\ FilesStand /\ FoldersStand
  BY InvTypeOK, InvFilesStand, InvFoldersStand DEF TypeOK
<1> QED  BY <1>1, Always, PTL
=============================================================================
