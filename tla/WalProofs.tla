----------------------------- MODULE WalProofs ------------------------------
(***************************************************************************)
(* The segmented journal, for every set of commands, every segment size    *)
(* and any number of failed writes, crashes, reopenings and interrupted    *)
(* recoveries: what a segment reads as, torn or not, the order of what the *)
(* directory holds, what recovery keeps of it, and what the two readers    *)
(* and the report of recovery say about that.                              *)
(***************************************************************************)
EXTENDS SegmentedWal, CodecProofs, FunctionTheorems, FiniteSetTheorems

\* Induction over the numbers, stated for a set.
LEMMA Upwards ==
  ASSUME NEW T, 0 \in T, \A n \in Nat : n \in T => n + 1 \in T
  PROVE  \A n \in Nat : n \in T
<1> DEFINE R == OpToRel(<, Nat)
           U == {n \in Nat : n \notin T}
<1>1. IsWellFoundedOn(R, Nat)
  BY NatLessThanWellFounded
<1>2. SUFFICES ASSUME U # {} PROVE FALSE
  OBVIOUS
<1>3. PICK m \in U : \A y \in U : ~(<<y, m>> \in R)
  <2>1. U \subseteq Nat
    OBVIOUS
  <2> HIDE DEF R, U
  <2>2. QED
    BY <1>1, <1>2, <2>1, WFMin
<1>4. m \in Nat /\ m # 0 /\ m - 1 \in Nat /\ m - 1 + 1 = m
  OBVIOUS
<1>5. m - 1 \notin T
  BY <1>4
<1>6. <<m - 1, m>> \in R
  BY <1>4 DEF OpToRel
<1>7. QED
  BY <1>3, <1>4, <1>5, <1>6

-----------------------------------------------------------------------------
(* The listing of the directory. *)

Ascending(p) == \A j, k \in DOMAIN p : j < k => p[j] < p[k]

Listings(S) == {p \in Bijection(1 .. Cardinality(S), S) : Ascending(p)}

\* The smallest of some numbers.
LEMMA LeastExists ==
  ASSUME NEW S, S \subseteq Nat, S # {}
  PROVE  \E m \in S : \A y \in S : m <= y
<1> DEFINE R == OpToRel(<, Nat)
<1>1. IsWellFoundedOn(R, Nat)
  BY NatLessThanWellFounded
<1>2. PICK m \in S : \A y \in S : ~(<<y, m>> \in R)
  <2> HIDE DEF R
  <2>1. QED
    BY <1>1, WFMin
<1>3. \A y \in S : y < m => <<y, m>> \in R
  BY DEF OpToRel
<1>4. \A y \in S : m <= y
  <2> TAKE y \in S
  <2>1. ~(y < m) /\ y \in Nat /\ m \in Nat
    BY <1>2, <1>3
  <2>2. QED
    BY <2>1
<1>5. QED
  BY <1>4

\* Every finite set of numbers has a listing: its least element, then the others.
LEMMA ListingExists ==
  ASSUME NEW S, IsFiniteSet(S), S \subseteq Nat
  PROVE  Listings(S) # {}
<1> DEFINE Small(n) == {X \in SUBSET Nat : IsFiniteSet(X) /\ Cardinality(X) = n}
           T == {n \in Nat : \A X \in Small(n) : Listings(X) # {}}
<1>1. 0 \in T
  <2>1. ASSUME NEW X \in Small(0) PROVE Listings(X) # {}
    <3>1. X = {} /\ Cardinality(X) = 0 /\ 1 .. 0 = {}
      BY FS_EmptySet
    <3> DEFINE q == [k \in {} |-> k]
    <3>2. q \in [{} -> {}] /\ DOMAIN q = {}
      OBVIOUS
    <3> HIDE DEF q
    <3>3. q \in Bijection({}, {}) /\ Ascending(q)
      BY <3>2 DEF Bijection, Injection, Surjection, IsInjective, Ascending
    <3>4. QED
      BY <3>1, <3>3 DEF Listings
  <2>2. QED
    BY <2>1
<1>2. ASSUME NEW n \in Nat, n \in T PROVE n + 1 \in T
  <2>1. ASSUME NEW X \in Small(n + 1) PROVE Listings(X) # {}
    <3>1. X # {} /\ IsFiniteSet(X) /\ Cardinality(X) = n + 1 /\ X \subseteq Nat
      BY FS_EmptySet
    <3>2. PICK m \in X : \A y \in X : m <= y
      BY <3>1, LeastExists
    <3> DEFINE Y == X \ {m}
    <3>3. Y \in Small(n)
      <4>1. IsFiniteSet(Y) /\ Cardinality(Y) = Cardinality(X) - 1
        BY <3>1, FS_RemoveElement
      <4>2. n + 1 - 1 = n
        OBVIOUS
      <4>3. QED
        BY <3>1, <4>1, <4>2
    <3>4. PICK p : p \in Bijection(1 .. n, Y) /\ Ascending(p)
      BY <1>2, <3>3 DEF Listings
    <3>5. /\ p \in [1 .. n -> Y]
          /\ \A j, k \in 1 .. n : p[j] = p[k] => j = k
          /\ \A y \in Y : \E k \in 1 .. n : p[k] = y
          /\ \A j, k \in 1 .. n : j < k => p[j] < p[k]
      BY <3>4 DEF Bijection, Injection, Surjection, IsInjective, Ascending
    <3> DEFINE q == [k \in 1 .. n + 1 |-> IF k = 1 THEN m ELSE p[k - 1]]
    <3>6. /\ q[1] = m
          /\ \A k \in 1 .. n : q[k + 1] = p[k]
          /\ \A k \in 1 .. n + 1 : k = 1 \/ (k - 1 \in 1 .. n /\ q[k] = p[k - 1])
      OBVIOUS
    <3>7. \A y \in Y : y \in X /\ m < y
      BY <3>1, <3>2
    <3> HIDE DEF Y
    <3>8. q \in [1 .. n + 1 -> X]
      <4>1. \A k \in 1 .. n + 1 : q[k] \in X
        <5> TAKE k \in 1 .. n + 1
        <5>1. k = 1 \/ (k - 1 \in 1 .. n /\ q[k] = p[k - 1])
          BY <3>6
        <5> HIDE DEF q
        <5>2. QED
          BY <3>2, <3>5, <3>6, <3>7, <5>1
      <4>2. q = [k \in 1 .. n + 1 |-> q[k]]
        OBVIOUS
      <4> HIDE DEF q
      <4>3. QED
        BY <4>1, <4>2
    <3> HIDE DEF q
    <3>9. \A j, k \in 1 .. n + 1 : j < k => q[j] < q[k]
      <4> TAKE j, k \in 1 .. n + 1
      <4> HAVE j < k
      <4>1. k - 1 \in 1 .. n /\ q[k] = p[k - 1]
        BY <3>6
      <4>2. CASE j = 1
        BY <3>5, <3>6, <3>7, <4>1, <4>2
      <4>3. CASE j # 1
        <5>1. j - 1 \in 1 .. n /\ q[j] = p[j - 1] /\ j - 1 < k - 1
          BY <3>6, <4>3
        <5>2. QED
          BY <3>5, <4>1, <5>1
      <4>4. QED
        BY <4>2, <4>3
    <3>10. \A j, k \in 1 .. n + 1 : q[j] = q[k] => j = k
      <4> TAKE j, k \in 1 .. n + 1
      <4> HAVE q[j] = q[k]
      <4>1. q[j] \in Nat /\ q[k] \in Nat
        BY <3>1, <3>8
      <4>2. ~(j < k) /\ ~(k < j)
        BY <3>9, <4>1
      <4>3. QED
        BY <4>2
    <3>11. ASSUME NEW y \in X PROVE \E k \in 1 .. n + 1 : q[k] = y
      <4>1. CASE y = m
        BY <3>6, <4>1
      <4>2. CASE y # m
        <5>1. PICK k \in 1 .. n : p[k] = y
          BY <3>5, <4>2 DEF Y
        <5>2. k + 1 \in 1 .. n + 1 /\ q[k + 1] = y
          BY <3>6, <5>1
        <5>3. QED
          BY <5>2
      <4>3. QED
        BY <4>1, <4>2
    <3>12. DOMAIN q = 1 .. n + 1
      BY <3>8
    <3>13. q \in Bijection(1 .. n + 1, X) /\ Ascending(q)
      BY <3>8, <3>9, <3>10, <3>11, <3>12 DEF Bijection, Injection, Surjection, IsInjective, Ascending
    <3>14. QED
      BY <3>1, <3>13 DEF Listings
  <2>2. QED
    BY <2>1
<1>3. \A n \in Nat : n \in T
  <2> HIDE DEF T
  <2>1. QED
    BY <1>1, <1>2, Upwards
<1>4. Cardinality(S) \in Nat /\ S \in Small(Cardinality(S))
  BY FS_CardinalityType
<1>5. QED
  BY <1>3, <1>4

\* What list_segment_paths gives for a directory with the segments in D.
Listing(D) ==
  CHOOSE paths \in Bijection(1 .. Cardinality(D), D) :
    \A j, k \in DOMAIN paths : j < k => paths[j] < paths[k]

Files(D) == IsFiniteSet(D) /\ D \subseteq Nat

LEMMA ListingMeans ==
  ASSUME NEW D, Files(D)
  PROVE  LET p == Listing(D)
             n == Cardinality(D)
         IN  /\ n \in Nat /\ p \in [1 .. n -> D] /\ Len(p) = n /\ DOMAIN p = 1 .. n
             /\ p \in Seq(D)
             /\ \A j, k \in 1 .. n : j < k => p[j] < p[k]
             /\ \A i \in D : \E k \in 1 .. n : p[k] = i
<1> DEFINE p == Listing(D)
           n == Cardinality(D)
<1>1. n \in Nat
  BY FS_CardinalityType DEF Files
<1>2. p \in Bijection(1 .. n, D) /\ Ascending(p)
  <2>1. \E q \in Bijection(1 .. n, D) : \A j, k \in DOMAIN q : j < k => q[j] < q[k]
    BY ListingExists DEF Files, Listings, Ascending
  <2>2. QED
    BY <2>1 DEF Listing, Ascending
<1> HIDE DEF p, n
<1>3. /\ p \in [1 .. n -> D]
      /\ \A i \in D : \E k \in 1 .. n : p[k] = i
      /\ \A j, k \in 1 .. n : j < k => p[j] < p[k]
  BY <1>2 DEF Bijection, Injection, Surjection, Ascending
<1>4. p \in Seq(D) /\ Len(p) = n
  BY <1>1, <1>3, SeqOfFunction
<1>5. QED
  BY <1>1, <1>3, <1>4 DEF p, n

LEMMA PathsAre == ListSegmentPaths = Listing(DOMAIN segments)
BY DEF ListSegmentPaths, Listing

LEMMA FirstPaths ==
  ASSUME NEW D, Files(D), NEW n \in 0 .. Cardinality(D)
  PROVE  /\ ToSet(SubSeq(Listing(D), 1, n)) = {Listing(D)[k] : k \in 1 .. n}
         /\ ToSet(SubSeq(Listing(D), 1, n)) \subseteq D
         /\ n = Cardinality(D) => ToSet(SubSeq(Listing(D), 1, n)) = D
<1> DEFINE p == Listing(D)
           m == Cardinality(D)
           s == SubSeq(p, 1, n)
<1>1. /\ m \in Nat /\ p \in [1 .. m -> D] /\ \A i \in D : \E k \in 1 .. m : p[k] = i
  BY ListingMeans
<1>2. n \in 0 .. m
  OBVIOUS
<1> HIDE DEF p, m
<1>3. s = [k \in 1 .. n |-> p[k]]
  BY <1>1, <1>2
<1>4. ToSet(s) = {p[k] : k \in 1 .. n}
  BY <1>3 DEF ToSet
<1>5. \A k \in 1 .. n : k \in 1 .. m
  BY <1>1, <1>2
<1>6. ToSet(s) \subseteq D
  BY <1>1, <1>4, <1>5
<1>7. n = m => ToSet(s) = D
  BY <1>1, <1>4, <1>6
<1>8. QED
  BY <1>4, <1>6, <1>7 DEF p, m

\* The last file of the listing is the one with the highest index.
LEMMA LastPath ==
  ASSUME NEW D, Files(D), D # {}
  PROVE  Last(Listing(D)) \in D /\ \A i \in D : i <= Last(Listing(D))
<1> DEFINE p == Listing(D)
           n == Cardinality(D)
<1>1. /\ n \in Nat /\ p \in [1 .. n -> D] /\ Len(p) = n
      /\ \A j, k \in 1 .. n : j < k => p[j] < p[k]
      /\ \A i \in D : \E k \in 1 .. n : p[k] = i
  BY ListingMeans
<1>2. D \subseteq Nat
  BY DEF Files
<1> HIDE DEF p, n
<1>3. n \in 1 .. n
  BY <1>1
<1>4. Last(p) = p[n] /\ p[n] \in D
  BY <1>1, <1>3 DEF Last
<1>5. ASSUME NEW i \in D PROVE i <= p[n]
  <2>1. PICK k \in 1 .. n : p[k] = i
    BY <1>1
  <2>2. k = n \/ k < n
    BY <1>1
  <2>3. k = n \/ p[k] < p[n]
    BY <1>1, <1>3, <2>2
  <2>4. i \in Nat /\ p[n] \in Nat
    BY <1>2, <1>4
  <2>5. QED
    BY <2>1, <2>3, <2>4
<1>6. QED
  BY <1>4, <1>5 DEF p

-----------------------------------------------------------------------------
(* A sequence of sequences, one after another. *)

Row(s, f, i) == IF i = 1 THEN s[i] ELSE f[i - 1] \o s[i]
IsTable(s, f, n) == f = [i \in 1 .. n |-> Row(s, f, i)]

LEMMA TableExists ==
  ASSUME NEW s, NEW n \in Nat
  PROVE  \E f : IsTable(s, f, n)
<1> DEFINE T == {m \in Nat : \E f : IsTable(s, f, m)}
<1>1. 0 \in T
  <2> DEFINE f == [i \in {} |-> i]
  <2>1. f = [i \in 1 .. 0 |-> Row(s, f, i)]
    <3>1. 1 .. 0 = {}
      OBVIOUS
    <3>2. QED
      BY <3>1
  <2> HIDE DEF f
  <2>2. QED
    BY <2>1 DEF IsTable
<1>2. ASSUME NEW m \in Nat, m \in T PROVE m + 1 \in T
  <2>1. PICK f : f = [i \in 1 .. m |-> Row(s, f, i)]
    BY <1>2 DEF IsTable
  <2> DEFINE g == [i \in 1 .. m + 1 |-> IF i = m + 1 THEN Row(s, f, i) ELSE f[i]]
  <2>2. \A i \in 1 .. m : g[i] = f[i]
    OBVIOUS
  <2>3. g[m + 1] = Row(s, f, m + 1) /\ DOMAIN g = 1 .. m + 1
    OBVIOUS
  <2>4. g = [i \in 1 .. m + 1 |-> g[i]]
    OBVIOUS
  <2> HIDE DEF g
  <2>5. ASSUME NEW i \in 1 .. m + 1 PROVE g[i] = Row(s, g, i)
    <3>1. Row(s, g, i) = Row(s, f, i)
      <4>1. i = 1 \/ i - 1 \in 1 .. m
        OBVIOUS
      <4>2. QED
        BY <2>2, <4>1 DEF Row
    <3>2. CASE i = m + 1
      BY <2>3, <3>1, <3>2
    <3>3. CASE i # m + 1
      <4>1. i \in 1 .. m
        BY <3>3
      <4>2. QED
        BY <2>1, <2>2, <3>1, <4>1
    <3>4. QED
      BY <3>2, <3>3
  <2>6. IsTable(s, g, m + 1)
    BY <2>4, <2>5 DEF IsTable
  <2>7. QED
    BY <2>6
<1>3. QED
  <2> HIDE DEF T
  <2>1. n \in T
    BY <1>1, <1>2, Upwards
  <2>2. QED
    BY <2>1 DEF T

LEMMA TablesAgree ==
  ASSUME NEW s, NEW t, NEW n \in Nat, NEW m \in Nat, n <= m,
         \A i \in 1 .. n : s[i] = t[i],
         NEW f, NEW g, IsTable(s, f, n), IsTable(t, g, m)
  PROVE  \A i \in 1 .. n : f[i] = g[i]
<1> DEFINE T == {i \in Nat : i \in 1 .. n => f[i] = g[i]}
<1>1. 0 \in T
  OBVIOUS
<1>2. ASSUME NEW i \in Nat, i \in T PROVE i + 1 \in T
  <2> SUFFICES ASSUME i + 1 \in 1 .. n PROVE f[i + 1] = g[i + 1]
    OBVIOUS
  <2>1. i + 1 \in 1 .. m /\ (i + 1) - 1 = i /\ (i = 0 \/ i \in 1 .. n)
    OBVIOUS
  <2>2. f[i + 1] = Row(s, f, i + 1) /\ g[i + 1] = Row(t, g, i + 1)
    BY <2>1 DEF IsTable
  <2>3. s[i + 1] = t[i + 1]
    OBVIOUS
  <2>4. i = 0 \/ f[i] = g[i]
    BY <1>2, <2>1
  <2>5. Row(s, f, i + 1) = Row(t, g, i + 1)
    BY <2>1, <2>3, <2>4 DEF Row
  <2>6. QED
    BY <2>2, <2>5
<1>3. QED
  <2> HIDE DEF T
  <2>1. \A i \in Nat : i \in T
    BY <1>1, <1>2, Upwards
  <2>2. QED
    BY <2>1 DEF T

\* The first n parts, joined.
Joined(s, n) == FlattenSeq([k \in 1 .. n |-> s[k]])

LEMMA JoinedNone ==
  ASSUME NEW s
  PROVE  Joined(s, 0) = <<>>
<1> DEFINE t == [k \in 1 .. 0 |-> s[k]]
<1>1. t = <<>> /\ Len(<<>>) = 0
  <2>1. 1 .. 0 = {}
    OBVIOUS
  <2>2. QED
    BY <2>1
<1>2. FlattenSeq(t) = t
  BY <1>1 DEF FlattenSeq
<1>3. QED
  BY <1>1, <1>2 DEF Joined

LEMMA JoinedIsRow ==
  ASSUME NEW s, NEW n \in Nat, n # 0
  PROVE  \E f : IsTable(s, f, n) /\ Joined(s, n) = f[n]
<1> DEFINE t == [k \in 1 .. n |-> s[k]]
           f == CHOOSE h : IsTable(t, h, n)
<1>1. Len(t) = n
  BY SeqOfFunction, t \in [1 .. n -> {s[k] : k \in 1 .. n}]
<1>2. FlattenSeq(t) = f[n]
  <2>1. FlattenSeq(t) = (CHOOSE h : h = [i \in 1 .. Len(t) |-> IF i = 1 THEN t[i] ELSE h[i - 1] \o t[i]])[Len(t)]
    BY <1>1 DEF FlattenSeq
  <2> HIDE DEF t
  <2>2. QED
    BY <1>1, <2>1 DEF IsTable, Row
<1>3. IsTable(t, f, n)
  BY TableExists
<1> HIDE DEF f
<1>4. IsTable(s, f, n)
  <2>1. \A i \in 1 .. n : Row(t, f, i) = Row(s, f, i)
    BY DEF Row
  <2> HIDE DEF t
  <2>2. QED
    BY <1>3, <2>1 DEF IsTable
<1>5. QED
  BY <1>2, <1>4 DEF Joined

LEMMA JoinedOneMore ==
  ASSUME NEW V, NEW N \in Nat, NEW s \in [1 .. N -> Seq(V)], NEW n \in Nat, n < N,
         Joined(s, n) \in Seq(V)
  PROVE  Joined(s, n + 1) = Joined(s, n) \o s[n + 1] /\ s[n + 1] \in Seq(V)
<1>1. PICK f : IsTable(s, f, n + 1) /\ Joined(s, n + 1) = f[n + 1]
  BY JoinedIsRow
<1>2. n + 1 \in 1 .. N /\ n + 1 \in 1 .. n + 1 /\ (n + 1) - 1 = n
  OBVIOUS
<1>3. f[n + 1] = Row(s, f, n + 1)
  BY <1>1, <1>2 DEF IsTable
<1>4. CASE n = 0
  <2>1. f[n + 1] = s[n + 1]
    BY <1>3, <1>4 DEF Row
  <2>2. Joined(s, n) = <<>>
    BY <1>4, JoinedNone
  <2>3. <<>> \o s[n + 1] = s[n + 1] /\ s[n + 1] \in Seq(V)
    BY <1>2, ConcatEmptySeq
  <2>4. QED
    BY <1>1, <2>1, <2>2, <2>3
<1>5. CASE n # 0
  <2>1. PICK g : IsTable(s, g, n) /\ Joined(s, n) = g[n]
    BY <1>5, JoinedIsRow
  <2>2. \A i \in 1 .. n : g[i] = f[i]
    BY <1>1, <2>1, TablesAgree
  <2>3. n \in 1 .. n
    BY <1>5
  <2>4. f[n + 1] = f[n] \o s[n + 1]
    <3>1. n + 1 # 1
      BY <1>5
    <3>2. Row(s, f, n + 1) = f[(n + 1) - 1] \o s[n + 1]
      BY <3>1 DEF Row
    <3>3. QED
      BY <1>2, <1>3, <3>2
  <2>5. QED
    BY <1>1, <1>2, <2>1, <2>2, <2>3, <2>4
<1>6. QED
  BY <1>4, <1>5

LEMMA JoinedType ==
  ASSUME NEW V, NEW N \in Nat, NEW s \in [1 .. N -> Seq(V)]
  PROVE  \A n \in 0 .. N : Joined(s, n) \in Seq(V)
<1> DEFINE T == {n \in Nat : n <= N => Joined(s, n) \in Seq(V)}
<1>1. 0 \in T
  <2>1. Joined(s, 0) = <<>> /\ <<>> \in Seq(V)
    BY JoinedNone
  <2>2. QED
    BY <2>1
<1>2. ASSUME NEW n \in Nat, n \in T PROVE n + 1 \in T
  <2> SUFFICES ASSUME n + 1 <= N PROVE Joined(s, n + 1) \in Seq(V)
    OBVIOUS
  <2>1. n < N /\ Joined(s, n) \in Seq(V)
    BY <1>2
  <2>2. Joined(s, n + 1) = Joined(s, n) \o s[n + 1] /\ s[n + 1] \in Seq(V)
    BY <2>1, JoinedOneMore
  <2>3. QED
    BY <2>1, <2>2, ConcatProperties
<1>3. \A n \in Nat : n \in T
  <2> HIDE DEF T
  <2>1. QED
    BY <1>1, <1>2, Upwards
<1>4. QED
  BY <1>3

\* z is y behind x.
IsConcat(V, x, y, z) ==
  /\ x \in Seq(V) /\ y \in Seq(V) /\ z \in Seq(V)
  /\ z = x \o y
  /\ Len(x) \in Nat /\ Len(y) \in Nat /\ Len(z) = Len(x) + Len(y)
  /\ \A i \in 1 .. Len(x) : z[i] = x[i]
  /\ \A i \in 1 .. Len(y) : z[Len(x) + i] = y[i]

\* One part more, by position.
LEMMA JoinedStep ==
  ASSUME NEW V, NEW N \in Nat, NEW s \in [1 .. N -> Seq(V)], NEW n \in Nat, n + 1 <= N
  PROVE  IsConcat(V, Joined(s, n), s[n + 1], Joined(s, n + 1))
<1>1. n < N /\ n \in 0 .. N
  OBVIOUS
<1>2. Joined(s, n) \in Seq(V)
  BY <1>1, JoinedType
<1>3. Joined(s, n + 1) = Joined(s, n) \o s[n + 1] /\ s[n + 1] \in Seq(V)
  BY <1>1, <1>2, JoinedOneMore
<1> DEFINE x == Joined(s, n)
           y == s[n + 1]
           z == Joined(s, n + 1)
<1>4. x \in Seq(V) /\ y \in Seq(V) /\ z = x \o y
  BY <1>2, <1>3
<1> HIDE DEF x, y, z
<1>5. /\ z \in Seq(V) /\ Len(x) \in Nat /\ Len(y) \in Nat /\ Len(z) = Len(x) + Len(y)
      /\ \A i \in 1 .. Len(x) : z[i] = x[i]
      /\ \A i \in 1 .. Len(y) : z[Len(x) + i] = y[i]
  BY <1>4, ConcatParts
<1>6. QED
  BY <1>4, <1>5 DEF x, y, z, IsConcat

\* What the parts hold is what the whole holds.
Holds(q, v) == \E i \in DOMAIN q : q[i] = v

LEMMA JoinedHolds ==
  ASSUME NEW V, NEW N \in Nat, NEW s \in [1 .. N -> Seq(V)], NEW v
  PROVE  \A n \in 0 .. N : Holds(Joined(s, n), v) <=> \E k \in 1 .. n : Holds(s[k], v)
<1> DEFINE T == {n \in Nat : n <= N =>
                   (Holds(Joined(s, n), v) <=> \E k \in 1 .. n : Holds(s[k], v))}
<1>1. 0 \in T
  <2>1. Joined(s, 0) = <<>> /\ DOMAIN <<>> = {} /\ 1 .. 0 = {}
    BY JoinedNone
  <2>2. QED
    BY <2>1 DEF Holds
<1>2. ASSUME NEW n \in Nat, n \in T PROVE n + 1 \in T
  <2> SUFFICES ASSUME n + 1 <= N
               PROVE  Holds(Joined(s, n + 1), v) <=> \E k \in 1 .. n + 1 : Holds(s[k], v)
    OBVIOUS
  <2> DEFINE x == Joined(s, n)
             y == s[n + 1]
             z == Joined(s, n + 1)
  <2>1. /\ x \in Seq(V) /\ y \in Seq(V) /\ z \in Seq(V)
        /\ Len(x) \in Nat /\ Len(y) \in Nat /\ Len(z) = Len(x) + Len(y)
        /\ \A i \in 1 .. Len(x) : z[i] = x[i]
        /\ \A i \in 1 .. Len(y) : z[Len(x) + i] = y[i]
    <3>1. IsConcat(V, x, y, z)
      BY JoinedStep
    <3>2. QED
      BY <3>1 DEF IsConcat
  <2>2. Holds(x, v) <=> \E k \in 1 .. n : Holds(s[k], v)
    BY <1>2
  <2>3. \A k : k \in 1 .. n + 1 <=> k \in 1 .. n \/ k = n + 1
    OBVIOUS
  <2>4. (\E k \in 1 .. n + 1 : Holds(s[k], v)) <=> Holds(x, v) \/ Holds(y, v)
    BY <2>2, <2>3
  <2> HIDE DEF x, y, z
  <2>5. DOMAIN x = 1 .. Len(x) /\ DOMAIN y = 1 .. Len(y) /\ DOMAIN z = 1 .. Len(x) + Len(y)
    BY <2>1, LenProperties
  <2>6. Holds(z, v) => Holds(x, v) \/ Holds(y, v)
    <3> SUFFICES ASSUME NEW i \in 1 .. Len(x) + Len(y), z[i] = v PROVE Holds(x, v) \/ Holds(y, v)
      BY <2>5 DEF Holds
    <3>1. CASE i <= Len(x)
      <4>1. i \in 1 .. Len(x)
        BY <2>1, <3>1
      <4>2. QED
        BY <2>1, <2>5, <4>1 DEF Holds
    <3>2. CASE ~(i <= Len(x))
      <4>1. i - Len(x) \in 1 .. Len(y) /\ Len(x) + (i - Len(x)) = i
        BY <2>1, <3>2
      <4>2. y[i - Len(x)] = v
        BY <2>1, <4>1
      <4>3. QED
        BY <2>5, <4>1, <4>2 DEF Holds
    <3>3. QED
      BY <3>1, <3>2
  <2>7. Holds(x, v) => Holds(z, v)
    <3> SUFFICES ASSUME NEW i \in 1 .. Len(x), x[i] = v PROVE Holds(z, v)
      BY <2>5 DEF Holds
    <3>1. i \in 1 .. Len(x) + Len(y) /\ z[i] = v
      BY <2>1
    <3>2. QED
      BY <2>5, <3>1 DEF Holds
  <2>8. Holds(y, v) => Holds(z, v)
    <3> SUFFICES ASSUME NEW i \in 1 .. Len(y), y[i] = v PROVE Holds(z, v)
      BY <2>5 DEF Holds
    <3>1. Len(x) + i \in 1 .. Len(x) + Len(y) /\ z[Len(x) + i] = v
      BY <2>1
    <3>2. QED
      BY <2>5, <3>1 DEF Holds
  <2>9. Holds(z, v) <=> \E k \in 1 .. n + 1 : Holds(s[k], v)
    BY <2>4, <2>6, <2>7, <2>8
  <2>10. QED
    BY <2>9 DEF z
<1>3. \A n \in Nat : n \in T
  <2> HIDE DEF T
  <2>1. QED
    BY <1>1, <1>2, Upwards
<1>4. QED
  BY <1>3

\* The first parts are the beginning of all parts.
LEMMA JoinedPrefix ==
  ASSUME NEW V, NEW N \in Nat, NEW s \in [1 .. N -> Seq(V)], NEW m \in Nat
  PROVE  \A n \in Nat : m <= n /\ n <= N => IsPrefix(Joined(s, m), Joined(s, n))
<1> DEFINE Begins(x, z) == Len(x) <= Len(z) /\ \A i \in 1 .. Len(x) : z[i] = x[i]
           T == {n \in Nat : m <= n /\ n <= N => Begins(Joined(s, m), Joined(s, n))}
<1>1. ASSUME NEW n \in 0 .. N PROVE Len(Joined(s, n)) \in Nat
  <2>1. Joined(s, n) \in Seq(V)
    BY JoinedType
  <2>2. QED
    BY <2>1, LenProperties
<1>2. m <= N => Begins(Joined(s, m), Joined(s, m))
  BY <1>1
<1>3. 0 \in T
  <2>1. m <= 0 => m = 0
    OBVIOUS
  <2>2. QED
    BY <1>2, <2>1
<1>4. ASSUME NEW n \in Nat, n \in T PROVE n + 1 \in T
  <2> SUFFICES ASSUME m <= n + 1, n + 1 <= N PROVE Begins(Joined(s, m), Joined(s, n + 1))
    OBVIOUS
  <2>1. CASE m = n + 1
    BY <1>2, <2>1
  <2>2. CASE m <= n
    <3> DEFINE w == Joined(s, m)
               x == Joined(s, n)
               y == s[n + 1]
               z == Joined(s, n + 1)
    <3>1. /\ Len(x) \in Nat /\ Len(y) \in Nat /\ Len(z) = Len(x) + Len(y)
          /\ \A i \in 1 .. Len(x) : z[i] = x[i]
      <4>1. IsConcat(V, x, y, z)
        BY JoinedStep
      <4>2. QED
        BY <4>1 DEF IsConcat
    <3>2. Len(w) <= Len(x) /\ \A i \in 1 .. Len(w) : x[i] = w[i]
      BY <1>4, <2>2
    <3>3. Len(w) \in Nat
      BY <1>1, <2>2
    <3> HIDE DEF w, x, y, z
    <3>4. Len(w) <= Len(z) /\ \A i \in 1 .. Len(w) : z[i] = w[i]
      BY <3>1, <3>2, <3>3
    <3>5. QED
      BY <3>4 DEF w, z
  <2>3. QED
    BY <2>1, <2>2
<1>5. \A n \in Nat : n \in T
  <2> HIDE DEF T
  <2>1. QED
    BY <1>3, <1>4, Upwards
<1>6. ASSUME NEW n \in Nat, m <= n, n <= N PROVE IsPrefix(Joined(s, m), Joined(s, n))
  <2> DEFINE x == Joined(s, m)
             z == Joined(s, n)
  <2>1. x \in Seq(V) /\ z \in Seq(V)
    <3>1. m \in 0 .. N /\ n \in 0 .. N
      BY <1>6
    <3>2. QED
      BY <3>1, JoinedType
  <2>2. Len(x) <= Len(z) /\ \A i \in 1 .. Len(x) : z[i] = x[i]
    BY <1>5, <1>6
  <2> HIDE DEF x, z
  <2>3. Len(x) \in Nat
    BY <2>1, LenProperties
  <2>4. SubSeq(x, 1, Len(x)) = SubSeq(z, 1, Len(x))
    BY <2>2, <2>3
  <2>5. QED
    BY <2>2, <2>4 DEF IsPrefix, x, z
<1>7. QED
  BY <1>6

\* Where an element of a concatenation comes from.
LEMMA ConcatCases ==
  ASSUME NEW V, NEW x, NEW y, NEW z, IsConcat(V, x, y, z)
  PROVE  \A i \in DOMAIN z :
           /\ i \in Nat
           /\ \/ i <= Len(x) /\ i \in DOMAIN x /\ z[i] = x[i]
              \/ i > Len(x) /\ i - Len(x) \in DOMAIN y /\ z[i] = y[i - Len(x)]
<1>1. DOMAIN x = 1 .. Len(x) /\ DOMAIN y = 1 .. Len(y) /\ DOMAIN z = 1 .. Len(x) + Len(y)
  BY LenProperties DEF IsConcat
<1>2. Len(x) \in Nat /\ Len(y) \in Nat
  BY DEF IsConcat
<1> TAKE i \in DOMAIN z
<1>3. CASE i <= Len(x)
  <2>1. i \in 1 .. Len(x)
    BY <1>1, <1>2, <1>3
  <2>2. z[i] = x[i]
    BY <2>1 DEF IsConcat
  <2>3. QED
    BY <1>1, <1>2, <1>3, <2>1, <2>2
<1>4. CASE ~(i <= Len(x))
  <2> DEFINE j == i - Len(x)
  <2>1. j \in 1 .. Len(y) /\ Len(x) + j = i
    BY <1>1, <1>2, <1>4
  <2>2. z[Len(x) + j] = y[j]
    BY <2>1 DEF IsConcat
  <2>3. QED
    BY <1>1, <1>2, <1>4, <2>1, <2>2
<1>5. QED
  BY <1>3, <1>4

Ordered(q) == \A i, j \in DOMAIN q : i < j => q[i].sequence < q[j].sequence
Before(q, r) == \A v, w : Holds(q, v) /\ Holds(r, w) => v.sequence < w.sequence

LEMMA ConcatOrdered ==
  ASSUME NEW V, NEW x, NEW y, NEW z, IsConcat(V, x, y, z), Ordered(x), Ordered(y), Before(x, y)
  PROVE  Ordered(z)
<1> SUFFICES ASSUME NEW i \in DOMAIN z, NEW j \in DOMAIN z, i < j
             PROVE  z[i].sequence < z[j].sequence
  BY DEF Ordered
<1>1. /\ i \in Nat /\ j \in Nat /\ Len(x) \in Nat
      /\ \/ i <= Len(x) /\ i \in DOMAIN x /\ z[i] = x[i]
         \/ i > Len(x) /\ i - Len(x) \in DOMAIN y /\ z[i] = y[i - Len(x)]
      /\ \/ j <= Len(x) /\ j \in DOMAIN x /\ z[j] = x[j]
         \/ j > Len(x) /\ j - Len(x) \in DOMAIN y /\ z[j] = y[j - Len(x)]
  BY ConcatCases DEF IsConcat
<1>2. CASE j <= Len(x)
  <2>1. i <= Len(x)
    BY <1>1, <1>2
  <2>2. QED
    BY <1>1, <1>2, <2>1 DEF Ordered
<1>3. CASE i > Len(x)
  <2>1. j > Len(x) /\ i - Len(x) < j - Len(x)
    BY <1>1, <1>3
  <2>2. ~(i <= Len(x)) /\ ~(j <= Len(x))
    BY <1>1, <1>3, <2>1
  <2> DEFINE k == i - Len(x)
             l == j - Len(x)
  <2>3. k \in DOMAIN y /\ l \in DOMAIN y /\ k < l /\ z[i] = y[k] /\ z[j] = y[l]
    BY <1>1, <2>1, <2>2
  <2> HIDE DEF k, l
  <2>4. QED
    BY <2>3 DEF Ordered
<1>4. CASE i <= Len(x) /\ j > Len(x)
  <2>1. Holds(x, z[i]) /\ Holds(y, z[j])
    <3>1. ~(i > Len(x)) /\ ~(j <= Len(x))
      BY <1>1, <1>4
    <3>2. QED
      BY <1>1, <3>1 DEF Holds
  <2>2. QED
    BY <2>1 DEF Before
<1>5. QED
  BY <1>1, <1>2, <1>3, <1>4

\* Ordered parts, each before the next ones, make an ordered whole.
LEMMA JoinedOrder ==
  ASSUME NEW V, NEW N \in Nat, NEW s \in [1 .. N -> Seq(V)],
         \A k \in 1 .. N : Ordered(s[k]),
         \A j, k \in 1 .. N : j < k => Before(s[j], s[k])
  PROVE  \A n \in 0 .. N : Ordered(Joined(s, n))
<1> DEFINE T == {n \in Nat : n <= N => Ordered(Joined(s, n))}
<1>1. 0 \in T
  <2>1. Joined(s, 0) = <<>> /\ DOMAIN <<>> = {}
    BY JoinedNone
  <2>2. QED
    BY <2>1 DEF Ordered
<1>2. ASSUME NEW n \in Nat, n \in T PROVE n + 1 \in T
  <2> SUFFICES ASSUME n + 1 <= N PROVE Ordered(Joined(s, n + 1))
    OBVIOUS
  <2>1. n + 1 \in 1 .. N /\ n \in 0 .. N /\ n <= N
    OBVIOUS
  <2>2. Ordered(Joined(s, n)) /\ Ordered(s[n + 1])
    BY <1>2, <2>1
  <2>3. Before(Joined(s, n), s[n + 1])
    <3> SUFFICES ASSUME NEW v, NEW w, Holds(Joined(s, n), v), Holds(s[n + 1], w)
                 PROVE  v.sequence < w.sequence
      BY DEF Before
    <3>1. PICK k \in 1 .. n : Holds(s[k], v)
      BY <2>1, JoinedHolds
    <3>2. k \in 1 .. N /\ k < n + 1
      BY <2>1
    <3>3. Before(s[k], s[n + 1])
      BY <2>1, <3>2
    <3>4. QED
      BY <3>1, <3>3 DEF Before
  <2>4. IsConcat(V, Joined(s, n), s[n + 1], Joined(s, n + 1))
    BY JoinedStep
  <2>5. QED
    BY <2>2, <2>3, <2>4, ConcatOrdered
<1>3. \A n \in Nat : n \in T
  <2> HIDE DEF T
  <2>1. QED
    BY <1>1, <1>2, Upwards
<1>4. QED
  BY <1>3

\* The whole ends as its last part does that holds anything.
LEMMA JoinedLast ==
  ASSUME NEW V, NEW N \in Nat, NEW s \in [1 .. N -> Seq(V)], NEW k \in 1 .. N, s[k] # <<>>
  PROVE  \A n \in Nat :
           k <= n /\ n <= N /\ (\A j \in k + 1 .. n : s[j] = <<>>) =>
             Joined(s, n) # <<>> /\ Last(Joined(s, n)) = Last(s[k])
<1> DEFINE Quiet(n) == k <= n /\ n <= N /\ \A j \in k + 1 .. n : s[j] = <<>>
           Ends(n) == Joined(s, n) # <<>> /\ Last(Joined(s, n)) = Last(s[k])
           T == {n \in Nat : Quiet(n) => Ends(n)}
<1>1. 0 \in T
  OBVIOUS
<1>2. ASSUME NEW n \in Nat, n \in T PROVE n + 1 \in T
  <2> SUFFICES ASSUME Quiet(n + 1) PROVE Ends(n + 1)
    OBVIOUS
  <2> DEFINE x == Joined(s, n)
             y == s[n + 1]
             z == Joined(s, n + 1)
  <2>1. IsConcat(V, x, y, z)
    BY JoinedStep
  <2>2. CASE n + 1 = k
    <3>1. y # <<>> /\ y = s[k]
      BY <2>2
    <3> HIDE DEF x, y, z
    <3>2. Len(y) # 0
      BY <2>1, <3>1, EmptySeq DEF IsConcat
    <3>3. Len(y) \in 1 .. Len(y) /\ Len(z) = Len(x) + Len(y) /\ Len(z) # 0
      BY <2>1, <3>2 DEF IsConcat
    <3>4. z[Len(z)] = y[Len(y)]
      BY <2>1, <3>3 DEF IsConcat
    <3>5. z # <<>>
      <4>1. Len(<<>>) = 0
        OBVIOUS
      <4>2. QED
        BY <3>3, <4>1
    <3>6. QED
      BY <3>1, <3>4, <3>5 DEF Last, z
  <2>3. CASE n + 1 # k
    <3>1. Quiet(n)
      <4>1. k <= n /\ n <= N /\ \A j \in k + 1 .. n : j \in k + 1 .. n + 1
        BY <2>3
      <4>2. QED
        BY <4>1
    <3>2. Ends(n)
      BY <1>2, <3>1
    <3>3. n + 1 \in k + 1 .. n + 1
      BY <3>1
    <3>4. y = <<>>
      BY <3>3
    <3> HIDE DEF y
    <3>5. z = x
      <4> HIDE DEF x, z
      <4>1. z = x \o <<>> /\ x \in Seq(V)
        BY <2>1, <3>4 DEF IsConcat
      <4>2. QED
        BY <4>1, ConcatEmptySeq
    <3>6. QED
      BY <3>2, <3>5
  <2>4. QED
    BY <2>2, <2>3
<1>3. \A n \in Nat : n \in T
  <2> HIDE DEF T
  <2>1. QED
    BY <1>1, <1>2, Upwards
<1>4. QED
  BY <1>3

LEMMA JoinedNothing ==
  ASSUME NEW V, NEW N \in Nat, NEW s \in [1 .. N -> Seq(V)], \A k \in 1 .. N : s[k] = <<>>
  PROVE  Joined(s, N) = <<>>
<1> DEFINE x == Joined(s, N)
<1>1. x \in Seq(V)
  <2>1. N \in 0 .. N
    OBVIOUS
  <2>2. QED
    BY <2>1, JoinedType
<1>2. SUFFICES ASSUME x # <<>> PROVE FALSE
  OBVIOUS
<1>3. Len(x) \in Nat /\ Len(x) # 0 /\ DOMAIN x = 1 .. Len(x)
  <2> HIDE DEF x
  <2>1. QED
    BY <1>1, <1>2, EmptySeq, LenProperties
<1>4. Holds(x, x[1])
  BY <1>3 DEF Holds
<1>5. PICK k \in 1 .. N : Holds(s[k], x[1])
  <2>1. N \in 0 .. N
    OBVIOUS
  <2>2. QED
    BY <1>4, <2>1, JoinedHolds
<1>6. DOMAIN <<>> = {}
  OBVIOUS
<1>7. QED
  BY <1>5, <1>6 DEF Holds

-----------------------------------------------------------------------------
(* One segment: whole records, or whole records and a torn one with more behind it. *)

\* The cells that are ever written.
WalCells == UNION {RecordCells(n, c) : n \in Nat, c \in Commands}

LEMMA WalCellsAreCells ==
  /\ CellType(WalCells)
  /\ \A n \in Nat, c \in Commands : /\ IsCommand(c)
                                    /\ EncodeRecord(n, c) \in Seq(WalCells)
                                    /\ WalCells \cup RecordCells(n, c) = WalCells
<1>1. ASSUME NEW n \in Nat, NEW c \in Commands
      PROVE  /\ IsCommand(c) /\ CellType(RecordCells(n, c))
             /\ EncodeRecord(n, c) \in Seq(RecordCells(n, c))
             /\ RecordCells(n, c) \subseteq WalCells
  <2>1. IsCommand(c)
    BY WalAssumption
  <2>2. RecordCells(n, c) \subseteq WalCells
    BY DEF WalCells
  <2>3. QED
    BY <2>1, <2>2, RecordShape
<1>2. CellType(WalCells)
  BY <1>1 DEF CellType, WalCells
<1>3. ASSUME NEW n \in Nat, NEW c \in Commands
      PROVE  EncodeRecord(n, c) \in Seq(WalCells) /\ WalCells \cup RecordCells(n, c) = WalCells
  <2>1. Seq(RecordCells(n, c)) \subseteq Seq(WalCells)
    BY <1>1, SeqMonotonic
  <2>2. QED
    BY <1>1, <2>1
<1>4. QED
  BY <1>1, <1>2, <1>3

\* A checksum is taken of a sequence number and of fields, never of a length.
Summed(x) == x[1] = "crc" => x[2][1] = "sequence" /\ \A i \in DOMAIN x[3] : x[3][i][1] = "field"

LEMMA SumsOfFields == \A x \in WalCells : Summed(x)
<1> SUFFICES ASSUME NEW n \in Nat, NEW c \in Commands, NEW x \in RecordCells(n, c)
             PROVE  Summed(x)
  BY DEF WalCells
<1> DEFINE r == EncodeRecord(n, c)
           l == Len(Encode(c))
           p == [i \in 1 .. l |-> <<"field", Encode(c)[i]>>]
<1>1. /\ l \in Nat /\ r \in Seq(RecordCells(n, c)) /\ Len(r) = l + 4
      /\ r[1] = <<"lo", l>> /\ r[2] = <<"hi", l>> /\ r[3] = <<"sequence", n>>
      /\ \A i \in 1 .. l : r[3 + i] = p[i]
      /\ r[l + 4] = Crc(<<"sequence", n>>, p)
  <2>1. IsCommand(c)
    BY WalCellsAreCells
  <2> DEFINE b == Encode(c)
             q == [i \in 1 .. Len(b) |-> <<"field", b[i]>>]
  <2>2. /\ Len(b) \in Nat /\ r \in Seq(RecordCells(n, c)) /\ Len(r) = Len(b) + 4
        /\ r[1] = <<"lo", Len(b)>> /\ r[2] = <<"hi", Len(b)>> /\ r[3] = <<"sequence", n>>
        /\ \A i \in 1 .. Len(b) : r[3 + i] = q[i]
        /\ r[Len(b) + 4] = Crc(<<"sequence", n>>, q)
    BY <2>1, RecordShape
  <2>3. QED
    BY <2>2
<1>2. \A i \in 1 .. l : p[i][1] = "field"
  OBVIOUS
<1>3. DOMAIN p = 1 .. l
  OBVIOUS
<1>4. PICK k \in 1 .. l + 4 : x = r[k]
  BY <1>1, LenProperties DEF RecordCells
<1> HIDE DEF r, p, l
<1>5. CASE k \in {1, 2, 3}
  BY <1>1, <1>4, <1>5 DEF Summed
<1>6. CASE k = l + 4
  <2>1. x = <<"crc", <<"sequence", n>>, p>>
    BY <1>1, <1>4, <1>6 DEF Crc
  <2>2. x[2] = <<"sequence", n>> /\ x[3] = p
    BY <2>1
  <2>3. QED
    BY <1>2, <1>3, <2>2 DEF Summed
<1>7. CASE k \notin {1, 2, 3} /\ k # l + 4
  <2> DEFINE i == k - 3
  <2>1. i \in 1 .. l /\ 3 + i = k
    BY <1>1, <1>7
  <2> HIDE DEF i
  <2>2. x[1] = "field"
    BY <1>1, <1>2, <1>4, <2>1
  <2>3. QED
    BY <2>2 DEF Summed
<1>8. QED
  BY <1>5, <1>6, <1>7

\* From q on: the beginning of a record, torn, then the end of the file or the start of
\* another record.
TornAt(d, q) ==
  \E n \in Nat, c \in Commands : \E m \in 1 .. Len(EncodeRecord(n, c)) - 1 :
    /\ q + m <= Len(d)
    /\ \A i \in 1 .. m : d[q + i] = EncodeRecord(n, c)[i]
    /\ q + m = Len(d) \/ d[q + m + 1][1] = "lo"

\* What is written behind a torn record does not complete it.
LEMMA TornNeverDecodes ==
  ASSUME NEW d \in Seq(WalCells), NEW q \in Nat, TornAt(d, q)
  PROVE  q \in 0 .. Len(d) /\ q # Len(d) /\ ~DecodeRecord(Suffix(d, q)).ok
<1>1. PICK n \in Nat, c \in Commands :
        \E m \in 1 .. Len(EncodeRecord(n, c)) - 1 :
          /\ q + m <= Len(d)
          /\ \A i \in 1 .. m : d[q + i] = EncodeRecord(n, c)[i]
          /\ q + m = Len(d) \/ d[q + m + 1][1] = "lo"
  BY DEF TornAt
<1> DEFINE r == EncodeRecord(n, c)
           s == Suffix(d, q)
           l == Len(Encode(c))
<1>2. PICK m \in 1 .. Len(r) - 1 :
        /\ q + m <= Len(d)
        /\ \A i \in 1 .. m : d[q + i] = r[i]
        /\ q + m = Len(d) \/ d[q + m + 1][1] = "lo"
  BY <1>1
<1>3. IsCommand(c) /\ r \in Seq(WalCells)
  BY WalCellsAreCells
<1>4. l \in Nat /\ Len(r) = l + 4 /\ r[1] = <<"lo", l>> /\ r[2] = <<"hi", l>>
  <2> DEFINE b == Encode(c)
             p == [i \in 1 .. Len(b) |-> <<"field", b[i]>>]
  <2>1. /\ Len(b) \in Nat /\ Len(r) = Len(b) + 4
        /\ r[1] = <<"lo", Len(b)>> /\ r[2] = <<"hi", Len(b)>>
        /\ r[3] = <<"sequence", n>>
        /\ \A i \in 1 .. Len(b) : r[3 + i] = p[i]
        /\ r[Len(b) + 4] = Crc(<<"sequence", n>>, p)
    BY <1>3, RecordShape
  <2>2. QED
    BY <2>1
<1>5. Len(d) \in Nat
  BY LenProperties
<1> HIDE DEF r, l
<1>6. m \in Nat /\ m >= 1 /\ m < l + 4
  BY <1>4
<1>7. q \in 0 .. Len(d) /\ q # Len(d)
  BY <1>2, <1>5, <1>6
<1>8. s \in Seq(WalCells) /\ Len(s) = Len(d) - q /\ \A i \in 1 .. Len(d) - q : s[i] = d[q + i]
  BY <1>7, SuffixIsSeq
<1> HIDE DEF s
<1>9. Len(s) \in Nat /\ m <= Len(s)
  BY <1>2, <1>5, <1>6, <1>7, <1>8
<1>10. \A i \in 1 .. m : s[i] = r[i]
  <2> TAKE i \in 1 .. m
  <2>1. i \in 1 .. Len(d) - q
    BY <1>5, <1>6, <1>7, <1>8, <1>9
  <2>2. QED
    BY <1>2, <1>8, <2>1
<1>11. CASE q + m = Len(d)
  <2>1. Len(s) = m /\ Len(s) < Len(r)
    BY <1>4, <1>5, <1>6, <1>7, <1>8, <1>11
  <2>2. ~DecodeRecord(s).ok
    BY <1>3, <1>8, <1>10, <2>1, TornDoesNotDecode DEF r
  <2>3. QED
    BY <1>7, <2>2 DEF s
<1>12. CASE q + m # Len(d)
  <2>1. m + 1 \in 1 .. Len(s) /\ m + 1 \in 1 .. Len(d) - q
    <3>1. q + m <= Len(d) /\ q + m # Len(d)
      BY <1>2, <1>12
    <3>2. \A a, b, e \in Nat : a + b <= e /\ a + b # e => b + 1 \in 1 .. e - a
      OBVIOUS
    <3>3. m + 1 \in 1 .. Len(d) - q
      BY <1>5, <1>6, <3>1, <3>2
    <3>4. QED
      BY <1>8, <3>3
  <2>2. s[m + 1][1] = "lo"
    <3>1. q + (m + 1) = q + m + 1
      BY <1>6
    <3>2. s[m + 1] = d[q + (m + 1)]
      BY <1>8, <2>1
    <3>3. QED
      BY <1>2, <1>12, <3>1, <3>2
  <2>3. CASE m = 1
    <3>1. s[2][1] = "lo"
      BY <2>2, <2>3
    <3>2. DecodeRecord(s) = InvalidData
      BY <3>1 DEF DecodeRecord
    <3>3. QED
      BY <1>7, <3>2 DEF InvalidData, s
  <2>4. CASE m # 1
    <3> DEFINE p == [i \in 1 .. l |-> s[i + 3]]
    <3>1. s[1] = <<"lo", l>> /\ s[2] = <<"hi", l>>
      <4>1. 1 \in 1 .. m /\ 2 \in 1 .. m
        BY <1>6, <2>4
      <4>2. QED
        BY <1>4, <1>10, <4>1
    <3>2. s[1][2] = l /\ s[1][1] = "lo" /\ s[2][1] = "hi" /\ Len(s) >= 2
      BY <1>6, <1>9, <2>4, <3>1
    <3>3. DecodeRecord(s) = IF Len(s) < l + 4 \/ s[l + 4] # Crc(s[3], p) THEN InvalidData
                            ELSE Read(l + 4, s[3][2], Decode(Fields(p)))
      BY <1>4, <1>9, <3>2, DecodeRecordMeans
    <3>4. ASSUME l + 4 <= Len(s), s[l + 4] = Crc(s[3], p) PROVE FALSE
      <4>1. s[l + 4] \in WalCells
        <5>1. l + 4 \in 1 .. Len(s)
          BY <1>4, <1>9, <3>4
        <5>2. QED
          BY <1>8, <5>1, ElementOfSeq
      <4>2. s[l + 4][1] = "crc" /\ s[l + 4][2] = s[3] /\ s[l + 4][3] = p
        BY <3>4 DEF Crc
      <4>3. s[3][1] = "sequence" /\ \A i \in 1 .. l : p[i][1] = "field"
        <5>1. Summed(s[l + 4])
          BY <4>1, SumsOfFields
        <5>2. DOMAIN p = 1 .. l
          OBVIOUS
        <5> HIDE DEF p
        <5>3. QED
          BY <4>2, <5>1, <5>2 DEF Summed
      <4>4. CASE m = 2
        BY <2>2, <4>3, <4>4
      <4>5. CASE m = l + 3
        <5>1. m + 1 = l + 4
          BY <1>4, <4>5
        <5>2. QED
          BY <2>2, <4>2, <5>1
      <4>6. CASE m # 2 /\ m # l + 3
        <5> DEFINE i == m - 2
        <5>1. i \in 1 .. l /\ i + 3 = m + 1
          BY <1>4, <1>6, <2>4, <4>6
        <5>2. p[i] = s[i + 3]
          <6> HIDE DEF i
          <6>1. QED
            BY <5>1
        <5> HIDE DEF p, i
        <5>3. QED
          BY <2>2, <4>3, <5>1, <5>2
      <4>7. QED
        BY <4>4, <4>5, <4>6
    <3>5. Len(s) < l + 4 \/ s[l + 4] # Crc(s[3], p)
      <4> HIDE DEF p
      <4>1. QED
        BY <1>4, <1>9, <3>4
    <3>6. DecodeRecord(s) = InvalidData
      BY <3>3, <3>5
    <3>7. QED
      BY <1>7, <3>6 DEF InvalidData, s
  <2>5. QED
    BY <2>3, <2>4
<1>13. QED
  BY <1>11, <1>12

\* The scan of the file ends at a torn record.
Stuck(d) == TornAt(d, Scan(d).end)

\* The first m cells of a record.
Piece(n, c, m) == SubSeq(EncodeRecord(n, c), 1, m)

LEMMA PieceMeans ==
  ASSUME NEW n \in Nat, NEW c \in Commands, NEW m \in 0 .. Len(EncodeRecord(n, c))
  PROVE  /\ Piece(n, c, m) \in Seq(WalCells) /\ Len(Piece(n, c, m)) = m
         /\ \A i \in 1 .. m : Piece(n, c, m)[i] = EncodeRecord(n, c)[i]
         /\ m = 0 => Piece(n, c, m) = <<>>
         /\ m # 0 => Piece(n, c, m)[1][1] = "lo"
         /\ Piece(n, c, Len(EncodeRecord(n, c))) = EncodeRecord(n, c)
         /\ Len(EncodeRecord(n, c)) \in Nat /\ Len(EncodeRecord(n, c)) # 0
<1> DEFINE r == EncodeRecord(n, c)
           x == SubSeq(r, 1, m)
<1>1. IsCommand(c) /\ r \in Seq(WalCells)
  BY WalCellsAreCells
<1>2. r[1][1] = "lo" /\ Len(r) # 0 /\ Len(r) \in Nat
  <2> DEFINE b == Encode(c)
             p == [i \in 1 .. Len(b) |-> <<"field", b[i]>>]
  <2>1. /\ Len(b) \in Nat /\ Len(r) = Len(b) + 4
        /\ r[1] = <<"lo", Len(b)>> /\ r[2] = <<"hi", Len(b)>>
        /\ r[3] = <<"sequence", n>>
        /\ \A i \in 1 .. Len(b) : r[3 + i] = p[i]
        /\ r[Len(b) + 4] = Crc(<<"sequence", n>>, p)
    <3>1. IsCommand(c)
      BY <1>1
    <3>2. QED
      BY <3>1, RecordShape
  <2> HIDE DEF p, b, r
  <2>2. Len(r) # 0 /\ Len(r) \in Nat
    BY <2>1
  <2>3. QED
    BY <2>1, <2>2
<1>3. m \in 0 .. Len(r)
  OBVIOUS
<1> HIDE DEF r
<1>4. x \in Seq(WalCells) /\ Len(x) = m /\ \A i \in 1 .. m : x[i] = r[i]
  BY <1>1, <1>2, <1>3
<1>5. m = 0 => x = <<>>
  <2> HIDE DEF x
  <2>1. QED
    BY <1>4, EmptySeq
<1>6. m # 0 => x[1][1] = "lo"
  <2>1. m # 0 => 1 \in 1 .. m
    BY <1>2, <1>3
  <2> HIDE DEF x
  <2>2. QED
    BY <1>2, <1>4, <2>1
<1>7. SubSeq(r, 1, Len(r)) = r
  BY <1>1, SubSeqFull
<1>8. QED
  BY <1>2, <1>4, <1>5, <1>6, <1>7 DEF Piece, r, x

\* A whole record at the end of whole records is read back.
LEMMA WriteWhole ==
  ASSUME NEW d \in Seq(WalCells), Whole(d), NEW n \in Nat, NEW c \in Commands
  PROVE  LET e == d \o EncodeRecord(n, c)
         IN  /\ e \in Seq(WalCells) /\ Whole(e)
             /\ Scan(e).entries = Append(Scan(d).entries, [sequence |-> n, command |-> c])
<1>1. IsCommand(c) /\ CellType(WalCells) /\ WalCells \cup RecordCells(n, c) = WalCells
  BY WalCellsAreCells
<1>2. /\ d \o EncodeRecord(n, c) \in Seq(WalCells \cup RecordCells(n, c))
      /\ Scan(d \o EncodeRecord(n, c)).entries = Append(Scan(d).entries, [sequence |-> n, command |-> c])
      /\ Whole(d \o EncodeRecord(n, c))
  BY <1>1, RecordIsRead
<1>3. QED
  BY <1>1, <1>2

LEMMA TornAtEnd ==
  ASSUME NEW d \in Seq(WalCells), Whole(d), NEW n \in Nat, NEW c \in Commands,
         NEW x \in Seq(WalCells), x \in Torn(n, c), Len(x) \in 1 .. Len(EncodeRecord(n, c)) - 1,
         \A i \in 1 .. Len(x) : x[i] = EncodeRecord(n, c)[i]
  PROVE  /\ d \o x \in Seq(WalCells)
         /\ Scan(d \o x).entries = Scan(d).entries
         /\ Stuck(d \o x)
<1>1. IsCommand(c) /\ CellType(WalCells)
  BY WalCellsAreCells
<1>2. Scan(d \o x).entries = Scan(d).entries /\ Scan(d \o x).end = Len(d)
  <2>1. AddsNothing(d, x)
    BY <1>1, TornAddsNothing
  <2>2. QED
    BY <2>1 DEF AddsNothing
<1> DEFINE e == d \o x
<1>3. /\ e \in Seq(WalCells) /\ Len(d) \in Nat /\ Len(x) \in Nat /\ Len(e) = Len(d) + Len(x)
      /\ \A i \in 1 .. Len(x) : e[Len(d) + i] = x[i]
  BY ConcatParts
<1> HIDE DEF e
<1>4. /\ Len(d) + Len(x) <= Len(e) /\ Len(d) + Len(x) = Len(e)
      /\ \A i \in 1 .. Len(x) : e[Len(d) + i] = EncodeRecord(n, c)[i]
  BY <1>3
<1>5. TornAt(e, Len(d))
  BY <1>4 DEF TornAt
<1>6. QED
  BY <1>2, <1>3, <1>5 DEF Stuck, e

\* A write that stops inside the record leaves a torn record and nothing to read.
LEMMA WriteTorn ==
  ASSUME NEW d \in Seq(WalCells), Whole(d), NEW n \in Nat, NEW c \in Commands,
         NEW m \in 0 .. Len(EncodeRecord(n, c)), m # Len(EncodeRecord(n, c))
  PROVE  LET e == d \o Piece(n, c, m)
         IN  /\ e \in Seq(WalCells)
             /\ Scan(e).entries = Scan(d).entries
             /\ IF m = 0 THEN Whole(e) ELSE Stuck(e)
<1> DEFINE r == EncodeRecord(n, c)
           x == Piece(n, c, m)
<1>1. /\ x \in Seq(WalCells) /\ Len(x) = m /\ \A i \in 1 .. m : x[i] = r[i]
      /\ m = 0 => x = <<>>
      /\ Len(r) \in Nat
  BY PieceMeans
<1>2. CASE m = 0
  <2>1. d \o x = d
    BY <1>1, <1>2, ConcatEmptySeq
  <2>2. QED
    BY <1>2, <2>1
<1>3. CASE m # 0
  <2>1. m \in 0 .. Len(r) - 1 /\ m \in 1 .. Len(r) - 1
    BY <1>1, <1>3
  <2>2. x \in Torn(n, c)
    BY <2>1 DEF Torn, Piece
  <2>3. /\ d \o x \in Seq(WalCells)
        /\ Scan(d \o x).entries = Scan(d).entries
        /\ Stuck(d \o x)
    BY <1>1, <2>1, <2>2, TornAtEnd
  <2>4. QED
    BY <1>3, <2>3
<1>4. QED
  BY <1>2, <1>3

\* Whatever is written behind a torn record, nothing new can be read.
LEMMA WriteBehind ==
  ASSUME NEW d \in Seq(WalCells), Stuck(d), NEW n \in Nat, NEW c \in Commands,
         NEW m \in 0 .. Len(EncodeRecord(n, c))
  PROVE  LET e == d \o Piece(n, c, m)
         IN  e \in Seq(WalCells) /\ Scan(e).entries = Scan(d).entries /\ Stuck(e)
<1> DEFINE x == Piece(n, c, m)
           e == d \o x
           q == Scan(d).end
<1>1. CellType(WalCells)
  BY WalCellsAreCells
<1>2. /\ x \in Seq(WalCells) /\ Len(x) = m
      /\ m = 0 => x = <<>>
      /\ m # 0 => x[1][1] = "lo"
      /\ m \in Nat
  BY PieceMeans
<1>3. CASE m = 0
  <2>1. e = d
    BY <1>2, <1>3, ConcatEmptySeq
  <2>2. QED
    BY <2>1
<1>4. CASE m # 0
  <2>1. /\ e \in Seq(WalCells) /\ Len(d) \in Nat /\ Len(e) = Len(d) + m
        /\ \A i \in 1 .. Len(d) : e[i] = d[i]
        /\ \A i \in 1 .. m : e[Len(d) + i] = x[i]
    BY <1>2, ConcatParts
  <2>2. q \in 0 .. Len(d)
    BY <1>1, ScanType
  <2>3. q \in Nat /\ q \in 0 .. Len(e)
    <3> HIDE DEF q, e
    <3>1. QED
      BY <1>2, <2>1, <2>2
  <2>4. TornAt(e, q)
    <3>1. PICK n1 \in Nat, c1 \in Commands : \E k \in 1 .. Len(EncodeRecord(n1, c1)) - 1 :
            /\ q + k <= Len(d)
            /\ \A i \in 1 .. k : d[q + i] = EncodeRecord(n1, c1)[i]
            /\ q + k = Len(d) \/ d[q + k + 1][1] = "lo"
      BY DEF Stuck, TornAt
    <3>2. PICK k \in 1 .. Len(EncodeRecord(n1, c1)) - 1 :
            /\ q + k <= Len(d)
            /\ \A i \in 1 .. k : d[q + i] = EncodeRecord(n1, c1)[i]
            /\ q + k = Len(d) \/ d[q + k + 1][1] = "lo"
      BY <3>1
    <3>3. k \in Nat
      OBVIOUS
    <3> HIDE DEF q, e, x
    <3>4. q + k <= Len(e)
      BY <1>2, <2>1, <2>3, <3>2, <3>3
    <3>5. ASSUME NEW i \in 1 .. k PROVE e[q + i] = EncodeRecord(n1, c1)[i]
      <4>1. q + i \in 1 .. Len(d)
        BY <2>1, <2>3, <3>2, <3>3
      <4>2. QED
        BY <2>1, <3>2, <4>1
    <3>6. e[q + k + 1][1] = "lo"
      <4>1. CASE q + k = Len(d)
        <5>1. 1 \in 1 .. m
          BY <1>2, <1>4
        <5>2. e[Len(d) + 1] = x[1]
          BY <2>1, <5>1
        <5>3. QED
          BY <1>2, <1>4, <4>1, <5>2
      <4>2. CASE q + k # Len(d)
        <5>1. q + k + 1 \in 1 .. Len(d)
          BY <2>1, <2>3, <3>2, <3>3, <4>2
        <5>2. QED
          BY <2>1, <3>2, <4>2, <5>1
      <4>3. QED
        BY <4>1, <4>2
    <3>7. QED
      BY <3>4, <3>5, <3>6 DEF TornAt
  <2>5. q # Len(e) /\ ~DecodeRecord(Suffix(e, q)).ok
    BY <2>1, <2>3, <2>4, TornNeverDecodes
  <2>6. Loop(e)[q] = [entries |-> <<>>, end |-> q]
    BY <1>1, <2>1, <2>3, <2>5, LoopMeans
  <2>7. Scan(e).entries = Scan(d).entries \o Loop(e)[q].entries /\ Scan(e).end = Loop(e)[q].end
    BY <1>1, <1>2, ScanOfMore
  <2>8. Scan(d).entries \o <<>> = Scan(d).entries
    <3>1. Scan(d).entries \in Seq(Frames(d))
      BY <1>1, ScanType
    <3>2. QED
      BY <3>1, ConcatEmptySeq
  <2>9. Scan(e).entries = Scan(d).entries /\ Scan(e).end = q
    <3> HIDE DEF e, q
    <3>1. QED
      BY <2>6, <2>7, <2>8
  <2>10. QED
    BY <2>1, <2>4, <2>9 DEF Stuck
<1>5. QED
  BY <1>3, <1>4

-----------------------------------------------------------------------------
(* A directory as a whole: what all of its files read as. *)

Entries(d) == Scan(d).entries

IsDisk(disk) ==
  /\ disk = [i \in DOMAIN disk |-> disk[i]]
  /\ Files(DOMAIN disk)
  /\ \A i \in DOMAIN disk : disk[i] \in Seq(WalCells)

Readable(disk) == UNION {Frames(disk[i]) : i \in DOMAIN disk}

Size(disk) == Cardinality(DOMAIN disk)
Paths(disk) == Listing(DOMAIN disk)
Parts(disk) == [k \in 1 .. Size(disk) |-> Entries(disk[Paths(disk)[k]])]
All(disk) == Joined(Parts(disk), Size(disk))

LEMMA DiskMeans ==
  ASSUME NEW disk, IsDisk(disk)
  PROVE  /\ Size(disk) \in Nat
         /\ Paths(disk) \in [1 .. Size(disk) -> DOMAIN disk]
         /\ DOMAIN Paths(disk) = 1 .. Size(disk) /\ Len(Paths(disk)) = Size(disk)
         /\ \A j, k \in 1 .. Size(disk) : j < k => Paths(disk)[j] < Paths(disk)[k]
         /\ \A i \in DOMAIN disk : \E k \in 1 .. Size(disk) : Paths(disk)[k] = i
         /\ DOMAIN disk \subseteq Nat
<1>1. Files(DOMAIN disk)
  BY DEF IsDisk
<1>2. DOMAIN disk \subseteq Nat
  BY <1>1 DEF Files
<1>3. QED
  BY <1>1, <1>2, ListingMeans DEF Size, Paths

LEMMA EntriesType ==
  ASSUME NEW disk, IsDisk(disk), NEW i \in DOMAIN disk
  PROVE  /\ Entries(disk[i]) \in Seq(Frames(disk[i]))
         /\ Entries(disk[i]) \in Seq(Readable(disk))
         /\ Len(disk[i]) \in Nat /\ Scan(disk[i]).end \in 0 .. Len(disk[i])
<1>1. CellType(WalCells) /\ disk[i] \in Seq(WalCells)
  BY WalCellsAreCells DEF IsDisk
<1>2. Scan(disk[i]).entries \in Seq(Frames(disk[i])) /\ Scan(disk[i]).end \in 0 .. Len(disk[i])
  BY <1>1, ScanType
<1>3. Frames(disk[i]) \subseteq Readable(disk)
  BY DEF Readable
<1>4. \A x : x \in Seq(Frames(disk[i])) => x \in Seq(Readable(disk))
  BY <1>3
<1>5. Len(disk[i]) \in Nat
  BY <1>1, LenProperties
<1>6. QED
  BY <1>2, <1>4, <1>5 DEF Entries

LEMMA PartsType ==
  ASSUME NEW disk, IsDisk(disk)
  PROVE  /\ Parts(disk) \in [1 .. Size(disk) -> Seq(Readable(disk))]
         /\ \A k \in 1 .. Size(disk) : /\ Paths(disk)[k] \in DOMAIN disk
                                       /\ Parts(disk)[k] = Entries(disk[Paths(disk)[k]])
<1>1. ASSUME NEW k \in 1 .. Size(disk)
      PROVE  /\ Paths(disk)[k] \in DOMAIN disk
             /\ Parts(disk)[k] = Entries(disk[Paths(disk)[k]])
             /\ Parts(disk)[k] \in Seq(Readable(disk))
  <2>1. Paths(disk)[k] \in DOMAIN disk
    BY DiskMeans
  <2>2. Entries(disk[Paths(disk)[k]]) \in Seq(Readable(disk))
    BY <2>1, EntriesType
  <2>3. QED
    BY <2>1, <2>2 DEF Parts
<1>2. Parts(disk) = [k \in 1 .. Size(disk) |-> Parts(disk)[k]]
  BY DEF Parts
<1>3. QED
  BY <1>1, <1>2

\* What the directory reads as is what its files do.
LEMMA AllHolds ==
  ASSUME NEW disk, IsDisk(disk), NEW v
  PROVE  Holds(All(disk), v) <=> \E i \in DOMAIN disk : Holds(Entries(disk[i]), v)
<1>1. Size(disk) \in 0 .. Size(disk) /\ Size(disk) \in Nat
  BY DiskMeans
<1>2. Parts(disk) \in [1 .. Size(disk) -> Seq(Readable(disk))]
  BY PartsType
<1>3. Holds(All(disk), v) <=> \E k \in 1 .. Size(disk) : Holds(Parts(disk)[k], v)
  BY <1>1, <1>2, JoinedHolds DEF All
<1>4. \A k \in 1 .. Size(disk) : /\ Paths(disk)[k] \in DOMAIN disk
                                  /\ Parts(disk)[k] = Entries(disk[Paths(disk)[k]])
  BY PartsType
<1>5. \A i \in DOMAIN disk : \E k \in 1 .. Size(disk) : Paths(disk)[k] = i
  BY DiskMeans
<1>6. ASSUME NEW k \in 1 .. Size(disk), Holds(Parts(disk)[k], v)
      PROVE  \E i \in DOMAIN disk : Holds(Entries(disk[i]), v)
  BY <1>4, <1>6
<1>7. ASSUME NEW i \in DOMAIN disk, Holds(Entries(disk[i]), v)
      PROVE  \E k \in 1 .. Size(disk) : Holds(Parts(disk)[k], v)
  BY <1>4, <1>5, <1>7
<1>8. QED
  BY <1>3, <1>6, <1>7

InOrder(disk) ==
  /\ \A i \in DOMAIN disk : Ordered(Entries(disk[i]))
  /\ \A i, j \in DOMAIN disk : i < j => Before(Entries(disk[i]), Entries(disk[j]))

LEMMA AllInOrder ==
  ASSUME NEW disk, IsDisk(disk), InOrder(disk)
  PROVE  Ordered(All(disk))
<1>1. Size(disk) \in 0 .. Size(disk) /\ Size(disk) \in Nat
  BY DiskMeans
<1>2. Parts(disk) \in [1 .. Size(disk) -> Seq(Readable(disk))]
  BY PartsType
<1>3. \A k \in 1 .. Size(disk) : Ordered(Parts(disk)[k])
  BY PartsType DEF InOrder
<1>4. ASSUME NEW j \in 1 .. Size(disk), NEW k \in 1 .. Size(disk), j < k
      PROVE  Before(Parts(disk)[j], Parts(disk)[k])
  <2>1. Paths(disk)[j] < Paths(disk)[k]
    BY <1>4, DiskMeans
  <2>2. QED
    BY <2>1, PartsType DEF InOrder
<1>5. QED
  BY <1>1, <1>2, <1>3, <1>4, JoinedOrder DEF All

\* Two directories with the same files that read the same.
ReadSame(d, e) == DOMAIN d = DOMAIN e /\ \A i \in DOMAIN d : Entries(d[i]) = Entries(e[i])

LEMMA SameAll ==
  ASSUME NEW d, IsDisk(d), NEW e, ReadSame(d, e)
  PROVE  Paths(d) = Paths(e) /\ Size(d) = Size(e) /\ Parts(d) = Parts(e) /\ All(d) = All(e)
<1>1. Paths(d) = Paths(e) /\ Size(d) = Size(e)
  BY DEF ReadSame, Paths, Size
<1>2. \A k \in 1 .. Size(d) : Entries(d[Paths(d)[k]]) = Entries(e[Paths(e)[k]])
  BY <1>1, PartsType DEF ReadSame
<1>3. Parts(d) = Parts(e)
  BY <1>1, <1>2 DEF Parts
<1>4. QED
  BY <1>1, <1>3 DEF All

-----------------------------------------------------------------------------
(* The two readers. *)

LEMMA ReadAllMeans ==
  ASSUME NEW disk, IsDisk(disk)
  PROVE  /\ ReadAll(disk, Paths(disk)).entries = All(disk)
         /\ ReadAll(disk, Paths(disk)).ok = (\A i \in DOMAIN disk : Whole(disk[i]))
<1> DEFINE p == Paths(disk)
           n == Size(disk)
           scans == [k \in DOMAIN p |-> Scan(disk[p[k]])]
<1>1. DOMAIN p = 1 .. n /\ \A k \in 1 .. n : p[k] \in DOMAIN disk
  BY DiskMeans, PartsType
<1>2. \A i \in DOMAIN disk : \E k \in 1 .. n : p[k] = i
  BY DiskMeans
<1>3. ReadAll(disk, p) =
        [ok      |-> \A k \in DOMAIN p : scans[k].end = Len(disk[p[k]]),
         entries |-> FlattenSeq([k \in DOMAIN p |-> scans[k].entries])]
  BY DEF ReadAll
<1>4. \A k \in 1 .. n : scans[k].entries = Parts(disk)[k]
  <2>1. \A k \in 1 .. n : Parts(disk)[k] = Entries(disk[p[k]])
    BY PartsType
  <2>2. QED
    BY <1>1, <2>1 DEF Entries
<1>5. [k \in DOMAIN p |-> scans[k].entries] = [k \in 1 .. n |-> Parts(disk)[k]]
  <2> HIDE DEF p, scans, n
  <2>1. QED
    BY <1>1, <1>4
<1>6. ReadAll(disk, p).entries = All(disk)
  <2>1. FlattenSeq([k \in 1 .. n |-> Parts(disk)[k]]) = All(disk)
    BY DEF All, Joined
  <2>2. ReadAll(disk, p).entries = FlattenSeq([k \in DOMAIN p |-> scans[k].entries])
    BY <1>3
  <2> HIDE DEF p, scans, n
  <2>3. QED
    BY <1>5, <2>1, <2>2
<1>7. (\A k \in DOMAIN p : scans[k].end = Len(disk[p[k]])) = (\A i \in DOMAIN disk : Whole(disk[i]))
  <2>1. \A k \in 1 .. n : scans[k].end = Len(disk[p[k]]) <=> Whole(disk[p[k]])
    BY <1>1 DEF Whole
  <2> HIDE DEF p, scans, n
  <2>2. QED
    BY <1>1, <1>2, <2>1
<1>8. QED
  BY <1>3, <1>6, <1>7

\* A segment at which the streaming reader gives up.
Fails(d) == Len(d) - Scan(d).end >= HeaderLen

\* The streaming reader returns the first parts: all of them, or up to a segment that
\* it cannot read to the end.
LEMMA StreamMeans ==
  ASSUME NEW disk, IsDisk(disk)
  PROVE  LET s == Stream(disk, Paths(disk))
         IN  /\ s = [ok |-> s.ok, entries |-> s.entries]
             /\ s.ok = (\A i \in DOMAIN disk : ~Fails(disk[i]))
             /\ s.ok => s.entries = All(disk)
             /\ \E m \in 0 .. Size(disk) : s.entries = Joined(Parts(disk), m)
<1> DEFINE p == Paths(disk)
           n == Size(disk)
           scans == [k \in DOMAIN p |-> Scan(disk[p[k]])]
           stops == {k \in DOMAIN p : Len(disk[p[k]]) - scans[k].end >= HeaderLen}
           seen == IF stops = {} THEN Len(p) ELSE Min(stops)
           s == Stream(disk, p)
<1>1. /\ DOMAIN p = 1 .. n /\ Len(p) = n /\ n \in Nat
      /\ \A k \in 1 .. n : p[k] \in DOMAIN disk
      /\ \A k \in 1 .. n : Parts(disk)[k] = Entries(disk[p[k]])
      /\ \A i \in DOMAIN disk : \E k \in 1 .. n : p[k] = i
  BY DiskMeans, PartsType
<1>2. s = [ok |-> stops = {}, entries |-> FlattenSeq([k \in 1 .. seen |-> scans[k].entries])]
  BY DEF Stream
<1>3. \A k \in 1 .. n : k \in stops <=> Fails(disk[p[k]])
  BY <1>1 DEF Fails
<1>4. stops \subseteq 1 .. n
  BY <1>1
<1>5. \A k \in 1 .. n : scans[k].entries = Parts(disk)[k]
  BY <1>1 DEF Entries
<1> HIDE DEF p, n, scans, stops, s
<1>6. seen \in 0 .. n /\ (stops = {} => seen = n)
  <2>1. CASE stops = {}
    BY <1>1, <2>1
  <2>2. CASE stops # {}
    <3>1. stops \subseteq Nat
      BY <1>1, <1>4
    <3>2. \E m \in stops : \A y \in stops : m <= y
      BY <2>2, <3>1, LeastExists
    <3>3. Min(stops) \in stops
      BY <3>2 DEF Min
    <3>4. seen = Min(stops)
      BY <2>2
    <3> HIDE DEF seen
    <3>5. seen \in 1 .. n
      BY <1>4, <3>3, <3>4
    <3>6. QED
      BY <1>1, <2>2, <3>5
  <2>3. QED
    BY <2>1, <2>2
<1> HIDE DEF seen
<1>7. \A k \in 1 .. seen : k \in 1 .. n
  BY <1>1, <1>6
<1>8. [k \in 1 .. seen |-> scans[k].entries] = [k \in 1 .. seen |-> Parts(disk)[k]]
  BY <1>5, <1>7
<1>9. s.entries = Joined(Parts(disk), seen)
  BY <1>2, <1>8 DEF Joined
<1>10. s.ok = (stops = {})
  BY <1>2
<1>11. (stops = {}) = (\A i \in DOMAIN disk : ~Fails(disk[i]))
  <2>1. ASSUME stops = {}, NEW i \in DOMAIN disk PROVE ~Fails(disk[i])
    BY <1>1, <1>3, <2>1
  <2>2. ASSUME \A i \in DOMAIN disk : ~Fails(disk[i]), stops # {} PROVE FALSE
    <3>1. PICK k \in 1 .. n : k \in stops
      BY <1>4, <2>2
    <3>2. QED
      BY <1>1, <1>3, <2>2, <3>1
  <2>3. QED
    BY <2>1, <2>2
<1>12. s.ok => s.entries = All(disk)
  BY <1>6, <1>9, <1>10 DEF All, n
<1>13. s = [ok |-> s.ok, entries |-> s.entries]
  BY <1>2
<1>14. \E m \in 0 .. Size(disk) : s.entries = Joined(Parts(disk), m)
  BY <1>6, <1>9 DEF n
<1>15. QED
  BY <1>10, <1>11, <1>12, <1>13, <1>14 DEF s, p

\* Both readers agree on a directory whose files read to their ends.
LEMMA ReadersAgree ==
  ASSUME NEW disk, IsDisk(disk), \A i \in DOMAIN disk : Whole(disk[i])
  PROVE  /\ ReadAll(disk, Paths(disk)).ok
         /\ Stream(disk, Paths(disk)) = ReadAll(disk, Paths(disk))
<1> DEFINE s == Stream(disk, Paths(disk))
           r == ReadAll(disk, Paths(disk))
<1>1. ASSUME NEW i \in DOMAIN disk PROVE ~Fails(disk[i])
  <2>1. Len(disk[i]) \in Nat
    BY EntriesType
  <2>2. Len(disk[i]) - Len(disk[i]) = 0
    BY <2>1
  <2>3. QED
    BY <2>2 DEF Fails, Whole, HeaderLen
<1>2. /\ s = [ok |-> s.ok, entries |-> s.entries]
      /\ s.ok = (\A i \in DOMAIN disk : ~Fails(disk[i]))
      /\ s.ok => s.entries = All(disk)
  BY StreamMeans
<1>3. r.entries = All(disk) /\ r.ok = (\A i \in DOMAIN disk : Whole(disk[i]))
  BY ReadAllMeans
<1>4. r = [ok |-> r.ok, entries |-> r.entries]
  BY DEF ReadAll
<1>5. s.ok = TRUE /\ r.ok = TRUE
  <2> HIDE DEF s, r
  <2>1. QED
    BY <1>1, <1>2, <1>3
<1>6. s.entries = r.entries
  <2> HIDE DEF s, r
  <2>1. QED
    BY <1>2, <1>3, <1>5
<1>7. s = r
  <2> HIDE DEF s, r
  <2>1. QED
    BY <1>2, <1>4, <1>5, <1>6
<1>8. QED
  BY <1>5, <1>7

-----------------------------------------------------------------------------
(* Recovery of a directory. *)

\* The files in T have been recovered.
Recover(disk, T) ==
  [i \in DOMAIN disk |-> IF i \in T THEN RecoverFile(disk[i]).data ELSE disk[i]]

LEMMA RecoverOne ==
  ASSUME NEW d \in Seq(WalCells)
  PROVE  /\ RecoverFile(d).data \in Seq(WalCells)
         /\ Entries(RecoverFile(d).data) = Entries(d)
         /\ Whole(RecoverFile(d).data)
         /\ RecoverFile(RecoverFile(d).data).truncated_bytes = 0
<1>1. CellType(WalCells)
  BY WalCellsAreCells
<1>2. QED
  BY <1>1, RecoveryIsExact DEF Entries

LEMMA RecoverMeans ==
  ASSUME NEW disk, IsDisk(disk), NEW T
  PROVE  /\ IsDisk(Recover(disk, T)) /\ DOMAIN Recover(disk, T) = DOMAIN disk
         /\ ReadSame(disk, Recover(disk, T))
         /\ \A i \in DOMAIN disk :
              IF i \in T
              THEN /\ Whole(Recover(disk, T)[i])
                   /\ RecoverFile(Recover(disk, T)[i]).truncated_bytes = 0
              ELSE Recover(disk, T)[i] = disk[i]
<1> DEFINE e == Recover(disk, T)
<1>1. /\ DOMAIN e = DOMAIN disk
      /\ e = [i \in DOMAIN e |-> e[i]]
      /\ \A i \in DOMAIN disk : e[i] = IF i \in T THEN RecoverFile(disk[i]).data ELSE disk[i]
  BY DEF Recover
<1>2. Files(DOMAIN disk) /\ \A i \in DOMAIN disk : disk[i] \in Seq(WalCells)
  BY DEF IsDisk
<1> HIDE DEF e
<1>3. ASSUME NEW i \in DOMAIN disk, i \in T
      PROVE  /\ e[i] \in Seq(WalCells) /\ Entries(e[i]) = Entries(disk[i])
             /\ Whole(e[i]) /\ RecoverFile(e[i]).truncated_bytes = 0
  <2>1. e[i] = RecoverFile(disk[i]).data /\ disk[i] \in Seq(WalCells)
    BY <1>1, <1>2, <1>3
  <2>2. QED
    BY <2>1, RecoverOne
<1>4. ASSUME NEW i \in DOMAIN disk, i \notin T PROVE e[i] = disk[i]
  BY <1>1, <1>4
<1>5. \A i \in DOMAIN disk : e[i] \in Seq(WalCells) /\ Entries(e[i]) = Entries(disk[i])
  BY <1>2, <1>3, <1>4
<1>6. IsDisk(e)
  BY <1>1, <1>2, <1>5 DEF IsDisk
<1>7. ReadSame(disk, e)
  BY <1>1, <1>5 DEF ReadSame
<1>8. QED
  BY <1>1, <1>3, <1>4, <1>6, <1>7 DEF e

LEMMA LastHeld ==
  ASSUME NEW V, NEW q \in Seq(V), q # <<>>
  PROVE  Holds(q, Last(q))
<1>1. Len(q) \in Nat /\ Len(q) # 0 /\ DOMAIN q = 1 .. Len(q)
  BY EmptySeq, LenProperties
<1>2. Len(q) \in DOMAIN q /\ Last(q) = q[Len(q)]
  BY <1>1 DEF Last
<1>3. QED
  BY <1>2 DEF Holds

LEMMA GreatestExists ==
  ASSUME NEW n \in Nat, NEW S, S \subseteq 1 .. n, S # {}
  PROVE  Max(S) \in S /\ \A y \in S : y <= Max(S)
<1> DEFINE U == {n - y : y \in S}
<1>1. U \subseteq Nat /\ U # {}
  <2>1. \A y \in S : n - y \in Nat
    <3> TAKE y \in S
    <3>1. y \in 1 .. n
      OBVIOUS
    <3>2. QED
      BY <3>1
  <2>2. PICK y \in S : TRUE
    OBVIOUS
  <2>3. QED
    BY <2>1, <2>2
<1> HIDE DEF U
<1>2. PICK u \in U : \A w \in U : u <= w
  BY <1>1, LeastExists
<1>3. PICK m \in S : u = n - m
  BY DEF U
<1>4. ASSUME NEW y \in S PROVE m >= y
  <2>1. n - y \in U
    BY DEF U
  <2>2. n - m <= n - y
    BY <1>2, <1>3, <2>1
  <2>3. m \in 1 .. n /\ y \in 1 .. n
    OBVIOUS
  <2>4. QED
    BY <2>2, <2>3
<1>5. Max(S) \in S /\ \A y \in S : Max(S) >= y
  <2>1. \E x \in S : \A y \in S : x >= y
    BY <1>4
  <2>2. QED
    BY <2>1 DEF Max
<1>6. ASSUME NEW y \in S PROVE y <= Max(S)
  <2>1. Max(S) \in 1 .. n /\ y \in 1 .. n /\ Max(S) >= y
    BY <1>5
  <2>2. QED
    BY <2>1
<1>7. QED
  BY <1>5, <1>6

\* What recover_file says of the files, in the order of the listing.
Reports(disk) == [k \in DOMAIN Paths(disk) |-> RecoverFile(disk[Paths(disk)[k]])]

Sequenced(disk) ==
  \A i \in DOMAIN disk : \A v : Holds(Entries(disk[i]), v) => v.sequence \in Nat \ {0}

LEMMA LastSequenceMeans ==
  ASSUME NEW disk, IsDisk(disk), Sequenced(disk)
  PROVE  LastSequence(Reports(disk)) =
           IF All(disk) = <<>> THEN 0 ELSE Last(All(disk)).sequence
<1> DEFINE n == Size(disk)
           p == Paths(disk)
           s == Parts(disk)
           r == Reports(disk)
           valid == {k \in DOMAIN r : r[k].last_valid_sequence # 0}
<1>1. /\ n \in Nat /\ DOMAIN p = 1 .. n
      /\ s \in [1 .. n -> Seq(Readable(disk))]
  BY DiskMeans, PartsType
<1>2. /\ DOMAIN r = 1 .. n
      /\ \A k \in 1 .. n : r[k].last_valid_sequence = IF s[k] = <<>> THEN 0 ELSE Last(s[k]).sequence
  <2>1. \A k \in 1 .. n : s[k] = Scan(disk[p[k]]).entries
    BY PartsType DEF Entries
  <2>2. DOMAIN r = 1 .. n /\ \A k \in 1 .. n : r[k] = RecoverFile(disk[p[k]])
    BY <1>1 DEF Reports
  <2> HIDE DEF n, p, s, r
  <2>3. QED
    BY <2>1, <2>2 DEF RecoverFile
<1>3. ASSUME NEW k \in 1 .. n, s[k] # <<>> PROVE Last(s[k]).sequence \in Nat \ {0}
  <2>1. p[k] \in DOMAIN disk /\ s[k] = Entries(disk[p[k]])
    BY PartsType
  <2>2. s[k] \in Seq(Readable(disk))
    BY <1>1
  <2>3. Holds(s[k], Last(s[k]))
    <3> HIDE DEF s
    <3>1. QED
      BY <1>3, <2>2, LastHeld
  <2>4. QED
    BY <2>1, <2>3 DEF Sequenced
<1>4. LastSequence(r) = IF valid = {} THEN 0 ELSE r[Max(valid)].last_valid_sequence
  BY DEF LastSequence
<1>5. All(disk) = Joined(s, n)
  BY DEF All
<1> HIDE DEF n, p, s, r
<1>6. valid \subseteq 1 .. n /\ \A k \in 1 .. n : k \in valid <=> s[k] # <<>>
  BY <1>2, <1>3
<1> HIDE DEF valid
<1>7. CASE valid = {}
  <2>1. \A k \in 1 .. n : s[k] = <<>>
    BY <1>6, <1>7
  <2>2. Joined(s, n) = <<>>
    BY <1>1, <2>1, JoinedNothing
  <2>3. QED
    BY <1>4, <1>5, <1>7, <2>2 DEF r
<1>8. CASE valid # {}
  <2> DEFINE k == Max(valid)
  <2>1. k \in valid /\ \A y \in valid : y <= k
    BY <1>1, <1>6, <1>8, GreatestExists
  <2> HIDE DEF k
  <2>2. k \in 1 .. n /\ s[k] # <<>> /\ r[k].last_valid_sequence = Last(s[k]).sequence
    BY <1>2, <1>6, <2>1
  <2>3. \A j \in k + 1 .. n : s[j] = <<>>
    <3> TAKE j \in k + 1 .. n
    <3>1. j \in 1 .. n /\ ~(j <= k)
      BY <1>1, <2>2
    <3>2. QED
      BY <1>6, <2>1, <3>1
  <2>4. k <= n /\ n <= n
    BY <1>1, <2>2
  <2>5. Joined(s, n) # <<>> /\ Last(Joined(s, n)) = Last(s[k])
    BY <1>1, <2>2, <2>3, <2>4, JoinedLast
  <2>6. QED
    BY <1>4, <1>5, <1>8, <2>2, <2>5 DEF r, k
<1>9. QED
  BY <1>7, <1>8

-----------------------------------------------------------------------------
(* One write to the directory. *)

\* A file behind a torn record, or without one.
Segment(d, behind) == IF behind THEN Stuck(d) ELSE Whole(d)

LEMMA EmptyFile == <<>> \in Seq(WalCells) /\ Whole(<<>>) /\ Entries(<<>>) = <<>>
<1> DEFINE d == <<>>
<1>1. d \in Seq(WalCells) /\ Len(d) = 0 /\ CellType(WalCells)
  BY WalCellsAreCells
<1>2. 0 \in 0 .. Len(d)
  BY <1>1
<1> HIDE DEF d
<1>3. Loop(d)[0] = [entries |-> <<>>, end |-> 0]
  BY <1>1, <1>2, LoopMeans
<1>4. Scan(d) = Loop(d)[0]
  BY ScanLoop
<1>5. Scan(d).entries = <<>> /\ Scan(d).end = Len(d)
  BY <1>1, <1>3, <1>4
<1>6. QED
  BY <1>1, <1>5 DEF d, Whole, Entries

\* The record is whole at the end of the file, or it adds nothing to read.
IsWritten(d, behind, n, c, m) ==
  /\ d \o Piece(n, c, m) \in Seq(WalCells)
  /\ Segment(d \o Piece(n, c, m), behind \/ m \in 1 .. Len(EncodeRecord(n, c)) - 1)
  /\ Entries(d \o Piece(n, c, m)) =
       IF m = Len(EncodeRecord(n, c)) /\ ~behind
       THEN Append(Entries(d), [sequence |-> n, command |-> c])
       ELSE Entries(d)

LEMMA WriteMeans ==
  ASSUME NEW d \in Seq(WalCells), NEW marks, NEW j, Segment(d, j \in marks),
         NEW n \in Nat, NEW c \in Commands, NEW m \in 0 .. Len(EncodeRecord(n, c))
  PROVE  IsWritten(d, j \in marks, n, c, m)
<1> DEFINE behind == j \in marks
           r == EncodeRecord(n, c)
           x == Piece(n, c, m)
           e == d \o x
<1>1. Len(r) \in Nat /\ Len(r) # 0 /\ Piece(n, c, Len(r)) = r
  BY PieceMeans
<1>2. CASE behind
  <2>1. Stuck(d)
    BY <1>2 DEF Segment
  <2>2. e \in Seq(WalCells) /\ Scan(e).entries = Scan(d).entries /\ Stuck(e)
    BY <2>1, WriteBehind
  <2>3. QED
    BY <1>2, <2>2 DEF Segment, Entries, IsWritten
<1>3. CASE ~behind
  <2>1. Whole(d)
    BY <1>3 DEF Segment
  <2>2. CASE m = Len(r)
    <3>1. /\ d \o r \in Seq(WalCells) /\ Whole(d \o r)
          /\ Scan(d \o r).entries = Append(Scan(d).entries, [sequence |-> n, command |-> c])
      BY <2>1, WriteWhole
    <3>2. x = r
      BY <1>1, <2>2
    <3>3. m \notin 1 .. Len(r) - 1
      <4> HIDE DEF r
      <4>1. QED
        BY <1>1, <2>2
    <3>4. QED
      BY <1>3, <2>2, <3>1, <3>2, <3>3 DEF Segment, Entries, IsWritten
  <2>3. CASE m # Len(r)
    <3>1. /\ e \in Seq(WalCells)
          /\ Scan(e).entries = Scan(d).entries
          /\ IF m = 0 THEN Whole(e) ELSE Stuck(e)
      BY <2>1, <2>3, WriteTorn
    <3>2. (m = 0) = (m \notin 1 .. Len(r) - 1)
      <4>1. m \in 0 .. Len(r)
        OBVIOUS
      <4> HIDE DEF r
      <4>2. QED
        BY <1>1, <2>3, <4>1
    <3>3. QED
      BY <1>3, <2>3, <3>1, <3>2 DEF Segment, Entries, IsWritten
  <2>4. QED
    BY <2>2, <2>3
<1>4. QED
  BY <1>2, <1>3

LEMMA AppendHolds ==
  ASSUME NEW V, NEW q \in Seq(V), NEW x
  PROVE  \A v : Holds(Append(q, x), v) <=> Holds(q, v) \/ v = x
<1> DEFINE z == Append(q, x)
<1>1. /\ Len(q) \in Nat /\ DOMAIN q = 1 .. Len(q) /\ DOMAIN z = 1 .. Len(q) + 1
      /\ z[Len(q) + 1] = x /\ \A i \in 1 .. Len(q) : z[i] = q[i]
  <2>1. q \in Seq(V \cup {x}) /\ x \in V \cup {x}
    OBVIOUS
  <2>2. QED
    BY <2>1, LenProperties, AppendProperties
<1> HIDE DEF z
<1>2. ASSUME NEW v, Holds(z, v) PROVE Holds(q, v) \/ v = x
  <2>1. PICK i \in 1 .. Len(q) + 1 : z[i] = v
    BY <1>1, <1>2 DEF Holds
  <2>2. i = Len(q) + 1 \/ i \in 1 .. Len(q)
    BY <1>1
  <2>3. QED
    BY <1>1, <2>1, <2>2 DEF Holds
<1>3. ASSUME NEW v, Holds(q, v) PROVE Holds(z, v)
  <2>1. PICK i \in 1 .. Len(q) : q[i] = v
    BY <1>1, <1>3 DEF Holds
  <2>2. i \in 1 .. Len(q) + 1
    BY <1>1
  <2>3. QED
    BY <1>1, <2>1, <2>2 DEF Holds
<1>4. Holds(z, x)
  <2>1. Len(q) + 1 \in 1 .. Len(q) + 1
    BY <1>1
  <2>2. QED
    BY <1>1, <2>1 DEF Holds
<1>5. QED
  BY <1>2, <1>3, <1>4 DEF z

LEMMA AppendOrdered ==
  ASSUME NEW V, NEW q \in Seq(V), NEW x, Ordered(q),
         \A v : Holds(q, v) => v.sequence < x.sequence
  PROVE  Ordered(Append(q, x))
<1> DEFINE z == Append(q, x)
<1>1. /\ Len(q) \in Nat /\ DOMAIN q = 1 .. Len(q) /\ DOMAIN z = 1 .. Len(q) + 1
      /\ z[Len(q) + 1] = x /\ \A i \in 1 .. Len(q) : z[i] = q[i]
  <2>1. q \in Seq(V \cup {x}) /\ x \in V \cup {x}
    OBVIOUS
  <2>2. QED
    BY <2>1, LenProperties, AppendProperties
<1> HIDE DEF z
<1>2. SUFFICES ASSUME NEW i \in 1 .. Len(q) + 1, NEW j \in 1 .. Len(q) + 1, i < j
               PROVE  z[i].sequence < z[j].sequence
  BY <1>1 DEF Ordered, z
<1>3. i \in 1 .. Len(q) /\ (j = Len(q) + 1 \/ j \in 1 .. Len(q))
  BY <1>1, <1>2
<1>4. z[i] = q[i] /\ Holds(q, q[i])
  BY <1>1, <1>3 DEF Holds
<1>5. CASE j = Len(q) + 1
  BY <1>1, <1>4, <1>5
<1>6. CASE j \in 1 .. Len(q)
  BY <1>1, <1>2, <1>3, <1>6 DEF Ordered
<1>7. QED
  BY <1>3, <1>5, <1>6


\* Whole records in every file, and a torn one with what is behind it in those of marks.
WellFormed(disk, marks) ==
  /\ IsDisk(disk)
  /\ marks \subseteq DOMAIN disk
  /\ \A i \in DOMAIN disk : Segment(disk[i], i \in marks)

\* Every record carries one of the first s sequences.
Numbered(disk, s) ==
  \A i \in DOMAIN disk : \A v : Holds(Entries(disk[i]), v) => v.sequence \in 1 .. s

\* What could be read from a file of d can still be read from the same file of e.
Keeps(d, e) ==
  \A i \in DOMAIN d : \A v : Holds(Entries(d[i]), v) => i \in DOMAIN e /\ Holds(Entries(e[i]), v)

Created(disk, j) ==
  [i \in DOMAIN disk \cup {j} |-> IF i \in DOMAIN disk THEN disk[i] ELSE <<>>]

LEMMA CreateMeans ==
  ASSUME NEW disk, NEW marks, WellFormed(disk, marks), InOrder(disk), NEW s \in Nat,
         Numbered(disk, s), NEW j \in Nat, \A i \in DOMAIN disk : i <= j
  PROVE  /\ DOMAIN Created(disk, j) = DOMAIN disk \cup {j}
         /\ WellFormed(Created(disk, j), marks) /\ InOrder(Created(disk, j))
         /\ Numbered(Created(disk, j), s) /\ Keeps(disk, Created(disk, j))
         /\ j \in DOMAIN disk => Created(disk, j) = disk
<1> DEFINE e == Created(disk, j)
<1>1. /\ DOMAIN e = DOMAIN disk \cup {j}
      /\ e = [i \in DOMAIN e |-> e[i]]
      /\ \A i \in DOMAIN disk : e[i] = disk[i]
      /\ j \notin DOMAIN disk => e[j] = <<>>
  BY DEF Created
<1>2. /\ disk = [i \in DOMAIN disk |-> disk[i]] /\ Files(DOMAIN disk)
      /\ \A i \in DOMAIN disk : disk[i] \in Seq(WalCells)
      /\ marks \subseteq DOMAIN disk
      /\ \A i \in DOMAIN disk : Segment(disk[i], i \in marks)
  BY DEF WellFormed, IsDisk
<1>3. j \in DOMAIN disk => e = disk
  <2> HAVE j \in DOMAIN disk
  <2>1. DOMAIN disk \cup {j} = DOMAIN disk
    OBVIOUS
  <2>2. QED
    BY <1>2, <2>1 DEF Created
<1> HIDE DEF e
<1>4. Files(DOMAIN e)
  <2>1. IsFiniteSet(DOMAIN disk) /\ DOMAIN disk \subseteq Nat
    BY <1>2 DEF Files
  <2>2. IsFiniteSet(DOMAIN disk \cup {j})
    BY <2>1, FS_AddElement
  <2>3. QED
    BY <1>1, <2>1, <2>2 DEF Files
<1>5. \A i \in DOMAIN e : i \in DOMAIN disk \/ (i = j /\ i \notin DOMAIN disk /\ e[i] = <<>>)
  BY <1>1
<1>6. \A v : ~Holds(<<>>, v)
  <2>1. DOMAIN <<>> = {}
    OBVIOUS
  <2>2. QED
    BY <2>1 DEF Holds
<1>7. <<>> \in Seq(WalCells) /\ Whole(<<>>) /\ Entries(<<>>) = <<>>
  BY EmptyFile
<1>8. ASSUME NEW i \in DOMAIN e PROVE e[i] \in Seq(WalCells) /\ Segment(e[i], i \in marks)
  <2>1. CASE i \in DOMAIN disk
    BY <1>1, <1>2, <2>1
  <2>2. CASE i \notin DOMAIN disk
    <3>1. e[i] = <<>> /\ i \notin marks
      BY <1>2, <1>5, <2>2
    <3>2. QED
      BY <1>7, <3>1 DEF Segment
  <2>3. QED
    BY <2>1, <2>2
<1>9. WellFormed(e, marks)
  BY <1>1, <1>2, <1>4, <1>8 DEF WellFormed, IsDisk
<1>10. ASSUME NEW i \in DOMAIN e, NEW v, Holds(Entries(e[i]), v)
       PROVE  i \in DOMAIN disk /\ Holds(Entries(disk[i]), v)
  BY <1>1, <1>5, <1>6, <1>7, <1>10
<1>11. InOrder(e)
  <2>1. ASSUME NEW i \in DOMAIN e PROVE Ordered(Entries(e[i]))
    <3>1. CASE i \in DOMAIN disk
      BY <1>1, <3>1 DEF InOrder
    <3>2. CASE i \notin DOMAIN disk
      <4>1. Entries(e[i]) = <<>> /\ DOMAIN <<>> = {}
        BY <1>5, <1>7, <3>2
      <4>2. QED
        BY <4>1 DEF Ordered
    <3>3. QED
      BY <3>1, <3>2
  <2>2. ASSUME NEW a \in DOMAIN e, NEW b \in DOMAIN e, a < b
        PROVE  Before(Entries(e[a]), Entries(e[b]))
    <3> SUFFICES ASSUME NEW v, NEW w, Holds(Entries(e[a]), v), Holds(Entries(e[b]), w)
                 PROVE  v.sequence < w.sequence
      BY DEF Before
    <3>1. /\ a \in DOMAIN disk /\ b \in DOMAIN disk
          /\ Holds(Entries(disk[a]), v) /\ Holds(Entries(disk[b]), w)
      BY <1>10
    <3>2. Before(Entries(disk[a]), Entries(disk[b]))
      BY <2>2, <3>1 DEF InOrder
    <3>3. QED
      BY <3>1, <3>2 DEF Before
  <2>3. QED
    BY <2>1, <2>2 DEF InOrder
<1>12. Numbered(e, s)
  BY <1>10 DEF Numbered
<1>13. Keeps(disk, e)
  BY <1>1 DEF Keeps
<1>14. QED
  BY <1>1, <1>3, <1>9, <1>11, <1>12, <1>13 DEF e


\* e, torn in marks, has all that d has, in order, up to sequence s.
Grown(d, e, marks, s) ==
  WellFormed(e, marks) /\ InOrder(e) /\ Numbered(e, s) /\ Keeps(d, e)

Marked(marks, j, n, c, m) ==
  IF m \in 1 .. Len(EncodeRecord(n, c)) - 1 THEN marks \cup {j} ELSE marks

\* A write to the last file.
LEMMA WriteGrows ==
  ASSUME NEW disk, NEW marks, WellFormed(disk, marks), InOrder(disk), NEW s \in Nat,
         Numbered(disk, s), NEW j \in DOMAIN disk, \A i \in DOMAIN disk : i <= j,
         NEW c \in Commands, NEW m \in 0 .. Len(EncodeRecord(s + 1, c))
  PROVE  /\ DOMAIN Write(disk, j, Piece(s + 1, c, m)) = DOMAIN disk
         /\ Grown(disk, Write(disk, j, Piece(s + 1, c, m)), Marked(marks, j, s + 1, c, m), s + 1)
         /\ m = Len(EncodeRecord(s + 1, c)) /\ j \notin marks =>
              Holds(Entries(Write(disk, j, Piece(s + 1, c, m))[j]),
                    [sequence |-> s + 1, command |-> c])
<1> DEFINE x == Piece(s + 1, c, m)
           e == Write(disk, j, x)
           u == Marked(marks, j, s + 1, c, m)
           rec == [sequence |-> s + 1, command |-> c]
           fits == m = Len(EncodeRecord(s + 1, c)) /\ j \notin marks
           tears == m \in 1 .. Len(EncodeRecord(s + 1, c)) - 1
           behind == j \in marks
           V == Readable(disk)
<1>1. /\ disk = [i \in DOMAIN disk |-> disk[i]] /\ Files(DOMAIN disk)
      /\ \A i \in DOMAIN disk : disk[i] \in Seq(WalCells)
      /\ marks \subseteq DOMAIN disk
      /\ \A i \in DOMAIN disk : Segment(disk[i], i \in marks)
  BY DEF WellFormed, IsDisk
<1>2. /\ DOMAIN e = DOMAIN disk /\ e = [i \in DOMAIN e |-> e[i]]
      /\ \A i \in DOMAIN disk : i # j => e[i] = disk[i]
      /\ e[j] = disk[j] \o x
  BY DEF Write
<1>3. s + 1 \in Nat
  OBVIOUS
<1>4. /\ e[j] \in Seq(WalCells)
      /\ Segment(e[j], behind \/ tears)
      /\ Entries(e[j]) = IF fits THEN Append(Entries(disk[j]), rec) ELSE Entries(disk[j])
  <2>1. disk[j] \in Seq(WalCells) /\ Segment(disk[j], j \in marks)
    BY <1>1
  <2>2. IsWritten(disk[j], j \in marks, s + 1, c, m)
    BY <1>3, <2>1, WriteMeans
  <2>3. QED
    BY <1>2, <2>2 DEF IsWritten
<1>5. u = IF tears THEN marks \cup {j} ELSE marks
  BY DEF Marked
<1>6. IsDisk(disk)
  BY DEF WellFormed
<1>7. \A i \in DOMAIN disk : Entries(disk[i]) \in Seq(V)
  BY <1>6, EntriesType
<1> HIDE DEF e, u, x, fits, tears, V
<1>8. WellFormed(e, u)
  <2>1. \A i \in DOMAIN e : e[i] \in Seq(WalCells)
    BY <1>1, <1>2, <1>4
  <2>2. u \subseteq DOMAIN e
    BY <1>1, <1>2, <1>5
  <2>3. ASSUME NEW i \in DOMAIN e PROVE Segment(e[i], i \in u)
    <3>1. CASE i # j
      <4>1. (i \in u) = (i \in marks) /\ e[i] = disk[i] /\ Segment(disk[i], i \in marks)
        BY <1>1, <1>2, <1>5, <3>1
      <4>2. QED
        BY <4>1
    <3>2. CASE i = j
      <4>1. (j \in u) = (behind \/ tears)
        BY <1>5
      <4>2. QED
        BY <1>4, <3>2, <4>1
    <3>3. QED
      BY <3>1, <3>2
  <2>4. QED
    BY <1>1, <1>2, <2>1, <2>2, <2>3 DEF WellFormed, IsDisk
<1>9. \A i \in DOMAIN disk : \A v : Holds(Entries(disk[i]), v) => v.sequence \in 1 .. s
  BY DEF Numbered
<1>10. \A v : Holds(Entries(e[j]), v) <=> Holds(Entries(disk[j]), v) \/ (fits /\ v = rec)
  <2>1. \A v : Holds(Append(Entries(disk[j]), rec), v) <=> Holds(Entries(disk[j]), v) \/ v = rec
    BY <1>7, AppendHolds
  <2>2. CASE fits
    BY <1>4, <2>1, <2>2
  <2>3. CASE ~fits
    BY <1>4, <2>3
  <2>4. QED
    BY <2>2, <2>3
<1>11. rec.sequence = s + 1
  OBVIOUS
<1> HIDE DEF rec
<1>12. ASSUME NEW i \in DOMAIN e, NEW v, Holds(Entries(e[i]), v)
       PROVE  \/ i \in DOMAIN disk /\ Holds(Entries(disk[i]), v) /\ v.sequence \in 1 .. s
              \/ i = j /\ v.sequence = s + 1
  BY <1>2, <1>9, <1>10, <1>11, <1>12
<1>13. Numbered(e, s + 1)
  <2> SUFFICES ASSUME NEW i \in DOMAIN e, NEW v, Holds(Entries(e[i]), v)
               PROVE  v.sequence \in 1 .. s + 1
    BY DEF Numbered
  <2>1. v.sequence \in 1 .. s \/ v.sequence = s + 1
    BY <1>12
  <2>2. QED
    BY <2>1
<1>14. InOrder(e)
  <2>1. ASSUME NEW i \in DOMAIN e PROVE Ordered(Entries(e[i]))
    <3>1. Ordered(Entries(disk[i]))
      BY <1>2 DEF InOrder
    <3>2. CASE i # j \/ ~fits
      BY <1>2, <1>4, <3>1, <3>2
    <3>3. CASE i = j /\ fits
      <4>1. ASSUME NEW v, Holds(Entries(disk[j]), v) PROVE v.sequence < rec.sequence
        <5>1. v.sequence \in 1 .. s
          BY <1>9, <4>1
        <5>2. QED
          BY <1>11, <5>1
      <4>2. Ordered(Append(Entries(disk[j]), rec))
        BY <1>7, <3>1, <3>3, <4>1, AppendOrdered
      <4>3. QED
        BY <1>4, <3>3, <4>2
    <3>4. QED
      BY <3>2, <3>3
  <2>2. ASSUME NEW a \in DOMAIN e, NEW b \in DOMAIN e, a < b
        PROVE  Before(Entries(e[a]), Entries(e[b]))
    <3> SUFFICES ASSUME NEW v, NEW w, Holds(Entries(e[a]), v), Holds(Entries(e[b]), w)
                 PROVE  v.sequence < w.sequence
      BY DEF Before
    <3>1. a \in DOMAIN disk /\ b \in DOMAIN disk /\ a \in Nat /\ b \in Nat /\ j \in Nat
      BY <1>1, <1>2 DEF Files
    <3>2. a # j
      <4>1. b <= j
        BY <3>1
      <4>2. QED
        BY <2>2, <3>1, <4>1
    <3>3. Holds(Entries(disk[a]), v) /\ v.sequence \in 1 .. s
      BY <1>12, <3>2
    <3>4. CASE Holds(Entries(disk[b]), w)
      <4>1. Before(Entries(disk[a]), Entries(disk[b]))
        BY <2>2, <3>1 DEF InOrder
      <4>2. QED
        BY <3>3, <3>4, <4>1 DEF Before
    <3>5. CASE w.sequence = s + 1
      BY <3>3, <3>5
    <3>6. QED
      BY <1>12, <3>4, <3>5
  <2>3. QED
    BY <2>1, <2>2 DEF InOrder
<1>15. Keeps(disk, e)
  BY <1>2, <1>10 DEF Keeps
<1>16. Grown(disk, e, u, s + 1)
  BY <1>8, <1>13, <1>14, <1>15 DEF Grown
<1>17. fits => Holds(Entries(e[j]), rec)
  BY <1>10
<1>18. QED
  BY <1>2, <1>16, <1>17 DEF e, u, x, fits, rec

-----------------------------------------------------------------------------
(* The inductive invariant. *)

DirectoryOK ==
  WellFormed(segments, torn) /\ InOrder(segments) /\ Numbered(segments, sequence)

\* A writer that is alive writes to the last file of the directory.
WriterOK ==
  /\ sequence \in Nat
  /\ current_segment_index \in Nat
  /\ opened => /\ file \in DOMAIN segments
               /\ file <= current_segment_index
               /\ \A i \in DOMAIN segments : i <= file

Acks == [sequence : Nat, command : Commands, behind : BOOLEAN]

Found(r, disk) == \E i \in DOMAIN disk : Holds(Entries(disk[i]), Entry(r))

AckedOK ==
  /\ acked \in Seq(Acks)
  /\ \A r \in ToSet(acked) : r.behind \/ Found(r, segments)

\* The sequence of the last record of a directory.
LastOf(disk) == IF All(disk) = <<>> THEN 0 ELSE Last(All(disk)).sequence

ReportOK ==
  report # None => segments # <<>> /\ report.last_valid_sequence = LastOf(segments)

WalInv == DirectoryOK /\ WriterOK /\ AckedOK /\ ReportOK

LEMMA InitOK == Init => WalInv
<1> SUFFICES ASSUME Init PROVE WalInv
  OBVIOUS
<1>1. segments = <<>> /\ torn = {} /\ acked = <<>> /\ sequence = 0 /\ report = None
      /\ ~opened /\ current_segment_index = 0
  BY DEF Init
<1>2. DOMAIN segments = {} /\ segments = [i \in DOMAIN segments |-> segments[i]]
  <2>1. DOMAIN <<>> = {} /\ <<>> = [i \in {} |-> <<>>[i]]
    OBVIOUS
  <2>2. QED
    BY <1>1, <2>1
<1>3. Files({})
  BY FS_EmptySet DEF Files
<1>4. WellFormed(segments, torn)
  BY <1>1, <1>2, <1>3 DEF WellFormed, IsDisk
<1>5. InOrder(segments) /\ Numbered(segments, sequence)
  BY <1>2 DEF InOrder, Numbered
<1>6. ToSet(acked) = {} /\ acked \in Seq(Acks)
  <2>1. ToSet(<<>>) = {} /\ <<>> \in Seq(Acks)
    BY DEF ToSet
  <2>2. QED
    BY <1>1, <2>1
<1>7. QED
  BY <1>1, <1>4, <1>5, <1>6 DEF WalInv, DirectoryOK, WriterOK, AckedOK, ReportOK

\* A record that was found is found again in what keeps it.
LEMMA StillFound ==
  ASSUME NEW d, NEW e, Keeps(d, e)
  PROVE  \A r : Found(r, d) => Found(r, e)
BY DEF Keeps, Found

LEMMA SameIsKept ==
  ASSUME NEW d, NEW e, ReadSame(d, e)
  PROVE  Keeps(d, e)
BY DEF Keeps, ReadSame

LEMMA AckedStays ==
  ASSUME AckedOK, Keeps(segments, segments'), acked' = acked
  PROVE  AckedOK'
<1>1. \A r : Found(r, segments) => Found(r, segments')
  BY StillFound
<1>2. acked' \in Seq(Acks) /\ \A r \in ToSet(acked') : r.behind \/ Found(r, segments')
  BY <1>1 DEF AckedOK
<1>3. QED
  BY <1>2 DEF AckedOK

\* append_raw, with everything the sequence counter has given out before.
AppendOK(c, n) ==
  /\ Grown(segments, segments', torn', sequence + 1)
  /\ file' \in DOMAIN segments' /\ current_segment_index' \in Nat
  /\ file' <= current_segment_index'
  /\ \A i \in DOMAIN segments' : i <= file'
  /\ n = Len(EncodeRecord(sequence + 1, c)) /\ file' \notin torn =>
       Holds(Entries(segments'[file']), [sequence |-> sequence + 1, command |-> c])

LEMMA KeepsTwice ==
  ASSUME NEW d, NEW e, NEW f, Keeps(d, e), Keeps(e, f)
  PROVE  Keeps(d, f)
BY DEF Keeps

LEMMA AppendRawOK ==
  ASSUME DirectoryOK, WriterOK, opened, NEW c \in Commands,
         NEW n \in 0 .. Len(EncodeRecord(sequence + 1, c)),
         AppendRaw(EncodeRecord(sequence + 1, c), n)
  PROVE  AppendOK(c, n)
<1> DEFINE record == EncodeRecord(sequence + 1, c)
           rotates == MustRotate(record)
           target == IF rotates THEN current_segment_index + 1 ELSE file
           e == Created(segments, target)
<1>1. /\ file' = target
      /\ torn' = IF n \in 1 .. Len(record) - 1 THEN torn \cup {target} ELSE torn
      /\ current_segment_index' = IF rotates THEN target ELSE current_segment_index
      /\ segments' = Write(Create(target), target, SubSeq(record, 1, n))
  BY DEF AppendRaw
<1>2. Create(target) = e /\ SubSeq(record, 1, n) = Piece(sequence + 1, c, n)
  BY DEF Create, Created, Piece
<1>3. torn' = Marked(torn, target, sequence + 1, c, n)
  BY <1>1 DEF Marked
<1>4. /\ WellFormed(segments, torn) /\ InOrder(segments) /\ Numbered(segments, sequence)
      /\ sequence \in Nat /\ current_segment_index \in Nat
      /\ file \in DOMAIN segments /\ file <= current_segment_index
      /\ \A i \in DOMAIN segments : i <= file
  BY DEF DirectoryOK, WriterOK
<1>5. DOMAIN segments \subseteq Nat
  BY <1>4 DEF WellFormed, IsDisk, Files
<1> HIDE DEF record, rotates
<1>6. /\ target \in Nat /\ \A i \in DOMAIN segments : i <= target
      /\ current_segment_index' \in Nat /\ target <= current_segment_index'
  <2>1. CASE rotates
    <3>1. target = current_segment_index + 1 /\ current_segment_index' = target
      BY <1>1, <2>1
    <3>2. ASSUME NEW i \in DOMAIN segments PROVE i <= current_segment_index + 1
      <4>1. i \in Nat /\ file \in Nat /\ i <= file
        BY <1>4, <1>5
      <4>2. QED
        BY <1>4, <4>1
    <3> HIDE DEF target
    <3>3. QED
      BY <1>4, <3>1, <3>2
  <2>2. CASE ~rotates
    <3>1. target = file /\ current_segment_index' = current_segment_index
      BY <1>1, <2>2
    <3> HIDE DEF target
    <3>2. QED
      BY <1>4, <1>5, <3>1
  <2>3. QED
    BY <2>1, <2>2
<1> HIDE DEF target
<1>7. /\ DOMAIN e = DOMAIN segments \cup {target}
      /\ WellFormed(e, torn) /\ InOrder(e) /\ Numbered(e, sequence) /\ Keeps(segments, e)
  BY <1>4, <1>6, CreateMeans
<1> HIDE DEF e
<1>8. target \in DOMAIN e /\ \A i \in DOMAIN e : i <= target
  BY <1>6, <1>7
<1>9. segments' = Write(e, target, Piece(sequence + 1, c, n))
  BY <1>1, <1>2
<1>10. n \in 0 .. Len(EncodeRecord(sequence + 1, c))
  OBVIOUS
<1>11. /\ DOMAIN segments' = DOMAIN e
       /\ Grown(e, segments', torn', sequence + 1)
       /\ n = Len(EncodeRecord(sequence + 1, c)) /\ target \notin torn =>
            Holds(Entries(segments'[target]), [sequence |-> sequence + 1, command |-> c])
  <2>1. sequence \in Nat
    BY <1>4
  <2>2. /\ DOMAIN Write(e, target, Piece(sequence + 1, c, n)) = DOMAIN e
        /\ Grown(e, Write(e, target, Piece(sequence + 1, c, n)),
                 Marked(torn, target, sequence + 1, c, n), sequence + 1)
        /\ n = Len(EncodeRecord(sequence + 1, c)) /\ target \notin torn =>
             Holds(Entries(Write(e, target, Piece(sequence + 1, c, n))[target]),
                   [sequence |-> sequence + 1, command |-> c])
    BY <1>7, <1>8, <1>10, <2>1, WriteGrows
  <2>3. QED
    BY <1>3, <1>9, <2>2
<1>12. Keeps(segments, segments')
  BY <1>7, <1>11, KeepsTwice DEF Grown
<1>13. Grown(segments, segments', torn', sequence + 1)
  BY <1>11, <1>12 DEF Grown
<1>14. QED
  BY <1>1, <1>6, <1>8, <1>11, <1>13 DEF AppendOK


LEMMA HasFiles ==
  ASSUME NEW disk, IsDisk(disk), disk # <<>>
  PROVE  DOMAIN disk # {}
<1> SUFFICES ASSUME DOMAIN disk = {} PROVE FALSE
  OBVIOUS
<1>1. disk = [i \in {} |-> disk[i]]
  BY DEF IsDisk
<1>2. <<>> = [i \in {} |-> disk[i]]
  OBVIOUS
<1>3. QED
  BY <1>1, <1>2

LEMMA OpenOK ==
  ASSUME WalInv, OpenSegmented
  PROVE  WalInv'
<1> DEFINE last == IF segments = <<>> THEN 1 ELSE Last(ListSegmentPaths)
           e == Created(segments, last)
<1>1. /\ opened' = TRUE /\ current_segment_index' = last /\ file' = last
      /\ segments' = Create(last)
      /\ sequence' = sequence /\ acked' = acked /\ torn' = torn /\ report' = report
  BY DEF OpenSegmented
<1>2. Create(last) = e
  BY DEF Create, Created
<1>3. /\ WellFormed(segments, torn) /\ InOrder(segments) /\ Numbered(segments, sequence)
      /\ sequence \in Nat
  BY DEF WalInv, DirectoryOK, WriterOK
<1>4. IsDisk(segments) /\ Files(DOMAIN segments) /\ DOMAIN segments \subseteq Nat
  BY <1>3 DEF WellFormed, IsDisk, Files
<1>5. last \in Nat /\ (\A i \in DOMAIN segments : i <= last)
      /\ (segments # <<>> => last \in DOMAIN segments)
  <2>1. CASE segments = <<>>
    <3>1. DOMAIN segments = {} /\ last = 1
      <4>1. DOMAIN <<>> = {}
        OBVIOUS
      <4>2. QED
        BY <2>1, <4>1
    <3>2. QED
      BY <2>1, <3>1
  <2>2. CASE segments # <<>>
    <3>1. last = Last(Listing(DOMAIN segments))
      BY <2>2, PathsAre
    <3>2. DOMAIN segments # {}
      BY <1>4, <2>2, HasFiles
    <3>3. Last(Listing(DOMAIN segments)) \in DOMAIN segments
          /\ \A i \in DOMAIN segments : i <= Last(Listing(DOMAIN segments))
      BY <1>4, <3>2, LastPath
    <3>4. QED
      BY <1>4, <3>1, <3>3
  <2>3. QED
    BY <2>1, <2>2
<1> HIDE DEF last
<1>6. /\ DOMAIN e = DOMAIN segments \cup {last}
      /\ WellFormed(e, torn) /\ InOrder(e) /\ Numbered(e, sequence) /\ Keeps(segments, e)
      /\ last \in DOMAIN segments => e = segments
  BY <1>3, <1>5, CreateMeans
<1>7. segments' = e
  BY <1>1, <1>2
<1> HIDE DEF e
<1>8. DirectoryOK'
  BY <1>1, <1>6, <1>7 DEF DirectoryOK
<1>9. WriterOK'
  <2>1. \A i \in DOMAIN segments' : i <= last
    BY <1>5, <1>6, <1>7
  <2>2. last \in DOMAIN segments' /\ last <= last
    BY <1>5, <1>6, <1>7
  <2>3. QED
    BY <1>1, <1>3, <1>5, <2>1, <2>2 DEF WriterOK
<1>10. AckedOK'
  BY <1>1, <1>6, <1>7, AckedStays DEF WalInv
<1>11. ReportOK'
  <2>1. CASE report = None
    BY <1>1, <2>1 DEF ReportOK
  <2>2. CASE report # None
    <3>1. segments # <<>> /\ segments' = segments
      BY <1>5, <1>6, <1>7, <2>2 DEF WalInv, ReportOK
    <3>2. QED
      BY <1>1, <3>1 DEF WalInv, ReportOK
  <2>3. QED
    BY <2>1, <2>2
<1>12. QED
  BY <1>8, <1>9, <1>10, <1>11 DEF WalInv

\* What every append leaves in order, whether it returns, fails or dies.
LEMMA AppendLeaves ==
  ASSUME WalInv, BeginAppend, NEW c \in Commands,
         NEW n \in 0 .. Len(EncodeRecord(sequence + 1, c)),
         AppendRaw(EncodeRecord(sequence + 1, c), n)
  PROVE  AppendOK(c, n) /\ DirectoryOK' /\ WriterOK' /\ ReportOK' /\ Keeps(segments, segments')
<1>1. opened /\ sequence' = sequence + 1 /\ report' = None
  BY DEF BeginAppend
<1>2. DirectoryOK /\ WriterOK
  BY DEF WalInv
<1>3. AppendOK(c, n)
  BY <1>1, <1>2, AppendRawOK
<1>4. Grown(segments, segments', torn', sequence')
  BY <1>1, <1>3 DEF AppendOK
<1>5. DirectoryOK' /\ Keeps(segments, segments')
  BY <1>4 DEF DirectoryOK, Grown
<1>6. sequence' \in Nat
  BY <1>1, <1>2 DEF WriterOK
<1>7. WriterOK'
  BY <1>3, <1>6 DEF AppendOK, WriterOK
<1>8. ReportOK'
  BY <1>1 DEF ReportOK
<1>9. QED
  BY <1>3, <1>5, <1>7, <1>8

LEMMA AppendCommandOK ==
  ASSUME WalInv, NEW c \in Commands, AppendCommand(c)
  PROVE  WalInv'
<1> DEFINE record == EncodeRecord(sequence + 1, c)
           n == Len(record)
           x == [sequence |-> sequence + 1, command |-> c, behind |-> file' \in torn]
<1>1. BeginAppend /\ AppendRaw(record, n) /\ acked' = Append(acked, x)
  BY DEF AppendCommand
<1>2. sequence + 1 \in Nat /\ acked \in Seq(Acks) /\ \A r \in ToSet(acked) : r.behind \/ Found(r, segments)
  BY DEF WalInv, WriterOK, AckedOK
<1>3. n \in 0 .. n
  <2>1. n \in Nat
    BY <1>2, WalCellsAreCells, LenProperties
  <2> HIDE DEF n
  <2>2. QED
    BY <2>1
<1>4. AppendOK(c, n) /\ DirectoryOK' /\ WriterOK' /\ ReportOK' /\ Keeps(segments, segments')
  BY <1>1, <1>3, AppendLeaves
<1>5. x \in Acks /\ acked' \in Seq(Acks)
  <2>1. x \in Acks
    BY <1>2 DEF Acks
  <2> HIDE DEF x
  <2>2. QED
    BY <1>1, <1>2, <2>1
<1>6. x.behind \/ Found(x, segments')
  <2>1. CASE file' \in torn
    BY <2>1
  <2>2. CASE file' \notin torn
    <3>1. /\ file' \in DOMAIN segments'
          /\ Holds(Entries(segments'[file']), [sequence |-> sequence + 1, command |-> c])
      BY <1>4, <2>2 DEF AppendOK
    <3>2. Entry(x) = [sequence |-> sequence + 1, command |-> c]
      BY DEF Entry
    <3>3. QED
      BY <3>1, <3>2 DEF Found
  <2>3. QED
    BY <2>1, <2>2
<1> HIDE DEF x
<1>7. ASSUME NEW r \in ToSet(acked') PROVE r.behind \/ Found(r, segments')
  <2>1. r \in ToSet(acked) \/ r = x
    <3>1. PICK i \in DOMAIN acked' : acked'[i] = r
      BY DEF ToSet
    <3>2. Holds(Append(acked, x), r)
      BY <1>1, <3>1 DEF Holds
    <3>3. Holds(acked, r) \/ r = x
      BY <1>2, <3>2, AppendHolds
    <3>4. QED
      BY <3>3 DEF Holds, ToSet
  <2>2. CASE r = x
    BY <1>6, <2>2
  <2>3. CASE r \in ToSet(acked)
    <3>1. Found(r, segments) => Found(r, segments')
      BY <1>4, StillFound
    <3>2. QED
      BY <1>2, <2>3, <3>1
  <2>4. QED
    BY <2>1, <2>2, <2>3
<1>8. AckedOK'
  BY <1>5, <1>7 DEF AckedOK
<1>9. QED
  BY <1>4, <1>8 DEF WalInv


LEMMA AppendFailsOK ==
  ASSUME WalInv, NEW c \in Commands, NEW n \in 0 .. Len(EncodeRecord(0, c)), AppendFails(c, n)
  PROVE  WalInv'
<1> DEFINE record == EncodeRecord(sequence + 1, c)
<1>1. BeginAppend /\ n < Len(record) /\ AppendRaw(record, n) /\ acked' = acked
  BY DEF AppendFails
<1>2. sequence + 1 \in Nat
  BY DEF WalInv, WriterOK
<1>3. n \in 0 .. Len(record)
  <2>1. Len(record) \in Nat
    BY <1>2, WalCellsAreCells, LenProperties
  <2>2. Len(EncodeRecord(0, c)) \in Nat
    BY WalCellsAreCells, LenProperties
  <2>3. n \in Nat
    BY <2>2
  <2> HIDE DEF record
  <2>4. QED
    BY <1>1, <2>1, <2>3
<1>4. DirectoryOK' /\ WriterOK' /\ ReportOK' /\ Keeps(segments, segments')
  BY <1>1, <1>3, AppendLeaves
<1>5. AckedOK'
  BY <1>1, <1>4, AckedStays DEF WalInv
<1>6. QED
  BY <1>4, <1>5 DEF WalInv

LEMMA CrashInAppendOK ==
  ASSUME WalInv, NEW c \in Commands, CrashInAppend(c)
  PROVE  WalInv'
<1> DEFINE record == EncodeRecord(sequence + 1, c)
           n == Len(record)
<1>1. BeginAppend /\ AppendRaw(record, n) /\ acked' = acked
  BY DEF CrashInAppend
<1>2. sequence + 1 \in Nat
  BY DEF WalInv, WriterOK
<1>3. n \in 0 .. n
  <2>1. n \in Nat
    BY <1>2, WalCellsAreCells, LenProperties
  <2> HIDE DEF n
  <2>2. QED
    BY <2>1
<1>4. DirectoryOK' /\ WriterOK' /\ ReportOK' /\ Keeps(segments, segments')
  BY <1>1, <1>3, AppendLeaves
<1>5. AckedOK'
  BY <1>1, <1>4, AckedStays DEF WalInv
<1>6. QED
  BY <1>4, <1>5 DEF WalInv

LEMMA KeepsItself == \A d : Keeps(d, d)
BY DEF Keeps

LEMMA RotateFailsOK ==
  ASSUME WalInv, NEW c \in Commands, RotateFails(c)
  PROVE  WalInv'
<1>1. /\ sequence' = sequence + 1 /\ report' = None /\ opened
      /\ current_segment_index' = current_segment_index + 1
      /\ segments' = segments /\ opened' = opened /\ file' = file
      /\ acked' = acked /\ torn' = torn
  BY DEF RotateFails, BeginAppend
<1>2. /\ WellFormed(segments, torn) /\ InOrder(segments) /\ Numbered(segments, sequence)
      /\ WriterOK
  BY DEF WalInv, DirectoryOK
<1>3. sequence \in Nat
  BY <1>2 DEF WriterOK
<1>4. Numbered(segments, sequence + 1)
  <2>1. \A a : a \in 1 .. sequence => a \in 1 .. sequence + 1
    BY <1>3
  <2>2. QED
    BY <1>2, <2>1 DEF Numbered
<1>5. DirectoryOK'
  BY <1>1, <1>2, <1>4 DEF DirectoryOK
<1>6. WriterOK'
  <2>1. /\ file \in DOMAIN segments /\ file <= current_segment_index
        /\ \A i \in DOMAIN segments : i <= file
        /\ current_segment_index \in Nat
    BY <1>1, <1>2 DEF WriterOK
  <2>2. file \in Nat
    BY <1>2, <2>1 DEF WellFormed, IsDisk, Files
  <2>3. file <= current_segment_index + 1 /\ current_segment_index + 1 \in Nat
    BY <2>1, <2>2
  <2>4. sequence + 1 \in Nat
    BY <1>3
  <2>5. QED
    BY <1>1, <2>1, <2>3, <2>4 DEF WriterOK
<1>7. AckedOK'
  <2>1. Keeps(segments, segments')
    BY <1>1, KeepsItself
  <2>2. QED
    BY <1>1, <2>1, AckedStays DEF WalInv
<1>8. ReportOK'
  BY <1>1 DEF ReportOK
<1>9. QED
  BY <1>5, <1>6, <1>7, <1>8 DEF WalInv

\* Recovery of some of the files.
LEMMA RecoveryLeaves ==
  ASSUME WalInv, ~opened, NEW T, segments' = Recover(segments, T), torn' = torn \ T,
         opened' = opened, current_segment_index' = current_segment_index,
         sequence' = sequence, acked' = acked
  PROVE  DirectoryOK' /\ WriterOK' /\ AckedOK' /\ ReadSame(segments, segments')
<1> DEFINE e == Recover(segments, T)
<1>1. /\ WellFormed(segments, torn) /\ InOrder(segments) /\ Numbered(segments, sequence)
      /\ WriterOK /\ AckedOK
  BY DEF WalInv, DirectoryOK
<1>2. IsDisk(segments)
  BY <1>1 DEF WellFormed
<1>3. /\ IsDisk(e) /\ DOMAIN e = DOMAIN segments
      /\ ReadSame(segments, e)
      /\ \A i \in DOMAIN segments :
           IF i \in T THEN Whole(e[i]) ELSE e[i] = segments[i]
  BY <1>2, RecoverMeans
<1> HIDE DEF e
<1>4. \A i \in DOMAIN segments : Entries(e[i]) = Entries(segments[i])
  BY <1>3 DEF ReadSame
<1>5. WellFormed(e, torn \ T)
  <2>1. torn \ T \subseteq DOMAIN e
    BY <1>1, <1>3 DEF WellFormed
  <2>2. ASSUME NEW i \in DOMAIN e PROVE Segment(e[i], i \in torn \ T)
    <3>1. CASE i \in T
      BY <1>3, <3>1 DEF Segment
    <3>2. CASE i \notin T
      <4>1. Segment(segments[i], i \in torn) /\ e[i] = segments[i]
        BY <1>1, <1>3, <3>2 DEF WellFormed
      <4>2. (i \in torn \ T) = (i \in torn)
        BY <3>2
      <4>3. QED
        BY <4>1, <4>2
    <3>3. QED
      BY <3>1, <3>2
  <2>3. QED
    BY <1>3, <2>1, <2>2 DEF WellFormed
<1>6. InOrder(e) /\ Numbered(e, sequence)
  BY <1>1, <1>3, <1>4 DEF InOrder, Numbered
<1>7. segments' = e
  BY DEF e
<1>8. DirectoryOK'
  BY <1>5, <1>6, <1>7 DEF DirectoryOK
<1>9. WriterOK'
  BY <1>1 DEF WriterOK
<1>10. ReadSame(segments, segments')
  BY <1>3, <1>7
<1>11. Keeps(segments, segments')
  BY <1>10, SameIsKept
<1>12. AckedOK'
  BY <1>1, <1>11, AckedStays
<1>13. QED
  BY <1>8, <1>9, <1>10, <1>12

LEMMA CrashInRecoveryOK ==
  ASSUME WalInv, NEW n \in 1 .. MaxAppends, CrashInRecovery(n)
  PROVE  WalInv'
<1> DEFINE T == ToSet(SubSeq(ListSegmentPaths, 1, n))
<1>1. /\ ~opened /\ segments' = RecoveredUpTo(n) /\ torn' = torn \ T /\ report' = None
      /\ opened' = opened /\ current_segment_index' = current_segment_index
      /\ sequence' = sequence /\ acked' = acked
  BY DEF CrashInRecovery, writer
<1>2. RecoveredUpTo(n) = Recover(segments, T)
  BY DEF RecoveredUpTo, Recover
<1> HIDE DEF T
<1>3. DirectoryOK' /\ WriterOK' /\ AckedOK'
  BY <1>1, <1>2, RecoveryLeaves
<1>4. ReportOK'
  BY <1>1 DEF ReportOK
<1>5. QED
  BY <1>3, <1>4 DEF WalInv

\* Recovery of the whole directory.
LEMMA RecoveredIs ==
  ASSUME DirectoryOK
  PROVE  Recovered = Recover(segments, DOMAIN segments) /\ ListSegmentPaths = Paths(segments)
<1>1. IsDisk(segments) /\ Files(DOMAIN segments)
  BY DEF DirectoryOK, WellFormed, IsDisk
<1>2. ListSegmentPaths = Listing(DOMAIN segments)
  BY PathsAre
<1>3. Cardinality(DOMAIN segments) \in 0 .. Cardinality(DOMAIN segments)
  <2>1. Size(segments) \in Nat
    BY <1>1, DiskMeans
  <2>2. QED
    BY <2>1 DEF Size
<1>4. ToSet(SubSeq(Listing(DOMAIN segments), 1, Cardinality(DOMAIN segments))) = DOMAIN segments
  BY <1>1, <1>3, FirstPaths
<1>5. RecoveredUpTo(Cardinality(DOMAIN segments)) = Recover(segments, DOMAIN segments)
  BY <1>2, <1>4 DEF RecoveredUpTo, Recover
<1>6. QED
  BY <1>2, <1>5 DEF Recovered, Paths

LEMMA RecoverDirOK ==
  ASSUME WalInv, RecoverDir
  PROVE  WalInv'
<1>1. /\ ~opened /\ segments # <<>> /\ segments' = Recovered /\ torn' = {}
      /\ report' = RecoveryReport
      /\ opened' = opened /\ current_segment_index' = current_segment_index
      /\ sequence' = sequence /\ acked' = acked
  BY DEF RecoverDir, writer
<1>2. /\ WellFormed(segments, torn) /\ Numbered(segments, sequence) /\ sequence \in Nat
      /\ DirectoryOK
  BY DEF WalInv, DirectoryOK, WriterOK
<1>3. IsDisk(segments) /\ torn \ DOMAIN segments = {}
  BY <1>2 DEF WellFormed
<1>4. segments' = Recover(segments, DOMAIN segments) /\ ListSegmentPaths = Paths(segments)
  BY <1>1, <1>2, RecoveredIs
<1>5. torn' = torn \ DOMAIN segments
  BY <1>1, <1>3
<1>6. DirectoryOK' /\ WriterOK' /\ AckedOK' /\ ReadSame(segments, segments')
  <2> DEFINE T == DOMAIN segments
  <2>1. segments' = Recover(segments, T) /\ torn' = torn \ T
    BY <1>4, <1>5
  <2> HIDE DEF T
  <2>2. QED
    BY <1>1, <2>1, RecoveryLeaves
<1>7. report'.last_valid_sequence = LastSequence(Reports(segments))
  <2>1. RecoveryReport.last_valid_sequence
          = LastSequence([k \in DOMAIN ListSegmentPaths |-> RecoverFile(segments[ListSegmentPaths[k]])])
    BY DEF RecoveryReport
  <2>2. Reports(segments)
          = [k \in DOMAIN ListSegmentPaths |-> RecoverFile(segments[ListSegmentPaths[k]])]
    BY <1>4 DEF Reports
  <2>3. QED
    BY <1>1, <2>1, <2>2
<1>8. Sequenced(segments)
  <2>1. \A a : a \in 1 .. sequence => a \in Nat \ {0}
    BY <1>2
  <2>2. QED
    BY <1>2, <2>1 DEF Sequenced, Numbered
<1>9. LastSequence(Reports(segments)) = LastOf(segments)
  BY <1>3, <1>8, LastSequenceMeans DEF LastOf
<1>10. LastOf(segments') = LastOf(segments)
  <2>1. All(segments') = All(segments)
    BY <1>3, <1>6, SameAll
  <2>2. QED
    BY <2>1 DEF LastOf
<1>11. segments' # <<>>
  <2>1. DOMAIN segments' = DOMAIN segments /\ DOMAIN segments # {}
    BY <1>1, <1>3, <1>6, HasFiles DEF ReadSame
  <2>2. DOMAIN <<>> = {}
    OBVIOUS
  <2>3. QED
    BY <2>1, <2>2
<1>12. ReportOK'
  <2>1. report'.last_valid_sequence = LastOf(segments')
    BY <1>7, <1>9, <1>10
  <2>2. QED
    BY <1>11, <2>1 DEF ReportOK
<1>13. QED
  BY <1>6, <1>12 DEF WalInv


LEMMA NextOK == WalInv /\ [Next]_vars => WalInv'
<1> SUFFICES ASSUME WalInv, [Next]_vars PROVE WalInv'
  OBVIOUS
<1>1. CASE OpenSegmented
  BY <1>1, OpenOK
<1>2. ASSUME NEW c \in Commands, AppendCommand(c) PROVE WalInv'
  BY <1>2, AppendCommandOK
<1>3. ASSUME NEW c \in Commands, NEW n \in 0 .. Len(EncodeRecord(0, c)), AppendFails(c, n)
      PROVE  WalInv'
  BY <1>3, AppendFailsOK
<1>4. ASSUME NEW c \in Commands, RotateFails(c) PROVE WalInv'
  BY <1>4, RotateFailsOK
<1>5. ASSUME NEW c \in Commands, CrashInAppend(c) PROVE WalInv'
  BY <1>5, CrashInAppendOK
<1>6. CASE Drop
  <2>1. /\ ~opened' /\ segments' = segments /\ current_segment_index' = current_segment_index
        /\ sequence' = sequence /\ acked' = acked /\ torn' = torn /\ report' = report
    BY <1>6 DEF Drop
  <2>2. DirectoryOK' /\ AckedOK' /\ ReportOK'
    BY <2>1 DEF WalInv, DirectoryOK, AckedOK, ReportOK
  <2>3. WriterOK'
    BY <2>1 DEF WalInv, WriterOK
  <2>4. QED
    BY <2>2, <2>3 DEF WalInv
<1>7. CASE RecoverDir
  BY <1>7, RecoverDirOK
<1>8. ASSUME NEW n \in 1 .. MaxAppends, CrashInRecovery(n) PROVE WalInv'
  BY <1>8, CrashInRecoveryOK
<1>9. CASE UNCHANGED vars
  <2>1. /\ opened' = opened /\ segments' = segments /\ file' = file
        /\ current_segment_index' = current_segment_index
        /\ sequence' = sequence /\ acked' = acked /\ torn' = torn /\ report' = report
    BY <1>9 DEF vars, writer
  <2>2. DirectoryOK' /\ AckedOK' /\ ReportOK'
    BY <2>1 DEF WalInv, DirectoryOK, AckedOK, ReportOK
  <2>3. WriterOK'
    BY <2>1 DEF WalInv, WriterOK
  <2>4. QED
    BY <2>2, <2>3 DEF WalInv
<1>10. QED
  BY <1>1, <1>2, <1>3, <1>4, <1>5, <1>6, <1>7, <1>8, <1>9 DEF Next

LEMMA Invariance == Spec => []WalInv
<1>1. QED
  BY InitOK, NextOK, PTL DEF Spec

-----------------------------------------------------------------------------
(* What it means for callers of the journal. *)

LEMMA KeptMeans ==
  ASSUME DirectoryOK
  PROVE  /\ IsDisk(segments) /\ IsDisk(Recovered)
         /\ ListSegmentPaths = Paths(segments) /\ Paths(Recovered) = Paths(segments)
         /\ DOMAIN Recovered = DOMAIN segments
         /\ \A i \in DOMAIN segments :
              Whole(Recovered[i]) /\ RecoverFile(Recovered[i]).truncated_bytes = 0
         /\ Kept = All(segments)
<1>1. IsDisk(segments)
  BY DEF DirectoryOK, WellFormed
<1>2. Recovered = Recover(segments, DOMAIN segments) /\ ListSegmentPaths = Paths(segments)
  BY RecoveredIs
<1> DEFINE e == Recover(segments, DOMAIN segments)
<1>3. /\ IsDisk(e) /\ DOMAIN e = DOMAIN segments /\ ReadSame(segments, e)
      /\ \A i \in DOMAIN segments : Whole(e[i]) /\ RecoverFile(e[i]).truncated_bytes = 0
  BY <1>1, RecoverMeans
<1> HIDE DEF e
<1>4. Paths(segments) = Paths(e) /\ All(segments) = All(e)
  BY <1>1, <1>3, SameAll
<1>5. ReadAll(e, Paths(e)).entries = All(e)
  BY <1>3, ReadAllMeans
<1>6. Recovered = e
  BY <1>2 DEF e
<1>7. Kept = All(segments)
  BY <1>2, <1>4, <1>5, <1>6 DEF Kept
<1>8. QED
  BY <1>1, <1>2, <1>3, <1>4, <1>6, <1>7

\* An append that returned Ok is never lost, however the process dies, the writer fails
\* and the directory is reopened and recovered - but behind a torn record (append_raw,
\* writer.rs:88-103; recover_file, recovery.rs:35-63).
THEOREM AcknowledgedIsRecovered == Spec => []AckedSurvives
<1>1. WalInv => AckedSurvives
  <2> SUFFICES ASSUME WalInv, NEW r \in ToSet(acked), ~r.behind
               PROVE  Entry(r) \in ToSet(Kept)
    BY DEF AckedSurvives
  <2>1. Found(r, segments)
    BY DEF WalInv, AckedOK
  <2>2. IsDisk(segments) /\ Kept = All(segments)
    BY KeptMeans DEF WalInv
  <2>3. Holds(All(segments), Entry(r))
    BY <2>1, <2>2, AllHolds DEF Found
  <2>4. QED
    BY <2>2, <2>3 DEF Holds, ToSet
<1>2. QED
  BY <1>1, Invariance, PTL

\* Recovery returns the records in the order of their appends, each once, across any
\* number of segments, reopenings and crashes (open_segmented, writer.rs:43-71).
THEOREM RecoveredInOrder == Spec => []KeptInOrder
<1>1. WalInv => KeptInOrder
  <2> SUFFICES ASSUME WalInv PROVE KeptInOrder
    OBVIOUS
  <2>1. IsDisk(segments) /\ Kept = All(segments)
    BY KeptMeans DEF WalInv
  <2>2. InOrder(segments)
    BY DEF WalInv, DirectoryOK
  <2>3. Ordered(Kept)
    BY <2>1, <2>2, AllInOrder
  <2>4. QED
    BY <2>3 DEF Ordered, KeptInOrder
<1>2. QED
  BY <1>1, Invariance, PTL

\* Whatever crashes left on disk, recovery leaves a directory that both readers read to
\* the end, with the same result (recovery.rs:14-63, reader.rs:34-48).
THEOREM RecoveryLeavesReadable == Spec => []RecoveredIsReadable
<1>1. WalInv => RecoveredIsReadable
  <2> SUFFICES ASSUME WalInv PROVE RecoveredIsReadable
    OBVIOUS
  <2> DEFINE e == Recovered
  <2>1. /\ IsDisk(e) /\ ListSegmentPaths = Paths(e) /\ DOMAIN e = DOMAIN segments
        /\ \A i \in DOMAIN segments : Whole(e[i]) /\ RecoverFile(e[i]).truncated_bytes = 0
    BY KeptMeans DEF WalInv
  <2> HIDE DEF e
  <2>2. ReadAll(e, Paths(e)).ok /\ Stream(e, Paths(e)) = ReadAll(e, Paths(e))
    BY <2>1, ReadersAgree
  <2>3. QED
    BY <2>1, <2>2 DEF RecoveredIsReadable, e
<1>2. QED
  BY <1>1, Invariance, PTL

\* The streaming reader never returns a record that recovery would drop, on any
\* directory that crashes can leave (next_entry, streaming_reader.rs:44-80).
THEOREM StreamIsConservative == Spec => []StreamAgreesWithRecovery
<1>1. WalInv => StreamAgreesWithRecovery
  <2> SUFFICES ASSUME WalInv PROVE StreamAgreesWithRecovery
    OBVIOUS
  <2> DEFINE s == Stream(segments, Paths(segments))
  <2>1. IsDisk(segments) /\ ListSegmentPaths = Paths(segments) /\ Kept = All(segments)
    BY KeptMeans DEF WalInv
  <2>2. /\ s.ok => s.entries = All(segments)
        /\ \E m \in 0 .. Size(segments) : s.entries = Joined(Parts(segments), m)
    BY <2>1, StreamMeans
  <2>3. IsPrefix(s.entries, All(segments))
    <3>1. PICK m \in 0 .. Size(segments) : s.entries = Joined(Parts(segments), m)
      BY <2>2
    <3>2. Size(segments) \in Nat
      BY <2>1, DiskMeans
    <3>3. m \in Nat /\ m <= Size(segments) /\ Size(segments) <= Size(segments)
      BY <3>2
    <3>4. Parts(segments) \in [1 .. Size(segments) -> Seq(Readable(segments))]
      BY <2>1, PartsType
    <3>5. IsPrefix(Joined(Parts(segments), m), Joined(Parts(segments), Size(segments)))
      BY <3>2, <3>3, <3>4, JoinedPrefix
    <3>6. QED
      BY <3>1, <3>5 DEF All
  <2> HIDE DEF s
  <2>4. QED
    BY <2>1, <2>2, <2>3 DEF StreamAgreesWithRecovery, s
<1>2. QED
  BY <1>1, Invariance, PTL

\* The report of recovery names the last record of the journal until something is
\* written again (recover_dir, recovery.rs:14-25).
THEOREM ReportIsRight == Spec => []ReportNamesTheLast
<1>1. WalInv => ReportNamesTheLast
  <2> SUFFICES ASSUME WalInv, report # None PROVE ReportNamesTheLast
    BY DEF ReportNamesTheLast
  <2>1. IsDisk(segments) /\ ListSegmentPaths = Paths(segments)
    BY KeptMeans DEF WalInv
  <2>2. report.last_valid_sequence = LastOf(segments)
    BY DEF WalInv, ReportOK
  <2>3. ReadAll(segments, ListSegmentPaths).entries = All(segments)
    BY <2>1, ReadAllMeans
  <2>4. QED
    BY <2>2, <2>3 DEF ReportNamesTheLast, LastOf
<1>2. QED
  BY <1>1, Invariance, PTL
=============================================================================
