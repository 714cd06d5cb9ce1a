---------------------------- MODULE VolumeProofs ----------------------------
(***************************************************************************)
(* For any window, any prices outside it and any width of a node: the      *)
(* nodes of both volume indices hold the sums of the ranges that end at    *)
(* them, so that every query is answered with the sum of what was added    *)
(* and not taken off.  The sums are those of BookProofs.                   *)
(***************************************************************************)
EXTENDS VolumeIndex, BookProofs

\* On S a function into D is defined: on B it is first, elsewhere it reads one value of
\* lower rank.
Grounded(S, D, N, rank, B, first, prev, G) ==
  /\ D # {} /\ N \in Nat /\ rank \in [S -> 0 .. N] /\ B \in SUBSET S
  /\ \A x \in B : first[x] \in D
  /\ \A x \in S \ B : prev[x] \in S /\ rank[prev[x]] < rank[x]
  /\ \A x \in S \ B : \A e \in D : G[x][e] \in D

LEMMA RecursionHasSolution ==
  ASSUME NEW S, NEW D, NEW N, NEW rank, NEW B, NEW first, NEW prev, NEW G,
         Grounded(S, D, N, rank, B, first, prev, G)
  PROVE  \E f \in [S -> D] : \A x \in S : f[x] = IF x \in B THEN first[x] ELSE G[x][f[prev[x]]]
<1> USE DEF Grounded
<1>0. PICK d : d \in D
  OBVIOUS
<1> DEFINE Next1(f, x) == IF x \in B THEN first[x] ELSE G[x][f[prev[x]]]
           P == {n \in Nat : \E f \in [S -> D] : \A x \in S : rank[x] < n => f[x] = Next1(f, x)}
<1>1. 0 \in P
  <2>1. \A x \in S : ~(rank[x] < 0)
    OBVIOUS
  <2>2. [x \in S |-> d] \in [S -> D]
    BY <1>0
  <2>3. QED
    BY <2>1, <2>2
<1>2. ASSUME NEW n \in P PROVE n + 1 \in P
  <2>1. PICK f \in [S -> D] : \A x \in S : rank[x] < n => f[x] = Next1(f, x)
    OBVIOUS
  <2> DEFINE g == [x \in S |-> Next1(f, x)]
  <2>2. g \in [S -> D]
    OBVIOUS
  <2>3. ASSUME NEW x \in S, rank[x] < n + 1 PROVE g[x] = Next1(g, x)
    <3>1. CASE x \in B
      BY <3>1
    <3>2. CASE x \notin B
      <4>1. prev[x] \in S /\ rank[prev[x]] < n
        <5>1. prev[x] \in S /\ rank[prev[x]] < rank[x]
          BY <3>2
        <5>2. rank[prev[x]] \in Int /\ rank[x] \in Int /\ n \in Int
          BY <5>1
        <5>3. QED
          BY <5>1, <5>2, <2>3
      <4>2. f[prev[x]] = Next1(f, prev[x])
        BY <2>1, <4>1
      <4>3. g[prev[x]] = Next1(f, prev[x])
        BY <4>1
      <4>4. QED
        BY <3>2, <4>2, <4>3
    <3>3. QED
      BY <3>1, <3>2
  <2> HIDE DEF g
  <2>4. n + 1 \in Nat
    OBVIOUS
  <2>5. QED
    BY <2>2, <2>3, <2>4
<1>3. P = Nat
  <2>1. P \in SUBSET Nat
    OBVIOUS
  <2> HIDE DEF P
  <2>2. QED
    BY <1>1, <1>2, <2>1, NaturalsFrom
<1>4. N + 1 \in P
  <2>1. N + 1 \in Nat
    OBVIOUS
  <2> HIDE DEF P
  <2>2. QED
    BY <1>3, <2>1
<1>5. PICK f \in [S -> D] : \A x \in S : rank[x] < N + 1 => f[x] = Next1(f, x)
  BY <1>4
<1>6. \A x \in S : rank[x] < N + 1
  OBVIOUS
<1>7. QED
  BY <1>5, <1>6

\* Strong induction over the positive numbers.
LEMMA PositivesFrom ==
  ASSUME NEW P, \A n \in Nat \ {0} : (\A m \in 1 .. n - 1 : m \in P) => n \in P
  PROVE  \A n \in Nat \ {0} : n \in P
<1> DEFINE Q == {n \in Nat : \A m \in 1 .. n : m \in P}
<1>1. 0 \in Q
  OBVIOUS
<1>2. ASSUME NEW n \in Q PROVE n + 1 \in Q
  <2>1. \A m \in 1 .. (n + 1) - 1 : m \in P
    OBVIOUS
  <2>2. n + 1 \in P
    BY <2>1
  <2>3. \A m \in 1 .. n + 1 : m \in 1 .. n \/ m = n + 1
    OBVIOUS
  <2>4. QED
    BY <2>2, <2>3
<1>3. Q \in SUBSET Nat
  OBVIOUS
<1>4. Q = Nat
  <2> HIDE DEF Q
  <2>1. QED
    BY <1>1, <1>2, <1>3, NaturalsFrom
<1>5. QED
  BY <1>4

\* Halving, the step of every induction over the bits of an index.
LEMMA Halves ==
  ASSUME NEW n \in Nat \ {0}
  PROVE  \/ n % 2 = 1 /\ \E h \in Nat : n = 2 * h + 1
         \/ n % 2 # 1 /\ \E h \in 1 .. n - 1 : n = 2 * h /\ n \div 2 = h
<1>1. n = 2 * (n \div 2) + (n % 2) /\ n \div 2 \in Int /\ n % 2 \in {0, 1}
  OBVIOUS
<1>2. CASE n % 2 = 1
  <2>1. n \div 2 \in Nat /\ n = 2 * (n \div 2) + 1
    BY <1>1, <1>2
  <2>2. QED
    BY <1>2, <2>1
<1>3. CASE n % 2 = 0
  <2>1. n \div 2 \in 1 .. n - 1 /\ n = 2 * (n \div 2)
    BY <1>1, <1>3
  <2>2. QED
    BY <1>3, <2>1
<1>4. QED
  BY <1>1, <1>2, <1>3

-----------------------------------------------------------------------------
(* The lowest bit of an index, and the ranges of the nodes.                *)

\* The recursion of LowBit over the numbers up to n.
Low(f, n) == f = [j \in 1 .. n |-> IF j % 2 = 1 THEN 1 ELSE 2 * f[j \div 2]]

LEMMA LowExists ==
  ASSUME NEW n \in Nat
  PROVE  \E f : Low(f, n)
<1> DEFINE S == 1 .. n
           B == {j \in S : j % 2 = 1}
           rank == [j \in S |-> j]
           first == [j \in S |-> 1]
           prev == [j \in S |-> j \div 2]
           G == [j \in S |-> [e \in Nat |-> 2 * e]]
<1>1. rank \in [S -> 0 .. n] /\ B \in SUBSET S /\ (\A x \in B : first[x] \in Nat) /\ 1 \in Nat
  OBVIOUS
<1>2. \A x \in S \ B : prev[x] \in S /\ rank[prev[x]] < rank[x]
  <2> SUFFICES ASSUME NEW x \in S \ B PROVE x \div 2 \in S /\ x \div 2 < x
    OBVIOUS
  <2>1. x \in Nat \ {0} /\ x % 2 # 1
    OBVIOUS
  <2>2. PICK h \in 1 .. x - 1 : x = 2 * h /\ x \div 2 = h
    BY <2>1, Halves
  <2>3. QED
    BY <2>2
<1>3. \A x \in S \ B : \A e \in Nat : G[x][e] \in Nat
  OBVIOUS
<1>4. \A x \in S \ B : \A e \in Nat : G[x][e] = 2 * e
  OBVIOUS
<1>5. (\A x \in B : first[x] = 1) /\ \A x \in S : prev[x] = x \div 2
  OBVIOUS
<1>6. \A x \in S : x \in B <=> x % 2 = 1
  OBVIOUS
<1> HIDE DEF S, B, rank, first, prev, G
<1>7. PICK f \in [S -> Nat] : \A x \in S : f[x] = IF x \in B THEN first[x] ELSE G[x][f[prev[x]]]
  <2>1. Grounded(S, Nat, n, rank, B, first, prev, G)
    BY <1>1, <1>2, <1>3 DEF Grounded
  <2>2. QED
    BY <2>1, RecursionHasSolution
<1>8. \A x \in S : f[x] = IF x % 2 = 1 THEN 1 ELSE 2 * f[x \div 2]
  <2> SUFFICES ASSUME NEW x \in S PROVE f[x] = IF x % 2 = 1 THEN 1 ELSE 2 * f[x \div 2]
    OBVIOUS
  <2>1. CASE x \in B
    BY <1>5, <1>6, <1>7, <2>1
  <2>2. CASE x \notin B
    <3>1. prev[x] \in S /\ prev[x] = x \div 2
      BY <1>2, <1>5, <2>2
    <3>2. f[prev[x]] \in Nat
      BY <3>1
    <3>3. f[x] = 2 * f[x \div 2]
      BY <1>4, <1>7, <2>2, <3>1, <3>2
    <3>4. QED
      BY <1>6, <2>2, <3>3
  <2>3. QED
    BY <2>1, <2>2
<1>9. f = [x \in S |-> IF x % 2 = 1 THEN 1 ELSE 2 * f[x \div 2]]
  BY <1>8, Zenon
<1>10. QED
  BY <1>9 DEF Low, S

LEMMA LowIsUnique ==
  ASSUME NEW n \in Nat, NEW m \in Nat, NEW f, NEW g, Low(f, n), Low(g, m)
  PROVE  \A j \in Nat \ {0} : j <= n /\ j <= m => f[j] = g[j]
<1> DEFINE P == {j \in Nat \ {0} : j <= n /\ j <= m => f[j] = g[j]}
<1>1. ASSUME NEW j \in Nat \ {0}, \A k \in 1 .. j - 1 : k \in P PROVE j \in P
  <2> SUFFICES ASSUME j <= n, j <= m PROVE f[j] = g[j]
    OBVIOUS
  <2>1. /\ f[j] = IF j % 2 = 1 THEN 1 ELSE 2 * f[j \div 2]
        /\ g[j] = IF j % 2 = 1 THEN 1 ELSE 2 * g[j \div 2]
    <3>1. j \in 1 .. n /\ j \in 1 .. m
      OBVIOUS
    <3>2. QED
      BY <3>1, Zenon DEF Low
  <2>2. CASE j % 2 = 1
    BY <2>1, <2>2
  <2>3. CASE j % 2 # 1
    <3>1. PICK h \in 1 .. j - 1 : j \div 2 = h
      BY <2>3, Halves
    <3>2. h <= n /\ h <= m /\ h \in P
      BY <1>1
    <3>3. QED
      BY <2>1, <2>3, <3>1, <3>2
  <2>4. QED
    BY <2>2, <2>3
<1>2. \A j \in Nat \ {0} : j \in P
  <2> HIDE DEF P
  <2>1. QED
    BY <1>1, PositivesFrom
<1>3. QED
  BY <1>2

LEMMA LowBitMeans ==
  ASSUME NEW n \in Nat \ {0}
  PROVE  \E f : Low(f, n) /\ \A j \in 1 .. n : f[j] = LowBit(j)
<1> DEFINE low(m) == CHOOSE f : Low(f, m)
<1>1. \A m \in Nat : Low(low(m), m)
  BY LowExists
<1>2. \A m : LowBit(m) = low(m)[m]
  BY Zenon DEF LowBit, Low
<1> HIDE DEF low
<1>3. ASSUME NEW j \in 1 .. n PROVE low(n)[j] = LowBit(j)
  <2>1. n \in Nat /\ j \in Nat /\ j \in Nat \ {0} /\ j <= n /\ j <= j
    OBVIOUS
  <2>2. low(n)[j] = low(j)[j]
    BY <1>1, <2>1, LowIsUnique
  <2>3. QED
    BY <1>2, <2>2
<1>4. QED
  BY <1>1, <1>3

LEMMA LowBitRule ==
  ASSUME NEW n \in Nat \ {0}
  PROVE  LowBit(n) = IF n % 2 = 1 THEN 1 ELSE 2 * LowBit(n \div 2)
<1>1. PICK f : Low(f, n) /\ \A j \in 1 .. n : f[j] = LowBit(j)
  BY LowBitMeans
<1>2. n \in 1 .. n /\ f[n] = IF n % 2 = 1 THEN 1 ELSE 2 * f[n \div 2]
  <2>1. n \in 1 .. n
    OBVIOUS
  <2>2. QED
    BY <1>1, <2>1, Zenon DEF Low
<1>3. CASE n % 2 = 1
  BY <1>1, <1>2, <1>3
<1>4. CASE n % 2 # 1
  <2>1. PICK h \in 1 .. n - 1 : n \div 2 = h
    BY <1>4, Halves
  <2>2. h \in 1 .. n
    OBVIOUS
  <2>3. QED
    BY <1>1, <1>2, <1>4, <2>1, <2>2
<1>5. QED
  BY <1>3, <1>4

\* Of an odd index the lowest bit is 1, of an even one twice that of its half.
LEMMA LowBitOfOdd ==
  ASSUME NEW n \in Nat \ {0}, n % 2 = 1
  PROVE  LowBit(n) = 1
BY LowBitRule

LEMMA LowBitOfEven ==
  ASSUME NEW n \in Nat \ {0}, n % 2 # 1
  PROVE  \E h \in 1 .. n - 1 : n = 2 * h /\ LowBit(n) = 2 * LowBit(h)
<1>1. PICK h \in 1 .. n - 1 : n = 2 * h /\ n \div 2 = h
  BY Halves
<1>2. QED
  BY <1>1, LowBitRule

LEMMA LowBitType ==
  \A n \in Nat \ {0} : LowBit(n) \in 1 .. n
<1> DEFINE P == {n \in Nat \ {0} : LowBit(n) \in 1 .. n}
<1>1. ASSUME NEW n \in Nat \ {0}, \A k \in 1 .. n - 1 : k \in P PROVE n \in P
  <2>1. CASE n % 2 = 1
    BY <2>1, LowBitOfOdd
  <2>2. CASE n % 2 # 1
    <3>1. PICK h \in 1 .. n - 1 : n = 2 * h /\ LowBit(n) = 2 * LowBit(h)
      BY <2>2, LowBitOfEven
    <3>2. LowBit(h) \in 1 .. h
      BY <1>1
    <3>3. QED
      BY <3>1, <3>2
  <2>3. QED
    BY <2>1, <2>2
<1>2. \A n \in Nat \ {0} : n \in P
  <2> HIDE DEF P
  <2>1. QED
    BY <1>1, PositivesFrom
<1>3. QED
  BY <1>2

\* Node j holds the sum of the range from Below(j) + 1 to j; an update goes on from it to
\* node Above(j), and a query to node Below(j).
Below(j) == j - LowBit(j)
Above(j) == j + LowBit(j)

LEMMA BoundsOfOdd ==
  ASSUME NEW n \in Nat \ {0}, n % 2 = 1
  PROVE  Below(n) = n - 1 /\ Above(n) = n + 1
BY LowBitOfOdd DEF Below, Above

LEMMA BoundsOfEven ==
  ASSUME NEW n \in Nat \ {0}, n % 2 # 1
  PROVE  \E h \in 1 .. n - 1 : n = 2 * h /\ Below(n) = 2 * Below(h) /\ Above(n) = 2 * Above(h)
<1>1. PICK h \in 1 .. n - 1 : n = 2 * h /\ LowBit(n) = 2 * LowBit(h)
  BY LowBitOfEven
<1>2. LowBit(h) \in Nat
  BY LowBitType
<1>3. n - LowBit(n) = 2 * (h - LowBit(h)) /\ n + LowBit(n) = 2 * (h + LowBit(h))
  BY <1>1, <1>2
<1>4. QED
  BY <1>1, <1>3 DEF Below, Above

LEMMA BoundsType ==
  ASSUME NEW n \in Nat \ {0}
  PROVE  Below(n) \in 0 .. n - 1 /\ Above(n) \in Nat /\ n < Above(n)
BY LowBitType DEF Below, Above

\* What starts inside the range of a node ends inside it.
LEMMA InnerRangeEndsInside ==
  \A n \in Nat \ {0} : \A k \in 1 .. n - 1 : Below(n) < k => Above(k) <= n
<1> DEFINE P == {n \in Nat \ {0} : \A k \in 1 .. n - 1 : Below(n) < k => Above(k) <= n}
<1>1. ASSUME NEW n \in Nat \ {0}, \A m \in 1 .. n - 1 : m \in P PROVE n \in P
  <2> SUFFICES ASSUME NEW k \in 1 .. n - 1, Below(n) < k PROVE Above(k) <= n
    OBVIOUS
  <2>1. k \in Nat \ {0}
    OBVIOUS
  <2>2. n % 2 # 1
    <3>1. n % 2 = 1 => Below(n) = n - 1
      BY BoundsOfOdd
    <3>2. QED
      BY <3>1
  <2>3. PICK h \in 1 .. n - 1 : n = 2 * h /\ Below(n) = 2 * Below(h)
    BY <2>2, BoundsOfEven
  <2>4. CASE k % 2 = 1
    <3>1. Above(k) = k + 1
      BY <2>1, <2>4, BoundsOfOdd
    <3>2. QED
      BY <2>3, <3>1
  <2>5. CASE k % 2 # 1
    <3>1. PICK g \in 1 .. k - 1 : k = 2 * g /\ Above(k) = 2 * Above(g)
      BY <2>1, <2>5, BoundsOfEven
    <3>2. Below(h) \in Nat /\ Above(g) \in Nat
      <4>1. h \in Nat \ {0} /\ g \in Nat \ {0}
        OBVIOUS
      <4>2. QED
        BY <4>1, BoundsType
    <3>3. g \in 1 .. h - 1 /\ Below(h) < g
      BY <2>3, <3>1, <3>2
    <3>4. Above(g) <= h
      BY <1>1, <3>3
    <3>5. QED
      BY <2>3, <3>1, <3>2, <3>4
  <2>6. QED
    BY <2>4, <2>5
<1>2. \A n \in Nat \ {0} : n \in P
  <2> HIDE DEF P
  <2>1. QED
    BY <1>1, PositivesFrom
<1>3. QED
  BY <1>2

\* A node whose range reaches the next node of an update covers where the update started.
LEMMA OuterRangeCovers ==
  \A n \in Nat \ {0} : \A k \in 1 .. n - 1 : Above(k) <= n /\ Below(n) < Above(k) => Below(n) < k
<1> DEFINE P == {n \in Nat \ {0} : \A k \in 1 .. n - 1 : Above(k) <= n /\ Below(n) < Above(k) => Below(n) < k}
<1>1. ASSUME NEW n \in Nat \ {0}, \A m \in 1 .. n - 1 : m \in P PROVE n \in P
  <2> SUFFICES ASSUME NEW k \in 1 .. n - 1, Above(k) <= n, Below(n) < Above(k) PROVE Below(n) < k
    OBVIOUS
  <2>1. k \in Nat \ {0}
    OBVIOUS
  <2>2. CASE n % 2 = 1
    <3>1. Below(n) = n - 1
      BY <2>2, BoundsOfOdd
    <3>2. PICK m \in Nat : n = 2 * m + 1
      BY <2>2, Halves
    <3>3. CASE k % 2 = 1
      <4>1. Above(k) = k + 1
        BY <2>1, <3>3, BoundsOfOdd
      <4>2. PICK g \in Nat : k = 2 * g + 1
        BY <2>1, <3>3, Halves
      <4>3. QED
        BY <3>1, <3>2, <4>1, <4>2
    <3>4. CASE k % 2 # 1
      <4>1. PICK g \in 1 .. k - 1 : k = 2 * g /\ Above(k) = 2 * Above(g)
        BY <2>1, <3>4, BoundsOfEven
      <4>2. Above(g) \in Nat
        <5>1. g \in Nat \ {0}
          OBVIOUS
        <5>2. QED
          BY <5>1, BoundsType
      <4>3. QED
        BY <3>1, <3>2, <4>1, <4>2
    <3>5. QED
      BY <3>3, <3>4
  <2>3. CASE n % 2 # 1
    <3>1. PICK h \in 1 .. n - 1 : n = 2 * h /\ Below(n) = 2 * Below(h)
      BY <2>3, BoundsOfEven
    <3>2. Below(h) \in Nat /\ h \in Nat \ {0}
      <4>1. h \in Nat \ {0}
        OBVIOUS
      <4>2. QED
        BY <4>1, BoundsType
    <3>3. CASE k % 2 = 1
      <4>1. Above(k) = k + 1
        BY <2>1, <3>3, BoundsOfOdd
      <4>2. PICK g \in Nat : k = 2 * g + 1
        BY <2>1, <3>3, Halves
      <4>3. QED
        BY <3>1, <3>2, <4>1, <4>2
    <3>4. CASE k % 2 # 1
      <4>1. PICK g \in 1 .. k - 1 : k = 2 * g /\ Above(k) = 2 * Above(g)
        BY <2>1, <3>4, BoundsOfEven
      <4>2. Above(g) \in Nat
        <5>1. g \in Nat \ {0}
          OBVIOUS
        <5>2. QED
          BY <5>1, BoundsType
      <4>3. g \in 1 .. h - 1 /\ Above(g) <= h /\ Below(h) < Above(g)
        BY <3>1, <3>2, <4>1, <4>2
      <4>4. Below(h) < g
        BY <1>1, <4>3
      <4>5. QED
        BY <3>1, <3>2, <4>1, <4>4
    <3>5. QED
      BY <3>3, <3>4
  <2>4. QED
    BY <2>2, <2>3
<1>2. \A n \in Nat \ {0} : n \in P
  <2> HIDE DEF P
  <2>1. QED
    BY <1>1, PositivesFrom
<1>3. QED
  BY <1>2
-----------------------------------------------------------------------------
(* The nodes an update visits are those whose range covers the index.      *)

Path(f, n) == f = [j \in 1 .. n |-> {j} \cup IF j + LowBit(j) <= n THEN f[j + LowBit(j)] ELSE {}]

LEMMA PathExists ==
  ASSUME NEW n \in Nat
  PROVE  \E f : Path(f, n)
<1> DEFINE S == 1 .. n
           D == SUBSET S
           B == {j \in S : ~(j + LowBit(j) <= n)}
           rank == [j \in S |-> n - j]
           first == [j \in S |-> {j}]
           prev == [j \in S |-> j + LowBit(j)]
           G == [j \in S |-> [e \in D |-> {j} \cup e]]
<1>1. ASSUME NEW x \in S PROVE LowBit(x) \in Nat \ {0}
  <2>1. x \in Nat \ {0}
    OBVIOUS
  <2>2. LowBit(x) \in 1 .. x
    BY <2>1, LowBitType
  <2>3. QED
    BY <2>2
<1>2. rank \in [S -> 0 .. n] /\ B \in SUBSET S /\ (\A x \in B : first[x] \in D) /\ D # {}
  <2>1. rank \in [S -> 0 .. n]
    OBVIOUS
  <2>2. {} \in D /\ \A x \in B : first[x] \in D
    OBVIOUS
  <2>3. QED
    BY <2>1, <2>2
<1>3. \A x \in S \ B : prev[x] \in S /\ rank[prev[x]] < rank[x]
  <2> SUFFICES ASSUME NEW x \in S, x + LowBit(x) <= n
               PROVE  x + LowBit(x) \in S /\ n - (x + LowBit(x)) < n - x
    OBVIOUS
  <2>1. QED
    BY <1>1
<1>4. \A x \in S : \A e \in D : G[x][e] \in D /\ G[x][e] = {x} \cup e
  OBVIOUS
<1>5. \A x \in S : first[x] = {x} /\ prev[x] = x + LowBit(x) /\ (x \in B <=> ~(x + LowBit(x) <= n))
  OBVIOUS
<1> HIDE DEF S, D, B, rank, first, prev, G
<1>6. Grounded(S, D, n, rank, B, first, prev, G)
  BY <1>2, <1>3, <1>4 DEF Grounded
<1>7. PICK f \in [S -> D] : \A x \in S : f[x] = IF x \in B THEN first[x] ELSE G[x][f[prev[x]]]
  BY <1>6, RecursionHasSolution
<1>8. ASSUME NEW x \in S
      PROVE  f[x] = {x} \cup IF x + LowBit(x) <= n THEN f[x + LowBit(x)] ELSE {}
  <2>1. CASE x \in B
    <3>1. f[x] = {x}
      BY <1>5, <1>7, <2>1
    <3>2. QED
      BY <1>5, <2>1, <3>1
  <2>2. CASE x \notin B
    <3>1. prev[x] \in S /\ prev[x] = x + LowBit(x)
      BY <1>3, <1>5, <2>2
    <3>2. f[prev[x]] \in D
      BY <3>1
    <3>3. f[x] = {x} \cup f[prev[x]]
      BY <1>4, <1>7, <2>2, <3>2
    <3>4. QED
      BY <1>5, <2>2, <3>1, <3>3
  <2>3. QED
    BY <2>1, <2>2
<1>9. f = [x \in S |-> {x} \cup IF x + LowBit(x) <= n THEN f[x + LowBit(x)] ELSE {}]
  BY <1>8, Zenon
<1>10. QED
  BY <1>9 DEF Path, S

\* The nodes whose range covers i.
Covering(n, i) == {j \in 1 .. n : i <= j /\ Below(j) < i}

LEMMA PathIsCovering ==
  ASSUME NEW n \in Nat, NEW f, Path(f, n)
  PROVE  \A i \in 1 .. n : f[i] = Covering(n, i)
<1> DEFINE P == {d \in Nat : \A i \in 1 .. n : n - i < d => f[i] = Covering(n, i)}
<1>1. 0 \in P
  OBVIOUS
<1>2. ASSUME NEW d \in P PROVE d + 1 \in P
  <2> SUFFICES ASSUME NEW i \in 1 .. n, n - i < d + 1 PROVE f[i] = Covering(n, i)
    OBVIOUS
  <2>1. f[i] = {i} \cup IF i + LowBit(i) <= n THEN f[i + LowBit(i)] ELSE {}
    BY Zenon DEF Path
  <2>2. i \in Nat \ {0} /\ Below(i) < i /\ Above(i) = i + LowBit(i) /\ Above(i) \in Nat /\ i < Above(i)
    <3>1. i \in Nat \ {0}
      OBVIOUS
    <3>2. Below(i) \in 0 .. i - 1 /\ Above(i) \in Nat /\ i < Above(i)
      BY <3>1, BoundsType
    <3>3. QED
      BY <3>1, <3>2 DEF Above
  <2>3. ASSUME NEW j \in 1 .. n, i < j
        PROVE  Below(j) < i <=> Above(i) <= n /\ j \in Covering(n, Above(i))
    <3>1. j \in Nat \ {0} /\ i \in 1 .. j - 1 /\ Below(j) \in Int
      <4>1. j \in Nat \ {0} /\ i \in 1 .. j - 1
        BY <2>3
      <4>2. QED
        BY <4>1, BoundsType
    <3>2. ASSUME Below(j) < i PROVE Above(i) <= n /\ j \in Covering(n, Above(i))
      <4>1. Above(i) <= j
        BY <3>1, <3>2, InnerRangeEndsInside
      <4>2. QED
        BY <2>2, <3>1, <3>2, <4>1 DEF Covering
    <3>3. ASSUME j \in Covering(n, Above(i)) PROVE Below(j) < i
      <4>1. Above(i) <= j /\ Below(j) < Above(i)
        BY <3>3 DEF Covering
      <4>2. QED
        BY <3>1, <4>1, OuterRangeCovers
    <3>4. QED
      BY <3>2, <3>3
  <2>4. Covering(n, i) = {i} \cup IF Above(i) <= n THEN Covering(n, Above(i)) ELSE {}
    <3>1. ASSUME NEW j \in Covering(n, i) PROVE j = i \/ (Above(i) <= n /\ j \in Covering(n, Above(i)))
      <4>1. j \in 1 .. n /\ (j = i \/ i < j) /\ Below(j) < i
        BY DEF Covering
      <4>2. QED
        BY <2>3, <4>1
    <3>2. i \in Covering(n, i)
      BY <2>2 DEF Covering
    <3>3. ASSUME Above(i) <= n, NEW j \in Covering(n, Above(i)) PROVE j \in Covering(n, i)
      <4>1. j \in 1 .. n /\ i < j
        BY <2>2 DEF Covering
      <4>2. Below(j) < i
        BY <2>3, <3>3, <4>1
      <4>3. QED
        BY <4>1, <4>2 DEF Covering
    <3>4. QED
      BY <3>1, <3>2, <3>3
  <2>5. Above(i) <= n => f[Above(i)] = Covering(n, Above(i))
    <3>1. Above(i) <= n => Above(i) \in 1 .. n /\ n - Above(i) < d
      BY <2>2
    <3>2. QED
      BY <3>1
  <2>6. f[i] = {i} \cup IF Above(i) <= n THEN f[Above(i)] ELSE {}
    BY <2>1, <2>2
  <2>7. QED
    BY <2>4, <2>5, <2>6
<1>3. P = Nat
  <2>1. P \in SUBSET Nat
    OBVIOUS
  <2> HIDE DEF P
  <2>2. QED
    BY <1>1, <1>2, <2>1, NaturalsFrom
<1>4. n \in P
  <2> HIDE DEF P
  <2>1. QED
    BY <1>3
<1>5. QED
  BY <1>4

LEMMA UpdatePathCovers ==
  ASSUME NEW n \in Nat, NEW i \in 1 .. n
  PROVE  UpdatePath(n, i) = Covering(n, i)
<1> DEFINE path == CHOOSE f : Path(f, n)
<1>1. Path(path, n)
  BY PathExists
<1>2. UpdatePath(n, i) = path[i]
  BY Zenon DEF UpdatePath, Path
<1> HIDE DEF path
<1>3. QED
  BY <1>1, <1>2, PathIsCovering

-----------------------------------------------------------------------------
(* Trees whose nodes hold the sums of their ranges.                        *)

\* The quantities from position lo to hi.
SumOf(val, lo, hi) == SumFunctionOnSet(val, lo .. hi)

\* Quantities that fit the width of a node, with all that is made of them.
Fits(val, n) == n \in Nat /\ val \in [1 .. n -> Nat] /\ SumOf(val, 1, n) < Modulus

\* Each node of t holds the sum of its range.
Holds(t, val, n) ==
  /\ t \in [1 .. n -> Nat]
  /\ \A j \in 1 .. n : t[j] = SumOf(val, Below(j) + 1, j)

LEMMA RangeSum ==
  ASSUME NEW n, NEW val, Fits(val, n), NEW lo \in Nat \ {0}, NEW hi \in 0 .. n
  PROVE  /\ IsFiniteSet(lo .. hi) /\ (lo .. hi) \subseteq 1 .. n
         /\ SumOf(val, lo, hi) \in Nat /\ SumOf(val, lo, hi) < Modulus
<1>1. n \in Nat /\ hi \in Int /\ lo \in Int /\ \A j \in 1 .. n : val[j] \in Nat
  BY DEF Fits
<1>2. IsFiniteSet(lo .. hi) /\ IsFiniteSet(1 .. n)
  BY <1>1, FS_Interval
<1>3. lo .. hi \in SUBSET (1 .. n)
  BY <1>1
<1>4. SumFunctionOnSet(val, lo .. hi) \in Int /\ SumFunctionOnSet(val, 1 .. n) \in Int
  BY <1>1, <1>2, <1>3, SumType
<1>5. SumFunctionOnSet(val, lo .. hi) <= SumFunctionOnSet(val, 1 .. n)
  BY <1>1, <1>2, <1>3, SumMonotone
<1>6. 0 <= SumFunctionOnSet(val, lo .. hi)
  <2>1. {} \in SUBSET (lo .. hi) /\ (\A x \in lo .. hi : val[x] \in Nat)
        /\ \A x \in {} : val[x] \in Int /\ val[x] <= val[x]
    BY <1>1, <1>3
  <2>2. SumFunctionOnSet(val, {}) <= SumFunctionOnSet(val, lo .. hi)
    BY <1>2, <2>1, SumMonotone
  <2>3. QED
    BY <2>2, SumEmpty
<1>7. SumFunctionOnSet(val, 1 .. n) < Modulus /\ Modulus \in Nat
  BY IndexAssumption DEF Fits, SumOf
<1>8. QED
  BY <1>2, <1>3, <1>4, <1>5, <1>6, <1>7 DEF SumOf

LEMMA TreeLen ==
  ASSUME NEW n \in Nat, NEW t \in [1 .. n -> Nat]
  PROVE  t \in Seq(Nat) /\ Len(t) = n /\ DOMAIN t = 1 .. n
<1>1. t \in Seq(Nat)
  BY SeqDef
<1>2. QED
  BY <1>1, LenProperties

\* A change of one quantity changes the ranges that cover it.
Differs(w, val, n, i, d) ==
  i \in 1 .. n /\ d \in Int /\ \A j \in 1 .. n : w[j] = IF j = i THEN val[j] + d ELSE val[j]

LEMMA RangeChange ==
  ASSUME NEW n, NEW val, Fits(val, n), NEW i, NEW d, NEW w, Differs(w, val, n, i, d),
         NEW lo \in Nat \ {0}, NEW hi \in 0 .. n
  PROVE  SumOf(w, lo, hi) = IF i \in lo .. hi THEN SumOf(val, lo, hi) + d ELSE SumOf(val, lo, hi)
<1> DEFINE S == lo .. hi
<1>1. IsFiniteSet(S) /\ S \subseteq 1 .. n
  BY RangeSum
<1> HIDE DEF S
<1>2. \A j \in S : val[j] \in Int /\ w[j] = IF j = i THEN val[j] + d ELSE val[j]
  BY <1>1 DEF Fits, Differs
<1>3. CASE i \in S
  <2>1. SumFunctionOnSet(w, S) = SumFunctionOnSet(val, S) + d
    <3>1. d \in Int /\ IsFiniteSet(S)
      BY <1>1 DEF Differs
    <3>2. QED
      BY <1>2, <1>3, <3>1, SumChange
  <2>2. QED
    BY <1>3, <2>1 DEF SumOf, S
<1>4. CASE i \notin S
  <2>1. \A j \in S : val[j] \in Int /\ w[j] = val[j]
    BY <1>2, <1>4
  <2>2. SumFunctionOnSet(w, S) = SumFunctionOnSet(val, S)
    BY <1>1, <2>1, SumSame
  <2>3. QED
    BY <1>4, <2>2 DEF SumOf, S
<1>5. QED
  BY <1>3, <1>4 DEF S

\* An update visits node j when the range of j covers the place.
LEMMA VisitedCovers ==
  ASSUME NEW n \in Nat, NEW t \in [1 .. n -> Nat], NEW i \in 1 .. n, NEW j \in 1 .. n
  PROVE  j \in UpdatePath(Len(t), (i - 1) + 1) <=> i \in Below(j) + 1 .. j
<1>1. Len(t) = n /\ (i - 1) + 1 = i
  BY TreeLen
<1>2. UpdatePath(n, i) = Covering(n, i)
  BY UpdatePathCovers
<1>3. Below(j) \in Int
  <2>1. j \in Nat \ {0}
    OBVIOUS
  <2>2. QED
    BY <2>1, BoundsType
<1>4. QED
  BY <1>1, <1>2, <1>3 DEF Covering

LEMMA NodeRange ==
  ASSUME NEW n \in Nat, NEW j \in 1 .. n
  PROVE  Below(j) \in 0 .. j - 1 /\ Below(j) + 1 \in Nat \ {0} /\ j \in 0 .. n
<1>1. j \in Nat \ {0}
  OBVIOUS
<1>2. Below(j) \in 0 .. j - 1
  BY <1>1, BoundsType
<1>3. QED
  BY <1>1, <1>2

LEMMA AddHolds ==
  ASSUME NEW n, NEW val, NEW t, Fits(val, n), Holds(t, val, n), NEW i \in 1 .. n, NEW d \in Nat,
         NEW w, Fits(w, n), Differs(w, val, n, i, d)
  PROVE  Holds(FenwickAdd(t, i - 1, d), w, n)
<1> DEFINE u == FenwickAdd(t, i - 1, d)
<1>1. n \in Nat /\ t \in [1 .. n -> Nat] /\ DOMAIN t = 1 .. n
  BY DEF Fits, Holds
<1>2. u = [j \in 1 .. n |-> IF j \in UpdatePath(Len(t), (i - 1) + 1) THEN (t[j] + d) % Modulus ELSE t[j]]
  BY <1>1, Zenon DEF FenwickAdd
<1> HIDE DEF u
<1>3. ASSUME NEW j \in 1 .. n PROVE u[j] \in Nat /\ u[j] = SumOf(w, Below(j) + 1, j)
  <2>1. Below(j) + 1 \in Nat \ {0} /\ j \in 0 .. n
    BY <1>1, NodeRange
  <2>2. t[j] = SumOf(val, Below(j) + 1, j) /\ t[j] \in Nat
    BY DEF Holds
  <2>3. SumOf(w, Below(j) + 1, j) \in Nat /\ SumOf(w, Below(j) + 1, j) < Modulus
    BY <2>1, RangeSum
  <2>4. SumOf(w, Below(j) + 1, j) = IF i \in Below(j) + 1 .. j THEN SumOf(val, Below(j) + 1, j) + d
                                    ELSE SumOf(val, Below(j) + 1, j)
    BY <2>1, RangeChange
  <2>5. u[j] = IF i \in Below(j) + 1 .. j THEN (t[j] + d) % Modulus ELSE t[j]
    BY <1>1, <1>2, VisitedCovers
  <2>6. CASE i \in Below(j) + 1 .. j
    <3>1. t[j] + d = SumOf(w, Below(j) + 1, j)
      BY <2>2, <2>4, <2>6
    <3>2. t[j] + d \in Nat /\ t[j] + d < Modulus /\ Modulus \in Nat
      BY <2>3, <3>1, IndexAssumption
    <3>3. \A x \in Nat, m \in Nat : x < m => x % m = x
      OBVIOUS
    <3>4. (t[j] + d) % Modulus = t[j] + d
      BY <3>2, <3>3
    <3>5. QED
      BY <2>3, <2>5, <2>6, <3>1, <3>4
  <2>7. CASE i \notin Below(j) + 1 .. j
    BY <2>2, <2>4, <2>5, <2>7
  <2>8. QED
    BY <2>6, <2>7
<1>4. u \in [1 .. n -> Nat]
  BY <1>2, <1>3
<1>5. QED
  BY <1>3, <1>4 DEF Holds, u

LEMMA SubHolds ==
  ASSUME NEW n, NEW val, NEW t, Fits(val, n), Holds(t, val, n), NEW i \in 1 .. n, NEW d \in Nat,
         NEW w, Fits(w, n), Differs(w, val, n, i, -d)
  PROVE  Holds(FenwickSub(t, i - 1, d), w, n)
<1> DEFINE u == FenwickSub(t, i - 1, d)
<1>1. n \in Nat /\ t \in [1 .. n -> Nat] /\ DOMAIN t = 1 .. n
  BY DEF Fits, Holds
<1>2. u = [j \in 1 .. n |-> IF j \in UpdatePath(Len(t), (i - 1) + 1)
                            THEN IF t[j] >= d THEN t[j] - d ELSE 0 ELSE t[j]]
  BY <1>1, Zenon DEF FenwickSub
<1> HIDE DEF u
<1>3. ASSUME NEW j \in 1 .. n PROVE u[j] \in Nat /\ u[j] = SumOf(w, Below(j) + 1, j)
  <2>1. Below(j) + 1 \in Nat \ {0} /\ j \in 0 .. n
    BY <1>1, NodeRange
  <2>2. t[j] = SumOf(val, Below(j) + 1, j) /\ t[j] \in Nat
    BY DEF Holds
  <2>3. SumOf(w, Below(j) + 1, j) \in Nat
    BY <2>1, RangeSum
  <2>4. SumOf(w, Below(j) + 1, j) = IF i \in Below(j) + 1 .. j THEN SumOf(val, Below(j) + 1, j) + (-d)
                                    ELSE SumOf(val, Below(j) + 1, j)
    BY <2>1, RangeChange
  <2>5. u[j] = IF i \in Below(j) + 1 .. j THEN IF t[j] >= d THEN t[j] - d ELSE 0 ELSE t[j]
    BY <1>1, <1>2, VisitedCovers
  <2>6. CASE i \in Below(j) + 1 .. j
    <3>1. t[j] - d = SumOf(w, Below(j) + 1, j)
      BY <2>2, <2>4, <2>6
    <3>2. t[j] >= d
      BY <2>2, <2>3, <3>1
    <3>3. QED
      BY <2>3, <2>5, <2>6, <3>1, <3>2
  <2>7. CASE i \notin Below(j) + 1 .. j
    BY <2>2, <2>4, <2>5, <2>7
  <2>8. QED
    BY <2>6, <2>7
<1>4. u \in [1 .. n -> Nat]
  BY <1>2, <1>3
<1>5. QED
  BY <1>3, <1>4 DEF Holds, u

LEMMA NewTreeHolds ==
  ASSUME NEW n \in Nat, NEW val, \A j \in 1 .. n : val[j] = 0
  PROVE  Holds(NewTree(n), val, n)
<1>1. NewTree(n) \in [1 .. n -> Nat]
  BY DEF NewTree
<1>2. ASSUME NEW j \in 1 .. n PROVE NewTree(n)[j] = SumOf(val, Below(j) + 1, j)
  <2>1. Below(j) \in 0 .. j - 1
    BY NodeRange
  <2>2. IsFiniteSet(Below(j) + 1 .. j)
    BY <2>1, FS_Interval
  <2>3. \A k \in Below(j) + 1 .. j : val[k] = 0
    BY <2>1
  <2>4. SumFunctionOnSet(val, Below(j) + 1 .. j) = 0
    BY <2>2, <2>3, SumZero
  <2>5. QED
    BY <2>4 DEF NewTree, SumOf
<1>3. QED
  BY <1>1, <1>2 DEF Holds

LEMMA SmallerFits ==
  ASSUME NEW n, NEW val, Fits(val, n), NEW w \in [1 .. n -> Nat], \A j \in 1 .. n : w[j] <= val[j]
  PROVE  Fits(w, n)
<1> DEFINE S == 1 .. n
<1>1. n \in Nat /\ (\A j \in S : val[j] \in Nat) /\ SumFunctionOnSet(val, S) < Modulus
  BY DEF Fits, SumOf
<1>2. IsFiniteSet(S) /\ S \in SUBSET S
  BY <1>1, FS_Interval
<1>3. \A j \in S : w[j] \in Int /\ w[j] <= val[j]
  OBVIOUS
<1> HIDE DEF S
<1>4. (\A j \in S : val[j] \in Int) /\ (\A j \in S : w[j] \in Int)
  BY <1>1, <1>3
<1>5. SumFunctionOnSet(w, S) \in Int /\ SumFunctionOnSet(val, S) \in Int
  BY <1>2, <1>4, SumType
<1>6. SumFunctionOnSet(w, S) <= SumFunctionOnSet(val, S)
  BY <1>1, <1>2, <1>3, SumMonotone
<1>7. SumFunctionOnSet(w, S) < Modulus
  BY <1>1, <1>5, <1>6, IndexAssumption
<1>8. QED
  BY <1>1, <1>7 DEF Fits, SumOf, S

LEMMA AddType ==
  ASSUME NEW n \in Nat, NEW t \in [1 .. n -> Nat], NEW index, NEW d \in Nat
  PROVE  FenwickAdd(t, index, d) \in [1 .. n -> Nat]
<1>1. \A x \in Nat : x % Modulus \in Nat
  BY IndexAssumption
<1>2. ASSUME NEW j \in 1 .. n PROVE (t[j] + d) % Modulus \in Nat /\ t[j] \in Nat
  <2>1. t[j] \in Nat /\ t[j] + d \in Nat
    OBVIOUS
  <2>2. QED
    BY <1>1, <2>1
<1>3. DOMAIN t = 1 .. n
  OBVIOUS
<1>4. QED
  BY <1>2, <1>3 DEF FenwickAdd

\* The recursion of RebuildFenwick.
Built(f, q) ==
  f = [k \in 0 .. Len(q) |->
        IF k = 0 THEN NewTree(Len(q)) ELSE FenwickAdd(f[k - 1], k - 1, q[k])]

LEMMA BuiltExists ==
  ASSUME NEW q \in Seq(Nat)
  PROVE  \E f : Built(f, q)
<1> DEFINE n == Len(q)
           S == 0 .. n
           D == [1 .. n -> Nat]
           B == {0}
           rank == [k \in S |-> k]
           first == [k \in S |-> NewTree(n)]
           prev == [k \in S |-> k - 1]
           G == [k \in S |-> [e \in D |-> FenwickAdd(e, k - 1, q[k])]]
<1>1. n \in Nat /\ \A k \in 1 .. n : q[k] \in Nat
  OBVIOUS
<1>2. NewTree(n) \in D
  BY DEF NewTree
<1> HIDE DEF n
<1>3. rank \in [S -> 0 .. n] /\ B \in SUBSET S
  BY <1>1
<1>4. \A k \in B : first[k] \in D
  BY <1>1, <1>2
<1>5. \A k \in S \ B : prev[k] \in S /\ rank[prev[k]] < rank[k]
  BY <1>1
<1>6. \A k \in S \ B : \A e \in D : G[k][e] \in D /\ G[k][e] = FenwickAdd(e, k - 1, q[k])
  <2> SUFFICES ASSUME NEW k \in S \ B, NEW e \in D
               PROVE  G[k][e] \in D /\ G[k][e] = FenwickAdd(e, k - 1, q[k])
    OBVIOUS
  <2>1. k \in 1 .. n /\ q[k] \in Nat
    BY <1>1
  <2>2. FenwickAdd(e, k - 1, q[k]) \in D
    BY <1>1, <2>1, AddType
  <2>3. QED
    BY <2>2, Zenon
<1>7. \A k \in S : first[k] = NewTree(n) /\ prev[k] = k - 1 /\ (k \in B <=> k = 0)
  OBVIOUS
<1> HIDE DEF S, D, B, rank, first, prev, G
<1>8. Grounded(S, D, n, rank, B, first, prev, G)
  BY <1>1, <1>2, <1>3, <1>4, <1>5, <1>6 DEF Grounded
<1>9. PICK f \in [S -> D] : \A k \in S : f[k] = IF k \in B THEN first[k] ELSE G[k][f[prev[k]]]
  BY <1>8, RecursionHasSolution
<1>10. ASSUME NEW k \in S
       PROVE  f[k] = IF k = 0 THEN NewTree(n) ELSE FenwickAdd(f[k - 1], k - 1, q[k])
  <2>1. CASE k \in B
    BY <1>7, <1>9, <2>1
  <2>2. CASE k \notin B
    <3>1. prev[k] \in S /\ prev[k] = k - 1
      BY <1>5, <1>7, <2>2
    <3>2. f[prev[k]] \in D
      BY <3>1
    <3>3. f[k] = FenwickAdd(f[k - 1], k - 1, q[k])
      BY <1>6, <1>9, <2>2, <3>1, <3>2
    <3>4. QED
      BY <1>7, <2>2, <3>3
  <2>3. QED
    BY <2>1, <2>2
<1>11. f = [k \in S |-> IF k = 0 THEN NewTree(n) ELSE FenwickAdd(f[k - 1], k - 1, q[k])]
  BY <1>10, Zenon
<1>12. QED
  BY <1>11 DEF Built, S, n

\* A tree built from the quantities holds their sums.
LEMMA RebuildHolds ==
  ASSUME NEW q \in Seq(Nat), Fits(q, Len(q))
  PROVE  Holds(RebuildFenwick(q), q, Len(q))
<1> DEFINE n == Len(q)
           upto(k) == [j \in 1 .. n |-> IF j <= k THEN q[j] ELSE 0]
           built == CHOOSE f : Built(f, q)
           P == {k \in Nat : k <= n => Holds(built[k], upto(k), n)}
<1>1. Built(built, q)
  BY BuiltExists
<1>2. RebuildFenwick(q) = built[n]
  BY Zenon DEF RebuildFenwick, Built
<1>3. n \in Nat /\ \A k \in 1 .. n : q[k] \in Nat
  OBVIOUS
<1> HIDE DEF built
<1>4. \A k \in 0 .. n : built[k] = IF k = 0 THEN NewTree(n) ELSE FenwickAdd(built[k - 1], k - 1, q[k])
  BY <1>1, Zenon DEF Built
<1> HIDE DEF n
<1>5. \A k \in Nat : upto(k) \in [1 .. n -> Nat] /\ (\A j \in 1 .. n : upto(k)[j] <= q[j])
  BY <1>3
<1>6. ASSUME NEW k \in Nat PROVE Fits(upto(k), n)
  <2> DEFINE w == upto(k)
  <2>1. w \in [1 .. n -> Nat] /\ \A j \in 1 .. n : w[j] <= q[j]
    BY <1>5
  <2> HIDE DEF w
  <2>2. Fits(q, n)
    BY DEF n
  <2>3. Fits(w, n)
    BY <2>1, <2>2, SmallerFits
  <2>4. QED
    BY <2>3 DEF w
<1>7. 0 \in P
  <2> DEFINE w == upto(0)
  <2>1. \A j \in 1 .. n : w[j] = 0
    BY <1>3
  <2>2. built[0] = NewTree(n)
    BY <1>3, <1>4
  <2> HIDE DEF w
  <2>3. Holds(NewTree(n), w, n)
    BY <1>3, <2>1, NewTreeHolds
  <2>4. QED
    BY <2>2, <2>3 DEF w
<1>8. ASSUME NEW k \in P PROVE k + 1 \in P
  <2> SUFFICES ASSUME k + 1 <= n PROVE Holds(built[k + 1], upto(k + 1), n)
    OBVIOUS
  <2> DEFINE v == upto(k)
             w == upto(k + 1)
             b == built[k]
             i == k + 1
  <2>1. Holds(b, v, n)
    BY <1>3
  <2>2. i \in 1 .. n /\ q[i] \in Nat
    BY <1>3
  <2>3. Differs(w, v, n, i, q[i])
    BY <1>3, <2>2 DEF Differs
  <2>4. Fits(v, n) /\ Fits(w, n)
    <3>1. k \in Nat /\ k + 1 \in Nat
      OBVIOUS
    <3> HIDE DEF upto
    <3>2. QED
      BY <1>6, <3>1
  <2>5. built[i] = FenwickAdd(b, i - 1, q[i])
    BY <1>3, <1>4
  <2> HIDE DEF v, w, b, i
  <2>6. Holds(FenwickAdd(b, i - 1, q[i]), w, n)
    BY <2>1, <2>2, <2>3, <2>4, AddHolds
  <2>7. Holds(built[i], w, n)
    BY <2>5, <2>6
  <2>8. QED
    BY <2>7 DEF w, i
<1>9. P = Nat
  <2>1. P \in SUBSET Nat
    OBVIOUS
  <2> HIDE DEF P
  <2>2. QED
    BY <1>7, <1>8, <2>1, NaturalsFrom
<1>10. Holds(built[n], upto(n), n)
  <2>1. n \in P
    BY <1>3, <1>9
  <2>2. QED
    BY <1>3, <2>1
<1>11. upto(n) = q
  BY <1>3 DEF n
<1>12. QED
  BY <1>2, <1>10, <1>11 DEF n
-----------------------------------------------------------------------------
(* Queries.                                                                *)

Walked(f, t) == f = [i \in 0 .. Len(t) |-> IF i = 0 THEN 0 ELSE (t[i] + f[i - LowBit(i)]) % Modulus]

LEMMA WalkedExists ==
  ASSUME NEW n \in Nat, NEW t \in [1 .. n -> Nat]
  PROVE  \E f : Walked(f, t)
<1> DEFINE S == 0 .. n
           B == {0}
           rank == [k \in S |-> k]
           first == [k \in S |-> 0]
           prev == [k \in S |-> k - LowBit(k)]
           G == [k \in S |-> [e \in Nat |-> (t[k] + e) % Modulus]]
<1>1. Len(t) = n
  BY TreeLen
<1>2. rank \in [S -> 0 .. n] /\ B \in SUBSET S /\ (\A k \in B : first[k] \in Nat) /\ Nat # {}
  OBVIOUS
<1>3. \A k \in S \ B : prev[k] \in S /\ rank[prev[k]] < rank[k]
  <2> SUFFICES ASSUME NEW k \in S \ B PROVE k - LowBit(k) \in S /\ k - LowBit(k) < k
    OBVIOUS
  <2>1. k \in Nat \ {0}
    OBVIOUS
  <2>2. Below(k) \in 0 .. k - 1
    BY <2>1, BoundsType
  <2>3. QED
    BY <2>2 DEF Below
<1>4. \A k \in S \ B : \A e \in Nat : G[k][e] \in Nat /\ G[k][e] = (t[k] + e) % Modulus
  <2> SUFFICES ASSUME NEW k \in S \ B, NEW e \in Nat PROVE (t[k] + e) % Modulus \in Nat
    OBVIOUS
  <2>1. \A x \in Nat : x % Modulus \in Nat
    BY IndexAssumption
  <2>2. k \in 1 .. n
    OBVIOUS
  <2>3. t[k] + e \in Nat
    BY <2>2
  <2>4. QED
    BY <2>1, <2>3
<1>5. \A k \in S : first[k] = 0 /\ prev[k] = k - LowBit(k) /\ (k \in B <=> k = 0)
  OBVIOUS
<1> HIDE DEF S, B, rank, first, prev, G
<1>6. Grounded(S, Nat, n, rank, B, first, prev, G)
  BY <1>2, <1>3, <1>4 DEF Grounded
<1>7. PICK f \in [S -> Nat] : \A k \in S : f[k] = IF k \in B THEN first[k] ELSE G[k][f[prev[k]]]
  BY <1>6, RecursionHasSolution
<1>8. ASSUME NEW k \in S
      PROVE  f[k] = IF k = 0 THEN 0 ELSE (t[k] + f[k - LowBit(k)]) % Modulus
  <2>1. CASE k \in B
    BY <1>5, <1>7, <2>1
  <2>2. CASE k \notin B
    <3>1. prev[k] \in S /\ prev[k] = k - LowBit(k)
      BY <1>3, <1>5, <2>2
    <3>2. f[prev[k]] \in Nat
      BY <3>1
    <3>3. G[k][f[prev[k]]] = (t[k] + f[prev[k]]) % Modulus
      BY <1>4, <2>2, <3>2, Zenon
    <3>4. f[k] = (t[k] + f[k - LowBit(k)]) % Modulus
      BY <1>7, <2>2, <3>1, <3>3, Zenon
    <3>5. QED
      BY <1>5, <2>2, <3>4, Zenon
  <2>3. QED
    BY <2>1, <2>2
<1>9. f = [k \in S |-> IF k = 0 THEN 0 ELSE (t[k] + f[k - LowBit(k)]) % Modulus]
  BY <1>8, Zenon
<1>10. QED
  BY <1>1, <1>9 DEF Walked, S

LEMMA RangeSplit ==
  ASSUME NEW n, NEW val, Fits(val, n), NEW i \in 0 .. n, NEW b \in 0 .. i
  PROVE  SumOf(val, 1, i) = SumOf(val, 1, b) + SumOf(val, b + 1, i)
<1> DEFINE S == 1 .. n
           A == 1 .. b
           B == b + 1 .. i
<1>1. IsFiniteSet(S) /\ \A x \in S : val[x] \in Int
  <2>1. n \in Nat
    BY DEF Fits
  <2>2. QED
    BY <2>1, FS_Interval DEF Fits
<1>2. A \in SUBSET S /\ B \in SUBSET S /\ A \cap B = {} /\ A \cup B = 1 .. i
  BY DEF Fits
<1> HIDE DEF S, A, B
<1>3. SumFunctionOnSet(val, A \cup B) = SumFunctionOnSet(val, A) + SumFunctionOnSet(val, B)
  BY <1>1, <1>2, SumUnion
<1>4. QED
  BY <1>2, <1>3 DEF SumOf, A, B

\* What fits a node is what the code computes, modulo or not.
LEMMA NoWrap ==
  ASSUME NEW x \in Nat, x < Modulus
  PROVE  x % Modulus = x
<1>1. \A m \in Nat : x < m => x % m = x
  OBVIOUS
<1>2. QED
  BY <1>1, IndexAssumption

\* A query from the front is answered with the sum of what is there.
LEMMA PrefixHolds ==
  ASSUME NEW n, NEW val, NEW t, Fits(val, n), Holds(t, val, n), NEW i \in 1 .. n
  PROVE  PrefixSum(t, i - 1) = SumOf(val, 1, i)
<1> DEFINE walk == CHOOSE f : Walked(f, t)
           P == {k \in Nat : k <= n => walk[k] = SumOf(val, 1, k)}
<1>1. n \in Nat /\ t \in [1 .. n -> Nat] /\ Len(t) = n
  BY TreeLen DEF Fits, Holds
<1>2. Walked(walk, t)
  BY <1>1, WalkedExists
<1>3. PrefixSum(t, i - 1) = walk[(i - 1) + 1]
  BY Zenon DEF PrefixSum, Walked
<1> HIDE DEF walk
<1>4. \A k \in 0 .. n : walk[k] = IF k = 0 THEN 0 ELSE (t[k] + walk[k - LowBit(k)]) % Modulus
  BY <1>1, <1>2, Zenon DEF Walked
<1>5. walk[0] = SumOf(val, 1, 0)
  <2>1. 0 \in 0 .. n /\ (1 .. 0) = {}
    BY <1>1
  <2>2. SumFunctionOnSet(val, {}) = 0
    BY SumEmpty
  <2>3. QED
    BY <1>4, <2>1, <2>2 DEF SumOf
<1>6. ASSUME NEW k \in Nat \ {0}, \A m \in 1 .. k - 1 : m \in P PROVE k \in P
  <2> SUFFICES ASSUME k <= n PROVE walk[k] = SumOf(val, 1, k)
    OBVIOUS
  <2> DEFINE b == Below(k)
  <2>1. k \in 1 .. n /\ k \in 0 .. n
    BY <1>1
  <2>2. b \in 0 .. k - 1 /\ k - LowBit(k) = b
    BY BoundsType DEF Below
  <2>3. t[k] = SumOf(val, b + 1, k)
    BY <2>1 DEF Holds
  <2> HIDE DEF b
  <2>4. walk[b] = SumOf(val, 1, b)
    <3>1. CASE b = 0
      BY <1>5, <3>1
    <3>2. CASE b # 0
      <4>1. b \in 1 .. k - 1 /\ b <= n
        BY <1>1, <2>1, <2>2, <3>2
      <4>2. QED
        BY <1>6, <4>1
    <3>3. QED
      BY <3>1, <3>2
  <2>5. SumOf(val, 1, k) = SumOf(val, 1, b) + SumOf(val, b + 1, k)
    <3>1. b \in 0 .. k
      BY <2>2
    <3>2. QED
      BY <2>1, <3>1, RangeSplit
  <2>6. SumOf(val, 1, k) \in Nat /\ SumOf(val, 1, k) < Modulus
        /\ SumOf(val, 1, b) \in Nat /\ SumOf(val, b + 1, k) \in Nat
    <3>1. 1 \in Nat \ {0} /\ b + 1 \in Nat \ {0} /\ b \in 0 .. n
      BY <1>1, <2>1, <2>2
    <3>2. QED
      BY <2>1, <3>1, RangeSum
  <2>7. t[k] + walk[b] = SumOf(val, 1, k)
    BY <2>3, <2>4, <2>5, <2>6
  <2>8. walk[k] = (t[k] + walk[b]) % Modulus
    BY <1>4, <2>1, <2>2
  <2>9. QED
    BY <2>6, <2>7, <2>8, NoWrap
<1>7. \A k \in Nat \ {0} : k \in P
  <2> HIDE DEF P
  <2>1. QED
    BY <1>6, PositivesFrom
<1>8. i \in Nat \ {0} /\ i <= n /\ (i - 1) + 1 = i
  BY <1>1
<1>9. walk[i] = SumOf(val, 1, i)
  BY <1>7, <1>8
<1>10. QED
  BY <1>3, <1>8, <1>9

\* What is left of the total behind the first i is the sum of the rest.
LEMMA RestHolds ==
  ASSUME NEW n, NEW val, Fits(val, n), NEW i \in 0 .. n
  PROVE  (SumOf(val, 1, n) - SumOf(val, 1, i)) % Modulus = SumOf(val, i + 1, n)
<1>1. n \in Nat /\ n \in 0 .. n /\ i \in 0 .. n /\ i + 1 \in Nat \ {0} /\ 1 \in Nat \ {0}
  BY DEF Fits
<1>2. SumOf(val, 1, n) = SumOf(val, 1, i) + SumOf(val, i + 1, n)
  BY <1>1, RangeSplit
<1>3. /\ SumOf(val, 1, i) \in Nat
      /\ SumOf(val, i + 1, n) \in Nat /\ SumOf(val, i + 1, n) < Modulus
  BY <1>1, RangeSum
<1>4. SumOf(val, 1, n) - SumOf(val, 1, i) = SumOf(val, i + 1, n)
  BY <1>2, <1>3
<1>5. QED
  BY <1>3, <1>4, NoWrap
-----------------------------------------------------------------------------
(* The volume of the reference.                                            *)

TotalVolume(v, k) == SumFunctionOnSet(v, Keys(k))

VolumeOK ==
  /\ kind \in Kinds
  /\ volume \in [Keys(kind) -> 0 .. MaxVolume]
  /\ TotalVolume(volume, kind) < Modulus

LEMMA KeysFinite ==
  ASSUME NEW k
  PROVE  IsFiniteSet(Keys(k)) /\ Keys(k) \subseteq Nat
<1>1. IsFiniteSet(0 .. Ticks - 1)
  BY IndexAssumption, FS_Interval
<1>2. QED
  BY <1>1, IndexAssumption DEF Keys

LEMMA VolumeAdded ==
  ASSUME VolumeOK, NEW k \in Keys(kind), NEW q \in 0 .. MaxVolume, Added(k, q), ~overflowed'
  PROVE  VolumeOK' /\ ~overflowed
<1> DEFINE S == Keys(kind)
<1>1. IsFiniteSet(S) /\ k \in S /\ q \in Int /\ kind' = kind
  BY KeysFinite DEF Added
<1>2. volume' \in [S -> 0 .. MaxVolume]
  BY IndexAssumption DEF Added, VolumeOK
<1>3. \A y \in S : volume[y] \in Int /\ volume'[y] = IF y = k THEN volume[y] + q ELSE volume[y]
  BY IndexAssumption DEF Added, VolumeOK
<1>4. ~overflowed /\ ~(SumFunctionOnSet(volume, S) + q >= Modulus)
  BY Zenon DEF Added
<1> HIDE DEF S
<1>6. SumFunctionOnSet(volume', S) = SumFunctionOnSet(volume, S) + q
  BY <1>1, <1>3, SumChange
<1>7. SumFunctionOnSet(volume, S) \in Int
  BY <1>1, <1>3, SumType
<1>8. SumFunctionOnSet(volume', S) < Modulus
  BY <1>1, <1>4, <1>6, <1>7, IndexAssumption
<1>9. QED
  BY <1>1, <1>2, <1>4, <1>8 DEF VolumeOK, TotalVolume, S

LEMMA VolumeTaken ==
  ASSUME VolumeOK, NEW k \in Keys(kind), NEW q \in 0 .. MaxVolume, Taken(k, q)
  PROVE  VolumeOK' /\ overflowed' = overflowed
<1> DEFINE S == Keys(kind)
<1>1. IsFiniteSet(S) /\ k \in S /\ -q \in Int /\ kind' = kind
  BY KeysFinite DEF Taken
<1>2. volume' \in [S -> 0 .. MaxVolume]
  BY IndexAssumption DEF Taken, VolumeOK
<1>3. \A y \in S : volume[y] \in Int /\ volume'[y] = IF y = k THEN volume[y] + (-q) ELSE volume[y]
  BY IndexAssumption DEF Taken, VolumeOK
<1> HIDE DEF S
<1>4. SumFunctionOnSet(volume', S) = SumFunctionOnSet(volume, S) + (-q)
  BY <1>1, <1>3, SumChange
<1>5. SumFunctionOnSet(volume, S) \in Int
  BY <1>1, <1>3, SumType
<1>6. SumFunctionOnSet(volume, S) < Modulus
  BY DEF VolumeOK, TotalVolume, S
<1>7. SumFunctionOnSet(volume', S) < Modulus
  BY <1>4, <1>5, <1>6, IndexAssumption
<1>8. QED
  BY <1>1, <1>2, <1>7 DEF VolumeOK, TotalVolume, Taken, S

-----------------------------------------------------------------------------
(* The dense index.                                                        *)

\* The positions of the tree are the ticks, counted from 1.
ByTick(v) == [j \in 1 .. Ticks |-> v[j - 1]]

DenseOK == kind = "dense" => Holds(tree, ByTick(volume), Ticks) /\ ~index_panicked

Shifted(v, I, F, S, b) ==
  /\ I \in SUBSET Int /\ IsFiniteSet(I) /\ IsFiniteSet(S)
  /\ Moved(S, I, b)
  /\ \A i \in I : F[b + i] \in Int /\ v[i] = F[b + i]

LEMMA ShiftedSum ==
  ASSUME NEW v, NEW I, NEW F, NEW S, NEW b, Shifted(v, I, F, S, b)
  PROVE  SumFunctionOnSet(v, I) = SumFunctionOnSet(F, S)
<1>1. I \in SUBSET Int /\ IsFiniteSet(I) /\ IsFiniteSet(S)
  BY DEF Shifted
<1>2. Moved(S, I, b) /\ \A i \in I : F[b + i] \in Int /\ v[i] = F[b + i]
  BY DEF Shifted
<1>3. QED
  BY <1>1, <1>2, SumShift

LEMMA TicksSum ==
  ASSUME NEW v \in [0 .. Ticks - 1 -> Nat], NEW a \in 0 .. Ticks, NEW b \in 0 .. Ticks
  PROVE  SumOf(ByTick(v), a + 1, b) = SumFunctionOnSet(v, a .. b - 1)
<1> DEFINE I == a .. b - 1
           S == a + 1 .. b
           F == ByTick(v)
<1>1. Ticks \in Nat /\ a \in Nat /\ b \in Nat
  BY IndexAssumption
<1>2. I \in SUBSET Int /\ IsFiniteSet(I) /\ IsFiniteSet(S)
  BY <1>1, FS_Interval
<1>3. Moved(S, I, 1)
  BY <1>1 DEF Moved
<1>4. \A i \in I : F[1 + i] \in Int /\ v[i] = F[1 + i]
  <2> SUFFICES ASSUME NEW i \in I PROVE F[1 + i] \in Int /\ v[i] = F[1 + i]
    OBVIOUS
  <2>1. 1 + i \in 1 .. Ticks /\ (1 + i) - 1 = i /\ v[i] \in Nat
    BY <1>1
  <2>2. QED
    BY <2>1 DEF ByTick
<1> HIDE DEF I, S, F
<1>5. SumFunctionOnSet(v, I) = SumFunctionOnSet(F, S)
  <2>1. Shifted(v, I, F, S, 1)
    BY <1>2, <1>3, <1>4 DEF Shifted
  <2>2. QED
    BY <2>1, ShiftedSum
<1>6. QED
  BY <1>5 DEF SumOf, I, S, F

LEMMA DenseVolume ==
  ASSUME VolumeOK, kind = "dense"
  PROVE  Ticks \in Nat \ {0} /\ Keys(kind) = 0 .. Ticks - 1 /\ volume \in [0 .. Ticks - 1 -> Nat]
<1>1. 0 .. MaxVolume \subseteq Nat
  BY IndexAssumption
<1>2. Keys(kind) = 0 .. Ticks - 1
  BY DEF Keys
<1>3. QED
  BY <1>1, <1>2, IndexAssumption DEF VolumeOK

LEMMA TicksFit ==
  ASSUME VolumeOK, kind = "dense"
  PROVE  Fits(ByTick(volume), Ticks)
<1>1. Ticks \in Nat \ {0} /\ Keys(kind) = 0 .. Ticks - 1 /\ volume \in [0 .. Ticks - 1 -> Nat]
  BY DenseVolume
<1>2. 0 \in 0 .. Ticks /\ Ticks \in 0 .. Ticks /\ 0 + 1 = 1
  BY <1>1
<1>3. SumOf(ByTick(volume), 0 + 1, Ticks) = SumFunctionOnSet(volume, 0 .. Ticks - 1)
  BY <1>1, <1>2, TicksSum
<1>4. ByTick(volume) \in [1 .. Ticks -> Nat]
  BY <1>1 DEF ByTick
<1>5. QED
  BY <1>1, <1>2, <1>3, <1>4 DEF Fits, VolumeOK, TotalVolume

LEMMA DenseAddKeeps ==
  ASSUME VolumeOK, DenseOK, NEW k \in Keys(kind), NEW q \in 0 .. MaxVolume, DenseAdd(k, q), ~overflowed'
  PROVE  DenseOK'
<1>1. kind = "dense" /\ kind' = kind /\ VolumeOK' /\ Added(k, q) /\ tree' = FenwickAdd(tree, k, q)
      /\ ~index_panicked'
  BY VolumeAdded DEF DenseAdd, Added, DenseOK
<1> DEFINE n == Ticks
           val == ByTick(volume)
           w == ByTick(volume')
           i == k + 1
<1>2. Ticks \in Nat \ {0} /\ Keys(kind) = 0 .. Ticks - 1 /\ volume \in [0 .. Ticks - 1 -> Nat]
  BY <1>1, DenseVolume
<1>3. i \in 1 .. n /\ i - 1 = k /\ q \in Nat
  BY <1>2, IndexAssumption
<1>4. Fits(val, n) /\ Holds(tree, val, n)
  BY <1>1, TicksFit DEF DenseOK
<1>5. Fits(w, n)
  <2>1. (VolumeOK /\ kind = "dense" => Fits(ByTick(volume), Ticks))'
    BY TicksFit, PTL
  <2>2. QED
    BY <1>1, <2>1
<1>6. Differs(w, val, n, i, q)
  <2>1. volume' = [volume EXCEPT ![k] = @ + q]
    BY <1>1 DEF Added
  <2>2. \A j \in 1 .. n : volume'[j - 1] = IF j = i THEN volume[j - 1] + q ELSE volume[j - 1]
    BY <1>2, <2>1, IndexAssumption
  <2>3. QED
    BY <1>3, <2>2 DEF Differs, ByTick
<1> HIDE DEF n, val, w, i
<1>7. Holds(FenwickAdd(tree, i - 1, q), w, n)
  BY <1>3, <1>4, <1>5, <1>6, AddHolds
<1>8. QED
  BY <1>1, <1>3, <1>7 DEF DenseOK, w, n

LEMMA DenseSubKeeps ==
  ASSUME VolumeOK, DenseOK, NEW k \in Keys(kind), NEW q \in 0 .. MaxVolume, DenseSub(k, q)
  PROVE  DenseOK'
<1>1. kind = "dense" /\ kind' = kind /\ VolumeOK' /\ Taken(k, q) /\ tree' = FenwickSub(tree, k, q)
      /\ ~index_panicked'
  BY VolumeTaken DEF DenseSub, Taken, DenseOK
<1> DEFINE n == Ticks
           val == ByTick(volume)
           w == ByTick(volume')
           i == k + 1
<1>2. Ticks \in Nat \ {0} /\ Keys(kind) = 0 .. Ticks - 1 /\ volume \in [0 .. Ticks - 1 -> Nat]
  BY <1>1, DenseVolume
<1>3. i \in 1 .. n /\ i - 1 = k /\ q \in Nat
  BY <1>2, IndexAssumption
<1>4. Fits(val, n) /\ Holds(tree, val, n)
  BY <1>1, TicksFit DEF DenseOK
<1>5. Fits(w, n)
  <2>1. (VolumeOK /\ kind = "dense" => Fits(ByTick(volume), Ticks))'
    BY TicksFit, PTL
  <2>2. QED
    BY <1>1, <2>1
<1>6. Differs(w, val, n, i, -q)
  <2>1. volume' = [volume EXCEPT ![k] = @ - q]
    BY <1>1 DEF Taken
  <2>2. \A j \in 1 .. n : volume'[j - 1] = IF j = i THEN volume[j - 1] + (-q) ELSE volume[j - 1]
    BY <1>2, <2>1, IndexAssumption
  <2>3. QED
    BY <1>3, <2>2 DEF Differs, ByTick
<1> HIDE DEF n, val, w, i
<1>7. Holds(FenwickSub(tree, i - 1, q), w, n)
  BY <1>3, <1>4, <1>5, <1>6, SubHolds
<1>8. QED
  BY <1>1, <1>3, <1>7 DEF DenseOK, w, n

\* From the nodes to the queries.
LEMMA DenseAnswers ==
  ASSUME VolumeOK, DenseOK
  PROVE  DenseSumsAreExact
<1> SUFFICES ASSUME kind = "dense", NEW i \in Keys(kind)
             PROVE  /\ PrefixSum(tree, i) = Reference({k \in Keys(kind) : k <= i})
                    /\ SuffixSumGe(tree, i) = Reference({k \in Keys(kind) : k >= i})
  BY DEF DenseSumsAreExact
<1> DEFINE n == Ticks
           val == ByTick(volume)
<1>1. n \in Nat \ {0} /\ Keys(kind) = 0 .. n - 1 /\ volume \in [0 .. n - 1 -> Nat]
  BY DenseVolume
<1>2. Fits(val, n) /\ Holds(tree, val, n)
  BY TicksFit DEF DenseOK
<1>3. {k \in Keys(kind) : k <= i} = 0 .. (i + 1) - 1 /\ {k \in Keys(kind) : k >= i} = i .. n - 1
  BY <1>1
<1>4. i + 1 \in 1 .. n /\ (i + 1) - 1 = i /\ i \in 0 .. n /\ n \in 1 .. n /\ 0 \in 0 .. n /\ i + 1 \in 0 .. n
      /\ n \in 0 .. n /\ 0 + 1 = 1
  BY <1>1
<1>5. SumOf(val, 0 + 1, i + 1) = SumFunctionOnSet(volume, 0 .. (i + 1) - 1)
  BY <1>1, <1>4, TicksSum
<1>6. SumOf(val, i + 1, n) = SumFunctionOnSet(volume, i .. n - 1)
  BY <1>1, <1>4, TicksSum
<1>7. Len(tree) = n
  BY <1>1, <1>2, TreeLen DEF Holds
<1> HIDE DEF n, val
<1>8. PrefixSum(tree, i) = SumOf(val, 1, i + 1)
  <2>1. PrefixSum(tree, (i + 1) - 1) = SumOf(val, 1, i + 1)
    BY <1>2, <1>4, PrefixHolds
  <2>2. QED
    BY <1>4, <2>1
<1>9. PrefixSum(tree, n - 1) = SumOf(val, 1, n)
  BY <1>2, <1>4, PrefixHolds
<1>10. (IF i = 0 THEN 0 ELSE PrefixSum(tree, i - 1)) = SumOf(val, 1, i)
  <2>1. CASE i = 0
    <3>1. 1 .. 0 = {}
      OBVIOUS
    <3>2. QED
      BY <2>1, <3>1, SumEmpty DEF SumOf
  <2>2. CASE i # 0
    <3>1. i \in 1 .. n
      BY <1>1, <1>4, <2>2
    <3>2. QED
      BY <1>2, <2>2, <3>1, PrefixHolds
  <2>3. QED
    BY <2>1, <2>2
<1>11. (SumOf(val, 1, n) - SumOf(val, 1, i)) % Modulus = SumOf(val, i + 1, n)
  BY <1>2, <1>4, RestHolds
<1>12. SuffixSumGe(tree, i) = SumOf(val, i + 1, n)
  BY <1>7, <1>9, <1>10, <1>11, Zenon DEF SuffixSumGe
<1>13. QED
  BY <1>3, <1>4, <1>5, <1>6, <1>8, <1>12 DEF Reference

-----------------------------------------------------------------------------
(* The sparse index: prices in order, each with what is there.             *)

Aligned(ps, qs, v) ==
  /\ ps \in Seq(SparsePrices) /\ qs \in Seq(Nat) /\ Len(qs) = Len(ps)
  /\ \A i, j \in 1 .. Len(ps) : i < j => ps[i] < ps[j]
  /\ \A i \in 1 .. Len(ps) : qs[i] = v[ps[i]] /\ qs[i] > 0
  /\ \A p \in SparsePrices : v[p] # 0 => \E i \in 1 .. Len(ps) : ps[i] = p

LEMMA AlignedTypes ==
  ASSUME NEW ps, NEW qs, NEW v, Aligned(ps, qs, v)
  PROVE  /\ Len(ps) \in Nat /\ qs \in [1 .. Len(ps) -> Nat]
         /\ \A i \in 1 .. Len(ps) : ps[i] \in SparsePrices /\ ps[i] \in Nat /\ qs[i] \in Nat
<1>1. ps \in Seq(SparsePrices) /\ qs \in Seq(Nat) /\ Len(qs) = Len(ps)
  BY DEF Aligned
<1>2. Len(ps) \in Nat /\ (\A i \in 1 .. Len(ps) : ps[i] \in SparsePrices) /\ qs \in [1 .. Len(qs) -> Nat]
  BY <1>1
<1>3. QED
  BY <1>1, <1>2, IndexAssumption

\* The first r quantities are those of the first r prices.
LEMMA ListedSum ==
  ASSUME NEW ps, NEW qs, NEW v, Aligned(ps, qs, v), NEW r \in 0 .. Len(ps)
  PROVE  SumOf(qs, 1, r) = SumFunctionOnSet(v, {ps[i] : i \in 1 .. r})
<1> DEFINE n == Len(ps)
           A(m) == {ps[i] : i \in 1 .. m}
           P == {m \in Nat : m <= n => SumOf(qs, 1, m) = SumFunctionOnSet(v, A(m))}
<1>1. n \in Nat /\ \A i \in 1 .. n : ps[i] \in SparsePrices /\ ps[i] \in Nat /\ qs[i] \in Nat
  BY AlignedTypes
<1>2. (\A i, j \in 1 .. n : i < j => ps[i] < ps[j]) /\ \A i \in 1 .. n : qs[i] = v[ps[i]]
  BY DEF Aligned
<1> HIDE DEF n
<1>3. 0 \in P
  <2>1. 1 .. 0 = {} /\ A(0) = {}
    OBVIOUS
  <2>2. SumFunctionOnSet(qs, {}) = 0 /\ SumFunctionOnSet(v, {}) = 0
    BY SumEmpty
  <2>3. QED
    BY <2>1, <2>2 DEF SumOf
<1>4. ASSUME NEW m \in P PROVE m + 1 \in P
  <2> SUFFICES ASSUME m + 1 <= n PROVE SumOf(qs, 1, m + 1) = SumFunctionOnSet(v, A(m + 1))
    OBVIOUS
  <2> DEFINE S == 1 .. m
             T == A(m)
             i == m + 1
             x == ps[i]
  <2>1. m <= n /\ i \in 1 .. n /\ m \in Nat
    BY <1>1
  <2>2. IsFiniteSet(S) /\ i \notin S /\ 1 .. m + 1 = S \cup {i} /\ S \subseteq 1 .. n
    <3>1. 1 \in Int /\ m \in Int
      BY <2>1
    <3>2. IsFiniteSet(S)
      BY <3>1, FS_Interval
    <3>3. i \notin S /\ 1 .. m + 1 = S \cup {i} /\ S \subseteq 1 .. n
      BY <1>1, <2>1
    <3>4. QED
      BY <3>2, <3>3
  <2>3. IsFiniteSet(T)
    <3>1. T \subseteq SparsePrices
      BY <1>1, <2>2
    <3>2. QED
      BY <3>1, IndexAssumption, FS_Subset
  <2>4. x \notin T
    <3>1. \A j \in S : ps[j] < x /\ ps[j] \in Nat /\ x \in Nat
      BY <1>1, <1>2, <2>1, <2>2
    <3>2. \A j \in S : ps[j] # x
      BY <3>1
    <3>3. QED
      BY <3>2
  <2>5. A(m + 1) = T \cup {x}
    BY <2>2
  <2>6. qs[i] \in Int /\ (\A y \in S : qs[y] \in Int) /\ v[x] = qs[i]
    BY <1>1, <1>2, <2>1, <2>2
  <2>7. \A y \in T : v[y] \in Int
    <3>1. \A j \in S : v[ps[j]] \in Int
      BY <1>1, <1>2, <2>2
    <3>2. QED
      BY <3>1
  <2>8. SumOf(qs, 1, m) = SumFunctionOnSet(v, T)
    BY <2>1
  <2> HIDE DEF S, T, i, x, A, P
  <2>9. SumFunctionOnSet(qs, S \cup {i}) = SumFunctionOnSet(qs, S) + qs[i]
    BY <2>2, <2>6, SumAdd
  <2>10. SumFunctionOnSet(v, T \cup {x}) = SumFunctionOnSet(v, T) + v[x]
    <3>1. v[x] \in Int
      BY <2>6
    <3>2. QED
      BY <2>3, <2>4, <2>7, <3>1, SumAdd
  <2>11. QED
    BY <2>2, <2>5, <2>6, <2>8, <2>9, <2>10 DEF SumOf, S
<1>5. P = Nat
  <2>1. P \in SUBSET Nat
    OBVIOUS
  <2> HIDE DEF P
  <2>2. QED
    BY <1>3, <1>4, <2>1, NaturalsFrom
<1>6. r \in Nat /\ r <= n
  BY <1>1 DEF n
<1>7. r \in P
  <2> HIDE DEF P
  <2>1. QED
    BY <1>5, <1>6
<1>8. QED
  BY <1>6, <1>7

\* The prices up to a cut, listed or not, have the volume of the listed ones.
LEMMA CutSum ==
  ASSUME NEW ps, NEW qs, NEW v, v \in [SparsePrices -> Nat], Aligned(ps, qs, v), NEW r \in 0 .. Len(ps),
         NEW K \in SUBSET SparsePrices, \A i \in 1 .. Len(ps) : ps[i] \in K <=> i <= r
  PROVE  SumFunctionOnSet(v, K) = SumOf(qs, 1, r)
<1> DEFINE A == {ps[i] : i \in 1 .. r}
           B == K \ A
<1>1. SumOf(qs, 1, r) = SumFunctionOnSet(v, A)
  BY ListedSum
<1>2. A \in SUBSET K /\ B \in SUBSET K /\ A \cap B = {} /\ K = A \cup B
  <2>1. \A i \in 1 .. r : i \in 1 .. Len(ps) /\ i <= r
    BY AlignedTypes
  <2>2. \A i \in 1 .. r : ps[i] \in K
    BY <2>1
  <2>3. QED
    BY <2>2
<1>3. \A p \in B : v[p] = 0
  <2> SUFFICES ASSUME NEW p \in K, p \notin A, v[p] # 0 PROVE FALSE
    OBVIOUS
  <2>1. PICK i \in 1 .. Len(ps) : ps[i] = p
    BY DEF Aligned
  <2>2. i \in 1 .. r
    BY <2>1
  <2>3. QED
    BY <2>1, <2>2
<1>4. IsFiniteSet(K) /\ IsFiniteSet(A) /\ IsFiniteSet(B) /\ \A p \in K : v[p] \in Int
  <2>1. IsFiniteSet(K)
    BY IndexAssumption, FS_Subset
  <2>2. QED
    BY <1>2, <2>1, FS_Subset
<1> HIDE DEF A, B
<1>5. SumFunctionOnSet(v, A \cup B) = SumFunctionOnSet(v, A) + SumFunctionOnSet(v, B)
  BY <1>2, <1>4, SumUnion
<1>6. SumFunctionOnSet(v, B) = 0
  BY <1>3, <1>4, SumZero
<1>7. SumFunctionOnSet(v, A) \in Int
  <2>1. \A p \in A : v[p] \in Int
    BY <1>2, <1>4
  <2>2. QED
    BY <1>4, <2>1, SumType
<1>8. SumFunctionOnSet(v, K) = SumFunctionOnSet(v, A) + 0
  BY <1>2, <1>5, <1>6
<1>9. QED
  BY <1>1, <1>7, <1>8

\* Positions up to a place: as many as the place says.
LEMMA InitialPositions ==
  ASSUME NEW n \in Nat, NEW T, T \subseteq 1 .. n, \A i \in T : \A j \in 1 .. i : j \in T
  PROVE  Cardinality(T) \in 0 .. n /\ T = 1 .. Cardinality(T)
<1> DEFINE P == {m \in Nat : m <= n => \E c \in 0 .. m : T \cap (1 .. m) = 1 .. c}
<1>1. 0 \in P
  <2>1. 0 \in 0 .. 0 /\ T \cap (1 .. 0) = 1 .. 0
    OBVIOUS
  <2>2. QED
    BY <2>1
<1>2. ASSUME NEW m \in P PROVE m + 1 \in P
  <2> SUFFICES ASSUME m + 1 <= n PROVE \E c \in 0 .. m + 1 : T \cap (1 .. m + 1) = 1 .. c
    OBVIOUS
  <2>1. PICK c \in 0 .. m : T \cap (1 .. m) = 1 .. c
    OBVIOUS
  <2>2. CASE m + 1 \in T
    <3>1. T \cap (1 .. m + 1) = 1 .. m + 1
      BY <2>2
    <3>2. QED
      BY <3>1
  <2>3. CASE m + 1 \notin T
    <3>1. T \cap (1 .. m + 1) = T \cap (1 .. m)
      BY <2>3
    <3>2. c \in 0 .. m + 1
      OBVIOUS
    <3>3. QED
      BY <2>1, <3>1, <3>2
  <2>4. QED
    BY <2>2, <2>3
<1>3. P = Nat
  <2>1. P \in SUBSET Nat
    OBVIOUS
  <2> HIDE DEF P
  <2>2. QED
    BY <1>1, <1>2, <2>1, NaturalsFrom
<1>4. n \in P
  <2> HIDE DEF P
  <2>1. QED
    BY <1>3
<1>5. PICK c \in 0 .. n : T = 1 .. c
  <2>1. T \cap (1 .. n) = T
    OBVIOUS
  <2>2. n <= n
    OBVIOUS
  <2>3. PICK c \in 0 .. n : T \cap (1 .. n) = 1 .. c
    BY <1>4, <2>2
  <2>4. QED
    BY <2>1, <2>3
<1>6. Cardinality(1 .. c) = c
  <2>1. 1 \in Int /\ c \in Int /\ (IF 1 > c THEN 0 ELSE c - 1 + 1) = c
    OBVIOUS
  <2>2. Cardinality(1 .. c) = IF 1 > c THEN 0 ELSE c - 1 + 1
    BY <2>1, FS_Interval
  <2>3. QED
    BY <2>1, <2>2
<1>7. QED
  BY <1>5, <1>6

LEMMA Ranks ==
  ASSUME Aligned(prices, qtys, volume), NEW p \in Int
  PROVE  /\ RankLe(p) \in 0 .. Len(prices)
         /\ \A i \in 1 .. Len(prices) : prices[i] <= p <=> i <= RankLe(p)
         /\ RankLt(p) \in 0 .. Len(prices)
         /\ \A i \in 1 .. Len(prices) : prices[i] < p <=> i <= RankLt(p)
<1> DEFINE n == Len(prices)
           T == {i \in DOMAIN prices : prices[i] <= p}
           U == {i \in DOMAIN prices : prices[i] < p}
<1>1. n \in Nat /\ (\A i \in 1 .. n : prices[i] \in Nat)
  BY AlignedTypes
<1>2. DOMAIN prices = 1 .. n /\ \A i, j \in 1 .. n : i < j => prices[i] < prices[j]
  BY DEF Aligned
<1> HIDE DEF n
<1>3. \A i \in 1 .. n : \A j \in 1 .. i : j \in 1 .. n /\ prices[j] <= prices[i]
  BY <1>1, <1>2
<1>4. T \subseteq 1 .. n /\ \A i \in T : \A j \in 1 .. i : j \in T
  BY <1>1, <1>2, <1>3
<1>5. U \subseteq 1 .. n /\ \A i \in U : \A j \in 1 .. i : j \in U
  BY <1>1, <1>2, <1>3
<1>6. (\A i \in 1 .. n : prices[i] <= p <=> i \in T) /\ \A i \in 1 .. n : prices[i] < p <=> i \in U
  BY <1>2
<1>7. RankLe(p) = Cardinality(T) /\ RankLt(p) = Cardinality(U)
  BY DEF RankLe, RankLt
<1> HIDE DEF T, U
<1>8. Cardinality(T) \in 0 .. n /\ T = 1 .. Cardinality(T)
  BY <1>1, <1>4, InitialPositions
<1>9. Cardinality(U) \in 0 .. n /\ U = 1 .. Cardinality(U)
  BY <1>1, <1>5, InitialPositions
<1> DEFINE c == Cardinality(T)
           d == Cardinality(U)
<1>10. c \in 0 .. n /\ d \in 0 .. n /\ T = 1 .. c /\ U = 1 .. d
  BY <1>8, <1>9
<1> HIDE DEF c, d
<1>11. \A i \in 1 .. n : (i \in T <=> i <= c) /\ (i \in U <=> i <= d)
  BY <1>1, <1>10
<1>12. RankLe(p) = c /\ RankLt(p) = d
  BY <1>7 DEF c, d
<1>13. QED
  BY <1>6, <1>10, <1>11, <1>12 DEF n

SparseOK ==
  kind = "sparse" =>
    Aligned(prices, qtys, volume) /\ Holds(tree, qtys, Len(prices)) /\ ~index_panicked

LEMMA SparseVolume ==
  ASSUME VolumeOK, kind = "sparse"
  PROVE  Keys(kind) = SparsePrices /\ volume \in [SparsePrices -> Nat]
<1>1. 0 .. MaxVolume \subseteq Nat
  BY IndexAssumption
<1>2. Keys(kind) = SparsePrices
  BY DEF Keys
<1>3. QED
  BY <1>1, <1>2 DEF VolumeOK

\* Every listed price has a volume, and the unlisted have none: the total is the same.
LEMMA ListedTotal ==
  ASSUME NEW ps, NEW qs, NEW v, v \in [SparsePrices -> Nat], Aligned(ps, qs, v)
  PROVE  SumFunctionOnSet(v, SparsePrices) = SumOf(qs, 1, Len(ps))
<1>1. Len(ps) \in 0 .. Len(ps) /\ \A i \in 1 .. Len(ps) : ps[i] \in SparsePrices <=> i <= Len(ps)
  BY AlignedTypes
<1>2. SparsePrices \in SUBSET SparsePrices
  OBVIOUS
<1>3. QED
  BY <1>1, <1>2, CutSum

\* With a total that fits, what is listed fits.
LEMMA ListedFit ==
  ASSUME NEW ps, NEW qs, NEW v, v \in [SparsePrices -> Nat], Aligned(ps, qs, v),
         SumFunctionOnSet(v, SparsePrices) < Modulus
  PROVE  Fits(qs, Len(ps))
BY ListedTotal, AlignedTypes DEF Fits

LEMMA SparseAnswers ==
  ASSUME VolumeOK, SparseOK
  PROVE  SparseSumsAreExact
<1> SUFFICES ASSUME kind = "sparse", NEW p \in Int
             PROVE  /\ SumAtOrBelow(p) = Reference({k \in SparsePrices : k <= p})
                    /\ SumAtOrAbove(p) = Reference({k \in SparsePrices : k >= p})
  <2>1. \A p \in 0 .. Max(SparsePrices) + 1 : p \in Int
    OBVIOUS
  <2>2. QED
    BY DEF SparseSumsAreExact
<1> DEFINE n == Len(prices)
           le == RankLe(p)
           lt == RankLt(p)
           K == {k \in SparsePrices : k <= p}
           L == {k \in SparsePrices : k < p}
           M == {k \in SparsePrices : k >= p}
<1>1. Keys(kind) = SparsePrices /\ volume \in [SparsePrices -> Nat] /\ TotalVolume(volume, kind) < Modulus
  BY SparseVolume DEF VolumeOK
<1>2. Aligned(prices, qtys, volume) /\ Holds(tree, qtys, n)
  BY DEF SparseOK
<1>3. Fits(qtys, n)
  BY <1>1, <1>2, ListedFit DEF TotalVolume
<1>4. n \in Nat /\ \A i \in 1 .. n : prices[i] \in SparsePrices /\ prices[i] \in Nat
  BY <1>2, AlignedTypes
<1>5. /\ le \in 0 .. n /\ \A i \in 1 .. n : prices[i] <= p <=> i <= le
      /\ lt \in 0 .. n /\ \A i \in 1 .. n : prices[i] < p <=> i <= lt
  BY <1>2, Ranks
<1>6. K \in SUBSET SparsePrices /\ \A i \in 1 .. n : prices[i] \in K <=> i <= le
  BY <1>4, <1>5
<1>7. L \in SUBSET SparsePrices /\ \A i \in 1 .. n : prices[i] \in L <=> i <= lt
  BY <1>4, <1>5
<1>8. M \in SUBSET SparsePrices /\ L \cap M = {} /\ SparsePrices = L \cup M
  <2>1. \A k \in SparsePrices : k \in Int
    BY IndexAssumption
  <2>2. \A k \in SparsePrices : k \in L <=> ~(k \in M)
    BY <2>1
  <2>3. M \subseteq SparsePrices /\ L \subseteq SparsePrices
    OBVIOUS
  <2> HIDE DEF L, M
  <2>4. QED
    BY <2>2, <2>3
<1>9. Len(tree) = n
  BY <1>4, <1>2, TreeLen DEF Holds
<1>10. SumAtOrBelow(p) = (IF le = 0 THEN 0 ELSE PrefixSum(tree, le - 1))
  BY DEF SumAtOrBelow
<1>11. SumAtOrAbove(p) = (IF lt >= n THEN 0
                          ELSE (PrefixSum(tree, n - 1) - (IF lt = 0 THEN 0 ELSE PrefixSum(tree, lt - 1))) % Modulus)
  BY DEF SumAtOrAbove
<1>12. /\ Reference({k \in SparsePrices : k <= p}) = SumFunctionOnSet(volume, K)
       /\ Reference({k \in SparsePrices : k >= p}) = SumFunctionOnSet(volume, M)
  BY DEF Reference
<1> HIDE DEF n, le, lt, K, L, M
<1>13. SumFunctionOnSet(volume, K) = SumOf(qtys, 1, le)
  BY <1>1, <1>2, <1>5, <1>6, CutSum DEF n
<1>14. SumFunctionOnSet(volume, L) = SumOf(qtys, 1, lt)
  BY <1>1, <1>2, <1>5, <1>7, CutSum DEF n
<1>15. SumFunctionOnSet(volume, SparsePrices) = SumOf(qtys, 1, n)
  BY <1>1, <1>2, ListedTotal DEF n
<1>16. ASSUME NEW r \in 0 .. n
       PROVE  (IF r = 0 THEN 0 ELSE PrefixSum(tree, r - 1)) = SumOf(qtys, 1, r)
  <2>1. CASE r = 0
    <3>1. 1 .. 0 = {}
      OBVIOUS
    <3>2. QED
      BY <2>1, <3>1, SumEmpty DEF SumOf
  <2>2. CASE r # 0
    <3>1. r \in 1 .. n
      BY <1>4, <2>2
    <3>2. QED
      BY <1>2, <1>3, <2>2, <3>1, PrefixHolds
  <2>3. QED
    BY <2>1, <2>2
<1>17. SumAtOrBelow(p) = SumFunctionOnSet(volume, K)
  BY <1>5, <1>10, <1>13, <1>16
<1>18. SumFunctionOnSet(volume, M) = SumOf(qtys, lt + 1, n)
  <2>1. IsFiniteSet(SparsePrices) /\ \A k \in SparsePrices : volume[k] \in Int
    BY <1>1, IndexAssumption
  <2>2. SumFunctionOnSet(volume, L \cup M) = SumFunctionOnSet(volume, L) + SumFunctionOnSet(volume, M)
    BY <1>7, <1>8, <2>1, SumUnion
  <2>3. n \in 0 .. n /\ lt \in 0 .. n
    BY <1>4, <1>5
  <2>4. SumOf(qtys, 1, n) = SumOf(qtys, 1, lt) + SumOf(qtys, lt + 1, n)
    BY <1>3, <2>3, RangeSplit
  <2>5. SumOf(qtys, 1, lt) \in Nat /\ SumOf(qtys, lt + 1, n) \in Nat
    <3>1. lt + 1 \in Nat \ {0} /\ 1 \in Nat \ {0}
      BY <1>5
    <3>2. QED
      BY <1>3, <2>3, <3>1, RangeSum
  <2>6. SumFunctionOnSet(volume, M) \in Int
    <3>1. IsFiniteSet(M) /\ \A k \in M : volume[k] \in Int
      BY <1>8, <2>1, FS_Subset
    <3>2. QED
      BY <3>1, SumType
  <2>7. SumFunctionOnSet(volume, SparsePrices) = SumFunctionOnSet(volume, L \cup M)
    BY <1>8
  <2>8. QED
    BY <1>14, <1>15, <2>2, <2>4, <2>5, <2>6, <2>7
<1>19. SumAtOrAbove(p) = SumFunctionOnSet(volume, M)
  <2>1. CASE lt >= n
    <3>1. lt = n /\ lt + 1 .. n = {}
      BY <1>4, <1>5, <2>1
    <3>2. SumOf(qtys, lt + 1, n) = 0
      BY <3>1, SumEmpty DEF SumOf
    <3>3. QED
      BY <1>11, <1>18, <2>1, <3>2
  <2>2. CASE ~(lt >= n)
    <3>1. n \in 1 .. n
      BY <1>4, <1>5, <2>2
    <3>2. PrefixSum(tree, n - 1) = SumOf(qtys, 1, n)
      BY <1>2, <1>3, <3>1, PrefixHolds
    <3>3. (IF lt = 0 THEN 0 ELSE PrefixSum(tree, lt - 1)) = SumOf(qtys, 1, lt)
      BY <1>5, <1>16
    <3>4. (SumOf(qtys, 1, n) - SumOf(qtys, 1, lt)) % Modulus = SumOf(qtys, lt + 1, n)
      BY <1>3, <1>5, RestHolds
    <3>5. QED
      BY <1>11, <1>18, <2>2, <3>2, <3>3, <3>4, Zenon
  <2>3. QED
    BY <2>1, <2>2
<1>20. QED
  BY <1>12, <1>17, <1>19

-----------------------------------------------------------------------------
(* What an update of the sparse index does to the list.                    *)

LEMMA InsertAtProperties ==
  ASSUME NEW S, NEW s \in Seq(S), NEW e \in S, NEW k \in 1 .. Len(s) + 1
  PROVE  /\ InsertAt(s, k, e) \in Seq(S)
         /\ Len(InsertAt(s, k, e)) = Len(s) + 1
         /\ \A i \in 1 .. Len(s) + 1 :
              InsertAt(s, k, e)[i] = IF i < k THEN s[i] ELSE IF i = k THEN e ELSE s[i - 1]
<1> DEFINE n == Len(s)
           a == SubSeq(s, 1, k - 1)
           b == SubSeq(s, k, n)
           m == <<e>>
           c == a \o m
<1>1. n \in Nat /\ \A i \in 1 .. n : s[i] \in S
  OBVIOUS
<1>2. a \in Seq(S) /\ Len(a) = k - 1 /\ \A i \in 1 .. k - 1 : a[i] = s[i]
  <2>1. \A i \in 1 .. k - 1 : s[i] \in S
    BY <1>1
  <2>2. /\ a \in Seq(S) /\ Len(a) = IF 1 <= k - 1 THEN k - 1 - 1 + 1 ELSE 0
        /\ \A i \in 1 .. k - 1 - 1 + 1 : a[i] = s[1 + i - 1]
    BY <1>1, <2>1, SubSeqProperties
  <2> HIDE DEF a, n
  <2>3. QED
    BY <1>1, <2>2
<1>3. b \in Seq(S) /\ Len(b) = n - k + 1 /\ \A i \in 1 .. n - k + 1 : b[i] = s[k + i - 1]
  <2>1. \A i \in k .. n : s[i] \in S
    BY <1>1
  <2>2. /\ b \in Seq(S) /\ Len(b) = IF k <= n THEN n - k + 1 ELSE 0
        /\ \A i \in 1 .. n - k + 1 : b[i] = s[k + i - 1]
    BY <1>1, <2>1, SubSeqProperties
  <2> HIDE DEF b
  <2>3. QED
    BY <1>1, <2>2
<1>4. m \in Seq(S) /\ Len(m) = 1 /\ m[1] = e
  OBVIOUS
<1>5. InsertAt(s, k, e) = c \o b
  BY DEF InsertAt
<1>6. k \in Int /\ 1 <= k /\ k <= n + 1
  OBVIOUS
<1> HIDE DEF a, b, m, n
<1>7. /\ c \in Seq(S) /\ Len(c) = Len(a) + Len(m)
      /\ \A i \in 1 .. Len(a) + Len(m) : c[i] = IF i <= Len(a) THEN a[i] ELSE m[i - Len(a)]
  BY <1>2, <1>4, ConcatProperties
<1> HIDE DEF c
<1>8. /\ c \o b \in Seq(S) /\ Len(c \o b) = Len(c) + Len(b)
      /\ \A i \in 1 .. Len(c) + Len(b) : (c \o b)[i] = IF i <= Len(c) THEN c[i] ELSE b[i - Len(c)]
  BY <1>3, <1>7, ConcatProperties
<1>9. Len(c) = k /\ Len(c) + Len(b) = n + 1
  BY <1>1, <1>2, <1>3, <1>4, <1>6, <1>7
<1>10. ASSUME NEW i \in 1 .. n + 1
       PROVE  (c \o b)[i] = IF i < k THEN s[i] ELSE IF i = k THEN e ELSE s[i - 1]
  <2>1. CASE i < k
    <3>1. i \in 1 .. k - 1 /\ i <= k - 1 /\ i \in 1 .. k /\ i \in 1 .. Len(c) + Len(b) /\ i <= Len(c)
      BY <1>6, <1>9, <2>1
    <3>2. (c \o b)[i] = c[i]
      BY <1>8, <3>1
    <3>3. c[i] = a[i]
      BY <1>2, <1>4, <1>6, <1>7, <3>1
    <3>4. QED
      BY <1>2, <2>1, <3>1, <3>2, <3>3
  <2>2. CASE i = k
    <3>1. i \in 1 .. Len(c) + Len(b) /\ i <= Len(c)
      BY <1>6, <1>9, <2>2
    <3>2. (c \o b)[i] = c[i]
      BY <1>8, <3>1
    <3>3. c[i] = m[1]
      <4>1. i \in 1 .. Len(a) + Len(m) /\ ~(i <= Len(a)) /\ i - Len(a) = 1
        BY <1>2, <1>4, <1>6, <2>2
      <4>2. QED
        BY <1>7, <4>1
    <3>4. QED
      BY <1>4, <2>2, <3>2, <3>3
  <2>3. CASE i > k
    <3>1. i \in 1 .. Len(c) + Len(b) /\ ~(i <= Len(c)) /\ i - Len(c) = i - k
          /\ i - k \in 1 .. n - k + 1 /\ k + (i - k) - 1 = i - 1
      BY <1>1, <1>6, <1>9, <2>3
    <3>2. (c \o b)[i] = b[i - k]
      BY <1>8, <3>1
    <3>3. b[i - k] = s[i - 1]
      BY <1>3, <3>1
    <3>4. QED
      BY <1>6, <2>3, <3>2, <3>3
  <2>4. i < k \/ i = k \/ i > k
    BY <1>6
  <2>5. QED
    BY <2>1, <2>2, <2>3, <2>4
<1>11. QED
  BY <1>5, <1>8, <1>9, <1>10 DEF n

\* Of the prices, only the quantity at p changes, to x.
Revalued(w, v, p, x) ==
  /\ p \in SparsePrices /\ x \in Nat
  /\ v \in [SparsePrices -> Nat] /\ w \in [SparsePrices -> Nat]
  /\ \A k \in SparsePrices : w[k] = IF k = p THEN x ELSE v[k]

LEMMA SetAligned ==
  ASSUME NEW ps, NEW qs, NEW v, Aligned(ps, qs, v), NEW w, NEW p, NEW x, Revalued(w, v, p, x), x > 0,
         NEW r \in 1 .. Len(ps), ps[r] = p
  PROVE  Aligned(ps, [qs EXCEPT ![r] = x], w)
<1> DEFINE n == Len(ps)
           us == [qs EXCEPT ![r] = x]
<1>1. n \in Nat /\ qs \in [1 .. n -> Nat] /\ \A i \in 1 .. n : ps[i] \in SparsePrices /\ ps[i] \in Nat /\ qs[i] \in Nat
  BY AlignedTypes
<1>2. /\ ps \in Seq(SparsePrices) /\ qs \in Seq(Nat) /\ Len(qs) = n
      /\ \A i, j \in 1 .. n : i < j => ps[i] < ps[j]
      /\ \A i \in 1 .. n : qs[i] = v[ps[i]] /\ qs[i] > 0
      /\ \A k \in SparsePrices : v[k] # 0 => \E i \in 1 .. n : ps[i] = k
  BY DEF Aligned
<1>3. us \in [1 .. n -> Nat] /\ \A i \in 1 .. n : us[i] = IF i = r THEN x ELSE qs[i]
  BY <1>1 DEF Revalued
<1>4. r \in 1 .. n
  OBVIOUS
<1> HIDE DEF n, us
<1>5. us \in Seq(Nat) /\ Len(us) = n
  BY <1>1, <1>3, TreeLen
<1>6. ASSUME NEW i \in 1 .. n PROVE us[i] = w[ps[i]] /\ us[i] > 0
  <2>1. i # r => ps[i] # p
    <3>1. i # r => i < r \/ r < i
      BY <1>1, <1>4
    <3>2. QED
      BY <1>1, <1>2, <1>4, <3>1
  <2>2. CASE i = r
    BY <1>1, <1>3, <2>2 DEF Revalued
  <2>3. CASE i # r
    BY <1>1, <1>2, <1>3, <2>1, <2>3 DEF Revalued
  <2>4. QED
    BY <2>2, <2>3
<1>7. ASSUME NEW k \in SparsePrices, w[k] # 0 PROVE \E i \in 1 .. n : ps[i] = k
  <2>1. CASE k = p
    BY <1>4, <2>1
  <2>2. CASE k # p
    BY <1>2, <1>7, <2>2 DEF Revalued
  <2>3. QED
    BY <2>1, <2>2
<1>8. Aligned(ps, us, w)
  BY <1>2, <1>5, <1>6, <1>7 DEF Aligned, n
<1>9. QED
  BY <1>8 DEF us

LEMMA InsertAligned ==
  ASSUME NEW ps, NEW qs, NEW v, Aligned(ps, qs, v), NEW w, NEW p, NEW x, Revalued(w, v, p, x), x > 0,
         v[p] = 0, NEW r \in 0 .. Len(ps), \A i \in 1 .. Len(ps) : ps[i] < p <=> i <= r
  PROVE  Aligned(InsertAt(ps, r + 1, p), InsertAt(qs, r + 1, x), w)
<1> DEFINE n == Len(ps)
           k == r + 1
           rs == InsertAt(ps, k, p)
           us == InsertAt(qs, k, x)
<1>1. n \in Nat /\ \A i \in 1 .. n : ps[i] \in SparsePrices /\ ps[i] \in Nat /\ qs[i] \in Nat
  BY AlignedTypes
<1>2. /\ ps \in Seq(SparsePrices) /\ qs \in Seq(Nat) /\ Len(qs) = n
      /\ \A i, j \in 1 .. n : i < j => ps[i] < ps[j]
      /\ \A i \in 1 .. n : qs[i] = v[ps[i]] /\ qs[i] > 0
      /\ \A y \in SparsePrices : v[y] # 0 => \E i \in 1 .. n : ps[i] = y
  BY DEF Aligned
<1>3. p \in SparsePrices /\ p \in Nat /\ x \in Nat
  BY IndexAssumption DEF Revalued
<1>4. k \in 1 .. n + 1 /\ k \in 1 .. Len(ps) + 1 /\ k \in 1 .. Len(qs) + 1
  BY <1>1, <1>2
<1>5. \A i \in 1 .. n : ps[i] # p
  BY <1>2
<1>6. \A i \in 1 .. n : (i < k => ps[i] < p) /\ (i >= k => p < ps[i])
  BY <1>1, <1>3, <1>5
<1>7. /\ rs \in Seq(SparsePrices) /\ Len(rs) = n + 1
      /\ \A i \in 1 .. n + 1 : rs[i] = IF i < k THEN ps[i] ELSE IF i = k THEN p ELSE ps[i - 1]
  <2> HIDE DEF k
  <2>1. QED
    BY <1>2, <1>3, <1>4, InsertAtProperties
<1>8. /\ us \in Seq(Nat) /\ Len(us) = n + 1
      /\ \A i \in 1 .. n + 1 : us[i] = IF i < k THEN qs[i] ELSE IF i = k THEN x ELSE qs[i - 1]
  <2> DEFINE T == Nat
  <2>1. Len(qs) = n
    BY <1>2
  <2>2. qs \in Seq(T) /\ x \in T /\ k \in 1 .. Len(qs) + 1
    BY <1>2, <1>3, <1>4
  <2> HIDE DEF k, n, T
  <2>3. /\ us \in Seq(T) /\ Len(us) = Len(qs) + 1
        /\ \A i \in 1 .. Len(qs) + 1 : us[i] = IF i < k THEN qs[i] ELSE IF i = k THEN x ELSE qs[i - 1]
    BY <2>2, InsertAtProperties
  <2>4. QED
    BY <2>1, <2>3 DEF T
<1> HIDE DEF n, k, rs, us
<1>9. ASSUME NEW i \in 1 .. n + 1
      PROVE  \/ i < k /\ i \in 1 .. n /\ rs[i] = ps[i] /\ us[i] = qs[i]
             \/ i = k /\ rs[i] = p /\ us[i] = x
             \/ i > k /\ i - 1 \in 1 .. n /\ i - 1 >= k /\ rs[i] = ps[i - 1] /\ us[i] = qs[i - 1]
  <2>1. i < k \/ i = k \/ i > k
    BY <1>1, <1>4
  <2>2. CASE i < k
    <3>1. i \in 1 .. n
      BY <1>1, <1>4, <2>2
    <3>2. rs[i] = ps[i] /\ us[i] = qs[i]
      BY <1>7, <1>8, <2>2
    <3>3. QED
      BY <2>2, <3>1, <3>2
  <2>3. CASE i = k
    <3>1. ~(i < k)
      BY <1>1, <1>4, <2>3
    <3>2. rs[i] = p /\ us[i] = x
      BY <1>7, <1>8, <2>3, <3>1
    <3>3. QED
      BY <2>3, <3>2
  <2>4. CASE i > k
    <3>1. i - 1 \in 1 .. n /\ i - 1 >= k /\ ~(i < k) /\ i # k
      BY <1>1, <1>4, <2>4
    <3>2. rs[i] = ps[i - 1]
      BY <1>7, <3>1
    <3>3. us[i] = qs[i - 1]
      BY <1>8, <3>1
    <3>4. QED
      BY <2>4, <3>1, <3>2, <3>3
  <2>5. QED
    BY <2>1, <2>2, <2>3, <2>4
<1>10. ASSUME NEW i \in 1 .. n + 1, NEW j \in 1 .. n + 1, i < j PROVE rs[i] < rs[j]
  <2>1. CASE j < k
    <3>1. i < k /\ j < k /\ ~(i > k) /\ ~(j > k) /\ i # k /\ j # k
      BY <1>1, <1>4, <1>10, <2>1
    <3>2. i \in 1 .. n /\ j \in 1 .. n /\ rs[i] = ps[i] /\ rs[j] = ps[j]
      BY <1>9, <3>1
    <3>3. QED
      BY <1>2, <1>10, <3>2
  <2>2. CASE j = k
    <3>1. i < k /\ ~(i > k) /\ i # k
      BY <1>1, <1>4, <1>10, <2>2
    <3>2. i \in 1 .. n /\ rs[i] = ps[i] /\ rs[j] = p
      BY <1>7, <1>9, <2>2, <3>1
    <3>3. QED
      BY <1>6, <3>1, <3>2
  <2>3. CASE j > k /\ i < k
    <3>1. ~(i > k) /\ i # k /\ ~(j < k) /\ j # k
      BY <1>1, <1>4, <2>3
    <3>2. i \in 1 .. n /\ rs[i] = ps[i] /\ j - 1 \in 1 .. n /\ j - 1 >= k /\ rs[j] = ps[j - 1]
      BY <1>9, <2>3, <3>1
    <3>3. ps[i] < p /\ p < ps[j - 1] /\ ps[i] \in Nat /\ ps[j - 1] \in Nat
      BY <1>1, <1>6, <2>3, <3>2
    <3>4. QED
      BY <1>3, <3>2, <3>3
  <2>4. CASE j > k /\ i = k
    <3>1. ~(j < k) /\ j # k
      BY <1>1, <1>4, <2>4
    <3>2. rs[i] = p /\ j - 1 \in 1 .. n /\ j - 1 >= k /\ rs[j] = ps[j - 1]
      BY <1>7, <1>9, <2>4, <3>1
    <3>3. QED
      BY <1>6, <3>2
  <2>5. CASE j > k /\ i > k
    <3>1. ~(j < k) /\ j # k /\ ~(i < k) /\ i # k
      BY <1>1, <1>4, <2>5
    <3>2. i - 1 \in 1 .. n /\ j - 1 \in 1 .. n /\ i - 1 < j - 1 /\ rs[i] = ps[i - 1] /\ rs[j] = ps[j - 1]
      BY <1>1, <1>9, <1>10, <2>5, <3>1
    <3>3. QED
      BY <1>2, <3>2
  <2>6. (j < k \/ j = k \/ j > k) /\ (i < k \/ i = k \/ i > k)
    BY <1>1, <1>4
  <2>7. QED
    BY <2>1, <2>2, <2>3, <2>4, <2>5, <2>6
<1>11. ASSUME NEW i \in 1 .. n + 1 PROVE us[i] = w[rs[i]] /\ us[i] > 0
  <2>1. \A j \in 1 .. n : w[ps[j]] = qs[j] /\ qs[j] > 0
    BY <1>1, <1>2, <1>5 DEF Revalued
  <2>2. w[p] = x
    BY DEF Revalued
  <2>3. QED
    BY <1>9, <2>1, <2>2
<1>12. ASSUME NEW y \in SparsePrices, w[y] # 0 PROVE \E i \in 1 .. n + 1 : rs[i] = y
  <2>1. CASE y = p
    <3>1. k \in 1 .. n + 1 /\ rs[k] = p
      BY <1>1, <1>4, <1>7
    <3>2. QED
      BY <2>1, <3>1
  <2>2. CASE y # p
    <3>1. PICK j \in 1 .. n : ps[j] = y
      BY <1>2, <1>12, <2>2 DEF Revalued
    <3>2. CASE j < k
      <4>1. j \in 1 .. n + 1 /\ rs[j] = ps[j]
        BY <1>1, <1>4, <1>7, <3>2
      <4>2. QED
        BY <3>1, <4>1
    <3>3. CASE ~(j < k)
      <4>1. j + 1 \in 1 .. n + 1 /\ (j + 1) - 1 = j /\ ~(j + 1 < k) /\ j + 1 # k
        BY <1>1, <1>4, <3>3
      <4>2. rs[j + 1] = ps[j]
        BY <1>7, <4>1
      <4>3. QED
        BY <3>1, <4>1, <4>2
    <3>4. QED
      BY <3>2, <3>3
  <2>3. QED
    BY <2>1, <2>2
<1>13. Aligned(rs, us, w)
  BY <1>7, <1>8, <1>10, <1>11, <1>12 DEF Aligned
<1>14. QED
  BY <1>13 DEF rs, us, k

LEMMA RemoveAligned ==
  ASSUME NEW ps, NEW qs, NEW v, Aligned(ps, qs, v), NEW w, NEW p, Revalued(w, v, p, 0),
         NEW k \in 1 .. Len(ps), ps[k] = p
  PROVE  Aligned(RemoveAt(ps, k), RemoveAt(qs, k), w)
<1> DEFINE n == Len(ps)
           rs == RemoveAt(ps, k)
           us == RemoveAt(qs, k)
<1>1. n \in Nat /\ \A i \in 1 .. n : ps[i] \in SparsePrices /\ ps[i] \in Nat /\ qs[i] \in Nat
  BY AlignedTypes
<1>2. /\ ps \in Seq(SparsePrices) /\ qs \in Seq(Nat) /\ Len(qs) = n
      /\ \A i, j \in 1 .. n : i < j => ps[i] < ps[j]
      /\ \A i \in 1 .. n : qs[i] = v[ps[i]] /\ qs[i] > 0
      /\ \A y \in SparsePrices : v[y] # 0 => \E i \in 1 .. n : ps[i] = y
  BY DEF Aligned
<1>3. k \in 1 .. n
  OBVIOUS
<1>4. /\ rs \in Seq(SparsePrices) /\ Len(rs) = n - 1
      /\ \A i \in 1 .. n - 1 : rs[i] = IF i < k THEN ps[i] ELSE ps[i + 1]
  <2>1. ps \in Seq(SparsePrices) /\ k \in 1 .. Len(ps)
    BY <1>2
  <2>2. QED
    BY <2>1, RemoveAtProperties
<1>5. /\ us \in Seq(Nat) /\ Len(us) = n - 1
      /\ \A i \in 1 .. n - 1 : us[i] = IF i < k THEN qs[i] ELSE qs[i + 1]
  <2> DEFINE T == Nat
  <2>1. Len(qs) = n
    BY <1>2
  <2>2. qs \in Seq(T) /\ k \in 1 .. Len(qs)
    BY <1>2, <1>3
  <2> HIDE DEF n, T
  <2>3. /\ us \in Seq(T) /\ Len(us) = Len(qs) - 1
        /\ \A i \in 1 .. Len(qs) - 1 : us[i] = IF i < k THEN qs[i] ELSE qs[i + 1]
    BY <2>2, RemoveAtProperties
  <2>4. QED
    BY <2>1, <2>3 DEF T
<1>6. \A i \in 1 .. n : i # k => ps[i] # p
  <2>1. \A i \in 1 .. n : i # k => i < k \/ k < i
    BY <1>1
  <2>2. QED
    BY <1>1, <1>2, <2>1
<1> HIDE DEF n, rs, us
<1> DEFINE from(i) == IF i < k THEN i ELSE i + 1
<1>7. \A i \in 1 .. n - 1 : /\ from(i) \in 1 .. n /\ from(i) # k
                            /\ rs[i] = ps[from(i)] /\ us[i] = qs[from(i)]
  BY <1>1, <1>3, <1>4, <1>5
<1>8. \A i, j \in 1 .. n - 1 : i < j => from(i) < from(j)
  BY <1>1, <1>3
<1> HIDE DEF from
<1>9. ASSUME NEW i \in 1 .. n - 1, NEW j \in 1 .. n - 1, i < j PROVE rs[i] < rs[j]
  <2>1. from(i) \in 1 .. n /\ rs[i] = ps[from(i)]
    BY <1>7
  <2>2. from(j) \in 1 .. n /\ rs[j] = ps[from(j)]
    BY <1>7
  <2>3. from(i) < from(j)
    BY <1>8, <1>9
  <2>4. QED
    BY <1>2, <2>1, <2>2, <2>3
<1>10. ASSUME NEW i \in 1 .. n - 1 PROVE us[i] = w[rs[i]] /\ us[i] > 0
  <2>1. \A j \in 1 .. n : j # k => w[ps[j]] = qs[j] /\ qs[j] > 0
    BY <1>1, <1>2, <1>6 DEF Revalued
  <2>2. QED
    BY <1>7, <2>1
<1>11. ASSUME NEW y \in SparsePrices, w[y] # 0 PROVE \E i \in 1 .. n - 1 : rs[i] = y
  <2>1. y # p /\ v[y] # 0
    BY <1>11 DEF Revalued
  <2>2. PICK j \in 1 .. n : ps[j] = y
    BY <1>2, <2>1
  <2>3. j # k
    BY <2>1, <2>2
  <2>4. CASE j < k
    <3>1. j \in 1 .. n - 1 /\ rs[j] = ps[j]
      BY <1>1, <1>3, <1>4, <2>4
    <3>2. QED
      BY <2>2, <3>1
  <2>5. CASE j > k
    <3>1. j - 1 \in 1 .. n - 1 /\ ~(j - 1 < k) /\ (j - 1) + 1 = j
      BY <1>1, <1>3, <2>5
    <3>2. rs[j - 1] = ps[j]
      BY <1>4, <3>1
    <3>3. QED
      BY <2>2, <3>1, <3>2
  <2>6. QED
    BY <1>1, <1>3, <2>3, <2>4, <2>5
<1>12. Aligned(rs, us, w)
  BY <1>4, <1>5, <1>9, <1>10, <1>11 DEF Aligned
<1>13. QED
  BY <1>12 DEF rs, us

\* Nothing that is listed is more than a node can hold.
LEMMA EntryFits ==
  ASSUME NEW n, NEW val, Fits(val, n), NEW i \in 1 .. n
  PROVE  val[i] \in Nat /\ val[i] < Modulus
<1>1. i .. i = {} \cup {i} /\ i \in Nat \ {0} /\ i \in 0 .. n /\ val[i] \in Nat
  BY DEF Fits
<1>2. SumOf(val, i, i) < Modulus
  BY <1>1, RangeSum
<1>3. IsFiniteSet({}) /\ i \notin {} /\ val[i] \in Int /\ \A y \in {} : val[y] \in Int
  BY <1>1, FS_EmptySet
<1>4. SumFunctionOnSet(val, {} \cup {i}) = SumFunctionOnSet(val, {}) + val[i]
  BY <1>3, SumAdd
<1>5. SumFunctionOnSet(val, i .. i) = val[i]
  BY <1>1, <1>4, SumEmpty
<1>6. QED
  BY <1>1, <1>2, <1>5 DEF SumOf
-----------------------------------------------------------------------------
(* The steps of the sparse index.                                          *)

\* A price in the index is at its rank.
LEMMA RankOfListed ==
  ASSUME Aligned(prices, qtys, volume), NEW i \in 1 .. Len(prices)
  PROVE  RankLe(prices[i]) = i
<1> DEFINE n == Len(prices)
           p == prices[i]
           r == RankLe(p)
<1>1. n \in Nat /\ p \in Int /\ \A j \in 1 .. n : prices[j] \in Nat
  BY AlignedTypes
<1>2. \A j, k \in 1 .. n : j < k => prices[j] < prices[k]
  BY DEF Aligned
<1>3. r \in 0 .. n /\ \A j \in 1 .. n : prices[j] <= p <=> j <= r
  BY <1>1, Ranks
<1>4. i \in 1 .. n
  OBVIOUS
<1> HIDE DEF n, r
<1>5. i <= r
  BY <1>1, <1>3, <1>4
<1>6. r \in 1 .. n
  BY <1>1, <1>3, <1>4, <1>5
<1>7. prices[r] <= p
  BY <1>3, <1>6
<1>8. ~(i < r)
  BY <1>1, <1>2, <1>4, <1>6, <1>7
<1>9. r = i
  BY <1>4, <1>5, <1>6, <1>8
<1>10. QED
  BY <1>9 DEF r

\* The volumes after an operation, as a change at one price.
LEMMA AddedRevalues ==
  ASSUME VolumeOK, kind = "sparse", NEW p \in Keys(kind), NEW q \in 0 .. MaxVolume, Added(p, q), ~overflowed'
  PROVE  /\ VolumeOK' /\ kind' = "sparse" /\ q \in Nat /\ q > 0
         /\ Revalued(volume', volume, p, volume[p] + q)
         /\ SumFunctionOnSet(volume', SparsePrices) < Modulus
<1>1. VolumeOK' /\ kind' = kind /\ q \in Nat /\ q > 0 /\ volume' = [volume EXCEPT ![p] = @ + q]
  <2>1. VolumeOK'
    BY VolumeAdded
  <2>2. q \in Nat
    BY IndexAssumption
  <2>3. QED
    BY <2>1, <2>2 DEF Added
<1>2. Keys(kind) = SparsePrices /\ volume \in [SparsePrices -> Nat]
  BY SparseVolume
<1>3. volume[p] \in Nat /\ volume[p] + q \in Nat /\ p \in SparsePrices
  BY <1>1, <1>2
<1>4. volume' \in [SparsePrices -> Nat] /\ \A k \in SparsePrices : volume'[k] = IF k = p THEN volume[p] + q ELSE volume[k]
  BY <1>1, <1>2, <1>3
<1>5. SumFunctionOnSet(volume', SparsePrices) < Modulus
  BY <1>1, <1>2 DEF VolumeOK, TotalVolume, Keys
<1>6. QED
  BY <1>1, <1>2, <1>3, <1>4, <1>5 DEF Revalued

LEMMA TakenRevalues ==
  ASSUME VolumeOK, kind = "sparse", NEW p \in Keys(kind), NEW q \in 0 .. MaxVolume, Taken(p, q)
  PROVE  /\ VolumeOK' /\ kind' = "sparse" /\ q \in Nat /\ q <= volume[p] /\ volume[p] # 0
         /\ Revalued(volume', volume, p, volume[p] - q)
         /\ SumFunctionOnSet(volume', SparsePrices) < Modulus
<1>1. /\ VolumeOK' /\ kind' = kind /\ q \in Nat /\ q <= volume[p] /\ volume[p] > 0
      /\ volume' = [volume EXCEPT ![p] = @ - q]
  <2>1. VolumeOK'
    BY VolumeTaken
  <2>2. q \in Nat
    BY IndexAssumption
  <2>3. QED
    BY <2>1, <2>2 DEF Taken
<1>2. Keys(kind) = SparsePrices /\ volume \in [SparsePrices -> Nat]
  BY SparseVolume
<1>3. volume[p] \in Nat /\ volume[p] - q \in Nat /\ p \in SparsePrices
  BY <1>1, <1>2
<1>4. volume' \in [SparsePrices -> Nat] /\ \A k \in SparsePrices : volume'[k] = IF k = p THEN volume[p] - q ELSE volume[k]
  BY <1>1, <1>2, <1>3
<1>5. SumFunctionOnSet(volume', SparsePrices) < Modulus
  BY <1>1, <1>2 DEF VolumeOK, TotalVolume, Keys
<1>6. QED
  BY <1>1, <1>2, <1>3, <1>4, <1>5 DEF Revalued

LEMMA SparseAddKeeps ==
  ASSUME VolumeOK, SparseOK, NEW p \in Keys(kind), NEW q \in 0 .. MaxVolume, SparseAdd(p, q), ~overflowed'
  PROVE  SparseOK'
<1> DEFINE n == Len(prices)
           x == volume[p] + q
           v == volume
           w == volume'
<1>1. kind = "sparse" /\ Added(p, q) /\ ~index_panicked'
  BY DEF SparseAdd, SparseOK
<1>2. Aligned(prices, qtys, v) /\ Holds(tree, qtys, n)
  BY <1>1 DEF SparseOK
<1>3. /\ kind' = "sparse" /\ q \in Nat /\ q > 0 /\ Revalued(w, v, p, x)
      /\ SumFunctionOnSet(w, SparsePrices) < Modulus
  BY <1>1, AddedRevalues
<1>4. /\ p \in SparsePrices /\ p \in Int /\ v \in [SparsePrices -> Nat] /\ w \in [SparsePrices -> Nat]
      /\ v[p] \in Nat /\ x \in Nat /\ x > 0
  BY <1>3, IndexAssumption DEF Revalued
<1>5. n \in Nat /\ qtys \in Seq(Nat) /\ qtys \in [1 .. n -> Nat]
      /\ \A i \in 1 .. n : qtys[i] = v[prices[i]] /\ qtys[i] > 0
  BY <1>2, AlignedTypes DEF Aligned
<1>6. SumFunctionOnSet(v, SparsePrices) < Modulus
  <2>1. Keys(kind) = SparsePrices
    BY <1>1 DEF Keys
  <2>2. QED
    BY <2>1 DEF VolumeOK, TotalVolume
<1>7. Fits(qtys, n)
  BY <1>2, <1>4, <1>6, ListedFit
<1>8. CASE Contains(prices, p)
  <2>1. PICK r \in 1 .. n : prices[r] = p
    BY <1>8 DEF Contains
  <2>2. RankLe(p) = r
    BY <1>2, <2>1, RankOfListed
  <2>3. /\ qtys' = [qtys EXCEPT ![r] = (@ + q) % Modulus]
        /\ tree' = FenwickAdd(tree, r - 1, q) /\ prices' = prices
    BY <1>8, <2>2 DEF SparseAdd
  <2> DEFINE us == [qtys EXCEPT ![r] = x]
  <2>4. Aligned(prices, us, w)
    BY <1>2, <1>3, <1>4, <2>1, SetAligned
  <2>5. us[r] = x /\ Differs(us, qtys, n, r, q)
    <3>1. qtys[r] = v[p]
      BY <1>5, <2>1
    <3>2. \A j \in 1 .. n : us[j] = IF j = r THEN qtys[j] + q ELSE qtys[j]
      BY <1>5, <2>1, <3>1
    <3>3. us[r] = x
      BY <1>5, <2>1
    <3>4. QED
      BY <1>3, <2>1, <3>2, <3>3 DEF Differs
  <2> HIDE DEF us, x, v, w, n
  <2>6. Fits(us, Len(prices))
    BY <1>3, <1>4, <2>4, ListedFit
  <2>7. Fits(us, n)
    BY <2>6 DEF n
  <2>8. x < Modulus
    BY <2>1, <2>5, <2>7, EntryFits
  <2>9. x % Modulus = x
    BY <1>4, <2>8, NoWrap
  <2>10. qtys' = us
    <3>1. qtys[r] + q = x
      BY <1>5, <2>1 DEF x, v
    <3>2. qtys' = [qtys EXCEPT ![r] = (qtys[r] + q) % Modulus]
      BY <2>3
    <3>3. QED
      BY <2>9, <3>1, <3>2 DEF us
  <2>11. Holds(FenwickAdd(tree, r - 1, q), us, n)
    BY <1>2, <1>3, <1>7, <2>1, <2>5, <2>7, AddHolds
  <2>12. QED
    BY <1>1, <2>3, <2>4, <2>10, <2>11 DEF SparseOK, w, n
<1>9. CASE ~Contains(prices, p)
  <2>1. v[p] = 0
    <3>1. ~\E i \in 1 .. n : prices[i] = p
      BY <1>9 DEF Contains
    <3>2. QED
      BY <1>2, <1>4, <3>1 DEF Aligned
  <2>2. x = q
    BY <1>3, <2>1
  <2> DEFINE r == RankLt(p)
             rs == InsertAt(prices, r + 1, p)
             us == InsertAt(qtys, r + 1, x)
  <2>3. r \in 0 .. n /\ \A i \in 1 .. n : prices[i] < p <=> i <= r
    BY <1>2, <1>4, Ranks
  <2>4. prices' = rs /\ qtys' = us /\ tree' = RebuildFenwick(qtys')
    BY <1>9, <2>2 DEF SparseAdd, InsertRank
  <2> HIDE DEF x, v, w, r
  <2>5. Aligned(rs, us, w)
    BY <1>2, <1>3, <1>4, <2>1, <2>3, InsertAligned
  <2> HIDE DEF rs, us
  <2>6. Fits(us, Len(rs))
    BY <1>3, <1>4, <2>5, ListedFit
  <2>7. us \in Seq(Nat) /\ Len(us) = Len(rs)
    BY <2>5 DEF Aligned
  <2>8. Holds(RebuildFenwick(us), us, Len(us))
    BY <2>6, <2>7, RebuildHolds
  <2>9. QED
    BY <1>1, <2>4, <2>5, <2>7, <2>8 DEF SparseOK, w
<1>10. QED
  BY <1>8, <1>9

LEMMA SparseSubKeeps ==
  ASSUME VolumeOK, SparseOK, NEW p \in Keys(kind), NEW q \in 0 .. MaxVolume, SparseSub(p, q)
  PROVE  SparseOK'
<1> DEFINE n == Len(prices)
           x == volume[p] - q
           v == volume
           w == volume'
<1>1. kind = "sparse" /\ Taken(p, q)
  BY DEF SparseSub
<1>2. Aligned(prices, qtys, v) /\ Holds(tree, qtys, n) /\ ~index_panicked
  BY <1>1 DEF SparseOK
<1>3. /\ kind' = "sparse" /\ q \in Nat /\ q <= v[p] /\ v[p] # 0 /\ Revalued(w, v, p, x)
      /\ SumFunctionOnSet(w, SparsePrices) < Modulus
  BY <1>1, TakenRevalues
<1>4. /\ p \in SparsePrices /\ v \in [SparsePrices -> Nat] /\ w \in [SparsePrices -> Nat]
      /\ v[p] \in Nat /\ x \in Nat
  BY <1>3 DEF Revalued
<1>5. n \in Nat /\ qtys \in Seq(Nat) /\ qtys \in [1 .. n -> Nat]
      /\ \A i \in 1 .. n : qtys[i] = v[prices[i]] /\ qtys[i] > 0
  BY <1>2, AlignedTypes DEF Aligned
<1>6. SumFunctionOnSet(v, SparsePrices) < Modulus
  <2>1. Keys(kind) = SparsePrices
    BY <1>1 DEF Keys
  <2>2. QED
    BY <2>1 DEF VolumeOK, TotalVolume
<1>7. Fits(qtys, n)
  BY <1>2, <1>4, <1>6, ListedFit
<1>8. PICK r \in 1 .. n : prices[r] = p
  BY <1>2, <1>3, <1>4 DEF Aligned
<1>9. RankLe(p) = r
  BY <1>2, <1>8, RankOfListed
<1>10. qtys[r] = v[p] /\ Contains(prices, p) /\ ~(qtys[r] < q)
  BY <1>3, <1>4, <1>5, <1>8 DEF Contains
<1>11. ~index_panicked'
  BY <1>2, <1>9, <1>10 DEF SparseSub
<1>12. CASE Emptied(p, q)
  <2> DEFINE rs == RemoveAt(prices, r)
             us == RemoveAt(qtys, r)
  <2>1. x = 0
    BY <1>4, <1>9, <1>10, <1>12 DEF Emptied
  <2>2. prices' = rs /\ qtys' = us /\ tree' = RebuildFenwick(qtys')
    BY <1>9, <1>10, <1>12 DEF SparseSub, RemovePrice
  <2> HIDE DEF x, v, w
  <2>3. Revalued(w, v, p, 0)
    BY <1>3, <2>1
  <2>4. Aligned(rs, us, w)
    BY <1>2, <1>8, <2>3, RemoveAligned
  <2> HIDE DEF rs, us
  <2>5. Fits(us, Len(rs))
    BY <1>3, <1>4, <2>4, ListedFit
  <2>6. us \in Seq(Nat) /\ Len(us) = Len(rs)
    BY <2>4 DEF Aligned
  <2>7. Holds(RebuildFenwick(us), us, Len(us))
    BY <2>5, <2>6, RebuildHolds
  <2>8. QED
    BY <1>11, <2>2, <2>4, <2>6, <2>7 DEF SparseOK, w
<1>13. CASE ~Emptied(p, q)
  <2> DEFINE us == [qtys EXCEPT ![r] = x]
  <2>1. /\ qtys' = [qtys EXCEPT ![r] = @ - q]
        /\ tree' = FenwickSub(tree, r - 1, q) /\ prices' = prices
    BY <1>9, <1>10, <1>13 DEF SparseSub
  <2>2. x > 0
    BY <1>3, <1>4, <1>9, <1>10, <1>13 DEF Emptied
  <2>3. qtys' = us
    BY <1>10, <2>1
  <2>4. Aligned(prices, us, w)
    BY <1>2, <1>3, <2>2, <1>8, SetAligned
  <2>5. Differs(us, qtys, n, r, -q)
    <3>1. \A j \in 1 .. n : us[j] = IF j = r THEN qtys[j] + (-q) ELSE qtys[j]
      BY <1>3, <1>4, <1>5, <1>8, <1>10
    <3>2. -q \in Int
      BY <1>3
    <3>3. QED
      BY <1>8, <3>1, <3>2 DEF Differs
  <2> HIDE DEF us, x, v, w, n
  <2>6. Fits(us, n)
    <3>1. Fits(us, Len(prices))
      BY <1>3, <1>4, <2>4, ListedFit
    <3>2. QED
      BY <3>1 DEF n
  <2>7. Holds(FenwickSub(tree, r - 1, q), us, n)
    BY <1>2, <1>3, <1>7, <1>8, <2>5, <2>6, SubHolds
  <2>8. QED
    BY <1>11, <2>1, <2>3, <2>4, <2>7 DEF SparseOK, w, n
<1>14. QED
  BY <1>12, <1>13
-----------------------------------------------------------------------------
\* As long as the total fits the width of a node: of each index, the nodes hold the sums
\* of their ranges; of the sparse one, prices and quantities are aligned.
VolumeInv == ~overflowed => VolumeOK /\ DenseOK /\ SparseOK

LEMMA VolumeBegins == Init => VolumeInv
<1> SUFFICES ASSUME Init PROVE VolumeOK /\ DenseOK /\ SparseOK
  BY DEF VolumeInv
<1>1. VolumeOK
  <2> DEFINE S == Keys(kind)
  <2>1. IsFiniteSet(S) /\ \A k \in S : volume[k] = 0
    BY KeysFinite DEF Init
  <2>2. volume \in [S -> 0 .. MaxVolume] /\ kind \in Kinds
    BY IndexAssumption DEF Init
  <2> HIDE DEF S
  <2>3. SumFunctionOnSet(volume, S) = 0
    BY <2>1, SumZero
  <2>4. QED
    BY <2>2, <2>3, IndexAssumption DEF VolumeOK, TotalVolume, S
<1>2. DenseOK
  <2> SUFFICES ASSUME kind = "dense" PROVE Holds(tree, ByTick(volume), Ticks)
    BY DEF DenseOK, Init
  <2>1. tree = NewTree(Ticks) /\ Ticks \in Nat
    BY IndexAssumption DEF Init
  <2>2. \A j \in 1 .. Ticks : ByTick(volume)[j] = 0
    <3>1. volume = [k \in 0 .. Ticks - 1 |-> 0]
      BY DEF Init, Keys
    <3>2. \A j \in 1 .. Ticks : j - 1 \in 0 .. Ticks - 1
      BY <2>1
    <3>3. \A j \in 1 .. Ticks : volume[j - 1] = 0
      BY <3>1, <3>2
    <3>4. QED
      BY <3>3 DEF ByTick
  <2> DEFINE val == ByTick(volume)
  <2> HIDE DEF val
  <2>3. Holds(NewTree(Ticks), val, Ticks)
    BY <2>1, <2>2, NewTreeHolds DEF val
  <2>4. QED
    BY <2>1, <2>3 DEF val
<1>3. SparseOK
  <2> SUFFICES ASSUME kind = "sparse"
               PROVE  Aligned(prices, qtys, volume) /\ Holds(tree, qtys, Len(prices)) /\ ~index_panicked
    BY DEF SparseOK
  <2>1. prices = <<>> /\ qtys = <<>> /\ tree = NewTree(0) /\ ~index_panicked /\ \A k \in SparsePrices : volume[k] = 0
    BY DEF Init, Keys
  <2>2. Aligned(prices, qtys, volume)
    BY <2>1 DEF Aligned
  <2>3. \A j \in 1 .. 0 : qtys[j] = 0
    OBVIOUS
  <2>4. Holds(NewTree(0), qtys, 0)
    BY <2>3, NewTreeHolds
  <2>5. Len(prices) = 0
    BY <2>1
  <2>6. QED
    BY <2>1, <2>2, <2>4, <2>5
<1>4. QED
  BY <1>1, <1>2, <1>3

LEMMA VolumeStep == VolumeInv /\ [Next]_vars => VolumeInv'
<1> SUFFICES ASSUME VolumeInv, [Next]_vars, ~overflowed' PROVE (VolumeOK /\ DenseOK /\ SparseOK)'
  BY DEF VolumeInv
<1>1. CASE UNCHANGED vars
  BY <1>1 DEF vars, VolumeInv, VolumeOK, DenseOK, SparseOK
<1>2. CASE Next
  <2>1. PICK k \in Keys(kind), q \in 0 .. MaxVolume :
          DenseAdd(k, q) \/ DenseSub(k, q) \/ SparseAdd(k, q) \/ SparseSub(k, q)
    BY <1>2 DEF Next
  <2>2. CASE DenseAdd(k, q)
    <3>1. Added(k, q) /\ kind = "dense" /\ kind' = kind
      BY <2>2 DEF DenseAdd, Added
    <3>2. VolumeOK /\ DenseOK
      BY <3>1, Zenon DEF VolumeInv, Added
    <3>3. VolumeOK' /\ DenseOK'
      BY <2>2, <3>1, <3>2, VolumeAdded, DenseAddKeeps
    <3>4. QED
      BY <3>1, <3>3 DEF SparseOK
  <2>3. CASE DenseSub(k, q)
    <3>1. Taken(k, q) /\ kind = "dense" /\ kind' = kind
      BY <2>3 DEF DenseSub, Taken
    <3>2. VolumeOK /\ DenseOK
      BY <3>1, Zenon DEF VolumeInv, Taken
    <3>3. VolumeOK' /\ DenseOK'
      BY <2>3, <3>1, <3>2, VolumeTaken, DenseSubKeeps
    <3>4. QED
      BY <3>1, <3>3 DEF SparseOK
  <2>4. CASE SparseAdd(k, q)
    <3>1. Added(k, q) /\ kind = "sparse" /\ kind' = kind
      BY <2>4 DEF SparseAdd, Added
    <3>2. VolumeOK /\ SparseOK
      BY <3>1, Zenon DEF VolumeInv, Added
    <3>3. VolumeOK' /\ SparseOK'
      BY <2>4, <3>1, <3>2, VolumeAdded, SparseAddKeeps
    <3>4. QED
      BY <3>1, <3>3 DEF DenseOK
  <2>5. CASE SparseSub(k, q)
    <3>1. Taken(k, q) /\ kind = "sparse" /\ kind' = kind
      BY <2>5 DEF SparseSub, Taken
    <3>2. VolumeOK /\ SparseOK
      BY <3>1, Zenon DEF VolumeInv, Taken
    <3>3. VolumeOK' /\ SparseOK'
      BY <2>5, <3>1, <3>2, VolumeTaken, SparseSubKeeps
    <3>4. QED
      BY <3>1, <3>3 DEF DenseOK
  <2>6. QED
    BY <2>1, <2>2, <2>3, <2>4, <2>5
<1>3. QED
  BY <1>1, <1>2

\* The invariant of both indices (FenwickTree and SparseVolumeIndex, lib.rs:17-156).
THEOREM VolumeInvariant == Spec => []VolumeInv
<1>1. QED
  BY VolumeBegins, VolumeStep, PTL DEF Spec

-----------------------------------------------------------------------------
\* The dense index answers each query from the front and from the back with the sum of
\* what was added and not taken off, whatever the number of ticks (FenwickTree,
\* lib.rs:28-73), unless the total has outgrown a node.
THEOREM DenseIndexIsExact == Spec => []DenseSumsAreExact
<1>1. VolumeInv => DenseSumsAreExact
  <2> SUFFICES ASSUME VolumeInv, kind = "dense", ~overflowed PROVE DenseSumsAreExact
    BY DEF DenseSumsAreExact
  <2>1. VolumeOK /\ DenseOK
    BY DEF VolumeInv
  <2>2. QED
    BY <2>1, DenseAnswers
<1>2. QED
  BY <1>1, VolumeInvariant, PTL

\* The sparse index does, at prices in it and between them: rebuilding the tree whenever a
\* price comes or goes keeps ranks and nodes aligned (SparseVolumeIndex, lib.rs:83-156).
THEOREM SparseIndexIsExact == Spec => []SparseSumsAreExact
<1>1. VolumeInv => SparseSumsAreExact
  <2> SUFFICES ASSUME VolumeInv, kind = "sparse", ~overflowed PROVE SparseSumsAreExact
    BY DEF SparseSumsAreExact
  <2>1. VolumeOK /\ SparseOK
    BY DEF VolumeInv
  <2>2. QED
    BY <2>1, SparseAnswers
<1>2. QED
  BY <1>1, VolumeInvariant, PTL

\* Whoever takes off only what was added finds the price in the index and enough at it
\* (the two expects of SparseVolumeIndex::sub, lib.rs:106-115).
THEOREM SparseSubFinds == Spec => []SparseSubDoesNotPanic
<1>1. VolumeInv => SparseSubDoesNotPanic
  BY IndexAssumption DEF VolumeInv, VolumeOK, DenseOK, SparseOK, SparseSubDoesNotPanic
<1>2. QED
  BY <1>1, VolumeInvariant, PTL
=============================================================================
