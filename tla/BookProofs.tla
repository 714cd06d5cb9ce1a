----------------------------- MODULE BookProofs -----------------------------
(***************************************************************************)
(* For every price range, window, arena capacity and set of orders.  The   *)
(* queues of the book hold exactly its live orders, each level is where    *)
(* the window says, and the cached best prices name levels with orders.    *)
(* Time priority, totals that are the sums of what the orders have left,   *)
(* moves of the window that lose nothing; volume indices that never hold   *)
(* less than the levels, which is why no expect fires and the              *)
(* fill-or-kill query never answers less than the book can fill.           *)
(***************************************************************************)
EXTENDS OrderBook, FunctionTheorems, FiniteSetTheorems, SequenceTheorems, WellFoundedInduction, TLAPS

(***************************************************************************)
(* Sums of a function over a finite set (SumFunctionOnSet of Functions):   *)
(* what the totals of the levels and the volume indices are made of.       *)
(***************************************************************************)
\* Induction over the natural numbers, as a statement about sets.
LEMMA NaturalsFrom ==
  ASSUME NEW P \in SUBSET Nat, 0 \in P, \A n \in P : n + 1 \in P
  PROVE  P = Nat
<1> DEFINE R == OpToRel(<, Nat)
           T == Nat \ P
<1>1. IsWellFoundedOn(R, Nat)
  BY NatLessThanWellFounded
<1>2. SUFFICES ASSUME T # {} PROVE FALSE
  OBVIOUS
<1>3. PICK x \in T : \A y \in T : ~(<<y, x>> \in R)
  <2>1. T \subseteq Nat
    OBVIOUS
  <2> HIDE DEF R, T
  <2>2. QED
    BY <1>1, <1>2, <2>1, WFMin
<1>4. x \in Nat /\ x # 0 /\ x - 1 \in Nat /\ x - 1 < x /\ (x - 1) + 1 = x
  OBVIOUS
<1>5. x - 1 \notin P
  BY <1>4
<1>6. <<x - 1, x>> \in R
  BY <1>4 DEF OpToRel
<1>7. QED
  BY <1>3, <1>4, <1>5, <1>6

\* g gives the sum of F over each subset of S.
Additive(g, F, S) ==
  /\ g \in [SUBSET S -> Int]
  /\ g[{}] = 0
  /\ \A T \in SUBSET S : \A x \in S \ T : g[T \cup {x}] = g[T] + F[x]

\* The subsets of S with at most n elements.
UpTo(S, n) == {T \in SUBSET S : Cardinality(T) <= n}

LEMMA AdditiveExists ==
  ASSUME NEW S, IsFiniteSet(S), NEW F, \A x \in S : F[x] \in Int
  PROVE  \E g : Additive(g, F, S)
<1> DEFINE P == {n \in Nat : \A T \in SUBSET S : Cardinality(T) = n => \E g : Additive(g, F, T)}
<1>1. 0 \in P
  <2> SUFFICES ASSUME NEW T \in SUBSET S, Cardinality(T) = 0
               PROVE  \E g : Additive(g, F, T)
    OBVIOUS
  <2>1. T = {}
    BY FS_Subset, FS_EmptySet
  <2> DEFINE g == [U \in SUBSET T |-> 0]
  <2>2. Additive(g, F, T)
    BY <2>1 DEF Additive
  <2>3. QED
    BY <2>2
<1>2. ASSUME NEW n \in P PROVE n + 1 \in P
  <2> SUFFICES ASSUME NEW T \in SUBSET S, Cardinality(T) = n + 1
               PROVE  \E g : Additive(g, F, T)
    OBVIOUS
  <2>1. IsFiniteSet(T) /\ T # {} /\ n \in Nat
    BY FS_Subset, FS_EmptySet
  <2>2. PICK a \in T : TRUE
    BY <2>1
  <2> DEFINE T0 == T \ {a}
  <2>3. T0 \in SUBSET S /\ Cardinality(T0) = n
    <3>1. Cardinality(T \ {a}) = Cardinality(T) - 1
      BY <2>1, <2>2, FS_RemoveElement
    <3>2. QED
      BY <2>1, <3>1
  <2>4. PICK g0 : Additive(g0, F, T0)
    BY <2>3
  <2> HIDE DEF P
  <2> DEFINE g == [U \in SUBSET T |-> g0[U \ {a}] + IF a \in U THEN F[a] ELSE 0]
  <2>5. F[a] \in Int
    BY <2>2
  <2>6. g0 \in [SUBSET T0 -> Int] /\ g0[{}] = 0
    BY <2>4 DEF Additive
  <2>7. \A U \in SUBSET T : U \ {a} \in SUBSET T0
    OBVIOUS
  <2>8. \A U \in SUBSET T : g0[U \ {a}] \in Int
    BY <2>6, <2>7
  <2>9. g \in [SUBSET T -> Int] /\ \A U \in SUBSET T : g[U] = g0[U \ {a}] + IF a \in U THEN F[a] ELSE 0
    <3>1. ASSUME NEW U \in SUBSET T PROVE g0[U \ {a}] + (IF a \in U THEN F[a] ELSE 0) \in Int
      <4> DEFINE i == g0[U \ {a}]
      <4>1. i \in Int
        BY <2>8, Zenon
      <4> HIDE DEF i
      <4>2. i + (IF a \in U THEN F[a] ELSE 0) \in Int
        BY <2>5, <4>1
      <4>3. QED
        BY <4>2, Zenon DEF i
    <3>2. QED
      BY <3>1, Zenon
  <2> HIDE DEF g
  <2>10. g[{}] = 0
    <3>1. {} \ {a} = {} /\ a \notin {} /\ {} \in SUBSET T
      OBVIOUS
    <3>2. QED
      BY <2>6, <2>9, <3>1
  <2>11. ASSUME NEW U \in SUBSET T, NEW x \in T \ U PROVE g[U \cup {x}] = g[U] + F[x]
    <3> DEFINE i == g0[U \ {a}]
               j == g0[(U \cup {x}) \ {a}]
    <3>1. U \cup {x} \in SUBSET T /\ i \in Int
      BY <2>8, Zenon
    <3>2. CASE x = a
      <4>1. (U \cup {x}) \ {a} = U \ {a} /\ a \notin U /\ a \in U \cup {x}
        BY <3>2
      <4>2. j = i
        BY <4>1, Zenon
      <4>3. g[U \cup {x}] = j + F[a] /\ g[U] = i + 0
        BY <2>9, <3>1, <4>1, Zenon
      <4> HIDE DEF i, j
      <4>4. QED
        BY <2>5, <3>1, <3>2, <4>2, <4>3
    <3>3. CASE x # a
      <4>1. /\ (U \cup {x}) \ {a} = (U \ {a}) \cup {x}
            /\ a \in U \cup {x} <=> a \in U
            /\ x \in T0 \ (U \ {a})
        BY <3>3
      <4>2. g0[(U \ {a}) \cup {x}] = g0[U \ {a}] + F[x]
        BY <2>4, <2>7, <4>1 DEF Additive
      <4>3. F[x] \in Int
        OBVIOUS
      <4>4. j = i + F[x]
        BY <4>1, <4>2, Zenon
      <4> DEFINE k == IF a \in U THEN F[a] ELSE 0
      <4>5. g[U \cup {x}] = j + k /\ g[U] = i + k
        BY <2>9, <3>1, <4>1, Zenon
      <4>6. k \in Int
        BY <2>5
      <4> HIDE DEF i, j, k
      <4>7. QED
        BY <3>1, <4>3, <4>4, <4>5, <4>6
    <3>4. QED
      BY <3>2, <3>3
  <2>12. Additive(g, F, T)
    BY <2>9, <2>10, <2>11, Zenon DEF Additive
  <2>13. QED
    BY <2>12
<1>3. P = Nat
  <2>1. P \in SUBSET Nat
    OBVIOUS
  <2> HIDE DEF P
  <2>2. QED
    BY <1>1, <1>2, <2>1, NaturalsFrom
<1>4. QED
  BY <1>3, FS_CardinalityType

\* The recursion of MapThenFoldSet has the additive function as its only solution.
Recursion(f, F, S) ==
  f = [T \in SUBSET S |-> IF T = {} THEN 0
                          ELSE F[CHOOSE x \in T : TRUE] + f[T \ {CHOOSE x \in T : TRUE}]]

LEMMA RecursionIsAdditive ==
  ASSUME NEW S, IsFiniteSet(S), NEW F, \A x \in S : F[x] \in Int,
         NEW g, Additive(g, F, S), NEW f
  PROVE  Recursion(f, F, S) <=> f = g
<1>1. ASSUME NEW T \in SUBSET S, T # {}
      PROVE  LET x == CHOOSE x \in T : TRUE
             IN  x \in T /\ T \ {x} \in SUBSET S /\ g[T] = F[x] + g[T \ {x}] /\ g[T \ {x}] \in Int
  <2> DEFINE x == CHOOSE x \in T : TRUE
  <2>1. x \in T
    BY <1>1
  <2> HIDE DEF x
  <2>2. T \ {x} \in SUBSET S /\ x \in S \ (T \ {x}) /\ (T \ {x}) \cup {x} = T
    BY <2>1
  <2>3. g[T] = g[T \ {x}] + F[x]
    <3>1. g[(T \ {x}) \cup {x}] = g[T \ {x}] + F[x]
      BY <2>2 DEF Additive
    <3>2. g[(T \ {x}) \cup {x}] = g[T]
      BY <2>2, Zenon
    <3>3. QED
      BY <3>1, <3>2
  <2>4. g[T \ {x}] \in Int /\ F[x] \in Int
    BY <2>1, <2>2 DEF Additive
  <2>5. x \in T /\ T \ {x} \in SUBSET S /\ g[T] = F[x] + g[T \ {x}] /\ g[T \ {x}] \in Int
    BY <2>1, <2>2, <2>3, <2>4
  <2>6. QED
    BY <2>5 DEF x
<1>2. g = [T \in SUBSET S |-> g[T]] /\ g[{}] = 0
  BY DEF Additive
<1>3. ASSUME f = g PROVE Recursion(f, F, S)
  BY <1>1, <1>2, <1>3 DEF Recursion
<1>4. ASSUME Recursion(f, F, S) PROVE f = g
  <2> DEFINE P == {n \in Nat : \A T \in UpTo(S, n) : f[T] = g[T]}
  <2>1. /\ f = [T \in SUBSET S |-> f[T]]
        /\ \A T \in SUBSET S :
             f[T] = IF T = {} THEN 0
                    ELSE F[CHOOSE x \in T : TRUE] + f[T \ {CHOOSE x \in T : TRUE}]
    BY <1>4 DEF Recursion
  <2>2. \A T \in SUBSET S : IsFiniteSet(T) /\ Cardinality(T) \in Nat
    BY FS_Subset, FS_CardinalityType
  <2>3. f[{}] = g[{}]
    BY <1>2, <2>1
  <2>4. 0 \in P
    <3>1. \A T \in UpTo(S, 0) : T = {}
      BY <2>2, FS_EmptySet DEF UpTo
    <3>2. QED
      BY <2>3, <3>1
  <2>5. ASSUME NEW n \in P PROVE n + 1 \in P
    <3> SUFFICES ASSUME NEW T \in UpTo(S, n + 1) PROVE f[T] = g[T]
      OBVIOUS
    <3>1. CASE T = {}
      BY <2>3, <3>1
    <3>2. CASE T # {}
      <4> DEFINE x == CHOOSE x \in T : TRUE
      <4>1. x \in T /\ T \in SUBSET S /\ T \ {x} \in SUBSET S
        BY <3>2 DEF UpTo
      <4>2. g[T] = F[x] + g[T \ {x}] /\ f[T] = F[x] + f[T \ {x}]
        BY <1>1, <2>1, <3>2, <4>1
      <4> HIDE DEF x
      <4>3. T \ {x} \in UpTo(S, n)
        BY <2>2, <4>1, FS_RemoveElement DEF UpTo
      <4>4. QED
        BY <4>2, <4>3
    <3>3. QED
      BY <3>1, <3>2
  <2>6. P = Nat
    <3>1. P \in SUBSET Nat
      OBVIOUS
    <3> HIDE DEF P
    <3>2. QED
      BY <2>4, <2>5, <3>1, NaturalsFrom
  <2>7. \A T \in SUBSET S : f[T] = g[T]
    BY <2>2, <2>6 DEF UpTo
  <2>8. QED
    BY <1>2, <2>1, <2>7
<1>5. QED
  BY <1>3, <1>4

LEMMA SumIsAdditive ==
  ASSUME NEW S, IsFiniteSet(S), NEW F, \A x \in S : F[x] \in Int,
         NEW g, Additive(g, F, S)
  PROVE  SumFunctionOnSet(F, S) = g[S]
<1> DEFINE iter == CHOOSE f : Recursion(f, F, S)
<1>1. iter = g
  BY RecursionIsAdditive
<1>2. SumFunctionOnSet(F, S) = iter[S]
  BY Zenon DEF SumFunctionOnSet, FoldFunctionOnSet, MapThenFoldSet, Recursion
<1>3. QED
  BY <1>1, <1>2

LEMMA SumOfSubset ==
  ASSUME NEW S, IsFiniteSet(S), NEW F, \A x \in S : F[x] \in Int,
         NEW g, Additive(g, F, S), NEW T \in SUBSET S
  PROVE  SumFunctionOnSet(F, T) = g[T]
<1> DEFINE h == [U \in SUBSET T |-> g[U]]
<1>1. IsFiniteSet(T) /\ \A x \in T : F[x] \in Int
  BY FS_Subset
<1>2. \A U \in SUBSET T : U \in SUBSET S /\ h[U] = g[U]
  OBVIOUS
<1>3. \A U \in SUBSET T : g[U] \in Int
  BY <1>2 DEF Additive
<1>4. h \in [SUBSET T -> Int]
  BY <1>3, Zenon
<1> HIDE DEF h
<1>5. ASSUME NEW U \in SUBSET T, NEW x \in T \ U PROVE h[U \cup {x}] = h[U] + F[x]
  <2>1. U \cup {x} \in SUBSET T /\ U \in SUBSET S /\ x \in S \ U
    OBVIOUS
  <2>2. g[U \cup {x}] = g[U] + F[x]
    BY <2>1, Zenon DEF Additive
  <2>3. QED
    BY <1>2, <2>1, <2>2, Zenon
<1>6. h[{}] = 0
  <2>1. {} \in SUBSET T
    OBVIOUS
  <2>2. QED
    BY <1>2, <2>1, Zenon DEF Additive
<1>7. Additive(h, F, T)
  BY <1>4, <1>5, <1>6, Zenon DEF Additive
<1>8. SumFunctionOnSet(F, T) = h[T]
  BY <1>1, <1>7, SumIsAdditive
<1>9. T \in SUBSET T
  OBVIOUS
<1>10. QED
  BY <1>2, <1>8, <1>9, Zenon

-----------------------------------------------------------------------------
(* What the proofs about the order book use. *)

LEMMA SumType ==
  ASSUME NEW S, IsFiniteSet(S), NEW F, \A x \in S : F[x] \in Int
  PROVE  SumFunctionOnSet(F, S) \in Int
<1>1. PICK g : Additive(g, F, S)
  BY AdditiveExists
<1>2. SumFunctionOnSet(F, S) = g[S]
  BY <1>1, SumIsAdditive
<1>3. g[S] \in Int
  <2>1. S \in SUBSET S
    OBVIOUS
  <2>2. QED
    BY <1>1, <2>1, Zenon DEF Additive
<1>4. QED
  BY <1>2, <1>3, Zenon

LEMMA SumEmpty ==
  ASSUME NEW F
  PROVE  SumFunctionOnSet(F, {}) = 0
<1>1. IsFiniteSet({})
  BY FS_EmptySet
<1>2. \A x \in {} : F[x] \in Int
  OBVIOUS
<1>3. PICK g : Additive(g, F, {})
  BY <1>1, <1>2, AdditiveExists
<1>4. SumFunctionOnSet(F, {}) = g[{}]
  BY <1>1, <1>2, <1>3, SumIsAdditive
<1>5. QED
  BY <1>3, <1>4, Zenon DEF Additive

LEMMA SumAdd ==
  ASSUME NEW S, IsFiniteSet(S), NEW x, x \notin S, NEW F, F[x] \in Int, \A y \in S : F[y] \in Int
  PROVE  SumFunctionOnSet(F, S \cup {x}) = SumFunctionOnSet(F, S) + F[x]
<1> DEFINE T == S \cup {x}
<1>1. IsFiniteSet(T) /\ \A y \in T : F[y] \in Int
  BY FS_AddElement
<1>2. S \in SUBSET T /\ x \in T \ S /\ T = S \cup {x}
  OBVIOUS
<1> HIDE DEF T
<1>3. PICK g : Additive(g, F, T)
  BY <1>1, AdditiveExists
<1>4. SumFunctionOnSet(F, T) = g[T] /\ SumFunctionOnSet(F, S) = g[S]
  BY <1>1, <1>2, <1>3, SumOfSubset, SumIsAdditive
<1>5. g[T] = g[S] + F[x]
  BY <1>2, <1>3, Zenon DEF Additive
<1>6. QED
  BY <1>2, <1>4, <1>5, Zenon

LEMMA SumRemove ==
  ASSUME NEW S, IsFiniteSet(S), NEW x \in S, NEW F, \A y \in S : F[y] \in Int
  PROVE  SumFunctionOnSet(F, S \ {x}) = SumFunctionOnSet(F, S) - F[x]
<1> DEFINE T == S \ {x}
<1>1. IsFiniteSet(T) /\ x \notin T /\ F[x] \in Int /\ \A y \in T : F[y] \in Int
  BY FS_RemoveElement
<1>2. S = T \cup {x}
  OBVIOUS
<1> HIDE DEF T
<1>3. SumFunctionOnSet(F, T \cup {x}) = SumFunctionOnSet(F, T) + F[x]
  BY <1>1, SumAdd
<1>4. SumFunctionOnSet(F, S) = SumFunctionOnSet(F, T) + F[x]
  BY <1>2, <1>3, Zenon
<1>5. SumFunctionOnSet(F, T) \in Int
  BY <1>1, SumType
<1>6. SumFunctionOnSet(F, T) = SumFunctionOnSet(F, S) - F[x]
  BY <1>1, <1>4, <1>5
<1>7. QED
  BY <1>6 DEF T

LEMMA SumSame ==
  ASSUME NEW S, IsFiniteSet(S), NEW F, NEW G, \A x \in S : F[x] \in Int /\ G[x] = F[x]
  PROVE  SumFunctionOnSet(G, S) = SumFunctionOnSet(F, S)
<1>1. PICK g : Additive(g, F, S)
  BY AdditiveExists
<1>2. Additive(g, G, S)
  <2>1. ASSUME NEW T \in SUBSET S, NEW x \in S \ T PROVE g[T \cup {x}] = g[T] + G[x]
    <3>1. g[T \cup {x}] = g[T] + F[x] /\ G[x] = F[x]
      BY <1>1, Zenon DEF Additive
    <3>2. QED
      BY <3>1, Zenon
  <2>2. QED
    BY <1>1, <2>1, Zenon DEF Additive
<1>3. (\A x \in S : F[x] \in Int) /\ (\A x \in S : G[x] \in Int)
  OBVIOUS
<1>4. SumFunctionOnSet(F, S) = g[S]
  BY <1>1, <1>3, SumIsAdditive
<1>5. SumFunctionOnSet(G, S) = g[S]
  BY <1>2, <1>3, SumIsAdditive
<1>6. QED
  BY <1>4, <1>5

\* The value at one element of the set changes by d.
LEMMA SumChange ==
  ASSUME NEW S, IsFiniteSet(S), NEW x \in S, NEW d \in Int, NEW F, NEW G,
         \A y \in S : F[y] \in Int /\ G[y] = IF y = x THEN F[y] + d ELSE F[y]
  PROVE  SumFunctionOnSet(G, S) = SumFunctionOnSet(F, S) + d
<1> DEFINE T == S \ {x}
<1>1. (\A y \in S : F[y] \in Int) /\ (\A y \in S : G[y] \in Int)
  OBVIOUS
<1>2. IsFiniteSet(T) /\ \A y \in T : F[y] \in Int /\ G[y] = F[y]
  BY FS_RemoveElement
<1>3. /\ SumFunctionOnSet(F, T) = SumFunctionOnSet(F, S) - F[x]
      /\ SumFunctionOnSet(G, T) = SumFunctionOnSet(G, S) - G[x]
  BY <1>1, SumRemove
<1> HIDE DEF T
<1>4. SumFunctionOnSet(G, T) = SumFunctionOnSet(F, T)
  BY <1>2, SumSame
<1>5. SumFunctionOnSet(F, S) \in Int /\ SumFunctionOnSet(G, S) \in Int
  BY <1>1, SumType
<1>6. G[x] = F[x] + d /\ F[x] \in Int
  OBVIOUS
<1> DEFINE i == SumFunctionOnSet(F, S)
           j == SumFunctionOnSet(G, S)
           k == SumFunctionOnSet(F, T)
           y == F[x]
           z == G[x]
<1>7. k = i - y /\ k = j - z /\ z = y + d /\ i \in Int /\ j \in Int /\ y \in Int
  BY <1>3, <1>4, <1>5, <1>6, Zenon
<1> HIDE DEF i, j, k, y, z
<1>8. j = i + d
  BY <1>7
<1>9. QED
  BY <1>8, Zenon DEF i, j

\* A larger set and larger values give a larger sum, if no value is negative.
LEMMA SumMonotone ==
  ASSUME NEW S, IsFiniteSet(S), NEW T \in SUBSET S, NEW F, NEW G,
         \A x \in S : G[x] \in Nat, \A x \in T : F[x] \in Int /\ F[x] <= G[x]
  PROVE  SumFunctionOnSet(F, T) <= SumFunctionOnSet(G, S)
<1>1. PICK f : Additive(f, F, T)
  <2>1. IsFiniteSet(T) /\ \A x \in T : F[x] \in Int
    BY FS_Subset
  <2>2. QED
    BY <2>1, AdditiveExists
<1>2. PICK g : Additive(g, G, S)
  <2>1. \A x \in S : G[x] \in Int
    OBVIOUS
  <2>2. QED
    BY <2>1, AdditiveExists
<1> DEFINE P == {n \in Nat : \A U \in UpTo(S, n) : f[U \cap T] <= g[U]}
<1>3. \A U \in SUBSET S : IsFiniteSet(U) /\ Cardinality(U) \in Nat
  BY FS_Subset, FS_CardinalityType
<1>4. f[{}] = 0 /\ g[{}] = 0
  BY <1>1, <1>2 DEF Additive
<1>5. 0 \in P
  <2>1. \A U \in UpTo(S, 0) : U = {} /\ U \cap T = {}
    BY <1>3, FS_EmptySet DEF UpTo
  <2>2. \A U \in UpTo(S, 0) : f[U \cap T] = 0 /\ g[U] = 0
    BY <1>4, <2>1, Zenon
  <2>3. QED
    BY <2>2
<1>6. ASSUME NEW n \in P PROVE n + 1 \in P
  <2> SUFFICES ASSUME NEW U \in UpTo(S, n + 1) PROVE f[U \cap T] <= g[U]
    OBVIOUS
  <2>1. U \in SUBSET S /\ Cardinality(U) <= n + 1 /\ n \in Nat
    BY DEF UpTo
  <2>2. CASE U = {}
    <3>1. U \cap T = {}
      BY <2>2
    <3>2. f[U \cap T] = 0 /\ g[U] = 0
      BY <1>4, <2>2, <3>1, Zenon
    <3>3. QED
      BY <3>2
  <2>3. CASE U # {}
    <3>1. PICK x \in U : TRUE
      BY <2>3
    <3> DEFINE V == U \ {x}
               i == f[V \cap T]
               j == g[V]
    <3>2. V \in UpTo(S, n)
      <4>1. IsFiniteSet(U) /\ Cardinality(U) \in Nat /\ V \in SUBSET S
        BY <1>3, <2>1
      <4>2. Cardinality(V) = Cardinality(U) - 1
        BY <3>1, <4>1, FS_RemoveElement
      <4>3. QED
        BY <2>1, <4>1, <4>2 DEF UpTo
    <3>3. V \in SUBSET S /\ V \cap T \in SUBSET T
      BY <2>1
    <3>4. i <= j
      BY <3>2
    <3>5. i \in Int /\ j \in Int
      BY <1>1, <1>2, <3>3, Zenon DEF Additive
    <3>6. g[U] = j + G[x] /\ G[x] \in Nat
      <4>1. x \in S \ V /\ V \cup {x} = U /\ x \in S
        BY <2>1, <3>1
      <4>2. g[V \cup {x}] = g[V] + G[x]
        BY <1>2, <3>3, <4>1, Zenon DEF Additive
      <4>3. g[U] = j + G[x]
        BY <4>1, <4>2, Zenon
      <4>4. QED
        BY <4>1, <4>3, Zenon
    <3> HIDE DEF j
    <3>7. CASE x \in T
      <4>1. x \in T \ (V \cap T) /\ (V \cap T) \cup {x} = U \cap T
        BY <3>1, <3>7
      <4>2. f[(V \cap T) \cup {x}] = i + F[x]
        BY <1>1, <3>3, <4>1, Zenon DEF Additive
      <4>3. f[U \cap T] = i + F[x]
        BY <4>1, <4>2, Zenon
      <4> HIDE DEF i
      <4>4. F[x] \in Int /\ F[x] <= G[x]
        BY <3>7
      <4>5. QED
        BY <3>4, <3>5, <3>6, <4>3, <4>4
    <3>8. CASE x \notin T
      <4>1. V \cap T = U \cap T
        BY <3>8
      <4>2. f[U \cap T] = i
        BY <4>1, Zenon
      <4> HIDE DEF i
      <4>3. QED
        BY <3>4, <3>5, <3>6, <4>2
    <3>9. QED
      BY <3>7, <3>8
  <2>4. QED
    BY <2>2, <2>3
<1>7. P = Nat
  <2>1. P \in SUBSET Nat
    OBVIOUS
  <2> HIDE DEF P
  <2>2. QED
    BY <1>5, <1>6, <2>1, NaturalsFrom
<1>8. f[S \cap T] <= g[S]
  <2>1. S \in UpTo(S, Cardinality(S)) /\ Cardinality(S) \in Nat
    BY <1>3 DEF UpTo
  <2>2. QED
    BY <1>7, <2>1
<1>9. f[S \cap T] = f[T]
  <2>1. S \cap T = T
    OBVIOUS
  <2>2. QED
    BY <2>1, Zenon
<1>10. SumFunctionOnSet(F, T) = f[T] /\ SumFunctionOnSet(G, S) = g[S]
  <2>1. (\A x \in S : G[x] \in Int) /\ IsFiniteSet(T) /\ (\A x \in T : F[x] \in Int)
    BY FS_Subset
  <2>2. QED
    BY <1>1, <1>2, <2>1, SumIsAdditive
<1>11. QED
  BY <1>8, <1>9, <1>10

\* The sum over two sets that have nothing in common.
LEMMA SumUnion ==
  ASSUME NEW S, IsFiniteSet(S), NEW A \in SUBSET S, NEW B \in SUBSET S, A \cap B = {}, NEW F,
         \A x \in S : F[x] \in Int
  PROVE  SumFunctionOnSet(F, A \cup B) = SumFunctionOnSet(F, A) + SumFunctionOnSet(F, B)
<1>1. PICK g : Additive(g, F, S)
  BY AdditiveExists
<1> DEFINE h == [U \in SUBSET B |-> g[A \cup U] - g[A]]
<1>2. \A U \in SUBSET S : g[U] \in Int
  BY <1>1, Zenon DEF Additive
<1>3. \A U \in SUBSET B : h[U] = g[A \cup U] - g[A]
  OBVIOUS
<1>4. \A U \in SUBSET B : A \cup U \in SUBSET S
  OBVIOUS
<1>5. h \in [SUBSET B -> Int]
  <2>1. ASSUME NEW U \in SUBSET B PROVE g[A \cup U] - g[A] \in Int
    <3> DEFINE i == g[A \cup U]
               j == g[A]
    <3>1. i \in Int /\ j \in Int
      BY <1>2, <1>4, Zenon
    <3> HIDE DEF i, j
    <3>2. i - j \in Int
      BY <3>1
    <3>3. QED
      BY <3>2 DEF i, j
  <2>2. QED
    BY <2>1, Zenon
<1> HIDE DEF h
<1>6. h[{}] = 0
  <2> DEFINE i == g[A]
  <2>1. {} \in SUBSET B /\ A \cup {} = A
    OBVIOUS
  <2>2. i \in Int /\ h[{}] = i - i
    BY <1>2, <1>3, <2>1, Zenon
  <2> HIDE DEF i
  <2>3. QED
    BY <2>2
<1>7. ASSUME NEW U \in SUBSET B, NEW x \in B \ U PROVE h[U \cup {x}] = h[U] + F[x]
  <2> DEFINE i == g[A \cup U]
             j == g[A]
             k == F[x]
  <2>1. /\ U \cup {x} \in SUBSET B /\ A \cup (U \cup {x}) = (A \cup U) \cup {x}
        /\ A \cup U \in SUBSET S /\ x \in S \ (A \cup U)
    OBVIOUS
  <2>2. g[(A \cup U) \cup {x}] = i + k
    BY <1>1, <2>1, Zenon DEF Additive
  <2>3. h[U \cup {x}] = g[A \cup (U \cup {x})] - j
    BY <1>3, <2>1, Zenon
  <2>4. h[U \cup {x}] = (i + k) - j
    BY <2>1, <2>2, <2>3, Zenon
  <2>5. h[U] = i - j
    BY <1>3, Zenon
  <2>6. i \in Int /\ j \in Int /\ k \in Int
    BY <1>2, <2>1, Zenon
  <2> HIDE DEF i, j, k
  <2>7. h[U \cup {x}] = h[U] + k
    BY <2>4, <2>5, <2>6
  <2>8. QED
    BY <2>7 DEF k
<1>8. Additive(h, F, B)
  BY <1>5, <1>6, <1>7, Zenon DEF Additive
<1>9. SumFunctionOnSet(F, B) = h[B]
  <2>1. IsFiniteSet(B) /\ \A x \in B : F[x] \in Int
    BY FS_Subset
  <2>2. QED
    BY <1>8, <2>1, SumIsAdditive
<1>10. SumFunctionOnSet(F, A) = g[A] /\ SumFunctionOnSet(F, A \cup B) = g[A \cup B]
  <2>1. A \cup B \in SUBSET S
    OBVIOUS
  <2>2. QED
    BY <1>1, <2>1, SumOfSubset
<1>11. h[B] = g[A \cup B] - g[A] /\ g[A \cup B] \in Int /\ g[A] \in Int
  <2>1. B \in SUBSET B
    OBVIOUS
  <2>2. QED
    BY <1>2, <1>3, <1>4, <2>1, Zenon
<1>12. QED
  BY <1>9, <1>10, <1>11

\* Sums of zeros.
LEMMA SumZero ==
  ASSUME NEW S, IsFiniteSet(S), NEW F, \A x \in S : F[x] = 0
  PROVE  SumFunctionOnSet(F, S) = 0
<1> DEFINE g == [U \in SUBSET S |-> 0]
<1>1. Additive(g, F, S) /\ g[S] = 0 /\ \A x \in S : F[x] \in Int
  BY DEF Additive
<1> HIDE DEF g
<1>2. QED
  BY <1>1, SumIsAdditive

\* S is the set I moved by b.
Moved(S, I, b) ==
  b \in Int /\ S \in SUBSET Int /\ (\A i \in I : b + i \in S) /\ \A x \in S : x - b \in I

\* An array read at i is the function read at b + i.
LEMMA SumShift ==
  ASSUME NEW I \in SUBSET Int, IsFiniteSet(I), NEW S, IsFiniteSet(S), NEW b, Moved(S, I, b),
         NEW D, NEW F, \A i \in I : F[b + i] \in Int /\ D[i] = F[b + i]
  PROVE  SumFunctionOnSet(D, I) = SumFunctionOnSet(F, S)
<1> USE DEF Moved
<1> DEFINE place(U) == {b + i : i \in U}
<1>1. \A x \in S : F[x] \in Int
  <2>1. \A x \in S : x - b \in I /\ b + (x - b) = x
    OBVIOUS
  <2>2. QED
    BY <2>1
<1>2. PICK g : Additive(g, F, S)
  BY <1>1, AdditiveExists
<1>3. \A U \in SUBSET I : place(U) \in SUBSET S
  OBVIOUS
<1> DEFINE h == [U \in SUBSET I |-> g[place(U)]]
<1>4. ASSUME NEW U \in SUBSET I, NEW i \in I \ U
      PROVE  place(U \cup {i}) = place(U) \cup {b + i} /\ b + i \in S \ place(U)
  <2>1. \A j \in U : b + j # b + i
    OBVIOUS
  <2>2. QED
    BY <2>1
<1>5. place({}) = {} /\ place(I) = S
  <2>1. \A x \in S : x - b \in I /\ x = b + (x - b)
    OBVIOUS
  <2>2. QED
    BY <2>1
<1> HIDE DEF place, Moved
<1>6. \A U \in SUBSET I : h[U] = g[place(U)] /\ g[place(U)] \in Int
  <2>1. \A V \in SUBSET S : g[V] \in Int
    BY <1>2, Zenon DEF Additive
  <2>2. QED
    BY <1>3, <2>1, Zenon
<1>7. h \in [SUBSET I -> Int]
  BY <1>6, Zenon
<1> HIDE DEF h
<1>8. h[{}] = 0
  <2>1. {} \in SUBSET I
    OBVIOUS
  <2>2. QED
    BY <1>2, <1>5, <1>6, <2>1, Zenon DEF Additive
<1>9. ASSUME NEW U \in SUBSET I, NEW i \in I \ U PROVE h[U \cup {i}] = h[U] + D[i]
  <2>1. U \cup {i} \in SUBSET I /\ D[i] = F[b + i]
    OBVIOUS
  <2>2. g[place(U) \cup {b + i}] = g[place(U)] + F[b + i]
    BY <1>2, <1>3, <1>4, Zenon DEF Additive
  <2>3. QED
    BY <1>4, <1>6, <2>1, <2>2, Zenon
<1>10. Additive(h, D, I)
  BY <1>7, <1>8, <1>9, Zenon DEF Additive
<1>11. SumFunctionOnSet(D, I) = h[I]
  <2>1. \A i \in I : D[i] \in Int
    OBVIOUS
  <2>2. QED
    BY <1>10, <2>1, SumIsAdditive
<1>12. SumFunctionOnSet(F, S) = g[S]
  BY <1>1, <1>2, SumIsAdditive
<1>13. h[I] = g[S]
  <2>1. I \in SUBSET I
    OBVIOUS
  <2>2. QED
    BY <1>5, <1>6, <2>1, Zenon
<1>14. QED
  BY <1>11, <1>12, <1>13
-----------------------------------------------------------------------------
(***************************************************************************)
(* The levels, their queues and the best prices.                           *)
(***************************************************************************)
\* A set of natural numbers with an upper bound has a best element on each side.
LEMMA BestIsBest ==
  ASSUME NEW s \in Side, NEW N \in Nat, NEW P, P \subseteq 0 .. N, P # {}
  PROVE  BestOf(s, P) \in P /\ \A q \in P : ~Better(s, q, BestOf(s, P))
<1>1. \A T : T \subseteq Nat /\ T # {} => \E x \in T : \A y \in T : ~(y < x)
  <2> SUFFICES ASSUME NEW T, T \subseteq Nat, T # {}
               PROVE  \E x \in T : \A y \in T : ~(y < x)
    OBVIOUS
  <2> DEFINE R == OpToRel(<, Nat)
  <2>1. \E x \in T : \A y \in T : ~(<<y, x>> \in R)
    <3>1. IsWellFoundedOn(R, Nat)
      BY NatLessThanWellFounded
    <3> HIDE DEF R
    <3>2. QED
      BY <3>1, WFMin
  <2>2. PICK x \in T : \A y \in T : ~(<<y, x>> \in R)
    BY <2>1
  <2>3. ASSUME NEW y \in T, y < x PROVE FALSE
    <3>1. <<y, x>> \in R
      BY <2>3 DEF OpToRel
    <3>2. QED
      BY <2>2, <3>1
  <2>4. QED
    BY <2>3
<1>2. \E p \in P : \A q \in P : ~Better(s, q, p)
  <2>1. CASE s = "Ask"
    <3>1. P \subseteq Nat
      OBVIOUS
    <3>2. PICK p \in P : \A q \in P : ~(q < p)
      BY <1>1, <3>1
    <3>3. QED
      BY <2>1, <3>2 DEF Better
  <2>2. CASE s = "Bid"
    <3> DEFINE M == {N - p : p \in P}
    <3>1. M \subseteq Nat /\ M # {}
      <4>1. PICK e \in P : TRUE
        OBVIOUS
      <4>2. N - e \in M
        OBVIOUS
      <4>3. \A p \in P : N - p \in Nat
        OBVIOUS
      <4>4. QED
        BY <4>2, <4>3
    <3>2. PICK m \in M : \A y \in M : ~(y < m)
      BY <1>1, <3>1
    <3>3. PICK p \in P : m = N - p
      BY <3>2
    <3>4. ASSUME NEW q \in P, q > p PROVE FALSE
      <4>1. N - q \in M /\ N - q < m
        BY <3>3, <3>4
      <4>2. QED
        BY <3>2, <4>1
    <3>5. QED
      BY <2>2, <3>4 DEF Better
  <2>3. QED
    BY <2>1, <2>2 DEF Side
<1>3. QED
  BY <1>2 DEF BestOf

LEMMA BestExists ==
  ASSUME NEW s \in Side, NEW N \in Nat, NEW P, P \subseteq 0 .. N, P # {}
  PROVE  BestOf(s, P) \in P
BY BestIsBest

\* Removing one position of a queue.
LEMMA RemoveAtProperties ==
  ASSUME NEW S, NEW q \in Seq(S), NEW k \in 1 .. Len(q)
  PROVE  /\ RemoveAt(q, k) \in Seq(S)
         /\ Len(RemoveAt(q, k)) = Len(q) - 1
         /\ \A i \in 1 .. Len(q) - 1 : RemoveAt(q, k)[i] = IF i < k THEN q[i] ELSE q[i + 1]
<1> DEFINE a == SubSeq(q, 1, k - 1)
           b == SubSeq(q, k + 1, Len(q))
<1>1. Len(q) \in Nat /\ \A i \in 1 .. Len(q) : q[i] \in S
  OBVIOUS
<1>2. a \in Seq(S) /\ Len(a) = k - 1 /\ \A i \in 1 .. k - 1 : a[i] = q[i]
  <2>1. \A i \in 1 .. k - 1 : q[i] \in S
    BY <1>1
  <2>2. /\ a \in Seq(S) /\ Len(a) = IF 1 <= k - 1 THEN k - 1 - 1 + 1 ELSE 0
        /\ \A i \in 1 .. k - 1 - 1 + 1 : a[i] = q[1 + i - 1]
    BY <1>1, <2>1, SubSeqProperties
  <2> HIDE DEF a
  <2>3. QED
    BY <1>1, <2>2
<1>3. b \in Seq(S) /\ Len(b) = Len(q) - k /\ \A i \in 1 .. Len(q) - k : b[i] = q[k + i]
  <2>1. \A i \in k + 1 .. Len(q) : q[i] \in S
    BY <1>1
  <2>2. /\ b \in Seq(S) /\ Len(b) = IF k + 1 <= Len(q) THEN Len(q) - (k + 1) + 1 ELSE 0
        /\ \A i \in 1 .. Len(q) - (k + 1) + 1 : b[i] = q[k + 1 + i - 1]
    BY <1>1, <2>1, SubSeqProperties
  <2> HIDE DEF b
  <2>3. QED
    BY <1>1, <2>2
<1> HIDE DEF a, b
<1>4. /\ a \o b \in Seq(S) /\ Len(a \o b) = Len(a) + Len(b)
      /\ \A i \in 1 .. Len(a) + Len(b) : (a \o b)[i] = IF i <= Len(a) THEN a[i] ELSE b[i - Len(a)]
  BY <1>2, <1>3, ConcatProperties
<1>5. RemoveAt(q, k) = a \o b
  BY DEF RemoveAt, a, b
<1>6. ASSUME NEW i \in 1 .. Len(q) - 1
      PROVE  (a \o b)[i] = IF i < k THEN q[i] ELSE q[i + 1]
  <2>1. CASE i < k
    BY <1>1, <1>2, <1>3, <1>4, <2>1
  <2>2. CASE ~(i < k)
    <3>1. i - (k - 1) \in 1 .. Len(q) - k /\ k + (i - (k - 1)) = i + 1
      BY <1>1, <2>2
    <3>2. (a \o b)[i] = b[i - (k - 1)]
      BY <1>1, <1>2, <1>3, <1>4, <2>2
    <3>3. QED
      BY <1>3, <2>2, <3>1, <3>2
  <2>3. QED
    BY <2>1, <2>2
<1>7. a \o b \in Seq(S) /\ Len(a \o b) = Len(q) - 1
  BY <1>1, <1>2, <1>3, <1>4
<1>8. QED
  BY <1>5, <1>6, <1>7

-----------------------------------------------------------------------------
(* Reading levels. *)

LEMMA LevelAtType ==
  ASSUME BookTypeOK, NEW s \in Side, NEW p \in Price
  PROVE  LevelAt(s, p) \in Level /\ (InWindow(p) => p - base \in Index)
<1>1. InWindow(p) => p - base \in Index
  BY BookAssumption DEF InWindow, Index, BookTypeOK, Price
<1>2. EMPTY \in Level
  BY DEF EMPTY, Level
<1>3. CASE InWindow(p)
  BY <1>1, <1>3 DEF LevelAt, BookTypeOK
<1>4. CASE ~InWindow(p)
  BY <1>2, <1>4 DEF LevelAt, BookTypeOK
<1>5. QED
  BY <1>1, <1>3, <1>4

\* A price is live exactly when the level found there has a queue.
LEMMA LiveMeansQueued ==
  ASSUME BookTypeOK, LevelsAreInPlace, NEW s \in Side
  PROVE  LivePrices(s) = {p \in Price : LevelAt(s, p).queue # <<>>}
<1>1. ASSUME NEW p \in LivePrices(s) PROVE p \in Price /\ LevelAt(s, p).queue # <<>>
  <2>1. CASE \E i \in Index : dense[s][i].queue # <<>> /\ p = base + i
    <3>1. PICK i \in Index : dense[s][i].queue # <<>> /\ p = base + i
      BY <2>1
    <3>2. InWindow(p) /\ p - base = i /\ p \in Price
      BY <3>1, BookAssumption DEF InWindow, Index, BookTypeOK, Price
    <3>3. QED
      BY <3>1, <3>2 DEF LevelAt
  <2>2. CASE p \in DOMAIN sparse[s] /\ sparse[s][p].queue # <<>>
    BY <2>2 DEF LevelAt, LevelsAreInPlace, BookTypeOK
  <2>3. QED
    BY <1>1, <2>1, <2>2 DEF LivePrices
<1>2. ASSUME NEW p \in Price, LevelAt(s, p).queue # <<>> PROVE p \in LivePrices(s)
  <2>1. CASE InWindow(p)
    <3>1. p - base \in Index /\ p = base + (p - base)
      BY <2>1, LevelAtType, BookAssumption DEF BookTypeOK, Price
    <3>2. dense[s][p - base].queue # <<>>
      BY <1>2, <2>1 DEF LevelAt
    <3>3. QED
      BY <3>1, <3>2 DEF LivePrices
  <2>2. CASE ~InWindow(p)
    BY <1>2, <2>2 DEF LivePrices, LevelAt, EMPTY
  <2>3. QED
    BY <2>1, <2>2
<1>3. QED
  BY <1>1, <1>2

-----------------------------------------------------------------------------
(* Writing a level changes that level and no other. *)

LEMMA WriteDense ==
  ASSUME BookTypeOK, NEW s \in Side, NEW p \in Price, NEW l \in Level,
         WriteLevel(s, p, l)
  PROVE  /\ dense' \in [Side -> [Index -> Level]]
         /\ \A t \in Side : \A i \in Index :
              dense'[t][i] = IF t = s /\ InWindow(p) /\ i = p - base THEN l ELSE dense[t][i]
<1>1. CASE InWindow(p)
  <2>1. p - base \in Index
    BY <1>1, LevelAtType
  <2>2. dense' = [dense EXCEPT ![s][p - base] = l]
    BY <1>1 DEF WriteLevel
  <2>3. QED
    BY <1>1, <2>1, <2>2 DEF BookTypeOK
<1>2. CASE ~InWindow(p)
  BY <1>2 DEF WriteLevel, BookTypeOK
<1>3. QED
  BY <1>1, <1>2

LEMMA WriteSparse ==
  ASSUME BookTypeOK, LevelsAreInPlace, NEW s \in Side, NEW p \in Price, NEW l \in Level,
         WriteLevel(s, p, l)
  PROVE  /\ DOMAIN sparse' = Side
         /\ \A t \in Side : \A x \in DOMAIN sparse'[t] :
              x \in Price /\ sparse'[t][x] \in Level /\ ~InWindow(x) /\ sparse'[t][x].queue # <<>>
         /\ \A t \in Side : \A x : ~(t = s /\ x = p) =>
              /\ x \in DOMAIN sparse'[t] <=> x \in DOMAIN sparse[t]
              /\ x \in DOMAIN sparse[t] => sparse'[t][x] = sparse[t][x]
         /\ ~InWindow(p) =>
              /\ p \in DOMAIN sparse'[s] <=> l.queue # <<>>
              /\ l.queue # <<>> => sparse'[s][p] = l
<1>1. CASE InWindow(p)
  BY <1>1 DEF WriteLevel, BookTypeOK, LevelsAreInPlace
<1>2. CASE ~InWindow(p) /\ l.queue = <<>>
  <2>1. sparse' = [sparse EXCEPT ![s] = Unbind(sparse[s], p)]
    BY <1>2 DEF WriteLevel
  <2>2. sparse'[s] = Unbind(sparse[s], p) /\ \A t \in Side : t # s => sparse'[t] = sparse[t]
    BY <2>1 DEF BookTypeOK
  <2>3. DOMAIN sparse' = Side
    BY <2>1 DEF BookTypeOK
  <2>4. /\ DOMAIN sparse'[s] = DOMAIN sparse[s] \ {p}
        /\ \A x \in DOMAIN sparse[s] \ {p} : sparse'[s][x] = sparse[s][x]
    BY <2>2 DEF Unbind
  <2>5. QED
    BY <1>2, <2>2, <2>3, <2>4 DEF BookTypeOK, LevelsAreInPlace
<1>3. CASE ~InWindow(p) /\ l.queue # <<>>
  <2>1. sparse' = [sparse EXCEPT ![s] = Bind(sparse[s], p, l)]
    BY <1>3 DEF WriteLevel
  <2>2. sparse'[s] = Bind(sparse[s], p, l) /\ \A t \in Side : t # s => sparse'[t] = sparse[t]
    BY <2>1 DEF BookTypeOK
  <2>3. DOMAIN sparse' = Side
    BY <2>1 DEF BookTypeOK
  <2>4. /\ DOMAIN sparse'[s] = DOMAIN sparse[s] \cup {p}
        /\ sparse'[s][p] = l
        /\ \A x \in DOMAIN sparse[s] : x # p => sparse'[s][x] = sparse[s][x]
    BY <2>2 DEF Bind
  <2>5. \A t \in Side : \A x : ~(t = s /\ x = p) =>
          /\ x \in DOMAIN sparse'[t] <=> x \in DOMAIN sparse[t]
          /\ x \in DOMAIN sparse[t] => sparse'[t][x] = sparse[t][x]
    BY <2>2, <2>4
  <2>6. ASSUME NEW t \in Side, NEW x \in DOMAIN sparse'[t]
        PROVE  x \in Price /\ sparse'[t][x] \in Level /\ ~InWindow(x) /\ sparse'[t][x].queue # <<>>
    <3>1. CASE t = s /\ x = p
      BY <1>3, <2>4, <3>1
    <3>2. CASE ~(t = s /\ x = p)
      BY <2>5, <2>6, <3>2 DEF BookTypeOK, LevelsAreInPlace
    <3>3. QED
      BY <3>1, <3>2
  <2>7. QED
    BY <1>3, <2>3, <2>4, <2>5, <2>6
<1>4. QED
  BY <1>1, <1>2, <1>3

LEMMA WriteLevelEffect ==
  ASSUME BookTypeOK, LevelsAreInPlace, NEW s \in Side, NEW p \in Price, NEW l \in Level,
         WriteLevel(s, p, l), base' = base
  PROVE  \A t \in Side : \A x \in Price :
           LevelAt(t, x)' = IF t = s /\ x = p
                            THEN IF ~InWindow(p) /\ l.queue = <<>> THEN EMPTY ELSE l
                            ELSE LevelAt(t, x)
<1> TAKE t \in Side
<1> TAKE x \in Price
<1>1. InWindow(x)' = InWindow(x)
  BY DEF InWindow
<1>2. InWindow(x) => x - base \in Index
  BY LevelAtType
<1>3. CASE InWindow(x)
  <2>1. LevelAt(t, x)' = dense'[t][x - base] /\ LevelAt(t, x) = dense[t][x - base]
    BY <1>1, <1>3 DEF LevelAt
  <2>2. x - base = p - base <=> x = p
    <3>1. base \in Int /\ x \in Int /\ p \in Int
      BY BookAssumption DEF BookTypeOK, Price
    <3>2. \A a, b, c \in Int : a - c = b - c <=> a = b
      OBVIOUS
    <3>3. QED
      BY <3>1, <3>2
  <2>3. QED
    BY <1>2, <1>3, <2>1, <2>2, WriteDense
<1>4. CASE ~InWindow(x)
  <2>1. /\ LevelAt(t, x)' = IF x \in DOMAIN sparse'[t] THEN sparse'[t][x] ELSE EMPTY
        /\ LevelAt(t, x) = IF x \in DOMAIN sparse[t] THEN sparse[t][x] ELSE EMPTY
    BY <1>1, <1>4 DEF LevelAt
  <2>2. CASE t = s /\ x = p
    BY <1>4, <2>1, <2>2, WriteSparse
  <2>3. CASE ~(t = s /\ x = p)
    <3>1. /\ x \in DOMAIN sparse'[t] <=> x \in DOMAIN sparse[t]
          /\ x \in DOMAIN sparse[t] => sparse'[t][x] = sparse[t][x]
      BY <2>3, WriteSparse
    <3>2. QED
      BY <2>1, <2>3, <3>1
  <2>4. QED
    BY <2>2, <2>3
<1>5. QED
  BY <1>3, <1>4

LEMMA WriteLevelQueue ==
  ASSUME BookTypeOK, LevelsAreInPlace, NEW s \in Side, NEW p \in Price, NEW l \in Level,
         WriteLevel(s, p, l), base' = base
  PROVE  \A t \in Side : \A x \in Price :
           LevelAt(t, x)'.queue = IF t = s /\ x = p THEN l.queue ELSE LevelAt(t, x).queue
BY WriteLevelEffect DEF EMPTY

-----------------------------------------------------------------------------
(* The best price. *)

Queued(s, p) == LevelAt(s, p).queue # <<>>

\* b is what side s should report: a price with a queue, or NONE if there is none.
NamesALevel(s, b) ==
  \/ b = NONE /\ \A p \in Price : ~Queued(s, p)
  \/ b \in Price /\ Queued(s, b)

LEMMA BestIsLiveMeans ==
  BookTypeOK /\ LevelsAreInPlace => (BestIsLive <=> \A s \in Side : NamesALevel(s, best[s]))
<1> SUFFICES ASSUME BookTypeOK, LevelsAreInPlace
             PROVE  BestIsLive <=> \A s \in Side : NamesALevel(s, best[s])
  OBVIOUS
<1>1. NONE \notin Price
  BY BookAssumption DEF Price
<1>2. \A s \in Side : LivePrices(s) = {p \in Price : Queued(s, p)}
  BY LiveMeansQueued DEF Queued
<1>3. QED
  BY <1>1, <1>2 DEF BestIsLive, NamesALevel

LEMMA BestIsLiveMeansNext ==
  (BookTypeOK /\ LevelsAreInPlace => (BestIsLive <=> \A s \in Side : NamesALevel(s, best[s])))'
BY BestIsLiveMeans, PTL

\* The types of what the scan reads: BookTypeOK without the orders and the best prices.
ContainersOK ==
  /\ base \in Nat /\ base + MaxTicks <= MaxPrice
  /\ dense \in [Side -> [Index -> Level]]
  /\ DOMAIN sparse = Side
  /\ \A s \in Side : \A p \in DOMAIN sparse[s] : p \in Price /\ sparse[s][p] \in Level
  /\ occupied \in [Side -> SUBSET Index]

\* The scan that follows an emptied level finds a level with orders if there is one.
LEMMA FindBestNamesALevel ==
  ContainersOK /\ LevelsAreInPlace =>
    \A s \in Side : NamesALevel(s, FindBest(s, base, occupied[s], DOMAIN sparse[s]))
<1> SUFFICES ASSUME ContainersOK, LevelsAreInPlace, NEW s \in Side
             PROVE  NamesALevel(s, FindBest(s, base, occupied[s], DOMAIN sparse[s]))
  OBVIOUS
<1>1. CASE occupied[s] # {}
  <2> DEFINE i == BestOf(s, occupied[s])
  <2>1. i \in occupied[s]
    <3>1. occupied[s] \subseteq 0 .. MaxTicks
      BY BookAssumption DEF ContainersOK, Index
    <3>2. QED
      BY <1>1, <3>1, BestExists, BookAssumption
  <2> HIDE DEF i
  <2>2. i \in Index /\ dense[s][i].queue # <<>>
    BY <2>1 DEF LevelsAreInPlace
  <2>3. base + i \in Price /\ InWindow(base + i) /\ (base + i) - base = i
    BY <2>2, BookAssumption DEF Index, Price, InWindow, ContainersOK
  <2>4. Queued(s, base + i)
    BY <2>2, <2>3 DEF Queued, LevelAt
  <2>5. QED
    BY <1>1, <2>3, <2>4 DEF NamesALevel, FindBest, i
<1>2. CASE occupied[s] = {} /\ DOMAIN sparse[s] # {}
  <2> DEFINE p == BestOf(s, DOMAIN sparse[s])
  <2>1. p \in DOMAIN sparse[s]
    <3>1. DOMAIN sparse[s] \subseteq 0 .. MaxPrice
      BY DEF ContainersOK, Price
    <3>2. QED
      BY <1>2, <3>1, BestExists, BookAssumption
  <2> HIDE DEF p
  <2>2. p \in Price /\ Queued(s, p)
    BY <2>1 DEF LevelsAreInPlace, ContainersOK, Queued, LevelAt
  <2>3. QED
    BY <1>2, <2>2 DEF NamesALevel, FindBest, p
<1>3. CASE occupied[s] = {} /\ DOMAIN sparse[s] = {}
  <2>1. ASSUME NEW p \in Price, Queued(s, p) PROVE FALSE
    <3>1. CASE InWindow(p)
      <4>1. p - base \in Index /\ dense[s][p - base].queue # <<>>
        BY <2>1, <3>1, BookAssumption DEF Queued, LevelAt, InWindow, Index, Price, ContainersOK
      <4>2. QED
        BY <1>3, <4>1 DEF LevelsAreInPlace
    <3>2. CASE ~InWindow(p)
      BY <1>3, <2>1, <3>2 DEF Queued, LevelAt, EMPTY
    <3>3. QED
      BY <3>1, <3>2
  <2>2. QED
    BY <1>3, <2>1 DEF NamesALevel, FindBest
<1>4. QED
  BY <1>1, <1>2, <1>3

LEMMA FindBestNamesALevelNext ==
  (ContainersOK /\ LevelsAreInPlace =>
    \A s \in Side : NamesALevel(s, FindBest(s, base, occupied[s], DOMAIN sparse[s])))'
BY FindBestNamesALevel, PTL

-----------------------------------------------------------------------------
(* insert_order *)

LEMMA InPlaceAfterWrite ==
  ASSUME BookTypeOK, LevelsAreInPlace, NEW s \in Side, NEW p \in Price, NEW l \in Level,
         WriteLevel(s, p, l), base' = base, occupied' \in [Side -> SUBSET Index],
         \A t \in Side : \A i \in Index :
           i \in occupied'[t] <=> IF t = s /\ InWindow(p) /\ i = p - base
                                THEN l.queue # <<>> ELSE i \in occupied[t]
  PROVE  LevelsAreInPlace'
<1>1. \A x : InWindow(x)' <=> InWindow(x)
  BY DEF InWindow
<1>2. ASSUME NEW t \in Side PROVE occupied'[t] = {i \in Index : dense'[t][i].queue # <<>>}
  <2>1. \A i \in Index : i \in occupied'[t] <=> dense'[t][i].queue # <<>>
    BY WriteDense DEF LevelsAreInPlace
  <2>2. QED
    BY <2>1
<1>3. QED
  BY <1>1, <1>2, WriteSparse DEF LevelsAreInPlace

\* QueuesHoldTheOrders, one level at a time.
HoldsItsOrders(s, p) ==
  LET queue == LevelAt(s, p).queue IN
  /\ \A id \in DOMAIN orders :
       orders[id].side = s /\ orders[id].price = p => \E k \in DOMAIN queue : queue[k] = id
  /\ \A k \in DOMAIN queue :
       /\ queue[k] \in DOMAIN orders
       /\ orders[queue[k]].side = s /\ orders[queue[k]].price = p
       /\ \A j \in DOMAIN queue : queue[j] = queue[k] => j = k

LEMMA HoldsItsOrdersMeans ==
  QueuesHoldTheOrders <=> \A s \in Side : \A p \in Price : HoldsItsOrders(s, p)
BY DEF QueuesHoldTheOrders, HoldsItsOrders

LEMMA HoldsItsOrdersMeansNext ==
  (QueuesHoldTheOrders <=> \A s \in Side : \A p \in Price : HoldsItsOrders(s, p))'
BY HoldsItsOrdersMeans, PTL

\* A live order's level is not empty.
LEMMA LiveOrderIsQueued ==
  ASSUME BookTypeOK, QueuesHoldTheOrders, NEW id \in DOMAIN orders
  PROVE  /\ orders[id].side \in Side /\ orders[id].price \in Price
         /\ LevelAt(orders[id].side, orders[id].price) \in Level
         /\ Queued(orders[id].side, orders[id].price)
<1>1. orders[id].side \in Side /\ orders[id].price \in Price
  BY DEF BookTypeOK, Order
<1>2. LevelAt(orders[id].side, orders[id].price) \in Level
  BY <1>1, LevelAtType
<1>3. PICK k \in DOMAIN LevelAt(orders[id].side, orders[id].price).queue : TRUE
  BY <1>1, HoldsItsOrdersMeans DEF HoldsItsOrders
<1>4. QED
  BY <1>1, <1>2, <1>3 DEF Queued, Level

LEMMA InsertStep ==
  ASSUME BookInv, NEW id \in OrderIds, NEW s \in Side, NEW p \in Price, NEW q \in Quantity,
         NEW t \in Terms, Insertable(id), InsertOrder(id, s, p, q, t)
  PROVE  BookInv'
<1> USE DEF BookInv
<1> DEFINE old == LevelAt(s, p)
           queue == Append(old.queue, id)
           l == [total_quantity |-> old.total_quantity + q, queue |-> queue]
           o == [side |-> s, price |-> p, quantity |-> q, filled |-> 0, terms |-> t]
           n == Len(old.queue)
<1>1. /\ orders' = Bind(orders, id, o) /\ WriteLevel(s, p, l) /\ DepthAdd(s, p, q)
      /\ occupied' = (IF InWindow(p) THEN [occupied EXCEPT ![s] = @ \cup {p - base}] ELSE occupied)
      /\ best' = (IF best[s] = NONE \/ Better(s, p, best[s]) THEN [best EXCEPT ![s] = p] ELSE best)
      /\ base' = base
  BY DEF InsertOrder, PushBack
<1>2. old \in Level /\ old.queue \in Seq(OrderIds) /\ old.total_quantity \in Int
  BY LevelAtType DEF Level
<1>3. /\ queue \in Seq(OrderIds) /\ Len(queue) = n + 1 /\ queue # <<>> /\ n \in Nat
      /\ \A i \in 1 .. n : queue[i] = old.queue[i]
      /\ queue[n + 1] = id
      /\ DOMAIN queue = 1 .. n + 1 /\ DOMAIN old.queue = 1 .. n
  BY <1>2, AppendProperties
<1> HIDE DEF queue
<1>4. l \in Level /\ l.queue = queue
  BY <1>2, <1>3 DEF Level, Quantity
<1> HIDE DEF l, n
<1>5. \A a \in Side : \A x \in Price :
        LevelAt(a, x)'.queue = IF a = s /\ x = p THEN queue ELSE LevelAt(a, x).queue
  BY <1>1, <1>4, WriteLevelQueue
<1>6. occupied' \in [Side -> SUBSET Index]
  BY <1>1, LevelAtType DEF BookTypeOK
<1>7. LevelsAreInPlace'
  <2>1. \A a \in Side : \A i \in Index :
           i \in occupied'[a] <=> IF a = s /\ InWindow(p) /\ i = p - base
                                THEN l.queue # <<>> ELSE i \in occupied[a]
    BY <1>1, <1>3, <1>4 DEF BookTypeOK
  <2>2. QED
    BY <1>1, <1>4, <1>6, <2>1, InPlaceAfterWrite
<1>8. /\ DOMAIN orders' = DOMAIN orders \cup {id} /\ orders'[id] = o
      /\ \A x \in DOMAIN orders : x # id /\ orders'[x] = orders[x]
  BY <1>1 DEF Bind, Insertable
<1>9. BookTypeOK'
  <2>1. o \in Order /\ o.filled <= o.quantity
    BY BookAssumption DEF Order, Quantity
  <2>2. /\ DOMAIN orders' \subseteq OrderIds
        /\ \A x \in DOMAIN orders' : orders'[x] \in Order /\ orders'[x].filled <= orders'[x].quantity
    BY <1>8, <2>1 DEF BookTypeOK
  <2>3. best' \in [Side -> Price \cup {NONE}]
    BY <1>1 DEF BookTypeOK
  <2>4. panicked' \in BOOLEAN
    BY <1>1 DEF DepthAdd, BookTypeOK
  <2>5. dense' \in [Side -> [Index -> Level]]
    BY <1>1, <1>4, WriteDense
  <2>6. /\ DOMAIN sparse' = Side
        /\ \A a \in Side : \A x \in DOMAIN sparse'[a] : x \in Price /\ sparse'[a][x] \in Level
    BY <1>1, <1>4, WriteSparse
  <2>7. base' \in Nat /\ base' + MaxTicks <= MaxPrice
    BY <1>1 DEF BookTypeOK
  <2>8. QED
    BY <1>6, <2>2, <2>3, <2>4, <2>5, <2>6, <2>7 DEF BookTypeOK
<1>10. QueuesHoldTheOrders'
  <2> SUFFICES ASSUME NEW a \in Side, NEW x \in Price PROVE HoldsItsOrders(a, x)'
    BY HoldsItsOrdersMeansNext
  <2>1. CASE ~(a = s /\ x = p)
    <3>1. LevelAt(a, x)'.queue = LevelAt(a, x).queue
      BY <1>5, <2>1
    <3>2. HoldsItsOrders(a, x)
      BY HoldsItsOrdersMeans
    <3>3. QED
      BY <1>8, <2>1, <3>1, <3>2 DEF HoldsItsOrders
  <2>2. CASE a = s /\ x = p
    <3>1. LevelAt(a, x)'.queue = queue
      BY <1>5, <2>2
    <3>2. \A i \in 1 .. n :
            /\ queue[i] = old.queue[i] /\ queue[i] \in DOMAIN orders
            /\ orders[queue[i]].side = s /\ orders[queue[i]].price = p
            /\ \A j \in 1 .. n : queue[j] = queue[i] => j = i
      BY <1>3, HoldsItsOrdersMeans DEF HoldsItsOrders
    <3>3. \A i \in 1 .. n : queue[i] # id
      BY <1>8, <3>2
    <3>4. ASSUME NEW y \in DOMAIN orders', orders'[y].side = a, orders'[y].price = x
          PROVE  \E k \in DOMAIN queue : queue[k] = y
      <4>1. CASE y = id
        BY <1>3, <4>1
      <4>2. CASE y # id
        <5>1. y \in DOMAIN orders /\ orders[y].side = s /\ orders[y].price = p
          BY <1>8, <2>2, <3>4, <4>2
        <5>2. PICK k \in DOMAIN old.queue : old.queue[k] = y
          BY <5>1, HoldsItsOrdersMeans DEF HoldsItsOrders
        <5>3. k \in DOMAIN queue /\ queue[k] = y
          BY <1>3, <5>2
        <5>4. QED
          BY <5>3
      <4>3. QED
        BY <4>1, <4>2
    <3>5. ASSUME NEW k \in DOMAIN queue
          PROVE  /\ queue[k] \in DOMAIN orders'
                 /\ orders'[queue[k]].side = a /\ orders'[queue[k]].price = x
                 /\ \A j \in DOMAIN queue : queue[j] = queue[k] => j = k
      <4>1. \A j \in DOMAIN queue : j \in 1 .. n \/ j = n + 1
        BY <1>3
      <4>2. CASE k = n + 1
        BY <1>3, <1>8, <2>2, <3>3, <4>1, <4>2
      <4>3. CASE k \in 1 .. n
        <5>1. queue[k] # id /\ queue[k] \in DOMAIN orders
          BY <3>2, <3>3, <4>3
        <5>2. QED
          BY <1>3, <1>8, <2>2, <3>2, <4>1, <4>3, <5>1
      <4>4. QED
        BY <4>1, <4>2, <4>3
    <3>6. QED
      BY <3>1, <3>4, <3>5 DEF HoldsItsOrders
  <2>3. QED
    BY <2>1, <2>2
<1>11. BestIsLive'
  <2>1. \A a \in Side : NamesALevel(a, best[a])
    BY BestIsLiveMeans
  <2>2. \A a \in Side : \A x \in Price : Queued(a, x)' <=> Queued(a, x) \/ (a = s /\ x = p)
    BY <1>3, <1>5 DEF Queued
  <2>3. ASSUME NEW a \in Side PROVE NamesALevel(a, best[a])'
    <3>1. best'[a] = best[a] \/ (a = s /\ best'[a] = p)
      BY <1>1 DEF BookTypeOK
    <3>2. CASE a = s /\ best'[a] = p
      BY <2>2, <3>2 DEF NamesALevel
    <3>3. CASE best'[a] = best[a] /\ best[a] \in Price
      <4>1. Queued(a, best[a])
        BY <2>1, <3>3, BookAssumption DEF NamesALevel, Price
      <4>2. \A x \in Price : x = best[a] => Queued(a, x)'
        BY <2>2, <4>1
      <4>3. QED
        BY <3>3, <4>2 DEF NamesALevel
    <3>4. CASE best'[a] = best[a] /\ best[a] = NONE
      <4>1. a # s
        BY <1>1, <3>4, BookAssumption DEF BookTypeOK, Price
      <4>2. \A x \in Price : ~Queued(a, x)'
        BY <2>1, <2>2, <3>4, <4>1, BookAssumption DEF NamesALevel, Price
      <4>3. QED
        BY <3>4, <4>2 DEF NamesALevel
    <3>5. QED
      BY <3>1, <3>2, <3>3, <3>4 DEF BookTypeOK
  <2>4. QED
    BY <1>7, <1>9, <2>3, BestIsLiveMeansNext
<1>12. QED
  BY <1>7, <1>9, <1>10, <1>11

-----------------------------------------------------------------------------
(* A partial fill and reduce_order_qty: the order stays in its queue. *)

LEMMA ConsumeStep ==
  ASSUME BookInv, NEW id \in DOMAIN orders, NEW q \in 1 .. Remaining(orders[id]),
         Consume(id, q), panicked' \in BOOLEAN
  PROVE  BookInv'
<1> USE DEF BookInv
<1> DEFINE s == orders[id].side
           p == orders[id].price
           old == LevelAt(s, p)
           l == [old EXCEPT !.total_quantity = @ - q]
<1>1. /\ orders' = [orders EXCEPT ![id].filled = @ + q] /\ WriteLevel(s, p, l)
      /\ base' = base /\ occupied' = occupied /\ best' = best
  BY DEF Consume
<1>2. s \in Side /\ p \in Price /\ old \in Level /\ Queued(s, p)
  BY LiveOrderIsQueued
<1>3. orders[id] \in Order /\ orders[id].filled + q <= orders[id].quantity /\ q \in Nat
  BY BookAssumption DEF BookTypeOK, Order, Quantity, Remaining
<1>4. l \in Level /\ l.queue = old.queue /\ l.queue # <<>>
  BY <1>2, <1>3 DEF Level, Queued
<1> HIDE DEF l
<1>5. \A a \in Side : \A x \in Price : LevelAt(a, x)'.queue = LevelAt(a, x).queue
  BY <1>1, <1>2, <1>4, WriteLevelQueue
<1>6. LevelsAreInPlace'
  <2>1. \A a \in Side : \A i \in Index :
           i \in occupied'[a] <=> IF a = s /\ InWindow(p) /\ i = p - base
                                THEN l.queue # <<>> ELSE i \in occupied[a]
    <3>1. InWindow(p) => p - base \in occupied[s]
      BY <1>2, LevelAtType DEF Queued, LevelAt, LevelsAreInPlace
    <3>2. QED
      BY <1>1, <1>4, <3>1
  <2>2. occupied' \in [Side -> SUBSET Index]
    BY <1>1 DEF BookTypeOK
  <2>3. QED
    BY <1>1, <1>2, <1>4, <2>1, <2>2, InPlaceAfterWrite
<1>7. /\ DOMAIN orders' = DOMAIN orders
      /\ \A x \in DOMAIN orders :
           orders'[x].side = orders[x].side /\ orders'[x].price = orders[x].price
  BY <1>1, <1>3 DEF Order, BookTypeOK
<1>8. BookTypeOK'
  <2>1. ASSUME NEW x \in DOMAIN orders'
        PROVE  orders'[x] \in Order /\ orders'[x].filled <= orders'[x].quantity
    <3>1. CASE x = id
      <4>1. orders'[x] = [orders[id] EXCEPT !.filled = @ + q]
        BY <1>1, <3>1
      <4>2. QED
        BY <1>3, <4>1, BookAssumption DEF Order, Quantity
    <3>2. CASE x # id
      BY <1>1, <1>7, <3>2 DEF BookTypeOK
    <3>3. QED
      BY <3>1, <3>2
  <2>2. dense' \in [Side -> [Index -> Level]]
    BY <1>1, <1>2, <1>4, WriteDense
  <2>3. /\ DOMAIN sparse' = Side
        /\ \A a \in Side : \A x \in DOMAIN sparse'[a] : x \in Price /\ sparse'[a][x] \in Level
    BY <1>1, <1>2, <1>4, WriteSparse
  <2>4. QED
    BY <1>1, <1>7, <2>1, <2>2, <2>3 DEF BookTypeOK
<1>9. QueuesHoldTheOrders'
  <2> SUFFICES ASSUME NEW a \in Side, NEW x \in Price PROVE HoldsItsOrders(a, x)'
    BY HoldsItsOrdersMeansNext
  <2>1. HoldsItsOrders(a, x)
    BY HoldsItsOrdersMeans
  <2>2. QED
    BY <1>5, <1>7, <2>1 DEF HoldsItsOrders
<1>10. BestIsLive'
  <2>1. \A a \in Side : NamesALevel(a, best[a])
    BY BestIsLiveMeans
  <2>2. \A a \in Side : \A x \in Price : Queued(a, x)' <=> Queued(a, x)
    BY <1>5 DEF Queued
  <2>3. QED
    BY <1>1, <1>6, <1>8, <2>1, <2>2, BestIsLiveMeansNext DEF NamesALevel
<1>11. QED
  BY <1>6, <1>8, <1>9, <1>10

-----------------------------------------------------------------------------
(* remove_order and the fill that completes a maker. *)

LEMMA PositionOfTheOrder ==
  ASSUME BookTypeOK, QueuesHoldTheOrders, NEW id \in DOMAIN orders
  PROVE  LET queue == LevelAt(orders[id].side, orders[id].price).queue IN
         Position(queue, id) \in 1 .. Len(queue) /\ queue[Position(queue, id)] = id
<1> DEFINE queue == LevelAt(orders[id].side, orders[id].price).queue
<1>1. orders[id].side \in Side /\ orders[id].price \in Price /\ queue \in Seq(OrderIds)
  BY LiveOrderIsQueued DEF Level
<1>2. \E k \in DOMAIN queue : queue[k] = id
  BY <1>1, HoldsItsOrdersMeans DEF HoldsItsOrders
<1>3. \E k \in 1 .. Len(queue) : queue[k] = id
  BY <1>1, <1>2
<1> HIDE DEF queue
<1>4. Position(queue, id) \in 1 .. Len(queue) /\ queue[Position(queue, id)] = id
  BY <1>3 DEF Position
<1>5. QED
  BY <1>4 DEF queue

\* Taking one order out of a queue that holds it once leaves all the others.
LEMMA QueueWithoutOne ==
  ASSUME NEW S, NEW q \in Seq(S), NEW k \in 1 .. Len(q),
         \A i, j \in 1 .. Len(q) : q[i] = q[j] => i = j
  PROVE  LET r == RemoveAt(q, k) IN
         /\ \A j \in 1 .. Len(q) : j # k => \E i \in DOMAIN r : r[i] = q[j]
         /\ \A i \in DOMAIN r : r[i] # q[k] /\ \E j \in 1 .. Len(q) : r[i] = q[j]
         /\ \A i, j \in DOMAIN r : r[i] = r[j] => i = j
<1> DEFINE r == RemoveAt(q, k)
<1>1. /\ r \in Seq(S) /\ Len(r) = Len(q) - 1 /\ Len(q) \in Nat
      /\ \A i \in 1 .. Len(q) - 1 : r[i] = IF i < k THEN q[i] ELSE q[i + 1]
  BY RemoveAtProperties
<1> HIDE DEF r
<1>2. DOMAIN r = 1 .. Len(q) - 1
  BY <1>1
<1>3. ASSUME NEW j \in 1 .. Len(q), j # k PROVE \E i \in DOMAIN r : r[i] = q[j]
  <2>1. CASE j < k
    <3>1. j \in DOMAIN r /\ r[j] = q[j]
      BY <1>1, <1>2, <2>1
    <3>2. QED
      BY <3>1
  <2>2. CASE j > k
    <3>1. j - 1 \in DOMAIN r /\ ~(j - 1 < k) /\ (j - 1) + 1 = j
      BY <1>1, <1>2, <2>2
    <3>2. r[j - 1] = q[j]
      BY <1>1, <1>2, <3>1
    <3>3. QED
      BY <3>1, <3>2
  <2>3. QED
    BY <1>3, <2>1, <2>2
<1>4. ASSUME NEW i \in DOMAIN r
      PROVE  \E j \in 1 .. Len(q) : j # k /\ r[i] = q[j] /\ j = IF i < k THEN i ELSE i + 1
  <2>1. CASE i < k
    BY <1>1, <1>2, <2>1
  <2>2. CASE ~(i < k)
    <3>1. i + 1 \in 1 .. Len(q) /\ i + 1 # k /\ r[i] = q[i + 1]
      BY <1>1, <1>2, <2>2
    <3>2. QED
      BY <2>2, <3>1
  <2>3. QED
    BY <2>1, <2>2
<1>5. ASSUME NEW i \in DOMAIN r, NEW j \in DOMAIN r, r[i] = r[j] PROVE i = j
  <2>1. PICK x \in 1 .. Len(q) : r[i] = q[x] /\ x = IF i < k THEN i ELSE i + 1
    BY <1>4
  <2>2. PICK y \in 1 .. Len(q) : r[j] = q[y] /\ y = IF j < k THEN j ELSE j + 1
    BY <1>4
  <2>3. x = y
    BY <1>5, <2>1, <2>2
  <2>4. QED
    BY <1>1, <1>2, <2>1, <2>2, <2>3
<1>6. \A i \in DOMAIN r : r[i] # q[k] /\ \E j \in 1 .. Len(q) : r[i] = q[j]
  BY <1>4
<1>7. QED
  BY <1>3, <1>5, <1>6 DEF r

LEMMA UnlinkStep ==
  ASSUME BookInv, NEW id \in DOMAIN orders, NEW levelQty \in Int, NEW depthQty,
         Unlink(id, levelQty, depthQty)
  PROVE  BookInv'
<1> USE DEF BookInv
<1> DEFINE s == orders[id].side
           p == orders[id].price
           old == LevelAt(s, p)
           queue == old.queue
           n == Position(queue, id)
           rest == RemoveAt(queue, n)
           l == [total_quantity |-> old.total_quantity - levelQty, queue |-> rest]
<1>1. /\ orders' = Unbind(orders, id) /\ WriteLevel(s, p, l) /\ DepthRemove(s, p, depthQty)
      /\ IF rest = <<>> THEN RefreshBestAfterLevelEmpty(s, p) ELSE UNCHANGED <<occupied, best>>
      /\ base' = base
  BY DEF Unlink
<1>2. /\ s \in Side /\ p \in Price /\ old \in Level /\ Queued(s, p)
      /\ queue \in Seq(OrderIds) /\ old.total_quantity \in Int
  BY LiveOrderIsQueued DEF Level
<1>3. n \in 1 .. Len(queue) /\ queue[n] = id
  BY PositionOfTheOrder
<1>4. rest \in Seq(OrderIds)
  BY <1>2, <1>3, RemoveAtProperties
<1>5. /\ \A k \in DOMAIN queue :
           /\ queue[k] \in DOMAIN orders
           /\ orders[queue[k]].side = s /\ orders[queue[k]].price = p
           /\ \A j \in DOMAIN queue : queue[j] = queue[k] => j = k
      /\ DOMAIN queue = 1 .. Len(queue)
      /\ \A y \in DOMAIN orders :
           orders[y].side = s /\ orders[y].price = p => \E k \in DOMAIN queue : queue[k] = y
  BY <1>2, HoldsItsOrdersMeans DEF HoldsItsOrders
<1>6. /\ \A j \in 1 .. Len(queue) : j # n => \E i \in DOMAIN rest : rest[i] = queue[j]
      /\ \A i \in DOMAIN rest : rest[i] # queue[n] /\ \E j \in 1 .. Len(queue) : rest[i] = queue[j]
      /\ \A i, j \in DOMAIN rest : rest[i] = rest[j] => i = j
  <2>1. \A i, j \in 1 .. Len(queue) : queue[i] = queue[j] => i = j
    BY <1>5
  <2> HIDE DEF queue, n
  <2>2. QED
    BY <1>2, <1>3, <2>1, QueueWithoutOne
<1> HIDE DEF rest, n
<1>7. l \in Level /\ l.queue = rest
  BY <1>2, <1>4 DEF Level
<1> HIDE DEF l
<1>8. \A a \in Side : \A x \in Price :
        LevelAt(a, x)'.queue = IF a = s /\ x = p THEN rest ELSE LevelAt(a, x).queue
  BY <1>1, <1>2, <1>7, WriteLevelQueue
<1>9. /\ occupied' \in [Side -> SUBSET Index]
      /\ \A a \in Side : \A i \in Index :
           i \in occupied'[a] <=> IF a = s /\ InWindow(p) /\ i = p - base
                                  THEN rest # <<>> ELSE i \in occupied[a]
  <2>1. InWindow(p) => p - base \in Index /\ p - base \in occupied[s]
    BY <1>2, LevelAtType DEF Queued, LevelAt, LevelsAreInPlace
  <2>2. CASE rest # <<>>
    <3>1. occupied' = occupied
      BY <1>1, <2>2
    <3>2. QED
      BY <2>1, <2>2, <3>1 DEF BookTypeOK
  <2>3. CASE rest = <<>>
    <3>1. occupied' = IF InWindow(p) THEN [occupied EXCEPT ![s] = @ \ {p - base}] ELSE occupied
      BY <1>1, <2>3 DEF RefreshBestAfterLevelEmpty
    <3>2. QED
      BY <1>2, <2>1, <2>3, <3>1 DEF BookTypeOK
  <2>4. QED
    BY <2>2, <2>3
<1>10. LevelsAreInPlace'
  BY <1>1, <1>2, <1>7, <1>9, InPlaceAfterWrite
<1>11. DOMAIN orders' = DOMAIN orders \ {id} /\ \A x \in DOMAIN orders' : orders'[x] = orders[x]
  BY <1>1 DEF Unbind
<1>12. \* Everything of the type but the best price.
       /\ DOMAIN orders' \subseteq OrderIds
       /\ \A x \in DOMAIN orders' : orders'[x] \in Order /\ orders'[x].filled <= orders'[x].quantity
       /\ base' \in Nat /\ base' + MaxTicks <= MaxPrice
       /\ dense' \in [Side -> [Index -> Level]]
       /\ DOMAIN sparse' = Side
       /\ \A a \in Side : \A x \in DOMAIN sparse'[a] : x \in Price /\ sparse'[a][x] \in Level
       /\ panicked' \in BOOLEAN
  <2>1. panicked' \in BOOLEAN
    BY <1>1 DEF DepthRemove, BookTypeOK
  <2>2. /\ DOMAIN orders' \subseteq OrderIds
        /\ \A x \in DOMAIN orders' : orders'[x] \in Order /\ orders'[x].filled <= orders'[x].quantity
    BY <1>11 DEF BookTypeOK
  <2>3. dense' \in [Side -> [Index -> Level]]
    BY <1>1, <1>2, <1>7, WriteDense
  <2>4. /\ DOMAIN sparse' = Side
        /\ \A a \in Side : \A x \in DOMAIN sparse'[a] : x \in Price /\ sparse'[a][x] \in Level
    BY <1>1, <1>2, <1>7, WriteSparse
  <2>5. QED
    BY <1>1, <2>1, <2>2, <2>3, <2>4 DEF BookTypeOK
<1>13. \* and the best price: unchanged, or found again by the scan.
       /\ best' \in [Side -> Price \cup {NONE}]
       /\ \A a \in Side : NamesALevel(a, best[a])'
  <2>1. \A a \in Side : NamesALevel(a, best[a])
    BY BestIsLiveMeans
  <2>2. \A a \in Side : \A x \in Price :
          Queued(a, x)' <=> IF a = s /\ x = p THEN rest # <<>> ELSE Queued(a, x)
    BY <1>8 DEF Queued
  <2>3. CASE rest # <<>>
    <3>1. best' = best
      BY <1>1, <2>3
    <3>2. \A a \in Side : \A x \in Price : Queued(a, x)' <=> Queued(a, x)
      BY <1>2, <2>2, <2>3
    <3>3. QED
      BY <2>1, <3>1, <3>2 DEF NamesALevel, BookTypeOK
  <2>4. CASE rest = <<>> /\ best[s] = p
    <3> DEFINE f == FindBest(s, base', occupied'[s], DOMAIN sparse'[s])
    <3>1. best' = [best EXCEPT ![s] = f]
      BY <1>1, <2>4 DEF RefreshBestAfterLevelEmpty
    <3>2. ContainersOK'
      BY <1>9, <1>12 DEF ContainersOK
    <3>3. \A a \in Side : NamesALevel(a, FindBest(a, base, occupied[a], DOMAIN sparse[a]))'
      BY <1>10, <3>2, FindBestNamesALevelNext
    <3>4. \A a \in Side : a = s =>
            \/ f = NONE /\ \A x \in Price : ~Queued(a, x)'
            \/ f \in Price /\ \A x \in Price : x = f => Queued(a, x)'
      BY <3>3 DEF NamesALevel, Queued, LevelAt, InWindow
    <3> HIDE DEF f
    <3>5. best' \in [Side -> Price \cup {NONE}]
      BY <1>2, <3>1, <3>4 DEF BookTypeOK
    <3>6. ASSUME NEW a \in Side PROVE NamesALevel(a, best[a])'
      <4>1. CASE a = s
        <5>1. best'[a] = f
          BY <1>2, <3>1, <4>1 DEF BookTypeOK
        <5>2. QED
          BY <3>4, <4>1, <5>1 DEF NamesALevel, Queued, LevelAt, InWindow
      <4>2. CASE a # s
        <5>1. best'[a] = best[a] /\ \A x \in Price : Queued(a, x)' <=> Queued(a, x)
          BY <1>2, <2>2, <3>1, <4>2 DEF BookTypeOK
        <5>2. QED
          BY <2>1, <5>1 DEF NamesALevel
      <4>3. QED
        BY <4>1, <4>2
    <3>7. QED
      BY <3>5, <3>6
  <2>5. CASE rest = <<>> /\ best[s] # p
    <3>1. best' = best
      BY <1>1, <2>5 DEF RefreshBestAfterLevelEmpty
    <3>2. \A a \in Side : \A x \in Price : x = best[a] /\ Queued(a, x) => Queued(a, x)'
      BY <2>2, <2>5
    <3>3. \A a \in Side : \A x \in Price : Queued(a, x)' => Queued(a, x)
      BY <1>2, <2>2, <2>5
    <3>4. QED
      BY <2>1, <3>1, <3>2, <3>3 DEF NamesALevel, BookTypeOK
  <2>6. QED
    BY <2>3, <2>4, <2>5
<1>14. BookTypeOK'
  BY <1>9, <1>12, <1>13 DEF BookTypeOK
<1>15. QueuesHoldTheOrders'
  <2> SUFFICES ASSUME NEW a \in Side, NEW x \in Price PROVE HoldsItsOrders(a, x)'
    BY HoldsItsOrdersMeansNext
  <2>1. CASE ~(a = s /\ x = p)
    <3>1. LevelAt(a, x)'.queue = LevelAt(a, x).queue
      BY <1>8, <2>1
    <3>2. HoldsItsOrders(a, x)
      BY HoldsItsOrdersMeans
    <3>3. QED
      BY <1>11, <2>1, <3>1, <3>2 DEF HoldsItsOrders
  <2>2. CASE a = s /\ x = p
    <3>1. LevelAt(a, x)'.queue = rest
      BY <1>8, <2>2
    <3>2. ASSUME NEW y \in DOMAIN orders', orders'[y].side = a, orders'[y].price = x
          PROVE  \E k \in DOMAIN rest : rest[k] = y
      <4>1. y # id /\ y \in DOMAIN orders /\ orders[y].side = s /\ orders[y].price = p
        BY <1>11, <2>2, <3>2
      <4>2. PICK k \in DOMAIN queue : queue[k] = y
        BY <1>5, <4>1
      <4>3. QED
        BY <1>3, <1>5, <1>6, <4>1, <4>2
    <3>3. ASSUME NEW k \in DOMAIN rest
          PROVE  /\ rest[k] \in DOMAIN orders'
                 /\ orders'[rest[k]].side = a /\ orders'[rest[k]].price = x
                 /\ \A j \in DOMAIN rest : rest[j] = rest[k] => j = k
      <4>1. PICK j \in 1 .. Len(queue) : rest[k] = queue[j]
        BY <1>6
      <4>2. rest[k] # id /\ rest[k] \in DOMAIN orders'
        BY <1>3, <1>5, <1>6, <1>11, <4>1
      <4>3. QED
        BY <1>5, <1>6, <1>11, <2>2, <4>1, <4>2
    <3>4. QED
      BY <3>1, <3>2, <3>3 DEF HoldsItsOrders
  <2>3. QED
    BY <2>1, <2>2
<1>16. BestIsLive'
  BY <1>10, <1>13, <1>14, BestIsLiveMeansNext
<1>17. QED
  BY <1>10, <1>14, <1>15, <1>16

-----------------------------------------------------------------------------
(* force_recenter *)

\* BookInv does not read the volume indices, and panicked only for its type.
LEMMA BookUntouched ==
  ASSUME BookInv, UNCHANGED <<orders, base, dense, sparse, occupied, best>>, panicked' \in BOOLEAN
  PROVE  BookInv'
<1> USE DEF BookInv
<1>1. BookTypeOK'
  BY DEF BookTypeOK
<1>2. \A s \in Side : \A p \in Price : LevelAt(s, p)' = LevelAt(s, p)
  BY DEF LevelAt, InWindow
<1>3. QueuesHoldTheOrders'
  BY <1>2 DEF QueuesHoldTheOrders
<1>4. LevelsAreInPlace'
  BY DEF LevelsAreInPlace, InWindow
<1>5. BestIsLive'
  <2>1. \A s \in Side : LivePrices(s)' = LivePrices(s)
    BY DEF LivePrices
  <2>2. QED
    BY <2>1 DEF BestIsLive
<1>6. QED
  BY <1>1, <1>3, <1>4, <1>5

LEMMA BookUnchanged == BookInv /\ UNCHANGED book => BookInv'
<1> SUFFICES ASSUME BookInv, UNCHANGED book PROVE BookInv'
  OBVIOUS
<1>1. UNCHANGED <<orders, base, dense, sparse, occupied, best>> /\ panicked' \in BOOLEAN
  BY DEF book, BookInv, BookTypeOK
<1>2. QED
  BY <1>1, BookUntouched

LEMMA RecenterStep ==
  ASSUME BookInv, NEW b \in Nat, ForceRecenter(b)
  PROVE  BookInv'
<1> USE DEF BookInv
<1>1. CASE b = base
  BY <1>1, BookUnchanged DEF ForceRecenter
<1>2. CASE b # base /\ b + MaxTicks > MaxPrice
  <2>1. /\ panicked' = TRUE
        /\ UNCHANGED <<orders, base, dense, sparse, occupied, best, depth, sparse_index>>
    BY <1>2 DEF ForceRecenter
  <2>2. QED
    BY <2>1, BookUntouched
<1>3. CASE b # base /\ ~(b + MaxTicks > MaxPrice)
  <2> DEFINE new == b .. b + MaxTicks - 1
  <2>1. /\ base' = b /\ orders' = orders /\ panicked' = panicked
        /\ dense' = [s \in Side |-> [i \in Index |->
                      IF b + i \in LivePrices(s) THEN LevelAt(s, b + i) ELSE EMPTY]]
        /\ sparse' = [s \in Side |-> [p \in LivePrices(s) \ new |-> LevelAt(s, p)]]
        /\ occupied' = [s \in Side |-> {i \in Index : dense'[s][i].queue # <<>>}]
        /\ best' = [s \in Side |->
                     IF best[s] # NONE /\ best[s] \notin LivePrices(s)
                     THEN FindBest(s, b, occupied'[s], DOMAIN sparse'[s]) ELSE best[s]]
    BY <1>3 DEF ForceRecenter, RecenteredBest
  <2>2. \A s \in Side : LivePrices(s) = {p \in Price : LevelAt(s, p).queue # <<>>}
    BY LiveMeansQueued
  <2>3. \A x \in Price : InWindow(x)' <=> x \in new
    BY <2>1, BookAssumption DEF InWindow, Price
  <2>4. \A i \in Index : b + i \in Price
    BY <1>3, BookAssumption DEF Index, Price
  <2>5. EMPTY \in Level /\ EMPTY.queue = <<>>
    BY DEF EMPTY, Level
  <2>6. dense' \in [Side -> [Index -> Level]]
    BY <2>1, <2>4, <2>5, LevelAtType
  <2>7. \A s \in Side :
          /\ DOMAIN sparse'[s] = LivePrices(s) \ new
          /\ \A p \in LivePrices(s) \ new : sparse'[s][p] = LevelAt(s, p)
    BY <2>1
  <2>8. /\ DOMAIN sparse' = Side
        /\ \A s \in Side : \A p \in DOMAIN sparse'[s] :
             p \in Price /\ sparse'[s][p] \in Level /\ sparse'[s][p].queue # <<>> /\ p \notin new
    BY <2>1, <2>2, <2>7, LevelAtType
  <2>9. ASSUME NEW s \in Side, NEW x \in Price
        PROVE  LevelAt(s, x)'.queue = LevelAt(s, x).queue
    <3>1. CASE x \in new
      <4>1. x - b \in Index /\ b + (x - b) = x
        BY <3>1, BookAssumption DEF Index, Price
      <4>2. LevelAt(s, x)' = dense'[s][x - b]
        BY <2>1, <2>3, <3>1 DEF LevelAt
      <4>3. dense'[s][x - b] = IF x \in LivePrices(s) THEN LevelAt(s, x) ELSE EMPTY
        BY <2>1, <4>1
      <4>4. QED
        BY <2>2, <2>5, <4>2, <4>3
    <3>2. CASE x \notin new
      <4>1. LevelAt(s, x)' = IF x \in DOMAIN sparse'[s] THEN sparse'[s][x] ELSE EMPTY
        BY <2>3, <3>2 DEF LevelAt
      <4>2. QED
        BY <2>2, <2>5, <2>7, <3>2, <4>1
    <3>3. QED
      BY <3>1, <3>2
  <2>10. best' = best
    <3>1. \A s \in Side : best[s] # NONE => best[s] \in LivePrices(s)
      BY DEF BestIsLive
    <3>2. QED
      BY <2>1, <3>1 DEF BookTypeOK
  <2>11. occupied' \in [Side -> SUBSET Index]
    BY <2>1
  <2>12. LevelsAreInPlace'
    BY <2>1, <2>3, <2>8 DEF LevelsAreInPlace
  <2>13. BookTypeOK'
    <3>1. base' \in Nat /\ base' + MaxTicks <= MaxPrice
      BY <1>3, <2>1, BookAssumption
    <3>2. best' \in [Side -> Price \cup {NONE}] /\ panicked' \in BOOLEAN
      BY <2>1, <2>10 DEF BookTypeOK
    <3>3. /\ DOMAIN orders' \subseteq OrderIds
          /\ \A id \in DOMAIN orders' :
               orders'[id] \in Order /\ orders'[id].filled <= orders'[id].quantity
      BY <2>1 DEF BookTypeOK
    <3>4. QED
      BY <2>6, <2>8, <2>11, <3>1, <3>2, <3>3 DEF BookTypeOK
  <2>14. QueuesHoldTheOrders'
    <3> SUFFICES ASSUME NEW s \in Side, NEW x \in Price PROVE HoldsItsOrders(s, x)'
      BY HoldsItsOrdersMeansNext
    <3>1. HoldsItsOrders(s, x)
      BY HoldsItsOrdersMeans
    <3>2. QED
      BY <2>1, <2>9, <3>1 DEF HoldsItsOrders
  <2>15. BestIsLive'
    <3>1. \A s \in Side : NamesALevel(s, best[s])
      BY BestIsLiveMeans
    <3>2. \A s \in Side : \A x \in Price : Queued(s, x)' <=> Queued(s, x)
      BY <2>9 DEF Queued
    <3>3. QED
      BY <2>10, <2>12, <2>13, <3>1, <3>2, BestIsLiveMeansNext DEF NamesALevel
  <2>16. QED
    BY <2>12, <2>13, <2>14, <2>15
<1>4. QED
  BY <1>1, <1>2, <1>3

-----------------------------------------------------------------------------
(* The book as a whole. *)

LEMMA BookInitInv == BookInit => BookInv
<1> SUFFICES ASSUME BookInit PROVE BookInv
  OBVIOUS
<1>1. EMPTY \in Level /\ EMPTY.queue = <<>>
  BY DEF EMPTY, Level
<1>2. BookTypeOK
  BY <1>1, BookAssumption DEF BookInit, BookTypeOK
<1>3. \A s \in Side : \A p \in Price : LevelAt(s, p).queue = <<>>
  <2> TAKE s \in Side
  <2> TAKE p \in Price
  <2>1. CASE InWindow(p)
    BY <1>1, <1>2, <2>1, LevelAtType DEF BookInit, LevelAt
  <2>2. CASE ~InWindow(p)
    BY <1>1, <2>2 DEF BookInit, LevelAt
  <2>3. QED
    BY <2>1, <2>2
<1>4. QueuesHoldTheOrders
  BY <1>3 DEF BookInit, QueuesHoldTheOrders
<1>5. LevelsAreInPlace
  BY <1>1 DEF BookInit, LevelsAreInPlace
<1>6. BestIsLive
  BY <1>2, <1>3, <1>5, BestIsLiveMeans DEF BookInit, NamesALevel, Queued
<1>7. QED
  BY <1>2, <1>4, <1>5, <1>6 DEF BookInv

\* The window maybe_recenter asks for starts at a natural number.
LEMMA RecenterTarget ==
  ASSUME BookInv, MaybeRecenter
  PROVE  \E b \in Nat : ForceRecenter(b)
<1> DEFINE center == IF best["Bid"] # NONE THEN best["Bid"] ELSE best["Ask"]
           half == MaxTicks \div 2
<1>1. center \in Nat /\ half \in Nat
  BY BookAssumption DEF MaybeRecenter, NeedsRecenter, BookInv, BookTypeOK, Price, Side
<1>2. QED
  BY <1>1 DEF MaybeRecenter

LEMMA BookStepInv == BookInv /\ [BookNext]_book => BookInv'
<1> SUFFICES ASSUME BookInv, [BookNext]_book PROVE BookInv'
  OBVIOUS
<1>1. ASSUME NEW id \in OrderIds, NEW s \in Side, NEW p \in Prices,
             NEW q \in MinQuantity .. MaxQuantity, NEW t \in Terms, InsertOrder(id, s, p, q, t)
      PROVE  BookInv'
  <2>1. p \in Price /\ q \in Quantity
    BY BookAssumption DEF Quantity
  <2>2. CASE Insertable(id)
    BY <1>1, <2>1, <2>2, InsertStep
  <2>3. CASE ~Insertable(id)
    BY <1>1, <2>3, BookUnchanged DEF InsertOrder
  <2>4. QED
    BY <2>2, <2>3
<1>2. ASSUME NEW id \in DOMAIN orders, RemoveOrder(id) PROVE BookInv'
  <2>1. Remaining(orders[id]) \in Int
    BY BookAssumption DEF BookInv, BookTypeOK, Order, Quantity, Remaining
  <2>2. QED
    BY <1>2, <2>1, UnlinkStep DEF RemoveOrder
<1>3. ASSUME NEW id \in DOMAIN orders, NEW q \in 1 .. Remaining(orders[id]), FillOrder(id, q)
      PROVE  BookInv'
  <2>1. CASE q = Remaining(orders[id])
    BY <1>3, <2>1, UnlinkStep DEF FillOrder
  <2>2. CASE q # Remaining(orders[id])
    <3>1. Consume(id, q) /\ panicked' \in BOOLEAN
      BY <1>3, <2>2 DEF FillOrder, BookInv, BookTypeOK
    <3>2. QED
      BY <3>1, ConsumeStep
  <2>3. QED
    BY <2>1, <2>2
<1>4. ASSUME NEW id \in DOMAIN orders, NEW q \in 1 .. Remaining(orders[id]) - 1, ReduceOrderQty(id, q)
      PROVE  BookInv'
  <2>1. q \in 1 .. Remaining(orders[id])
    BY BookAssumption DEF BookInv, BookTypeOK, Order, Quantity, Remaining
  <2>2. Consume(id, q) /\ panicked' \in BOOLEAN
    BY <1>4 DEF ReduceOrderQty, DepthRemove, BookInv, BookTypeOK
  <2>3. QED
    BY <2>1, <2>2, ConsumeStep
<1>5. ASSUME MaybeRecenter PROVE BookInv'
  <2>1. PICK b \in Nat : ForceRecenter(b)
    BY <1>5, RecenterTarget
  <2>2. QED
    BY <2>1, RecenterStep
<1>6. ASSUME NEW b \in Prices, ForceRecenter(b) PROVE BookInv'
  BY <1>6, RecenterStep, BookAssumption DEF Price
<1>7. CASE UNCHANGED book
  BY <1>7, BookUnchanged
<1>8. QED
  BY <1>1, <1>2, <1>3, <1>4, <1>5, <1>6, <1>7 DEF BookNext

\* The structure of the book holds in every state it can reach: the queues hold
\* exactly the live orders, every level is stored where the window and the bitset
\* say, and each cached best price names a level with orders.
THEOREM BookInvariant == BookSpec => []BookInv
BY BookInitInv, BookStepInv, PTL DEF BookSpec

\* The cached best prices: best_bid and best_ask report a price exactly while the
\* side holds an order, and the level there is never empty.
THEOREM BestPriceIsLive == BookSpec => []BestIsLive
<1>1. BookInv => BestIsLive
  BY DEF BookInv
<1>2. QED
  BY <1>1, BookInvariant, PTL
-----------------------------------------------------------------------------
(***************************************************************************)
(* What the operations do to the levels as wholes: time priority, totals,  *)
(* moves of the window.                                                    *)
(***************************************************************************)
-----------------------------------------------------------------------------
(* Each operation writes one level; a move of the window writes none. *)

LEMMA InsertLevels ==
  ASSUME BookInv, NEW id \in OrderIds, NEW s \in Side, NEW p \in Price, NEW q \in Quantity,
         NEW t \in Terms, Insertable(id), InsertOrder(id, s, p, q, t)
  PROVE  /\ PushBack(LevelAt(s, p), id, q) \in Level
         /\ \A a \in Side : \A x \in Price :
              LevelAt(a, x)' = IF a = s /\ x = p THEN PushBack(LevelAt(s, p), id, q) ELSE LevelAt(a, x)
<1> DEFINE old == LevelAt(s, p)
           l == PushBack(old, id, q)
<1>1. old \in Level /\ old.queue \in Seq(OrderIds) /\ old.total_quantity \in Int
  BY LevelAtType DEF Level, BookInv
<1>2. Append(old.queue, id) \in Seq(OrderIds) /\ Append(old.queue, id) # <<>>
  BY <1>1
<1>3. l \in Level /\ l.queue # <<>>
  BY <1>1, <1>2 DEF PushBack, Level, Quantity
<1>4. WriteLevel(s, p, l) /\ base' = base
  BY DEF InsertOrder
<1> HIDE DEF l
<1>5. \A a \in Side : \A x \in Price :
        LevelAt(a, x)' = IF a = s /\ x = p THEN l ELSE LevelAt(a, x)
  BY <1>3, <1>4, WriteLevelEffect DEF BookInv
<1>6. QED
  BY <1>3, <1>5 DEF l

LEMMA ConsumeLevels ==
  ASSUME BookInv, NEW id \in DOMAIN orders, NEW q \in Int, Consume(id, q)
  PROVE  LET s == orders[id].side
             p == orders[id].price
         IN  \A a \in Side : \A x \in Price :
               LevelAt(a, x)' = IF a = s /\ x = p
                                THEN [LevelAt(s, p) EXCEPT !.total_quantity = @ - q]
                                ELSE LevelAt(a, x)
<1> DEFINE s == orders[id].side
           p == orders[id].price
           l == [LevelAt(s, p) EXCEPT !.total_quantity = @ - q]
<1>1. s \in Side /\ p \in Price /\ LevelAt(s, p) \in Level /\ Queued(s, p)
  BY LiveOrderIsQueued DEF BookInv
<1>2. l \in Level /\ l.queue # <<>>
  BY <1>1 DEF Level, Queued
<1>3. WriteLevel(s, p, l) /\ base' = base
  BY DEF Consume
<1> HIDE DEF l
<1>4. \A a \in Side : \A x \in Price :
        LevelAt(a, x)' = IF a = s /\ x = p THEN l ELSE LevelAt(a, x)
  BY <1>1, <1>2, <1>3, WriteLevelEffect DEF BookInv
<1>5. QED
  BY <1>4 DEF l

\* The queue an order is taken from.
QueueOf(id) == LevelAt(orders[id].side, orders[id].price).queue

LEMMA UnlinkLevels ==
  ASSUME BookInv, NEW id \in DOMAIN orders, NEW levelQty \in Int, NEW depthQty,
         Unlink(id, levelQty, depthQty)
  PROVE  LET s == orders[id].side
             p == orders[id].price
             rest == RemoveAt(QueueOf(id), Position(QueueOf(id), id))
             l == [total_quantity |-> LevelAt(s, p).total_quantity - levelQty, queue |-> rest]
         IN  /\ l \in Level
             /\ \A a \in Side : \A x \in Price :
                  LevelAt(a, x)' = IF a = s /\ x = p
                                   THEN IF ~InWindow(p) /\ rest = <<>> THEN EMPTY ELSE l
                                   ELSE LevelAt(a, x)
<1> DEFINE s == orders[id].side
           p == orders[id].price
           rest == RemoveAt(QueueOf(id), Position(QueueOf(id), id))
           l == [total_quantity |-> LevelAt(s, p).total_quantity - levelQty, queue |-> rest]
<1>1. /\ s \in Side /\ p \in Price /\ QueueOf(id) \in Seq(OrderIds)
      /\ LevelAt(s, p).total_quantity \in Int
  BY LiveOrderIsQueued DEF BookInv, Level, QueueOf
<1>2. Position(QueueOf(id), id) \in 1 .. Len(QueueOf(id))
  BY PositionOfTheOrder DEF BookInv, QueueOf
<1>3. rest \in Seq(OrderIds)
  BY <1>1, <1>2, RemoveAtProperties
<1>4. WriteLevel(s, p, l) /\ base' = base
  BY DEF Unlink, QueueOf
<1> HIDE DEF rest
<1>5. l \in Level /\ l.queue = rest
  BY <1>1, <1>3 DEF Level
<1> HIDE DEF l
<1>6. \A a \in Side : \A x \in Price :
        LevelAt(a, x)' = IF a = s /\ x = p
                         THEN IF ~InWindow(p) /\ rest = <<>> THEN EMPTY ELSE l
                         ELSE LevelAt(a, x)
  BY <1>1, <1>4, <1>5, WriteLevelEffect DEF BookInv
<1>7. QED
  BY <1>5, <1>6 DEF l, rest

LEMMA RecenterLevels ==
  ASSUME BookInv, NEW b \in Nat, b # base, b + MaxTicks <= MaxPrice, ForceRecenter(b)
  PROVE  \A a \in Side : \A x \in Price :
           LevelAt(a, x)' = IF x \in LivePrices(a) THEN LevelAt(a, x) ELSE EMPTY
<1> DEFINE new == b .. b + MaxTicks - 1
<1>1. ~(b + MaxTicks > MaxPrice)
  BY BookAssumption
<1>2. /\ base' = b
      /\ dense' = [s \in Side |-> [i \in Index |->
                    IF b + i \in LivePrices(s) THEN LevelAt(s, b + i) ELSE EMPTY]]
      /\ sparse' = [s \in Side |-> [p \in LivePrices(s) \ new |-> LevelAt(s, p)]]
  BY <1>1 DEF ForceRecenter
<1>3. ASSUME NEW a \in Side, NEW x \in Price
      PROVE  LevelAt(a, x)' = IF x \in LivePrices(a) THEN LevelAt(a, x) ELSE EMPTY
  <2>1. InWindow(x)' <=> x \in new
    BY <1>2, BookAssumption DEF InWindow, Price
  <2>2. CASE x \in new
    <3>1. x - b \in Index /\ b + (x - b) = x
      BY <2>2, BookAssumption DEF Index, Price
    <3>2. LevelAt(a, x)' = dense'[a][x - b]
      BY <1>2, <2>1, <2>2 DEF LevelAt
    <3>3. QED
      BY <1>2, <3>1, <3>2
  <2>3. CASE x \notin new
    <3>1. LevelAt(a, x)' = IF x \in DOMAIN sparse'[a] THEN sparse'[a][x] ELSE EMPTY
      BY <2>1, <2>3 DEF LevelAt
    <3>2. DOMAIN sparse'[a] = LivePrices(a) \ new
      BY <1>2
    <3>3. \A y \in LivePrices(a) \ new : sparse'[a][y] = LevelAt(a, y)
      BY <1>2
    <3>4. QED
      BY <2>3, <3>1, <3>2, <3>3
  <2>4. QED
    BY <2>2, <2>3
<1>4. QED
  BY <1>3

-----------------------------------------------------------------------------
(* Time priority. *)

\* What one step may do to a queue.
Grows(old, new) == \E id \in OrderIds : id \notin ToSet(old) /\ new = Append(old, id)
Shrinks(old, new) == \E k \in 1 .. Len(old) : new = RemoveAt(old, k)

LEMMA QueueSteps ==
  ASSUME BookInv, [BookNext]_book, NEW s \in Side, NEW p \in Price
  PROVE  LET old == LevelAt(s, p).queue
             new == LevelAt(s, p)'.queue
         IN  new = old \/ Grows(old, new) \/ Shrinks(old, new)
<1> DEFINE old == LevelAt(s, p).queue
           new == LevelAt(s, p)'.queue
<1>1. ASSUME UNCHANGED <<base, dense, sparse>> PROVE new = old
  BY <1>1 DEF LevelAt, InWindow
<1>2. ASSUME NEW id \in OrderIds, NEW t \in Side, NEW x \in Prices,
             NEW q \in MinQuantity .. MaxQuantity, NEW c \in Terms, InsertOrder(id, t, x, q, c)
      PROVE  new = old \/ Grows(old, new)
  <2>1. x \in Price /\ q \in Quantity
    BY BookAssumption DEF Quantity
  <2>2. CASE Insertable(id)
    <3>1. LevelAt(s, p)' = IF s = t /\ p = x THEN PushBack(LevelAt(t, x), id, q) ELSE LevelAt(s, p)
      BY <1>2, <2>1, <2>2, InsertLevels
    <3>2. CASE s = t /\ p = x
      <4>1. new = Append(old, id)
        BY <3>1, <3>2 DEF PushBack
      <4>2. id \notin ToSet(old)
        BY <2>2 DEF Insertable, ToSet, BookInv, QueuesHoldTheOrders
      <4>3. QED
        BY <4>1, <4>2 DEF Grows
    <3>3. QED
      BY <3>1, <3>2
  <2>3. CASE ~Insertable(id)
    BY <1>1, <1>2, <2>3 DEF InsertOrder, book
  <2>4. QED
    BY <2>2, <2>3
<1>3. ASSUME NEW id \in DOMAIN orders, NEW lq \in Int, NEW dq, Unlink(id, lq, dq)
      PROVE  new = old \/ Shrinks(old, new)
  <2> DEFINE t == orders[id].side
             x == orders[id].price
             rest == RemoveAt(QueueOf(id), Position(QueueOf(id), id))
  <2>1. new = IF s = t /\ p = x THEN rest ELSE old
    <3> DEFINE l == [total_quantity |-> LevelAt(t, x).total_quantity - lq, queue |-> rest]
    <3>1. LevelAt(s, p)' = IF s = t /\ p = x
                           THEN IF ~InWindow(x) /\ rest = <<>> THEN EMPTY ELSE l
                           ELSE LevelAt(s, p)
      BY <1>3, UnlinkLevels
    <3>2. l.queue = rest /\ EMPTY.queue = <<>>
      BY DEF EMPTY
    <3> HIDE DEF l, rest
    <3>3. QED
      BY <3>1, <3>2
  <2>2. CASE s = t /\ p = x
    <3>1. Position(QueueOf(id), id) \in 1 .. Len(QueueOf(id)) /\ old = QueueOf(id)
      BY <2>2, PositionOfTheOrder DEF BookInv, QueueOf
    <3>2. QED
      BY <2>1, <2>2, <3>1 DEF Shrinks
  <2>3. QED
    BY <2>1, <2>2
<1>4. ASSUME NEW id \in DOMAIN orders, NEW q \in Int, Consume(id, q) PROVE new = old
  <2>1. LevelAt(orders[id].side, orders[id].price) \in Level
    BY LiveOrderIsQueued DEF BookInv
  <2>2. QED
    BY <1>4, <2>1, ConsumeLevels DEF Level
<1>5. ASSUME NEW b \in Nat, ForceRecenter(b) PROVE new = old
  <2>1. CASE b = base \/ b + MaxTicks > MaxPrice
    BY <1>1, <1>5, <2>1 DEF ForceRecenter, book
  <2>2. CASE b # base /\ ~(b + MaxTicks > MaxPrice)
    <3>1. b + MaxTicks <= MaxPrice
      BY <2>2, BookAssumption
    <3>2. LevelAt(s, p)' = IF p \in LivePrices(s) THEN LevelAt(s, p) ELSE EMPTY
      BY <1>5, <2>2, <3>1, RecenterLevels
    <3>3. LivePrices(s) = {x \in Price : LevelAt(s, x).queue # <<>>}
      BY LiveMeansQueued DEF BookInv
    <3>4. QED
      BY <3>2, <3>3 DEF EMPTY
  <2>3. QED
    BY <2>1, <2>2
<1>6. ASSUME NEW id \in DOMAIN orders, RemoveOrder(id) PROVE new = old \/ Shrinks(old, new)
  <2>1. Remaining(orders[id]) \in Int
    BY BookAssumption DEF BookInv, BookTypeOK, Order, Quantity, Remaining
  <2>2. QED
    BY <1>3, <1>6, <2>1 DEF RemoveOrder
<1>7. ASSUME NEW id \in DOMAIN orders, NEW q \in 1 .. Remaining(orders[id]), FillOrder(id, q)
      PROVE  new = old \/ Shrinks(old, new)
  <2>1. q \in Int
    OBVIOUS
  <2>2. QED
    BY <1>3, <1>4, <1>7, <2>1 DEF FillOrder
<1>8. ASSUME NEW id \in DOMAIN orders, NEW q \in 1 .. Remaining(orders[id]) - 1, ReduceOrderQty(id, q)
      PROVE  new = old
  BY <1>4, <1>8 DEF ReduceOrderQty
<1>9. ASSUME MaybeRecenter PROVE new = old
  <2>1. PICK b \in Nat : ForceRecenter(b)
    BY <1>9, RecenterTarget
  <2>2. QED
    BY <1>5, <2>1
<1>10. ASSUME NEW b \in Prices, ForceRecenter(b) PROVE new = old
  <2>1. b \in Nat
    BY BookAssumption DEF Price
  <2>2. QED
    BY <1>5, <1>10, <2>1
<1>11. CASE UNCHANGED book
  BY <1>1, <1>11 DEF book
<1>12. QED
  BY <1>2, <1>6, <1>7, <1>8, <1>9, <1>10, <1>11 DEF BookNext

\* Two orders that are both in the new queue, the later of which was in the old one,
\* stood in the same order there.
KeepsOrder(old, new) ==
  \A i, j \in DOMAIN new : (i < j /\ new[j] \in ToSet(old)) =>
     \E k, l \in DOMAIN old : k < l /\ old[k] = new[i] /\ old[l] = new[j]

LEMMA QueueStepsKeepOrder ==
  ASSUME NEW old \in Seq(OrderIds), NEW new, new = old \/ Grows(old, new) \/ Shrinks(old, new)
  PROVE  KeepsOrder(old, new)
<1> DEFINE n == Len(old)
<1>1. n \in Nat /\ DOMAIN old = 1 .. n
  OBVIOUS
<1>2. CASE new = old
  BY <1>2 DEF KeepsOrder
<1>3. CASE Grows(old, new)
  <2>1. PICK id \in OrderIds : id \notin ToSet(old) /\ new = Append(old, id)
    BY <1>3 DEF Grows
  <2>2. DOMAIN new = 1 .. n + 1 /\ new[n + 1] = id /\ \A i \in 1 .. n : new[i] = old[i]
    BY <2>1, AppendProperties
  <2>3. ASSUME NEW i \in DOMAIN new, NEW j \in DOMAIN new, i < j, new[j] \in ToSet(old)
        PROVE  i \in DOMAIN old /\ j \in DOMAIN old /\ old[i] = new[i] /\ old[j] = new[j]
    <3>1. j # n + 1
      BY <2>1, <2>2, <2>3
    <3>2. QED
      BY <1>1, <2>2, <2>3, <3>1
  <2>4. QED
    BY <2>3 DEF KeepsOrder
<1>4. CASE Shrinks(old, new)
  <2>1. PICK k \in 1 .. n : new = RemoveAt(old, k)
    BY <1>4 DEF Shrinks
  <2>2. /\ new \in Seq(OrderIds) /\ Len(new) = n - 1
        /\ \A i \in 1 .. n - 1 : new[i] = IF i < k THEN old[i] ELSE old[i + 1]
    BY <2>1, RemoveAtProperties
  <2> DEFINE place(i) == IF i < k THEN i ELSE i + 1
  <2>3. \A i \in DOMAIN new : place(i) \in DOMAIN old /\ old[place(i)] = new[i]
    BY <1>1, <2>2
  <2>4. \A i, j \in DOMAIN new : i < j => place(i) < place(j)
    BY <1>1, <2>2
  <2> HIDE DEF place
  <2>5. QED
    BY <2>3, <2>4 DEF KeepsOrder
<1>5. QED
  BY <1>2, <1>3, <1>4

\* Time priority: whatever is inserted, filled, reduced, removed or moved with the window,
\* two orders that stay in a queue keep their order, and a new order enters behind both.
THEOREM TimePriority == BookSpec => NobodyOvertakes
<1>1. BookInv /\ [BookNext]_book =>
        \A s \in Side : \A p \in Price : KeepsOrder(LevelAt(s, p).queue, LevelAt(s, p)'.queue)
  <2> SUFFICES ASSUME BookInv, [BookNext]_book, NEW s \in Side, NEW p \in Price
               PROVE  KeepsOrder(LevelAt(s, p).queue, LevelAt(s, p)'.queue)
    OBVIOUS
  <2>1. LevelAt(s, p).queue \in Seq(OrderIds)
    BY LevelAtType DEF BookInv, Level
  <2>2. QED
    BY <2>1, QueueSteps, QueueStepsKeepOrder
<1>2. BookInv /\ [BookNext]_book =>
        [\A s \in Side : \A p \in Price :
           LET old == LevelAt(s, p).queue
               new == LevelAt(s, p)'.queue
           IN \A i, j \in DOMAIN new :
                (i < j /\ new[j] \in ToSet(old)) =>
                  \E k, l \in DOMAIN old : k < l /\ old[k] = new[i] /\ old[l] = new[j]]_book
  BY <1>1 DEF KeepsOrder
<1>3. QED
  BY <1>2, BookInvariant, PTL DEF BookSpec, NobodyOvertakes

-----------------------------------------------------------------------------
(* Totals. *)

\* The live orders of a level.
OrdersAt(s, p) == {id \in DOMAIN orders : orders[id].side = s /\ orders[id].price = p}

LEMMA QueueIsFinite ==
  ASSUME NEW S, NEW q \in Seq(S)
  PROVE  IsFiniteSet(ToSet(q))
<1> DEFINE n == Len(q)
<1>1. n \in Nat /\ DOMAIN q = 1 .. n /\ q \in [1 .. n -> S]
  OBVIOUS
<1>2. q \in [1 .. n -> ToSet(q)] /\ \A x \in ToSet(q) : \E k \in 1 .. n : q[k] = x
  BY <1>1 DEF ToSet
<1>3. q \in Surjection(1 .. n, ToSet(q))
  BY <1>2, Fun_IsSurj
<1>4. IsFiniteSet(1 .. n)
  BY <1>1, FS_Interval
<1>5. QED
  BY <1>3, <1>4, FS_Surjection

\* A queue lists the orders of its level, which are finitely many.
LEMMA QueueLists ==
  BookInv => \A s \in Side : \A p \in Price :
    /\ ToSet(LevelAt(s, p).queue) = OrdersAt(s, p)
    /\ IsFiniteSet(OrdersAt(s, p))
<1> SUFFICES ASSUME BookInv, NEW s \in Side, NEW p \in Price
             PROVE  /\ ToSet(LevelAt(s, p).queue) = OrdersAt(s, p)
                    /\ IsFiniteSet(OrdersAt(s, p))
  OBVIOUS
<1>1. LevelAt(s, p).queue \in Seq(OrderIds)
  BY LevelAtType DEF BookInv, Level
<1>2. HoldsItsOrders(s, p)
  BY HoldsItsOrdersMeans DEF BookInv
<1>3. ToSet(LevelAt(s, p).queue) = OrdersAt(s, p)
  BY <1>2 DEF HoldsItsOrders, OrdersAt, ToSet
<1>4. QED
  BY <1>1, <1>3, QueueIsFinite

LEMMA QueueListsNext ==
  (BookInv => \A s \in Side : \A p \in Price :
    /\ ToSet(LevelAt(s, p).queue) = OrdersAt(s, p)
    /\ IsFiniteSet(OrdersAt(s, p)))'
BY QueueLists, PTL

LEMMA OpenQuantityType ==
  BookInv => /\ DOMAIN OpenQuantity = DOMAIN orders
             /\ \A id \in DOMAIN orders : OpenQuantity[id] = Remaining(orders[id])
                                          /\ OpenQuantity[id] \in Nat
BY BookAssumption DEF BookInv, BookTypeOK, Order, Quantity, Remaining, OpenQuantity

\* What the orders of a level have left.
Open(s, p) == SumFunctionOnSet(OpenQuantity, OrdersAt(s, p))

LEMMA LevelTotalsMean ==
  BookInv => (LevelTotals <=>
                \A s \in Side : \A p \in Price : LevelAt(s, p).total_quantity = Open(s, p))
BY QueueLists, Zenon DEF LevelTotals, Open

LEMMA LevelTotalsMeanNext ==
  (BookInv => (LevelTotals <=>
                 \A s \in Side : \A p \in Price : LevelAt(s, p).total_quantity = Open(s, p)))'
BY LevelTotalsMean, PTL

\* A level the step leaves alone keeps what its orders have left.
LEMMA OpenUnchanged ==
  ASSUME BookInv, NEW s \in Side, NEW p \in Price, OrdersAt(s, p)' = OrdersAt(s, p),
         \A id \in OrdersAt(s, p) : orders'[id] = orders[id]
  PROVE  Open(s, p)' = Open(s, p)
<1> DEFINE S == OrdersAt(s, p)
           F == OpenQuantity
           G == OpenQuantity'
<1>1. IsFiniteSet(S)
  BY QueueLists
<1>2. \A id \in S : id \in DOMAIN orders /\ id \in DOMAIN orders'
  BY DEF OrdersAt
<1>3. \A id \in S : F[id] \in Int /\ G[id] = F[id]
  BY <1>2, OpenQuantityType DEF OpenQuantity, Remaining
<1>4. Open(s, p)' = SumFunctionOnSet(G, S) /\ Open(s, p) = SumFunctionOnSet(F, S)
  BY DEF Open
<1> HIDE DEF S, F, G
<1>5. QED
  BY <1>1, <1>3, <1>4, SumSame

LEMMA InsertTotals ==
  ASSUME BookInv, LevelTotals, NEW id \in OrderIds, NEW s \in Side, NEW p \in Price,
         NEW q \in Quantity, NEW t \in Terms, Insertable(id), InsertOrder(id, s, p, q, t)
  PROVE  LevelTotals'
<1> DEFINE o == [side |-> s, price |-> p, quantity |-> q, filled |-> 0, terms |-> t]
<1>1. orders' = Bind(orders, id, o)
  BY DEF InsertOrder
<1>2. /\ id \notin DOMAIN orders /\ DOMAIN orders' = DOMAIN orders \cup {id}
      /\ orders'[id] = o /\ \A x \in DOMAIN orders : orders'[x] = orders[x]
  BY <1>1 DEF Bind, Insertable
<1>3. ASSUME NEW a \in Side, NEW x \in Price
      PROVE  LevelAt(a, x)'.total_quantity = Open(a, x)'
  <2>1. LevelAt(a, x).total_quantity = Open(a, x)
    BY LevelTotalsMean
  <2>2. CASE ~(a = s /\ x = p)
    <3>1. LevelAt(a, x)' = LevelAt(a, x)
      BY <2>2, InsertLevels
    <3>2. OrdersAt(a, x)' = OrdersAt(a, x)
      BY <1>2, <2>2 DEF OrdersAt
    <3>3. \A y \in OrdersAt(a, x) : orders'[y] = orders[y]
      BY <1>2 DEF OrdersAt
    <3>4. QED
      BY <2>1, <3>1, <3>2, <3>3, OpenUnchanged
  <2>3. CASE a = s /\ x = p
    <3> DEFINE S == OrdersAt(a, x)
               F == OpenQuantity
               G == OpenQuantity'
    <3>1. IsFiniteSet(S) /\ id \notin S
      BY <1>2, QueueLists DEF OrdersAt
    <3>2. OrdersAt(a, x)' = S \cup {id}
      BY <1>2, <2>3 DEF OrdersAt
    <3>3. \A y \in S : F[y] \in Int /\ G[y] = F[y]
      <4>1. \A y \in S : y \in DOMAIN orders /\ y \in DOMAIN orders'
        BY <1>2 DEF OrdersAt
      <4>2. QED
        BY <1>2, <4>1, OpenQuantityType DEF OpenQuantity, Remaining
    <3>4. G[id] = q /\ q \in Int
      BY <1>2, BookAssumption DEF OpenQuantity, Remaining, Quantity
    <3>5. Open(a, x)' = SumFunctionOnSet(G, S \cup {id}) /\ Open(a, x) = SumFunctionOnSet(F, S)
      BY <3>2 DEF Open
    <3>6. LevelAt(a, x)'.total_quantity = LevelAt(a, x).total_quantity + q
      <4>1. LevelAt(a, x)' = PushBack(LevelAt(s, p), id, q)
        BY <2>3, InsertLevels
      <4>2. QED
        BY <2>3, <4>1 DEF PushBack
    <3> HIDE DEF S, F, G
    <3>7. SumFunctionOnSet(G, S) = SumFunctionOnSet(F, S)
      BY <3>1, <3>3, SumSame
    <3>8. SumFunctionOnSet(G, S \cup {id}) = SumFunctionOnSet(G, S) + G[id]
      <4>1. G[id] \in Int /\ \A y \in S : G[y] \in Int
        BY <3>3, <3>4
      <4>2. QED
        BY <3>1, <4>1, SumAdd
    <3>9. QED
      BY <2>1, <3>4, <3>5, <3>6, <3>7, <3>8
  <2>4. QED
    BY <2>2, <2>3
<1>4. BookInv'
  BY InsertStep
<1>5. QED
  BY <1>3, <1>4, LevelTotalsMeanNext

LEMMA ConsumeTotals ==
  ASSUME BookInv, LevelTotals, NEW id \in DOMAIN orders, NEW q \in 1 .. Remaining(orders[id]),
         Consume(id, q), panicked' \in BOOLEAN
  PROVE  LevelTotals'
<1> DEFINE s == orders[id].side
           p == orders[id].price
<1>1. orders' = [orders EXCEPT ![id].filled = @ + q]
  BY DEF Consume
<1>2. /\ DOMAIN orders' = DOMAIN orders
      /\ \A y \in DOMAIN orders : /\ orders'[y].side = orders[y].side
                                  /\ orders'[y].price = orders[y].price
                                  /\ y # id => orders'[y] = orders[y]
      /\ Remaining(orders'[id]) = Remaining(orders[id]) - q
  <2>1. orders[id] \in Order /\ orders[id].filled <= orders[id].quantity
    BY DEF BookInv, BookTypeOK
  <2>2. orders'[id] = [orders[id] EXCEPT !.filled = @ + q]
    BY <1>1
  <2>3. Remaining(orders'[id]) = Remaining(orders[id]) - q
    BY <2>1, <2>2, BookAssumption DEF Order, Quantity, Remaining
  <2>4. orders'[id].side = orders[id].side /\ orders'[id].price = orders[id].price
    BY <2>1, <2>2 DEF Order
  <2>5. QED
    BY <1>1, <2>3, <2>4
<1>3. ASSUME NEW a \in Side, NEW x \in Price
      PROVE  LevelAt(a, x)'.total_quantity = Open(a, x)'
  <2>1. LevelAt(a, x).total_quantity = Open(a, x) /\ LevelAt(a, x) \in Level
    BY LevelTotalsMean, LevelAtType DEF BookInv
  <2>2. OrdersAt(a, x)' = OrdersAt(a, x)
    BY <1>2 DEF OrdersAt
  <2>3. CASE ~(a = s /\ x = p)
    <3>1. LevelAt(a, x)' = LevelAt(a, x)
      BY <2>3, ConsumeLevels
    <3>2. \A y \in OrdersAt(a, x) : orders'[y] = orders[y]
      BY <1>2, <2>3 DEF OrdersAt
    <3>3. QED
      BY <2>1, <2>2, <3>1, <3>2, OpenUnchanged
  <2>4. CASE a = s /\ x = p
    <3> DEFINE S == OrdersAt(a, x)
               F == OpenQuantity
               G == OpenQuantity'
    <3>1. IsFiniteSet(S) /\ id \in S
      BY <2>4, QueueLists DEF OrdersAt
    <3>2. \A y \in S : F[y] \in Int /\ G[y] = IF y = id THEN F[y] + (-q) ELSE F[y]
      <4>1. \A y \in S : y \in DOMAIN orders /\ y \in DOMAIN orders'
        BY <1>2 DEF OrdersAt
      <4>2. \A y \in S : F[y] = Remaining(orders[y]) /\ F[y] \in Int /\ G[y] = Remaining(orders'[y])
        BY <4>1, OpenQuantityType DEF OpenQuantity, Remaining
      <4> HIDE DEF F, G
      <4>3. QED
        BY <1>2, <4>1, <4>2
    <3>3. Open(a, x)' = SumFunctionOnSet(G, S) /\ Open(a, x) = SumFunctionOnSet(F, S)
      BY <2>2 DEF Open
    <3>4. LevelAt(a, x)'.total_quantity = LevelAt(a, x).total_quantity - q
      BY <2>1, <2>4, ConsumeLevels DEF Level
    <3> HIDE DEF S, F, G
    <3>5. -q \in Int
      OBVIOUS
    <3>6. SumFunctionOnSet(G, S) = SumFunctionOnSet(F, S) + (-q)
      BY <3>1, <3>2, <3>5, SumChange
    <3>7. SumFunctionOnSet(F, S) \in Int
      BY <3>1, <3>2, SumType
    <3>8. QED
      BY <2>1, <3>3, <3>4, <3>6, <3>7
  <2>5. QED
    BY <2>3, <2>4
<1>4. BookInv'
  BY ConsumeStep
<1>5. QED
  BY <1>3, <1>4, LevelTotalsMeanNext


LEMMA UnlinkTotals ==
  ASSUME BookInv, LevelTotals, NEW id \in DOMAIN orders, NEW depthQty,
         Unlink(id, Remaining(orders[id]), depthQty)
  PROVE  LevelTotals'
<1> DEFINE s == orders[id].side
           p == orders[id].price
           q == Remaining(orders[id])
           rest == RemoveAt(QueueOf(id), Position(QueueOf(id), id))
           l == [total_quantity |-> LevelAt(s, p).total_quantity - q, queue |-> rest]
<1>1. q \in Int
  BY BookAssumption DEF BookInv, BookTypeOK, Order, Quantity, Remaining
<1>2. BookInv'
  BY <1>1, UnlinkStep
<1>3. \A a \in Side : \A x \in Price :
        LevelAt(a, x)' = IF a = s /\ x = p
                         THEN IF ~InWindow(p) /\ rest = <<>> THEN EMPTY ELSE l
                         ELSE LevelAt(a, x)
  BY <1>1, UnlinkLevels
<1>4. orders' = Unbind(orders, id)
  BY DEF Unlink
<1>5. DOMAIN orders' = DOMAIN orders \ {id} /\ \A x \in DOMAIN orders' : orders'[x] = orders[x]
  BY <1>4 DEF Unbind
<1>6. ASSUME NEW a \in Side, NEW x \in Price
      PROVE  LevelAt(a, x)'.total_quantity = Open(a, x)'
  <2>1. LevelAt(a, x).total_quantity = Open(a, x)
    BY LevelTotalsMean
  <2>2. CASE ~(a = s /\ x = p)
    <3>1. LevelAt(a, x)' = LevelAt(a, x)
      BY <1>3, <2>2
    <3>2. OrdersAt(a, x)' = OrdersAt(a, x) /\ \A y \in OrdersAt(a, x) : orders'[y] = orders[y]
      BY <1>5, <2>2 DEF OrdersAt
    <3>3. QED
      BY <2>1, <3>1, <3>2, OpenUnchanged
  <2>3. CASE a = s /\ x = p /\ ~InWindow(p) /\ rest = <<>>
    <3>1. LevelAt(a, x)'.queue = <<>> /\ LevelAt(a, x)'.total_quantity = 0
      BY <1>3, <2>3 DEF EMPTY
    <3>2. ToSet(LevelAt(a, x).queue)' = OrdersAt(a, x)'
      BY <1>2, QueueListsNext
    <3>3. OrdersAt(a, x)' = {}
      BY <3>1, <3>2 DEF ToSet
    <3>4. QED
      BY <3>1, <3>3, SumEmpty DEF Open
  <2>4. CASE a = s /\ x = p /\ ~(~InWindow(p) /\ rest = <<>>)
    <3> DEFINE S == OrdersAt(a, x)
               F == OpenQuantity
               G == OpenQuantity'
    <3>1. IsFiniteSet(S) /\ id \in S
      BY <2>4, QueueLists DEF OrdersAt
    <3>2. OrdersAt(a, x)' = S \ {id}
      BY <1>5, <2>4 DEF OrdersAt
    <3>3. (\A y \in S : F[y] \in Int) /\ F[id] = q
      BY OpenQuantityType DEF OrdersAt
    <3>4. \A y \in S \ {id} : F[y] \in Int /\ G[y] = F[y]
      <4>1. \A y \in S \ {id} : y \in DOMAIN orders /\ y \in DOMAIN orders'
        BY <1>5 DEF OrdersAt
      <4>2. QED
        BY <1>5, <4>1, OpenQuantityType DEF OpenQuantity, Remaining
    <3>5. Open(a, x)' = SumFunctionOnSet(G, S \ {id}) /\ Open(a, x) = SumFunctionOnSet(F, S)
      BY <3>2 DEF Open
    <3>6. LevelAt(a, x)'.total_quantity = LevelAt(a, x).total_quantity - q
      <4>1. LevelAt(a, x)' = l
        BY <1>3, <2>4
      <4>2. QED
        BY <2>4, <4>1
    <3> HIDE DEF S, F, G
    <3>7. IsFiniteSet(S \ {id})
      BY <3>1, FS_RemoveElement
    <3>8. SumFunctionOnSet(G, S \ {id}) = SumFunctionOnSet(F, S \ {id})
      BY <3>4, <3>7, SumSame
    <3>9. SumFunctionOnSet(F, S \ {id}) = SumFunctionOnSet(F, S) - F[id]
      BY <3>1, <3>3, SumRemove
    <3>10. QED
      BY <2>1, <3>3, <3>5, <3>6, <3>8, <3>9
  <2>5. QED
    BY <2>2, <2>3, <2>4
<1>7. QED
  BY <1>2, <1>6, LevelTotalsMeanNext

\* BookInv and LevelTotals read none of the volume indices.
LEMMA TotalsUntouched ==
  ASSUME LevelTotals, UNCHANGED <<orders, base, dense, sparse>>
  PROVE  LevelTotals'
<1>1. \A s \in Side : \A p \in Price : LevelAt(s, p)' = LevelAt(s, p)
  BY DEF LevelAt, InWindow
<1>2. OpenQuantity' = OpenQuantity
  BY DEF OpenQuantity, Remaining
<1>3. QED
  BY <1>1, <1>2 DEF LevelTotals

\* An empty level has the total of an empty level.
LEMMA EmptyLevel ==
  ASSUME BookInv, LevelTotals, NEW s \in Side, NEW p \in Price, p \notin LivePrices(s)
  PROVE  LevelAt(s, p) = EMPTY
<1>1. LevelAt(s, p) \in Level
  BY LevelAtType DEF BookInv
<1>2. LevelAt(s, p).queue = <<>>
  BY LiveMeansQueued DEF BookInv
<1>3. ToSet(LevelAt(s, p).queue) = {}
  BY <1>2 DEF ToSet
<1>4. LevelAt(s, p).total_quantity = 0
  BY <1>3, SumEmpty DEF LevelTotals
<1>5. QED
  BY <1>1, <1>2, <1>4 DEF Level, EMPTY

\* A move of the window keeps every level as it is.
LEMMA RecenterKeepsLevels ==
  ASSUME BookInv, LevelTotals, NEW b \in Nat, ForceRecenter(b)
  PROVE  /\ orders' = orders /\ best' = best
         /\ \A s \in Side : \A p \in Price : LevelAt(s, p)' = LevelAt(s, p)
<1>1. CASE b = base \/ b + MaxTicks > MaxPrice
  <2>1. UNCHANGED <<orders, best, base, dense, sparse>>
    BY <1>1 DEF ForceRecenter, book
  <2>2. QED
    BY <2>1 DEF LevelAt, InWindow
<1>2. CASE b # base /\ ~(b + MaxTicks > MaxPrice)
  <2>1. b + MaxTicks <= MaxPrice
    BY <1>2, BookAssumption
  <2>2. \A s \in Side : \A p \in Price : LevelAt(s, p)' = LevelAt(s, p)
    BY <1>2, <2>1, RecenterLevels, EmptyLevel
  <2>3. /\ orders' = orders
        /\ best' = [s \in Side |-> RecenteredBest(s, b)]
    BY <1>2 DEF ForceRecenter
  <2>4. \A s \in Side : RecenteredBest(s, b) = best[s]
    BY DEF RecenteredBest, BookInv, BestIsLive
  <2>5. best' = best
    BY <2>3, <2>4 DEF BookInv, BookTypeOK
  <2>6. QED
    BY <2>2, <2>3, <2>5
<1>3. QED
  BY <1>1, <1>2

LEMMA RecenterTotals ==
  ASSUME BookInv, LevelTotals, NEW b \in Nat, ForceRecenter(b)
  PROVE  LevelTotals'
<1>1. /\ orders' = orders
      /\ \A s \in Side : \A p \in Price : LevelAt(s, p)' = LevelAt(s, p)
  BY RecenterKeepsLevels
<1>2. OpenQuantity' = OpenQuantity
  BY <1>1 DEF OpenQuantity, Remaining
<1>3. QED
  BY <1>1, <1>2 DEF LevelTotals

LEMMA InitTotals == BookInit => LevelTotals
<1> SUFFICES ASSUME BookInit, NEW s \in Side, NEW p \in Price
             PROVE  LevelAt(s, p).total_quantity =
                      SumFunctionOnSet(OpenQuantity, ToSet(LevelAt(s, p).queue))
  BY DEF LevelTotals
<1>1. LevelAt(s, p) = EMPTY
  <2>1. InWindow(p) => p - base \in Index
    BY BookInitInv, LevelAtType DEF BookInv
  <2>2. QED
    BY <2>1 DEF BookInit, LevelAt
<1>2. ToSet(LevelAt(s, p).queue) = {}
  BY <1>1 DEF EMPTY, ToSet
<1>3. QED
  BY <1>1, <1>2, SumEmpty DEF EMPTY

LEMMA TotalsStep == BookInv /\ LevelTotals /\ [BookNext]_book => LevelTotals'
<1> SUFFICES ASSUME BookInv, LevelTotals, [BookNext]_book PROVE LevelTotals'
  OBVIOUS
<1>1. ASSUME NEW id \in OrderIds, NEW s \in Side, NEW p \in Prices,
             NEW q \in MinQuantity .. MaxQuantity, NEW t \in Terms, InsertOrder(id, s, p, q, t)
      PROVE  LevelTotals'
  <2>1. p \in Price /\ q \in Quantity
    BY BookAssumption DEF Quantity
  <2>2. CASE Insertable(id)
    BY <1>1, <2>1, <2>2, InsertTotals
  <2>3. CASE ~Insertable(id)
    BY <1>1, <2>3, TotalsUntouched DEF InsertOrder, book
  <2>4. QED
    BY <2>2, <2>3
<1>2. ASSUME NEW id \in DOMAIN orders, RemoveOrder(id) PROVE LevelTotals'
  BY <1>2, UnlinkTotals DEF RemoveOrder
<1>3. ASSUME NEW id \in DOMAIN orders, NEW q \in 1 .. Remaining(orders[id]), FillOrder(id, q)
      PROVE  LevelTotals'
  <2>1. CASE q = Remaining(orders[id])
    BY <1>3, <2>1, UnlinkTotals DEF FillOrder
  <2>2. CASE q # Remaining(orders[id])
    <3>1. Consume(id, q) /\ panicked' \in BOOLEAN
      BY <1>3, <2>2 DEF FillOrder, BookInv, BookTypeOK
    <3>2. QED
      BY <3>1, ConsumeTotals
  <2>3. QED
    BY <2>1, <2>2
<1>4. ASSUME NEW id \in DOMAIN orders, NEW q \in 1 .. Remaining(orders[id]) - 1, ReduceOrderQty(id, q)
      PROVE  LevelTotals'
  <2>1. q \in 1 .. Remaining(orders[id])
    BY BookAssumption DEF BookInv, BookTypeOK, Order, Quantity, Remaining
  <2>2. Consume(id, q) /\ panicked' \in BOOLEAN
    BY <1>4 DEF ReduceOrderQty, DepthRemove, BookInv, BookTypeOK
  <2>3. QED
    BY <2>1, <2>2, ConsumeTotals
<1>5. ASSUME MaybeRecenter PROVE LevelTotals'
  <2>1. PICK b \in Nat : ForceRecenter(b)
    BY <1>5, RecenterTarget
  <2>2. QED
    BY <2>1, RecenterTotals
<1>6. ASSUME NEW b \in Prices, ForceRecenter(b) PROVE LevelTotals'
  BY <1>6, RecenterTotals, BookAssumption DEF Price
<1>7. CASE UNCHANGED book
  BY <1>7, TotalsUntouched DEF book
<1>8. QED
  BY <1>1, <1>2, <1>3, <1>4, <1>5, <1>6, <1>7 DEF BookNext

\* A level's total is the sum of what its orders have left, after any sequence of
\* insertions, fills, reductions, removals and moves of the window: total_quantity -= qty
\* never takes off more than the level holds.
THEOREM TotalsAreSums == BookSpec => []LevelTotals
<1>1. BookInit => BookInv /\ LevelTotals
  BY BookInitInv, InitTotals
<1>2. BookInv /\ LevelTotals /\ [BookNext]_book => (BookInv /\ LevelTotals)'
  BY BookStepInv, TotalsStep
<1>3. QED
  BY <1>1, <1>2, PTL DEF BookSpec

-----------------------------------------------------------------------------
(* Moves of the window. *)

\* No other operation writes the window's start.
LEMMA OnlyRecenterMovesBase ==
  ASSUME BookInv, [BookNext]_book, base' # base
  PROVE  \E b \in Nat : ForceRecenter(b)
<1>1. ASSUME NEW id, NEW q, NEW r, Unlink(id, q, r) PROVE FALSE
  BY <1>1 DEF Unlink
<1>2. ASSUME NEW id, NEW q, Consume(id, q) PROVE FALSE
  BY <1>2 DEF Consume
<1>3. ASSUME NEW id, NEW s, NEW p, NEW q, NEW t, InsertOrder(id, s, p, q, t) PROVE FALSE
  BY <1>3 DEF InsertOrder, book
<1>4. ASSUME NEW id, \/ RemoveOrder(id)
                     \/ \E q \in 1 .. Remaining(orders[id]) : FillOrder(id, q)
                     \/ \E q \in 1 .. Remaining(orders[id]) - 1 : ReduceOrderQty(id, q)
      PROVE  FALSE
  BY <1>1, <1>2, <1>4 DEF RemoveOrder, FillOrder, ReduceOrderQty
<1>5. ASSUME MaybeRecenter PROVE \E b \in Nat : ForceRecenter(b)
  BY <1>5, RecenterTarget
<1>6. Prices \subseteq Nat
  BY BookAssumption DEF Price
<1>7. QED
  BY <1>3, <1>4, <1>5, <1>6 DEF BookNext, book

\* force_recenter moves levels between containers and nothing else: it changes no order, no
\* best price, and neither the queue nor the total of any level.
THEOREM RecenterMovesLevelsOnly == BookSpec => RecenterKeepsTheBook
<1>1. BookInv /\ LevelTotals /\ [BookNext]_book =>
        [base' # base => /\ UNCHANGED <<orders, best>>
                         /\ \A s \in Side : \A p \in Price : LevelAt(s, p)' = LevelAt(s, p)]_book
  <2> SUFFICES ASSUME BookInv, LevelTotals, [BookNext]_book, base' # base
               PROVE  /\ UNCHANGED <<orders, best>>
                      /\ \A s \in Side : \A p \in Price : LevelAt(s, p)' = LevelAt(s, p)
    OBVIOUS
  <2>1. PICK b \in Nat : ForceRecenter(b)
    BY OnlyRecenterMovesBase
  <2>2. QED
    BY <2>1, RecenterKeepsLevels
<1>2. QED
  BY <1>1, BookInvariant, TotalsAreSums, PTL DEF BookSpec, RecenterKeepsTheBook
-----------------------------------------------------------------------------
(***************************************************************************)
(* The volume indices.  Fills do not tell them, so they hold at least, and *)
(* seldom exactly, what the levels hold; what is taken off them is therefore *)
(* always there.                                                           *)
(***************************************************************************)
IndicesType ==
  /\ depth \in [Side -> [Index -> Nat]]
  /\ DOMAIN sparse_index = Side
  /\ \A s \in Side : \A p \in DOMAIN sparse_index[s] :
       p \in Price /\ ~InWindow(p) /\ sparse_index[s][p] \in Nat

\* No level holds more than the indices say.
IndicesCover ==
  /\ IndicesType
  /\ \A s \in Side : \A p \in Price : LevelAt(s, p).total_quantity <= Indexed(s, p)

LEMMA IndexedType ==
  ASSUME BookTypeOK, IndicesType, NEW s \in Side, NEW p \in Price
  PROVE  Indexed(s, p) \in Nat
<1>1. InWindow(p) => p - base \in Index
  BY LevelAtType
<1>2. QED
  BY <1>1 DEF Indexed, IndicesType

LEMMA SamePlace ==
  BookTypeOK => \A x, p \in Price : x - base = p - base <=> x = p
<1>1. \A a, b, c \in Int : a - c = b - c <=> a = b
  OBVIOUS
<1>2. BookTypeOK => base \in Int /\ Price \subseteq Int
  BY BookAssumption DEF BookTypeOK, Price
<1>3. QED
  BY <1>1, <1>2

\* Quantity is added to one price.
LEMMA DepthAddEffect ==
  ASSUME BookTypeOK, IndicesType, NEW s \in Side, NEW p \in Price, NEW q \in Nat,
         DepthAdd(s, p, q), base' = base
  PROVE  /\ IndicesType'
         /\ \A t \in Side : \A x \in Price :
              Indexed(t, x)' = IF t = s /\ x = p THEN Indexed(t, x) + q ELSE Indexed(t, x)
<1>1. \A x : InWindow(x)' <=> InWindow(x)
  BY DEF InWindow
<1>2. \A x \in Price : InWindow(x) => x - base \in Index
  BY LevelAtType
<1>3. CASE InWindow(p)
  <2>1. depth' = [depth EXCEPT ![s][p - base] = @ + q] /\ sparse_index' = sparse_index
    BY <1>3 DEF DepthAdd
  <2>2. depth' \in [Side -> [Index -> Nat]]
    BY <1>2, <1>3, <2>1 DEF IndicesType
  <2>3. \A t \in Side : \A i \in Index :
          depth'[t][i] = IF t = s /\ i = p - base THEN depth[t][i] + q ELSE depth[t][i]
    BY <1>2, <1>3, <2>1 DEF IndicesType
  <2>4. \A x \in Price : x - base = p - base <=> x = p
    BY SamePlace
  <2>5. \A t \in Side : \A x \in Price :
          Indexed(t, x)' = IF t = s /\ x = p THEN Indexed(t, x) + q ELSE Indexed(t, x)
    BY <1>1, <1>2, <1>3, <2>1, <2>3, <2>4 DEF Indexed
  <2>6. QED
    BY <1>1, <2>1, <2>2, <2>5 DEF IndicesType
<1>4. CASE ~InWindow(p)
  <2> DEFINE f == sparse_index[s]
             v == q + IF p \in DOMAIN f THEN f[p] ELSE 0
  <2>1. sparse_index' = [sparse_index EXCEPT ![s] = Bind(f, p, v)] /\ depth' = depth
    BY <1>4 DEF DepthAdd
  <2>2. v \in Nat /\ v = Indexed(s, p) + q
    BY <1>4 DEF IndicesType, Indexed
  <2> HIDE DEF v
  <2>3. /\ DOMAIN sparse_index' = Side
        /\ sparse_index'[s] = Bind(f, p, v)
        /\ \A t \in Side : t # s => sparse_index'[t] = sparse_index[t]
    BY <2>1 DEF IndicesType
  <2>4. /\ DOMAIN sparse_index'[s] = DOMAIN f \cup {p}
        /\ sparse_index'[s][p] = v
        /\ \A x \in DOMAIN f : x # p => sparse_index'[s][x] = f[x]
    BY <2>3 DEF Bind
  <2>5. \A t \in Side : \A x \in DOMAIN sparse_index'[t] :
          x \in Price /\ ~InWindow(x) /\ sparse_index'[t][x] \in Nat
    BY <1>4, <2>2, <2>3, <2>4 DEF IndicesType
  <2>6. \A t \in Side : \A x \in Price :
          Indexed(t, x)' = IF t = s /\ x = p THEN Indexed(t, x) + q ELSE Indexed(t, x)
    BY <1>1, <1>4, <2>1, <2>2, <2>3, <2>4 DEF Indexed
  <2>7. QED
    BY <1>1, <2>1, <2>3, <2>5, <2>6 DEF IndicesType
<1>5. QED
  BY <1>3, <1>4

\* The index holds the quantity and has an entry to take it from.
Withdrawable(s, p, q) == q <= Indexed(s, p) /\ (InWindow(p) \/ p \in DOMAIN sparse_index[s])

\* Quantity is taken off one price, or nothing happens but a panic.
LEMMA DepthRemoveEffect ==
  ASSUME BookTypeOK, IndicesType, NEW s \in Side, NEW p \in Price, NEW q \in Nat,
         DepthRemove(s, p, q), base' = base
  PROVE  /\ IndicesType'
         /\ Withdrawable(s, p, q) => panicked' = panicked
         /\ \A t \in Side : \A x \in Price :
              Indexed(t, x)' = IF t = s /\ x = p /\ Withdrawable(s, p, q)
                               THEN Indexed(t, x) - q ELSE Indexed(t, x)
<1>1. \A x : InWindow(x)' <=> InWindow(x)
  BY DEF InWindow
<1>2. \A x \in Price : InWindow(x) => x - base \in Index
  BY LevelAtType
<1>3. Indexed(s, p) \in Nat
  BY IndexedType
<1>4. CASE ~Withdrawable(s, p, q)
  <2>1. UNCHANGED <<depth, sparse_index>>
    BY <1>3, <1>4 DEF DepthRemove, Withdrawable
  <2>2. QED
    BY <1>1, <1>4, <2>1 DEF IndicesType, Indexed
<1>5. CASE Withdrawable(s, p, q) /\ InWindow(p)
  <2>1. /\ depth' = [depth EXCEPT ![s][p - base] = @ - q]
        /\ sparse_index' = sparse_index /\ panicked' = panicked
    BY <1>3, <1>5 DEF DepthRemove, Withdrawable
  <2>2. \A i \in Index : i = p - base => depth[s][i] - q \in Nat
    BY <1>5 DEF Withdrawable, Indexed, IndicesType
  <2>3. depth' \in [Side -> [Index -> Nat]]
    BY <1>2, <1>5, <2>1, <2>2 DEF IndicesType
  <2>4. \A t \in Side : \A i \in Index :
          depth'[t][i] = IF t = s /\ i = p - base THEN depth[t][i] - q ELSE depth[t][i]
    BY <1>2, <1>5, <2>1 DEF IndicesType
  <2>5. \A x \in Price : x - base = p - base <=> x = p
    BY SamePlace
  <2>6. \A t \in Side : \A x \in Price :
          Indexed(t, x)' = IF t = s /\ x = p THEN Indexed(t, x) - q ELSE Indexed(t, x)
    BY <1>1, <1>2, <1>5, <2>1, <2>4, <2>5 DEF Indexed
  <2>7. QED
    BY <1>1, <1>5, <2>1, <2>3, <2>6 DEF IndicesType
<1>6. CASE Withdrawable(s, p, q) /\ ~InWindow(p)
  <2> DEFINE f == sparse_index[s]
             g == IF f[p] = q THEN Unbind(f, p) ELSE [f EXCEPT ![p] = f[p] - q]
  <2>1. p \in DOMAIN f /\ f[p] \in Nat /\ f[p] = Indexed(s, p) /\ f[p] - q \in Nat
    BY <1>6 DEF Withdrawable, Indexed, IndicesType
  <2>2. /\ sparse_index' = [sparse_index EXCEPT ![s] = g]
        /\ depth' = depth /\ panicked' = panicked
    <3>1. ~(Indexed(s, p) < q \/ (~InWindow(p) /\ p \notin DOMAIN sparse_index[s]))
      BY <1>3, <1>6 DEF Withdrawable
    <3>2. QED
      BY <1>6, <3>1, Zenon DEF DepthRemove
  <2>3. /\ DOMAIN g \subseteq DOMAIN f
        /\ p \in DOMAIN g <=> f[p] # q
        /\ p \in DOMAIN g => g[p] = f[p] - q
        /\ \A x \in DOMAIN f : x # p => x \in DOMAIN g /\ g[x] = f[x]
    BY <2>1 DEF Unbind
  <2> HIDE DEF g
  <2>4. /\ DOMAIN sparse_index' = Side
        /\ sparse_index'[s] = g
        /\ \A t \in Side : t # s => sparse_index'[t] = sparse_index[t]
    BY <2>2 DEF IndicesType
  <2>5. \A t \in Side : \A x \in DOMAIN sparse_index'[t] :
          x \in Price /\ ~InWindow(x) /\ sparse_index'[t][x] \in Nat
    BY <2>1, <2>3, <2>4 DEF IndicesType
  <2>6. \A t \in Side : \A x \in Price :
          Indexed(t, x)' = IF t = s /\ x = p THEN Indexed(t, x) - q ELSE Indexed(t, x)
    BY <1>1, <1>6, <2>1, <2>2, <2>3, <2>4 DEF Indexed
  <2>7. QED
    BY <1>1, <1>6, <2>2, <2>4, <2>5, <2>6 DEF IndicesType
<1>7. QED
  BY <1>4, <1>5, <1>6

-----------------------------------------------------------------------------
(* Levels hold at least what any of their orders has left. *)

LEMMA TotalsHold ==
  ASSUME BookInv, LevelTotals, NEW s \in Side, NEW p \in Price
  PROVE  /\ LevelAt(s, p).total_quantity \in Nat
         /\ \A id \in OrdersAt(s, p) : Remaining(orders[id]) <= LevelAt(s, p).total_quantity
<1> DEFINE S == OrdersAt(s, p)
           F == OpenQuantity
<1>1. LevelAt(s, p).total_quantity = SumFunctionOnSet(F, S)
  BY LevelTotalsMean DEF Open
<1>2. IsFiniteSet(S)
  BY QueueLists
<1>3. \A id \in S : F[id] \in Nat /\ F[id] = Remaining(orders[id])
  BY OpenQuantityType DEF OrdersAt
<1> HIDE DEF S, F
<1>4. \A T \in SUBSET S : SumFunctionOnSet(F, T) \in Int /\ SumFunctionOnSet(F, T) >= 0
  <2> TAKE T \in SUBSET S
  <2>1. IsFiniteSet(T) /\ {} \in SUBSET T /\ \A id \in T : F[id] \in Nat
    BY <1>2, <1>3, FS_Subset
  <2>2. (\A id \in T : F[id] \in Int) /\ \A id \in {} : F[id] \in Int /\ F[id] <= F[id]
    BY <2>1
  <2>3. SumFunctionOnSet(F, T) \in Int
    BY <2>1, <2>2, SumType
  <2>4. SumFunctionOnSet(F, {}) <= SumFunctionOnSet(F, T)
    BY <2>1, <2>2, SumMonotone
  <2>5. QED
    BY <2>3, <2>4, SumEmpty
<1>5. ASSUME NEW id \in S PROVE F[id] <= SumFunctionOnSet(F, S)
  <2>1. SumFunctionOnSet(F, S \ {id}) = SumFunctionOnSet(F, S) - F[id]
    <3>1. \A y \in S : F[y] \in Int
      BY <1>3
    <3>2. QED
      BY <1>2, <3>1, SumRemove
  <2>2. S \ {id} \in SUBSET S /\ S \in SUBSET S
    OBVIOUS
  <2>3. F[id] \in Nat
    BY <1>3
  <2>4. /\ SumFunctionOnSet(F, S \ {id}) >= 0
        /\ SumFunctionOnSet(F, S) \in Int
    BY <1>4, <2>2
  <2>5. QED
    BY <2>1, <2>3, <2>4
<1>6. SumFunctionOnSet(F, S) \in Nat
  BY <1>4
<1>7. QED
  BY <1>1, <1>3, <1>5, <1>6 DEF S

-----------------------------------------------------------------------------
(* The indices cover the levels. *)

LEMMA CoverInit == BookInit => IndicesCover
<1> SUFFICES ASSUME BookInit PROVE IndicesCover
  OBVIOUS
<1>1. IndicesType
  BY DEF BookInit, IndicesType
<1>2. ASSUME NEW s \in Side, NEW p \in Price PROVE LevelAt(s, p).total_quantity <= Indexed(s, p)
  <2>1. InWindow(p) => p - base \in Index
    BY BookInitInv, LevelAtType DEF BookInv
  <2>2. LevelAt(s, p).total_quantity = 0 /\ Indexed(s, p) = 0
    BY <2>1 DEF BookInit, LevelAt, Indexed, EMPTY
  <2>3. QED
    BY <2>2
<1>3. QED
  BY <1>1, <1>2 DEF IndicesCover

LEMMA CoverUntouched ==
  ASSUME IndicesCover, UNCHANGED <<base, dense, sparse, depth, sparse_index>>
  PROVE  IndicesCover'
BY DEF IndicesCover, IndicesType, LevelAt, Indexed, InWindow

LEMMA InsertCovers ==
  ASSUME BookInv, IndicesCover, NEW id \in OrderIds, NEW s \in Side, NEW p \in Price,
         NEW q \in Quantity, NEW t \in Terms, Insertable(id), InsertOrder(id, s, p, q, t)
  PROVE  IndicesCover' /\ panicked' = panicked
<1>1. DepthAdd(s, p, q) /\ base' = base /\ q \in Nat
  BY BookAssumption DEF InsertOrder, Quantity
<1>2. /\ IndicesType'
      /\ \A a \in Side : \A x \in Price :
           Indexed(a, x)' = IF a = s /\ x = p THEN Indexed(a, x) + q ELSE Indexed(a, x)
  BY <1>1, DepthAddEffect DEF IndicesCover, BookInv
<1>3. ASSUME NEW a \in Side, NEW x \in Price
      PROVE  LevelAt(a, x)'.total_quantity <= Indexed(a, x)'
  <2>1. LevelAt(a, x).total_quantity <= Indexed(a, x)
    BY DEF IndicesCover
  <2>2. LevelAt(a, x).total_quantity \in Int /\ Indexed(a, x) \in Nat
    BY LevelAtType, IndexedType DEF BookInv, Level, IndicesCover
  <2>3. LevelAt(a, x)' = IF a = s /\ x = p THEN PushBack(LevelAt(s, p), id, q) ELSE LevelAt(a, x)
    BY InsertLevels
  <2>4. PushBack(LevelAt(s, p), id, q).total_quantity = LevelAt(s, p).total_quantity + q
    BY DEF PushBack
  <2>5. QED
    BY <1>1, <1>2, <2>1, <2>2, <2>3, <2>4
<1>4. panicked' = panicked
  BY <1>1 DEF DepthAdd
<1>5. QED
  BY <1>2, <1>3, <1>4 DEF IndicesCover

\* What leaves the level is at least what leaves the index.
LEMMA UnlinkCovers ==
  ASSUME BookInv, LevelTotals, IndicesCover, NEW id \in DOMAIN orders,
         NEW depthQty \in {0, Remaining(orders[id])},
         Unlink(id, Remaining(orders[id]), depthQty)
  PROVE  /\ IndicesCover'
         /\ Withdrawable(orders[id].side, orders[id].price, depthQty) => panicked' = panicked
<1> DEFINE s == orders[id].side
           p == orders[id].price
           q == Remaining(orders[id])
           rest == RemoveAt(QueueOf(id), Position(QueueOf(id), id))
           l == [total_quantity |-> LevelAt(s, p).total_quantity - q, queue |-> rest]
<1>1. q \in Nat /\ depthQty \in Nat /\ depthQty <= q
  BY OpenQuantityType
<1>2. s \in Side /\ p \in Price /\ id \in OrdersAt(s, p)
  BY LiveOrderIsQueued DEF BookInv, OrdersAt
<1>3. \A a \in Side : \A x \in Price :
        LevelAt(a, x)' = IF a = s /\ x = p
                         THEN IF ~InWindow(p) /\ rest = <<>> THEN EMPTY ELSE l
                         ELSE LevelAt(a, x)
  <2>1. q \in Int
    BY <1>1
  <2>2. QED
    BY <2>1, UnlinkLevels
<1>4. DepthRemove(s, p, depthQty) /\ base' = base
  BY DEF Unlink
<1>5. /\ IndicesType'
      /\ Withdrawable(s, p, depthQty) => panicked' = panicked
      /\ \A a \in Side : \A x \in Price :
           Indexed(a, x)' = IF a = s /\ x = p /\ Withdrawable(s, p, depthQty)
                            THEN Indexed(a, x) - depthQty ELSE Indexed(a, x)
  BY <1>1, <1>2, <1>4, DepthRemoveEffect DEF IndicesCover, BookInv
<1>6. l.total_quantity = LevelAt(s, p).total_quantity - q /\ EMPTY.total_quantity = 0
  BY DEF EMPTY
<1> HIDE DEF l, rest
<1>7. ASSUME NEW a \in Side, NEW x \in Price
      PROVE  LevelAt(a, x)'.total_quantity <= Indexed(a, x)'
  <2>1. LevelAt(a, x).total_quantity <= Indexed(a, x)
    BY DEF IndicesCover
  <2>2. LevelAt(a, x).total_quantity \in Nat /\ Indexed(a, x) \in Nat
    BY TotalsHold, IndexedType DEF BookInv, IndicesCover
  <2>3. CASE ~(a = s /\ x = p)
    BY <1>3, <1>5, <2>1, <2>3
  <2>4. CASE a = s /\ x = p
    <3>1. LevelAt(a, x)'.total_quantity \in {0, LevelAt(a, x).total_quantity - q}
      BY <1>3, <1>6, <2>4
    <3>2. Indexed(a, x)' \in {Indexed(a, x), Indexed(a, x) - depthQty}
      BY <1>5, <2>4
    <3>3. q <= LevelAt(a, x).total_quantity
      BY <1>2, <2>4, TotalsHold
    <3> HIDE DEF q
    <3>4. QED
      BY <1>1, <2>1, <2>2, <3>1, <3>2, <3>3
  <2>5. QED
    BY <2>3, <2>4
<1>8. QED
  BY <1>5, <1>7 DEF IndicesCover

\* The quantity leaves the level; the index is told (reduce) or not (fill).
LEMMA ConsumeCovers ==
  ASSUME BookInv, LevelTotals, IndicesCover, NEW id \in DOMAIN orders,
         NEW q \in 1 .. Remaining(orders[id]), Consume(id, q),
         \/ UNCHANGED <<depth, sparse_index, panicked>>
         \/ DepthRemove(orders[id].side, orders[id].price, q)
  PROVE  /\ IndicesCover'
         /\ Withdrawable(orders[id].side, orders[id].price, q) => panicked' = panicked
<1> DEFINE s == orders[id].side
           p == orders[id].price
<1>1. q \in Nat /\ q \in Int
  OBVIOUS
<1>2. s \in Side /\ p \in Price
  BY LiveOrderIsQueued DEF BookInv
<1>3. \A a \in Side : \A x \in Price :
        LevelAt(a, x)' = IF a = s /\ x = p
                         THEN [LevelAt(s, p) EXCEPT !.total_quantity = @ - q] ELSE LevelAt(a, x)
  BY <1>1, ConsumeLevels
<1>4. base' = base
  BY DEF Consume
<1>5. /\ IndicesType'
      /\ Withdrawable(s, p, q) => panicked' = panicked
      /\ \A a \in Side : \A x \in Price :
           Indexed(a, x)' \in {Indexed(a, x), IF a = s /\ x = p THEN Indexed(a, x) - q ELSE Indexed(a, x)}
  <2>1. CASE UNCHANGED <<depth, sparse_index, panicked>>
    BY <1>4, <2>1 DEF IndicesCover, IndicesType, Indexed, InWindow
  <2>2. CASE DepthRemove(s, p, q)
    BY <1>1, <1>2, <1>4, <2>2, DepthRemoveEffect DEF IndicesCover, BookInv
  <2>3. QED
    BY <2>1, <2>2
<1>6. ASSUME NEW a \in Side, NEW x \in Price
      PROVE  LevelAt(a, x)'.total_quantity <= Indexed(a, x)'
  <2>1. LevelAt(a, x).total_quantity <= Indexed(a, x)
    BY DEF IndicesCover
  <2>2. LevelAt(a, x).total_quantity \in Nat /\ Indexed(a, x) \in Nat
    BY TotalsHold, IndexedType DEF BookInv, IndicesCover
  <2>3. CASE ~(a = s /\ x = p)
    BY <1>3, <1>5, <2>1, <2>3
  <2>4. CASE a = s /\ x = p
    <3>1. LevelAt(a, x) \in Level
      BY LevelAtType DEF BookInv
    <3>2. LevelAt(a, x)'.total_quantity = LevelAt(a, x).total_quantity - q
      BY <1>3, <2>4, <3>1 DEF Level
    <3>3. Indexed(a, x)' \in {Indexed(a, x), Indexed(a, x) - q}
      BY <1>5, <2>4
    <3>4. QED
      BY <1>1, <2>1, <2>2, <3>2, <3>3
  <2>5. QED
    BY <2>3, <2>4
<1>7. QED
  BY <1>5, <1>6 DEF IndicesCover

\* force_recenter rebuilds the indices from the totals of the levels.
LEMMA RecenterCovers ==
  ASSUME BookInv, LevelTotals, IndicesCover, NEW b \in Nat, ForceRecenter(b)
  PROVE  /\ IndicesCover'
         /\ b + MaxTicks <= MaxPrice => panicked' = panicked
<1>1. CASE b = base
  BY <1>1, CoverUntouched DEF ForceRecenter, book
<1>2. CASE b # base /\ b + MaxTicks > MaxPrice
  <2>1. UNCHANGED <<base, dense, sparse, depth, sparse_index>>
    BY <1>2 DEF ForceRecenter
  <2>2. ~(b + MaxTicks <= MaxPrice)
    BY <1>2, BookAssumption
  <2>3. QED
    BY <2>1, <2>2, CoverUntouched
<1>3. CASE b # base /\ ~(b + MaxTicks > MaxPrice)
  <2> DEFINE new == b .. b + MaxTicks - 1
  <2>1. /\ base' = b /\ panicked' = panicked
        /\ dense' = [s \in Side |-> [i \in Index |->
                      IF b + i \in LivePrices(s) THEN LevelAt(s, b + i) ELSE EMPTY]]
        /\ sparse' = [s \in Side |-> [p \in LivePrices(s) \ new |-> LevelAt(s, p)]]
        /\ depth' = [s \in Side |-> [i \in Index |-> dense'[s][i].total_quantity]]
        /\ sparse_index' = [s \in Side |-> [p \in DOMAIN sparse'[s] |-> sparse'[s][p].total_quantity]]
    BY <1>3 DEF ForceRecenter
  <2>2. b + MaxTicks <= MaxPrice
    BY <1>3, BookAssumption
  <2>3. \A i \in Index : b + i \in Price
    BY <2>2, BookAssumption DEF Index, Price
  <2>4. \A x \in Price : InWindow(x)' <=> x \in new
    BY <2>1, BookAssumption DEF InWindow, Price
  <2>5. \A s \in Side : LivePrices(s) \subseteq Price
    BY LiveMeansQueued DEF BookInv
  <2>6. ASSUME NEW s \in Side, NEW i \in Index PROVE depth'[s][i] \in Nat
    <3>1. depth'[s][i] = dense'[s][i].total_quantity
      BY <2>1
    <3>2. dense'[s][i] = IF b + i \in LivePrices(s) THEN LevelAt(s, b + i) ELSE EMPTY
      BY <2>1
    <3>3. LevelAt(s, b + i).total_quantity \in Nat /\ EMPTY.total_quantity = 0
      BY <2>3, TotalsHold DEF EMPTY
    <3>4. QED
      BY <3>1, <3>2, <3>3
  <2>7. depth' \in [Side -> [Index -> Nat]]
    BY <2>1, <2>6
  <2>8. ASSUME NEW s \in Side
        PROVE  /\ DOMAIN sparse'[s] = LivePrices(s) \ new /\ DOMAIN sparse_index'[s] = DOMAIN sparse'[s]
               /\ \A p \in DOMAIN sparse'[s] : sparse'[s][p] = LevelAt(s, p)
               /\ \A p \in DOMAIN sparse'[s] : sparse_index'[s][p] = sparse'[s][p].total_quantity
    BY <2>1
  <2>9. ASSUME NEW s \in Side, NEW p \in DOMAIN sparse_index'[s]
        PROVE  p \in Price /\ ~InWindow(p)' /\ sparse_index'[s][p] \in Nat
    BY <2>4, <2>5, <2>8, <2>9, TotalsHold
  <2>10. IndicesType'
    <3>1. DOMAIN sparse_index' = Side
      BY <2>1
    <3>2. QED
      BY <2>7, <2>9, <3>1 DEF IndicesType
  <2>11. ASSUME NEW s \in Side, NEW p \in Price
         PROVE  LevelAt(s, p)'.total_quantity <= Indexed(s, p)'
    <3>1. LevelAt(s, p)' = LevelAt(s, p) /\ LevelAt(s, p).total_quantity \in Nat
      BY RecenterKeepsLevels, TotalsHold
    <3>2. CASE p \in new
      <4>1. p - b \in Index
        BY <3>2, BookAssumption DEF Index, Price
      <4>2. LevelAt(s, p)' = dense'[s][p - b] /\ Indexed(s, p)' = depth'[s][p - b]
        BY <2>1, <2>4, <3>2 DEF LevelAt, Indexed
      <4>3. depth'[s][p - b] = dense'[s][p - b].total_quantity
        BY <2>1, <4>1
      <4>4. QED
        BY <3>1, <4>2, <4>3
    <3>3. CASE p \notin new
      <4>1. /\ LevelAt(s, p)' = IF p \in DOMAIN sparse'[s] THEN sparse'[s][p] ELSE EMPTY
            /\ Indexed(s, p)' = IF p \in DOMAIN sparse_index'[s] THEN sparse_index'[s][p] ELSE 0
        BY <2>4, <3>3 DEF LevelAt, Indexed
      <4>2. LevelAt(s, p)'.total_quantity = Indexed(s, p)'
        BY <2>8, <4>1 DEF EMPTY
      <4>3. QED
        BY <3>1, <4>2
    <3>4. QED
      BY <3>2, <3>3
  <2>12. QED
    BY <2>1, <2>10, <2>11 DEF IndicesCover
<1>4. QED
  BY <1>1, <1>2, <1>3


\* What the book keeps true of its totals and indices.
TotalsInv == BookInv /\ LevelTotals /\ IndicesCover

LEMMA CoverStep == TotalsInv /\ [BookNext]_book => IndicesCover'
<1> SUFFICES ASSUME TotalsInv, [BookNext]_book PROVE IndicesCover'
  OBVIOUS
<1> USE DEF TotalsInv
<1>1. ASSUME NEW id \in OrderIds, NEW s \in Side, NEW p \in Prices,
             NEW q \in MinQuantity .. MaxQuantity, NEW t \in Terms, InsertOrder(id, s, p, q, t)
      PROVE  IndicesCover'
  <2>1. p \in Price /\ q \in Quantity
    BY BookAssumption DEF Quantity
  <2>2. CASE Insertable(id)
    BY <1>1, <2>1, <2>2, InsertCovers
  <2>3. CASE ~Insertable(id)
    BY <1>1, <2>3, CoverUntouched DEF InsertOrder, book
  <2>4. QED
    BY <2>2, <2>3
<1>2. ASSUME NEW id \in DOMAIN orders, RemoveOrder(id) PROVE IndicesCover'
  BY <1>2, UnlinkCovers DEF RemoveOrder
<1>3. ASSUME NEW id \in DOMAIN orders, NEW q \in 1 .. Remaining(orders[id]), FillOrder(id, q)
      PROVE  IndicesCover'
  BY <1>3, UnlinkCovers, ConsumeCovers DEF FillOrder
<1>4. ASSUME NEW id \in DOMAIN orders, NEW q \in 1 .. Remaining(orders[id]) - 1, ReduceOrderQty(id, q)
      PROVE  IndicesCover'
  <2>1. q \in 1 .. Remaining(orders[id])
    BY BookAssumption DEF BookInv, BookTypeOK, Order, Quantity, Remaining
  <2>2. QED
    BY <1>4, <2>1, ConsumeCovers DEF ReduceOrderQty
<1>5. ASSUME MaybeRecenter PROVE IndicesCover'
  <2>1. PICK b \in Nat : ForceRecenter(b)
    BY <1>5, RecenterTarget
  <2>2. QED
    BY <2>1, RecenterCovers
<1>6. ASSUME NEW b \in Prices, ForceRecenter(b) PROVE IndicesCover'
  BY <1>6, RecenterCovers, BookAssumption DEF Price
<1>7. CASE UNCHANGED book
  BY <1>7, CoverUntouched DEF book
<1>8. QED
  BY <1>1, <1>2, <1>3, <1>4, <1>5, <1>6, <1>7 DEF BookNext

LEMMA TotalsInvariant == BookSpec => []TotalsInv
<1>1. BookInit => TotalsInv
  BY BookInitInv, InitTotals, CoverInit DEF TotalsInv
<1>2. TotalsInv /\ [BookNext]_book => TotalsInv'
  BY BookStepInv, TotalsStep, CoverStep DEF TotalsInv
<1>3. QED
  BY <1>1, <1>2, PTL DEF BookSpec

-----------------------------------------------------------------------------
(* No operation panics. *)

\* Every live order has something left and was entered at one of the prices.
OrdersAreOpen ==
  \A id \in DOMAIN orders : Remaining(orders[id]) >= 1 /\ orders[id].price \in Prices

\* The index has an entry for every order, and holds what the order has left.
LEMMA OpenOrderIsHeld ==
  ASSUME TotalsInv, OrdersAreOpen, NEW id \in DOMAIN orders,
         NEW q \in 0 .. Remaining(orders[id])
  PROVE  Withdrawable(orders[id].side, orders[id].price, q)
<1> DEFINE s == orders[id].side
           p == orders[id].price
<1>1. s \in Side /\ p \in Price /\ id \in OrdersAt(s, p)
  BY LiveOrderIsQueued DEF TotalsInv, BookInv, OrdersAt
<1>2. /\ LevelAt(s, p).total_quantity \in Nat
      /\ Remaining(orders[id]) <= LevelAt(s, p).total_quantity
  BY <1>1, TotalsHold DEF TotalsInv
<1>3. LevelAt(s, p).total_quantity <= Indexed(s, p) /\ Indexed(s, p) \in Nat
  BY <1>1, IndexedType DEF TotalsInv, IndicesCover, BookInv
<1>4. Remaining(orders[id]) \in Nat /\ Remaining(orders[id]) >= 1
  BY OpenQuantityType DEF TotalsInv, OrdersAreOpen
<1>5. q <= Indexed(s, p) /\ Indexed(s, p) >= 1
  BY <1>2, <1>3, <1>4
<1>6. InWindow(p) \/ p \in DOMAIN sparse_index[s]
  BY <1>5 DEF Indexed
<1>7. QED
  BY <1>5, <1>6 DEF Withdrawable

LEMMA OpenOrdersStep ==
  ASSUME MinQuantity \in Nat \ {0}
  PROVE  BookInv /\ OrdersAreOpen /\ [BookNext]_book => OrdersAreOpen'
<1> SUFFICES ASSUME BookInv, OrdersAreOpen, [BookNext]_book PROVE OrdersAreOpen'
  OBVIOUS
<1>1. ASSUME NEW id \in OrderIds, NEW s \in Side, NEW p \in Prices,
             NEW q \in MinQuantity .. MaxQuantity, NEW t \in Terms, InsertOrder(id, s, p, q, t)
      PROVE  OrdersAreOpen'
  <2>1. CASE ~Insertable(id)
    BY <1>1, <2>1 DEF InsertOrder, book, OrdersAreOpen
  <2>2. CASE Insertable(id)
    <3> DEFINE o == [side |-> s, price |-> p, quantity |-> q, filled |-> 0, terms |-> t]
    <3>1. orders' = Bind(orders, id, o)
      BY <1>1, <2>2 DEF InsertOrder
    <3>2. Remaining(o) >= 1 /\ o.price \in Prices
      BY BookAssumption DEF Remaining
    <3> HIDE DEF o
    <3>3. /\ DOMAIN orders' = DOMAIN orders \cup {id}
          /\ \A x \in DOMAIN orders' : orders'[x] = IF x = id THEN o ELSE orders[x]
      BY <3>1 DEF Bind
    <3>4. ASSUME NEW x \in DOMAIN orders'
          PROVE  Remaining(orders'[x]) >= 1 /\ orders'[x].price \in Prices
      BY <3>2, <3>3 DEF OrdersAreOpen
    <3>5. QED
      BY <3>4 DEF OrdersAreOpen, Remaining
  <2>3. QED
    BY <2>1, <2>2
<1>2. ASSUME NEW id \in DOMAIN orders, NEW lq, NEW dq, Unlink(id, lq, dq) PROVE OrdersAreOpen'
  <2>1. orders' = Unbind(orders, id)
    BY <1>2 DEF Unlink
  <2>2. \A x \in DOMAIN orders' : x \in DOMAIN orders /\ orders'[x] = orders[x]
    BY <2>1 DEF Unbind
  <2>3. QED
    BY <2>2 DEF OrdersAreOpen, Remaining
<1>3. ASSUME NEW id \in DOMAIN orders, NEW q \in 1 .. Remaining(orders[id]) - 1, Consume(id, q)
      PROVE  OrdersAreOpen'
  <2>1. orders[id] \in Order /\ orders[id].filled <= orders[id].quantity
    BY DEF BookInv, BookTypeOK
  <2>2. orders' = [orders EXCEPT ![id].filled = @ + q]
    BY <1>3 DEF Consume
  <2>3. orders'[id] = [orders[id] EXCEPT !.filled = @ + q]
    BY <2>2
  <2>4. Remaining(orders'[id]) >= 1
    BY <2>1, <2>3, BookAssumption DEF Order, Quantity, Remaining
  <2>5. orders'[id].price = orders[id].price
    BY <2>1, <2>3 DEF Order
  <2>6. \A x \in DOMAIN orders' : x \in DOMAIN orders /\ (x # id => orders'[x] = orders[x])
    BY <2>2
  <2>7. ASSUME NEW x \in DOMAIN orders'
        PROVE  Remaining(orders'[x]) >= 1 /\ orders'[x].price \in Prices
    BY <2>4, <2>5, <2>6 DEF OrdersAreOpen
  <2>8. QED
    BY <2>7 DEF OrdersAreOpen, Remaining
<1>4. ASSUME orders' = orders PROVE OrdersAreOpen'
  BY <1>4 DEF OrdersAreOpen, Remaining
<1>5. ASSUME NEW b, ForceRecenter(b) PROVE OrdersAreOpen'
  BY <1>4, <1>5 DEF ForceRecenter, book
<1>6. ASSUME NEW id \in DOMAIN orders, RemoveOrder(id) PROVE OrdersAreOpen'
  BY <1>2, <1>6 DEF RemoveOrder
<1>7. ASSUME NEW id \in DOMAIN orders, NEW q \in 1 .. Remaining(orders[id]), FillOrder(id, q)
      PROVE  OrdersAreOpen'
  <2>1. CASE q = Remaining(orders[id])
    BY <1>2, <1>7, <2>1 DEF FillOrder
  <2>2. CASE q # Remaining(orders[id])
    <3>1. Remaining(orders[id]) \in Nat
      BY OpenQuantityType
    <3>2. q \in 1 .. Remaining(orders[id]) - 1
      BY <2>2, <3>1
    <3>3. QED
      BY <1>3, <1>7, <2>2, <3>2 DEF FillOrder
  <2>3. QED
    BY <2>1, <2>2
<1>8. ASSUME NEW id \in DOMAIN orders, NEW q \in 1 .. Remaining(orders[id]) - 1, ReduceOrderQty(id, q)
      PROVE  OrdersAreOpen'
  BY <1>3, <1>8 DEF ReduceOrderQty
<1>9. CASE MaybeRecenter
  BY <1>5, <1>9 DEF MaybeRecenter
<1>10. QED
  BY <1>1, <1>4, <1>5, <1>6, <1>7, <1>8, <1>9 DEF BookNext, book

\* The window maybe_recenter asks for fits, if the prices of the orders leave room for it.
LEMMA RecenterFits ==
  ASSUME \A p \in Prices : p + MaxTicks <= MaxPrice, BookInv, OrdersAreOpen, MaybeRecenter
  PROVE  \E b \in Nat : b + MaxTicks <= MaxPrice /\ ForceRecenter(b)
<1> DEFINE center == IF best["Bid"] # NONE THEN best["Bid"] ELSE best["Ask"]
           half == MaxTicks \div 2
           b == IF center >= half THEN center - half ELSE 0
<1>1. center \in Price /\ half \in Nat
  BY BookAssumption DEF MaybeRecenter, NeedsRecenter, BookInv, BookTypeOK, Price, Side
<1>2. \E s \in Side : center = best[s] /\ best[s] # NONE
  BY DEF MaybeRecenter, NeedsRecenter, Side
<1>3. PICK s \in Side : center = best[s] /\ best[s] # NONE
  BY <1>2
<1> HIDE DEF center
<1>4. Queued(s, center)
  BY <1>1, <1>3, BestIsLiveMeans DEF BookInv, NamesALevel
<1>5. center \in Prices
  <2>1. LevelAt(s, center).queue \in Seq(OrderIds)
    BY <1>1, LevelAtType DEF BookInv, Level
  <2>2. PICK k \in DOMAIN LevelAt(s, center).queue : TRUE
    <3>1. \A q \in Seq(OrderIds) : q # <<>> => 1 \in DOMAIN q
      OBVIOUS
    <3>2. QED
      BY <1>4, <2>1, <3>1 DEF Queued
  <2>3. LevelAt(s, center).queue[k] \in OrdersAt(s, center)
    BY <1>1, QueueLists DEF ToSet
  <2>4. QED
    BY <2>3 DEF OrdersAt, OrdersAreOpen
<1>6. center + MaxTicks <= MaxPrice
  BY <1>5
<1>7. b \in Nat /\ b + MaxTicks <= MaxPrice
  BY <1>1, <1>6, BookAssumption DEF Price
<1>8. ForceRecenter(b)
  BY DEF MaybeRecenter, center
<1> HIDE DEF b
<1>9. QED
  BY <1>7, <1>8

LEMMA NoPanicStep ==
  ASSUME \A p \in Prices : p + MaxTicks <= MaxPrice
  PROVE  TotalsInv /\ OrdersAreOpen /\ NoPanic /\ [BookNext]_book => NoPanic'
<1> SUFFICES ASSUME TotalsInv, OrdersAreOpen, [BookNext]_book PROVE panicked' = panicked
  BY DEF NoPanic
<1> USE DEF TotalsInv
<1>1. ASSUME NEW id \in OrderIds, NEW s \in Side, NEW p \in Prices,
             NEW q \in MinQuantity .. MaxQuantity, NEW t \in Terms, InsertOrder(id, s, p, q, t)
      PROVE  panicked' = panicked
  <2>1. p \in Price /\ q \in Quantity
    BY BookAssumption DEF Quantity
  <2>2. CASE Insertable(id)
    BY <1>1, <2>1, <2>2, InsertCovers
  <2>3. CASE ~Insertable(id)
    BY <1>1, <2>3 DEF InsertOrder, book
  <2>4. QED
    BY <2>2, <2>3
<1>2. \A id \in DOMAIN orders : Remaining(orders[id]) \in Nat
  BY OpenQuantityType
<1>3. ASSUME NEW id \in DOMAIN orders, RemoveOrder(id) PROVE panicked' = panicked
  <2>1. Remaining(orders[id]) \in 0 .. Remaining(orders[id])
    BY <1>2
  <2>2. QED
    BY <1>3, <2>1, OpenOrderIsHeld, UnlinkCovers DEF RemoveOrder
<1>4. ASSUME NEW id \in DOMAIN orders, NEW q \in 1 .. Remaining(orders[id]), FillOrder(id, q)
      PROVE  panicked' = panicked
  <2>1. 0 \in 0 .. Remaining(orders[id])
    BY <1>2
  <2>2. CASE q = Remaining(orders[id])
    BY <1>4, <2>1, <2>2, OpenOrderIsHeld, UnlinkCovers DEF FillOrder
  <2>3. CASE q # Remaining(orders[id])
    BY <1>4, <2>3 DEF FillOrder
  <2>4. QED
    BY <2>2, <2>3
<1>5. ASSUME NEW id \in DOMAIN orders, NEW q \in 1 .. Remaining(orders[id]) - 1, ReduceOrderQty(id, q)
      PROVE  panicked' = panicked
  <2>1. q \in 1 .. Remaining(orders[id]) /\ q \in 0 .. Remaining(orders[id])
    BY <1>2
  <2>2. QED
    BY <1>5, <2>1, OpenOrderIsHeld, ConsumeCovers DEF ReduceOrderQty
<1>6. ASSUME MaybeRecenter PROVE panicked' = panicked
  <2>1. PICK b \in Nat : b + MaxTicks <= MaxPrice /\ ForceRecenter(b)
    BY <1>6, RecenterFits
  <2>2. QED
    BY <2>1, RecenterCovers
<1>7. ASSUME NEW b \in Prices, ForceRecenter(b) PROVE panicked' = panicked
  <2>1. b \in Nat /\ b + MaxTicks <= MaxPrice
    BY BookAssumption DEF Price
  <2>2. QED
    BY <1>7, <2>1, RecenterCovers
<1>8. CASE UNCHANGED book
  BY <1>8 DEF book
<1>9. QED
  BY <1>1, <1>3, <1>4, <1>5, <1>6, <1>7, <1>8 DEF BookNext

\* As long as orders have a quantity and the window fits above every price orders are entered
\* at, no operation panics, although fills tell the volume indices nothing: neither the
\* expect of SparseVolumeIndex::sub, nor the Fenwick underflow check, nor the arithmetic of
\* force_recenter.
THEOREM BookNeverPanics ==
  ASSUME MinQuantity \in Nat \ {0}, \A p \in Prices : p + MaxTicks <= MaxPrice
  PROVE  BookSpec => []NoPanic
<1>1. BookInit => OrdersAreOpen /\ NoPanic
  BY DEF BookInit, OrdersAreOpen, NoPanic
<1>2. TotalsInv /\ OrdersAreOpen /\ NoPanic /\ [BookNext]_book => OrdersAreOpen' /\ NoPanic'
  BY OpenOrdersStep, NoPanicStep DEF TotalsInv
<1>3. QED
  BY <1>1, <1>2, TotalsInvariant, PTL DEF BookSpec


-----------------------------------------------------------------------------
(* The fill-or-kill query. *)

IndexedOn(s) == [p \in Price |-> Indexed(s, p)]

\* The prices at which an order limited to price can trade on side s.
AtOrBetter(s, price) == {p \in Price : ~Better(s, price, p)}

LEMMA PricesAreFinite == \A P \in SUBSET Price : IsFiniteSet(P)
<1>1. IsFiniteSet(Price)
  BY BookAssumption, FS_Interval DEF Price
<1>2. QED
  BY <1>1, FS_Subset

\* A part of the window and some of the sparse entries add up to the indexed quantity of a
\* set of prices that holds both and nothing else the indices know of.
LEMMA SplitSum ==
  ASSUME BookTypeOK, IndicesType, NEW s \in Side, NEW I \in SUBSET Index,
         NEW P \in SUBSET DOMAIN sparse_index[s], NEW H \in SUBSET Price,
         \A i \in I : base + i \in H,
         \A p \in H : InWindow(p) => p - base \in I,
         P \subseteq H,
         \A p \in H : p \in DOMAIN sparse_index[s] => p \in P
  PROVE  /\ SumFunctionOnSet(IndexedOn(s), H) = DenseSum(s, I) + SparseSum(s, P)
         /\ DenseSum(s, I) \in Int /\ SparseSum(s, P) \in Int
<1> DEFINE F == IndexedOn(s)
           D == {base + i : i \in I}
           Z == H \ (D \cup P)
<1>1. \A p \in Price : F[p] = Indexed(s, p) /\ F[p] \in Int
  BY IndexedType DEF IndexedOn
<1>2. base \in Int /\ IsFiniteSet(Index) /\ Index \subseteq Int
  BY BookAssumption, FS_Interval DEF BookTypeOK, Index
<1>3. \A i \in I : base + i \in Price /\ F[base + i] = depth[s][i] /\ depth[s][i] \in Int
  <2> TAKE i \in I
  <2>1. base + i \in Price /\ InWindow(base + i) /\ (base + i) - base = i
    BY BookAssumption DEF BookTypeOK, Index, InWindow, Price
  <2>2. F[base + i] = depth[s][i]
    BY <1>1, <2>1 DEF Indexed
  <2>3. QED
    BY <2>1, <2>2 DEF IndicesType
<1>4. \A p \in P : p \in Price /\ F[p] = sparse_index[s][p] /\ sparse_index[s][p] \in Int
  BY <1>1 DEF Indexed, IndicesType
<1>5. \A p \in Z : F[p] = 0
  <2> SUFFICES ASSUME NEW p \in Z PROVE F[p] = 0
    OBVIOUS
  <2>1. p \in Price /\ p \notin D /\ p \notin DOMAIN sparse_index[s]
    OBVIOUS
  <2>2. CASE InWindow(p)
    <3>1. p - base \in I /\ base + (p - base) = p
      BY <1>2, <2>2, BookAssumption DEF Price
    <3>2. QED
      BY <2>1, <3>1
  <2>3. QED
    BY <1>1, <2>1, <2>2 DEF Indexed
<1>6. D \cap P = {} /\ D \subseteq H
  <2>1. \A i \in I : InWindow(base + i)
    BY BookAssumption DEF BookTypeOK, Index, InWindow
  <2>2. QED
    BY <2>1 DEF IndicesType
<1>7. (D \cup P) \cup Z = H /\ (D \cup P) \cap Z = {}
  BY <1>6
<1>8. IsFiniteSet(H) /\ IsFiniteSet(D) /\ IsFiniteSet(P) /\ IsFiniteSet(Z) /\ IsFiniteSet(I)
  <2>1. D \in SUBSET Price /\ P \in SUBSET Price /\ Z \in SUBSET Price
    BY <1>4, <1>6
  <2>2. QED
    BY <1>2, <2>1, PricesAreFinite, FS_Subset
<1>9. SumFunctionOnSet(depth[s], I) = SumFunctionOnSet(F, D)
  <2> DEFINE d == depth[s]
  <2>1. I \in SUBSET Int /\ \A i \in I : base + i \in D /\ F[base + i] \in Int /\ d[i] = F[base + i]
    BY <1>1, <1>2, <1>3
  <2>2. D \in SUBSET Int /\ \A x \in D : x - base \in I
    BY <1>2
  <2>3. IsFiniteSet(I) /\ IsFiniteSet(D) /\ base \in Int
    BY <1>2, <1>8
  <2>4. Moved(D, I, base)
    BY <2>1, <2>2, <2>3 DEF Moved
  <2> HIDE DEF F, D, d
  <2>5. SumFunctionOnSet(d, I) = SumFunctionOnSet(F, D)
    BY <2>1, <2>3, <2>4, SumShift
  <2>6. QED
    BY <2>5 DEF d
<1>10. SumFunctionOnSet(sparse_index[s], P) = SumFunctionOnSet(F, P)
  <2> DEFINE d == sparse_index[s]
  <2>1. \A p \in P : F[p] \in Int /\ d[p] = F[p]
    BY <1>4
  <2> HIDE DEF F, d
  <2>2. SumFunctionOnSet(d, P) = SumFunctionOnSet(F, P)
    BY <1>8, <2>1, SumSame
  <2>3. QED
    BY <2>2 DEF d
<1>11. \A p \in H : F[p] \in Int
  BY <1>1
<1>12. P \in SUBSET H /\ D \in SUBSET H /\ Z \in SUBSET H /\ D \cup P \in SUBSET H
  BY <1>6
<1>13. IsFiniteSet(D \cup P) /\ \A p \in D \cup P : F[p] \in Int
  BY <1>8, <1>11, <1>12, FS_Subset
<1> HIDE DEF F, D, Z
<1>14. SumFunctionOnSet(F, (D \cup P) \cup Z) = SumFunctionOnSet(F, D \cup P) + SumFunctionOnSet(F, Z)
  BY <1>7, <1>8, <1>11, <1>12, SumUnion
<1>15. SumFunctionOnSet(F, D \cup P) = SumFunctionOnSet(F, D) + SumFunctionOnSet(F, P)
  BY <1>6, <1>8, <1>11, <1>12, SumUnion
<1>16. SumFunctionOnSet(F, Z) = 0
  BY <1>5, <1>8, SumZero
<1>17. SumFunctionOnSet(F, D) \in Int /\ SumFunctionOnSet(F, P) \in Int
  <2>1. (\A p \in D : F[p] \in Int) /\ (\A p \in P : F[p] \in Int)
    BY <1>11, <1>12
  <2>2. QED
    BY <1>8, <2>1, SumType
<1>18. SumFunctionOnSet(F, H) = SumFunctionOnSet(F, D) + SumFunctionOnSet(F, P)
  <2>1. SumFunctionOnSet(F, H) = SumFunctionOnSet(F, D \cup P) + SumFunctionOnSet(F, Z)
    BY <1>7, <1>14, Zenon
  <2>2. QED
    BY <1>15, <1>16, <1>17, <2>1
<1>19. DenseSum(s, I) = SumFunctionOnSet(F, D) /\ SparseSum(s, P) = SumFunctionOnSet(F, P)
  BY <1>9, <1>10 DEF DenseSum, SparseSum
<1>20. QED
  BY <1>17, <1>18, <1>19 DEF F


\* Wherever the price lies relative to the window, the query answers the indexed quantity
\* at the price or better.
LEMMA AvailableIsIndexed ==
  ASSUME BookTypeOK, IndicesType, NEW s \in Side, NEW price \in Price
  PROVE  Available(s, price) = SumFunctionOnSet(IndexedOn(s), AtOrBetter(s, price))
<1> DEFINE H == AtOrBetter(s, price)
           K == DOMAIN sparse_index[s]
<1>1. /\ base \in Nat /\ MaxTicks \in Nat /\ MaxPrice \in Nat /\ base + MaxTicks <= MaxPrice
      /\ price \in Nat /\ price <= MaxPrice /\ H \in SUBSET Price
      /\ \A x : x \in Price <=> x \in Nat /\ x <= MaxPrice
  BY BookAssumption DEF BookTypeOK, AtOrBetter, Price
<1>2. \A p \in K : p \in Price /\ ~InWindow(p)
  BY DEF IndicesType
<1>3. SumFunctionOnSet(depth[s], {}) = 0
  BY SumEmpty
<1>4. CASE s = "Ask"
  <2> DEFINE upTo(p) == {x \in K : x <= p}
             below == IF base > 0 THEN base - 1 ELSE 0
  <2>1. \A p : p \in H <=> p \in Nat /\ p <= price
    BY <1>1, <1>4 DEF AtOrBetter, Better
  <2>2. CASE InWindow(price)
    <3> DEFINE I == 0 .. price - base
               P == upTo(below)
    <3>1. Available(s, price) = DenseSum(s, I) + SparseSum(s, P)
      BY <1>4, <2>2 DEF Available, AskAvailableAtOrBelow
    <3>2. I \in SUBSET Index /\ P \in SUBSET K
      BY <1>1, <2>2 DEF InWindow, Index
    <3>3. \A i \in I : base + i \in H
      BY <1>1, <2>1, <2>2 DEF InWindow
    <3>4. \A p \in H : InWindow(p) => p - base \in I
      BY <1>1, <2>1, <2>2 DEF InWindow
    <3>5. P \subseteq H
      BY <1>1, <1>2, <2>1, <2>2 DEF InWindow
    <3>6. \A p \in H : p \in K => p \in P
      BY <1>1, <1>2, <2>1, <2>2 DEF InWindow
    <3> HIDE DEF H, I, P
    <3>7. SumFunctionOnSet(IndexedOn(s), H) = DenseSum(s, I) + SparseSum(s, P)
      BY <1>1, <3>2, <3>3, <3>4, <3>5, <3>6, SplitSum
    <3>8. QED
      BY <3>1, <3>7 DEF H
  <2>3. CASE ~InWindow(price) /\ price >= WindowEnd
    <3> DEFINE P == upTo(price)
    <3>1. Available(s, price) = DenseSum(s, Index) + SparseSum(s, P)
      BY <1>4, <2>3 DEF Available, AskAvailableAtOrBelow
    <3>2. Index \in SUBSET Index /\ P \in SUBSET K
      OBVIOUS
    <3>3. \A i \in Index : base + i \in H
      BY <1>1, <2>1, <2>3 DEF WindowEnd, Index, InWindow
    <3>4. \A p \in H : InWindow(p) => p - base \in Index
      BY <1>1, <2>1 DEF InWindow, Index
    <3>5. P \subseteq H
      BY <1>1, <1>2, <2>1
    <3>6. \A p \in H : p \in K => p \in P
      BY <2>1
    <3> HIDE DEF H, P
    <3>7. SumFunctionOnSet(IndexedOn(s), H) = DenseSum(s, Index) + SparseSum(s, P)
      BY <1>1, <3>2, <3>3, <3>4, <3>5, <3>6, SplitSum
    <3>8. QED
      BY <3>1, <3>7 DEF H
  <2>4. CASE ~InWindow(price) /\ ~(price >= WindowEnd)
    <3> DEFINE P == upTo(price)
    <3>1. Available(s, price) = SparseSum(s, P)
      BY <1>4, <2>4 DEF Available, AskAvailableAtOrBelow
    <3>2. {} \in SUBSET Index /\ P \in SUBSET K /\ \A i \in {} : base + i \in H
      OBVIOUS
    <3>3. \A p \in H : InWindow(p) => p - base \in {}
      BY <1>1, <2>1, <2>4 DEF InWindow, WindowEnd
    <3>4. P \subseteq H
      BY <1>1, <1>2, <2>1
    <3>5. \A p \in H : p \in K => p \in P
      BY <2>1
    <3> HIDE DEF H, P
    <3>6. /\ SumFunctionOnSet(IndexedOn(s), H) = DenseSum(s, {}) + SparseSum(s, P)
          /\ SparseSum(s, P) \in Int
      BY <1>1, <3>2, <3>3, <3>4, <3>5, SplitSum
    <3>7. DenseSum(s, {}) = 0
      BY <1>3 DEF DenseSum
    <3>8. QED
      BY <3>1, <3>6, <3>7 DEF H
  <2>5. QED
    BY <2>2, <2>3, <2>4
<1>5. CASE s = "Bid"
  <2> DEFINE from(p) == {x \in K : x >= p}
  <2>1. \A p : p \in H <=> p \in Nat /\ p >= price /\ p <= MaxPrice
    BY <1>1, <1>5 DEF AtOrBetter, Better
  <2>2. CASE InWindow(price)
    <3> DEFINE I == (price - base) .. MaxTicks - 1
               P == from(WindowEnd)
    <3>1. Available(s, price) = DenseSum(s, I) + SparseSum(s, P)
      BY <1>5, <2>2 DEF Available, BidAvailableAtOrAbove
    <3>2. I \in SUBSET Index /\ P \in SUBSET K
      BY <1>1, <2>2 DEF InWindow, Index
    <3>3. \A i \in I : base + i \in H
      BY <1>1, <2>1, <2>2 DEF InWindow
    <3>4. \A p \in H : InWindow(p) => p - base \in I
      BY <1>1, <2>1, <2>2 DEF InWindow
    <3>5. P \subseteq H
      BY <1>1, <1>2, <2>1, <2>2 DEF InWindow, WindowEnd
    <3>6. \A p \in H : p \in K => p \in P
      BY <1>1, <1>2, <2>1, <2>2 DEF InWindow, WindowEnd
    <3> HIDE DEF H, I, P
    <3>7. SumFunctionOnSet(IndexedOn(s), H) = DenseSum(s, I) + SparseSum(s, P)
      BY <1>1, <3>2, <3>3, <3>4, <3>5, <3>6, SplitSum
    <3>8. QED
      BY <3>1, <3>7 DEF H
  <2>3. CASE ~InWindow(price) /\ price < base
    <3> DEFINE P == from(price)
    <3>1. Available(s, price) = DenseSum(s, Index) + SparseSum(s, P)
      BY <1>5, <2>3 DEF Available, BidAvailableAtOrAbove
    <3>2. Index \in SUBSET Index /\ P \in SUBSET K
      OBVIOUS
    <3>3. \A i \in Index : base + i \in H
      BY <1>1, <2>1, <2>3 DEF Index
    <3>4. \A p \in H : InWindow(p) => p - base \in Index
      BY <1>1, <2>1 DEF InWindow, Index
    <3>5. P \subseteq H
      BY <1>1, <1>2, <2>1
    <3>6. \A p \in H : p \in K => p \in P
      BY <2>1
    <3> HIDE DEF H, P
    <3>7. SumFunctionOnSet(IndexedOn(s), H) = DenseSum(s, Index) + SparseSum(s, P)
      BY <1>1, <3>2, <3>3, <3>4, <3>5, <3>6, SplitSum
    <3>8. QED
      BY <3>1, <3>7 DEF H
  <2>4. CASE ~InWindow(price) /\ ~(price < base)
    <3> DEFINE P == from(price)
    <3>1. Available(s, price) = SparseSum(s, P)
      BY <1>5, <2>4 DEF Available, BidAvailableAtOrAbove
    <3>2. {} \in SUBSET Index /\ P \in SUBSET K /\ \A i \in {} : base + i \in H
      OBVIOUS
    <3>3. \A p \in H : InWindow(p) => p - base \in {}
      BY <1>1, <2>1, <2>4 DEF InWindow
    <3>4. P \subseteq H
      BY <1>1, <1>2, <2>1
    <3>5. \A p \in H : p \in K => p \in P
      BY <2>1
    <3> HIDE DEF H, P
    <3>6. /\ SumFunctionOnSet(IndexedOn(s), H) = DenseSum(s, {}) + SparseSum(s, P)
          /\ SparseSum(s, P) \in Int
      BY <1>1, <3>2, <3>3, <3>4, <3>5, SplitSum
    <3>7. DenseSum(s, {}) = 0
      BY <1>3 DEF DenseSum
    <3>8. QED
      BY <3>1, <3>6, <3>7 DEF H
  <2>5. QED
    BY <2>2, <2>3, <2>4
<1>6. QED
  BY <1>4, <1>5 DEF Side

\* The fill-or-kill query is never told less than the book can fill: at every price and on
\* both sides it answers at least what the levels at the price or better hold.
THEOREM AvailableIsEnough == BookSpec => []AvailableCoversBook
<1>1. TotalsInv => AvailableCoversBook
  <2> SUFFICES ASSUME TotalsInv, NEW s \in Side, NEW price \in Price
               PROVE  Available(s, price) >= Total(s, {p \in LivePrices(s) : ~Better(s, price, p)})
    BY DEF AvailableCoversBook
  <2> DEFINE F == [p \in Price |-> LevelAt(s, p).total_quantity]
             G == IndexedOn(s)
             H == AtOrBetter(s, price)
             L == {p \in LivePrices(s) : ~Better(s, price, p)}
  <2>1. L \in SUBSET H /\ H \in SUBSET Price
    BY LiveMeansQueued DEF TotalsInv, BookInv, AtOrBetter
  <2>2. \A p \in Price : F[p] \in Nat /\ G[p] \in Nat /\ F[p] <= G[p]
    BY TotalsHold, IndexedType DEF TotalsInv, BookInv, IndicesCover, IndexedOn
  <2>3. IsFiniteSet(H) /\ IsFiniteSet(L)
    BY <2>1, PricesAreFinite, FS_Subset
  <2>4. Available(s, price) = SumFunctionOnSet(G, H)
    BY AvailableIsIndexed DEF TotalsInv, BookInv, IndicesCover
  <2>5. Total(s, L) = SumFunctionOnSet(F, L)
    BY DEF Total
  <2> HIDE DEF F, G, H, L
  <2>6. (\A p \in H : G[p] \in Nat) /\ \A p \in L : F[p] \in Int /\ F[p] <= G[p]
    BY <2>1, <2>2
  <2>7. SumFunctionOnSet(F, L) <= SumFunctionOnSet(G, H)
    BY <2>1, <2>3, <2>6, SumMonotone
  <2>8. SumFunctionOnSet(F, L) \in Int /\ SumFunctionOnSet(G, H) \in Int
    <3>1. (\A p \in L : F[p] \in Int) /\ (\A p \in H : G[p] \in Int)
      BY <2>6
    <3>2. QED
      BY <2>3, <3>1, SumType
  <2>9. QED
    BY <2>4, <2>5, <2>7, <2>8 DEF L
<1>2. QED
  BY <1>1, TotalsInvariant, PTL
=============================================================================
