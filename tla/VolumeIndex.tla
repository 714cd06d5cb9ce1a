----------------------------- MODULE VolumeIndex ----------------------------
(***************************************************************************)
(* matchx-book: FenwickTree, the volume index of the dense window, and     *)
(* SparseVolumeIndex, sorted prices with a Fenwick tree over their ranks.  *)
(* The OrderBook module states both by the sums they answer; here are the  *)
(* update and query loops, against those sums.  volume is the reference:   *)
(* what has been added and not taken off.  The book takes off only what it *)
(* has added.  Nodes are u64: sums wrap at Modulus, as in a release build. *)
(***************************************************************************)
EXTENDS Integers, Sequences, SequencesExt, FiniteSetsExt, Functions

CONSTANTS
  Kinds,        \* "dense" and "sparse"
  Ticks,        \* ticks of the dense window
  SparsePrices, \* prices outside it
  MaxVolume,    \* bound of the model on the volume at a price
  Modulus       \* 2^64 in the code

ASSUME IndexAssumption ==
  /\ Kinds \subseteq {"dense", "sparse"}
  /\ Ticks \in Nat \ {0}
  /\ SparsePrices \subseteq Nat /\ IsFiniteSet(SparsePrices) /\ SparsePrices # {}
  /\ MaxVolume \in Nat /\ Modulus \in Nat \ {0}

VARIABLES
  kind,         \* which of the two indices this is
  tree,         \* FenwickTree::data without its unused node 0
  prices,       \* SparseVolumeIndex: the prices in it, ascending
  qtys,         \* and the quantity at each
  volume,       \* reference: tick or price -> quantity
  overflowed,   \* some sum has reached Modulus: a checked build has panicked
  index_panicked  \* an expect of SparseVolumeIndex has failed

vars == <<kind, tree, prices, qtys, volume, overflowed, index_panicked>>

Keys(k) == IF k = "dense" THEN 0 .. Ticks - 1 ELSE SparsePrices
-----------------------------------------------------------------------------
\* i & i.wrapping_neg(): the largest power of two that divides i
LowBit(i) ==
  LET low[j \in 1 .. i] == IF j % 2 = 1 THEN 1 ELSE 2 * low[j \div 2]
  IN  low[i]

NewTree(n) == [j \in 1 .. n |-> 0]

\* The nodes an update of i visits.
UpdatePath(n, i) ==
  LET path[j \in 1 .. n] == {j} \cup IF j + LowBit(j) <= n THEN path[j + LowBit(j)] ELSE {}
  IN  path[i]

FenwickAdd(t, index, delta) ==
  [j \in DOMAIN t |-> IF j \in UpdatePath(Len(t), index + 1)
                      THEN (t[j] + delta) % Modulus ELSE t[j]]

\* A node below delta saturates at 0; in a debug build it is an assertion.
FenwickSub(t, index, delta) ==
  [j \in DOMAIN t |-> IF j \in UpdatePath(Len(t), index + 1)
                      THEN IF t[j] >= delta THEN t[j] - delta ELSE 0
                      ELSE t[j]]

PrefixSum(t, index) ==
  LET sum[i \in 0 .. Len(t)] == IF i = 0 THEN 0 ELSE (t[i] + sum[i - LowBit(i)]) % Modulus
  IN  sum[index + 1]

\* Mutant: the quantity at index itself is counted as before it.
SuffixSumGt(t, index) == (PrefixSum(t, Len(t) - 1) - PrefixSum(t, index)) % Modulus

SuffixSumGe(t, index) ==
  LET before == IF index = 0 THEN 0 ELSE PrefixSum(t, index - 1)
  IN  (PrefixSum(t, Len(t) - 1) - before) % Modulus

RebuildFenwick(q) ==
  LET built[k \in 0 .. Len(q)] ==
        IF k = 0 THEN NewTree(Len(q)) ELSE FenwickAdd(built[k - 1], k - 1, q[k])
  IN  built[Len(q)]

\* partition_point: how many of the ascending prices are at most, or below, p
RankLe(p) == Cardinality({i \in DOMAIN prices : prices[i] <= p})
RankLt(p) == Cardinality({i \in DOMAIN prices : prices[i] < p})

SumAtOrBelow(p) == IF RankLe(p) = 0 THEN 0 ELSE PrefixSum(tree, RankLe(p) - 1)

SumAtOrAbove(p) ==
  IF RankLt(p) >= Len(prices) THEN 0
  ELSE (PrefixSum(tree, Len(prices) - 1) - (IF RankLt(p) = 0 THEN 0 ELSE PrefixSum(tree, RankLt(p) - 1))) % Modulus
-----------------------------------------------------------------------------
Init ==
  /\ kind \in Kinds
  /\ tree = NewTree(IF kind = "dense" THEN Ticks ELSE 0)
  /\ prices = <<>> /\ qtys = <<>>
  /\ volume = [k \in Keys(kind) |-> 0]
  /\ overflowed = FALSE
  /\ index_panicked = FALSE

\* What the caller does: it adds an order, and takes off at most what it has added.  The
\* engine refuses empty orders, post-only ones excepted; these are left out.
Added(k, q) ==
  /\ q > 0
  /\ volume[k] + q <= MaxVolume
  /\ volume' = [volume EXCEPT ![k] = @ + q]
  /\ overflowed' = (overflowed \/ SumFunctionOnSet(volume, Keys(kind)) + q >= Modulus)
  /\ UNCHANGED kind

\* Nothing is taken off for an order that was filled: fills leave its volume in the index.
Taken(k, q) ==
  /\ volume[k] > 0
  /\ q <= volume[k]
  /\ volume' = [volume EXCEPT ![k] = @ - q]
  /\ UNCHANGED <<kind, overflowed>>

DenseAdd(i, q) ==
  /\ kind = "dense"
  /\ Added(i, q)
  /\ tree' = FenwickAdd(tree, i, q)
  /\ UNCHANGED <<prices, qtys, index_panicked>>

DenseSub(i, q) ==
  /\ kind = "dense"
  /\ Taken(i, q)
  /\ tree' = FenwickSub(tree, i, q)
  /\ UNCHANGED <<prices, qtys, index_panicked>>

InsertRank(p) == RankLt(p) + 1

\* A price in the index is updated in place; a new one is inserted and the tree rebuilt.
SparseAdd(p, q) ==
  /\ kind = "sparse" /\ ~index_panicked
  /\ Added(p, q)
  /\ IF Contains(prices, p)
     THEN /\ qtys' = [qtys EXCEPT ![RankLe(p)] = (@ + q) % Modulus]
          /\ tree' = FenwickAdd(tree, RankLe(p) - 1, q)
          /\ UNCHANGED prices
     ELSE /\ prices' = InsertAt(prices, InsertRank(p), p)
          /\ qtys' = InsertAt(qtys, InsertRank(p), q)
          /\ tree' = RebuildFenwick(qtys')
  /\ UNCHANGED index_panicked

\* Mutant: the nodes stay under the ranks they had with the price that was removed.
RemoveWithoutRebuild(p) ==
  /\ prices' = RemoveAt(prices, RankLe(p))
  /\ qtys' = RemoveAt(qtys, RankLe(p))
  /\ tree' = Front(tree)

\* A price left with nothing is removed, and the tree rebuilt.
RemovePrice(p) ==
  /\ prices' = RemoveAt(prices, RankLe(p))
  /\ qtys' = RemoveAt(qtys, RankLe(p))
  /\ tree' = RebuildFenwick(qtys')

\* Mutant: a price is removed as soon as anything is taken off it.
EmptiedByAny(p, q) == q > 0

Emptied(p, q) == qtys[RankLe(p)] = q

SparseSub(p, q) ==
  /\ kind = "sparse" /\ ~index_panicked
  /\ Taken(p, q)
  /\ IF ~Contains(prices, p) \/ qtys[RankLe(p)] < q
     THEN /\ index_panicked' = TRUE
          /\ UNCHANGED <<tree, prices, qtys>>
     ELSE /\ IF Emptied(p, q) THEN RemovePrice(p)
             ELSE /\ qtys' = [qtys EXCEPT ![RankLe(p)] = @ - q]
                  /\ tree' = FenwickSub(tree, RankLe(p) - 1, q)
                  /\ UNCHANGED prices
          /\ UNCHANGED index_panicked

Next ==
  \E k \in Keys(kind), q \in 0 .. MaxVolume :
    \/ DenseAdd(k, q)
    \/ DenseSub(k, q)
    \/ SparseAdd(k, q)
    \/ SparseSub(k, q)

Spec == Init /\ [][Next]_vars
-----------------------------------------------------------------------------
Reference(keys) == SumFunctionOnSet(volume, keys)

\* The dense index answers every prefix and suffix query with the sum of what is there,
\* through any updates, while the total has stayed within the width of a node
\* (FenwickTree, lib.rs:28-73).
DenseSumsAreExact ==
  kind = "dense" /\ ~overflowed =>
    \A i \in Keys(kind) :
      /\ PrefixSum(tree, i) = Reference({k \in Keys(kind) : k <= i})
      /\ SuffixSumGe(tree, i) = Reference({k \in Keys(kind) : k >= i})

\* The sparse index does, for prices in it and between them, through prices that come
\* and go (SparseVolumeIndex, lib.rs:83-156).
SparseSumsAreExact ==
  kind = "sparse" /\ ~overflowed =>
    \A p \in 0 .. Max(SparsePrices) + 1 :
      /\ SumAtOrBelow(p) = Reference({k \in SparsePrices : k <= p})
      /\ SumAtOrAbove(p) = Reference({k \in SparsePrices : k >= p})

\* A caller that takes off what it added never meets "price not in sparse volume index"
\* or "sparse volume index underflow" (sub, lib.rs:108-118).
SparseSubDoesNotPanic == index_panicked => overflowed
=============================================================================
