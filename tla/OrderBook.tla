----------------------------- MODULE OrderBook ------------------------------
(***************************************************************************)
(* matchx-book (crates/matchx-book/src/lib.rs): the hybrid order book.     *)
(* Prices inside the window [base, base + MaxTicks) live in the dense      *)
(* arrays, every other price in the sparse maps.  Each side caches its     *)
(* best price; a bitset tells which dense levels hold orders, and two      *)
(* volume indices answer the fill-or-kill query.                           *)
(*                                                                         *)
(* An order is found by its id (order_index composed with the arena), and  *)
(* a level's intrusive list is the sequence of the ids queued at it.       *)
(* panicked is set where the code would panic (an expect, an arithmetic    *)
(* check or an index out of range); nothing happens after it.              *)
(***************************************************************************)
EXTENDS Integers, Sequences, FiniteSets, FiniteSetsExt, Functions, SequencesExt

CONSTANTS
  MaxPrice,      \* u64::MAX: the largest price
  Prices,        \* the prices orders are entered at
  MaxTicks,      \* config.max_ticks: the width of the dense window
  BasePrice,     \* config.base_price: where the window starts
  MinQuantity,   \* 1, or 0 where the caller lets an order of nothing through
  MaxQuantity,   \* bound of the model on the quantity of one order
  Capacity,      \* slots of the arena
  OrderIds,      \* ids that orders may have
  Terms,         \* what else an order carries and the book never looks at
  NONE           \* the absence of a price

Side == {"Bid", "Ask"}
Price == 0 .. MaxPrice
Quantity == 0 .. MaxQuantity
Index == 0 .. MaxTicks - 1

ASSUME BookAssumption ==
  /\ MaxPrice \in Nat /\ MaxTicks \in Nat /\ BasePrice \in Nat
  /\ Prices \subseteq Price
  /\ BasePrice + MaxTicks <= MaxPrice
  /\ MinQuantity \in Nat /\ MaxQuantity \in Nat /\ Capacity \in Nat
  /\ NONE \notin Int

VARIABLES
  orders,         \* live orders by id: order_index and the arena slot it names
  base,           \* dense_base_price
  dense,          \* bids_dense, asks_dense
  sparse,         \* bids_sparse, asks_sparse
  occupied,       \* bids_occupied, asks_occupied: the indices whose bit is set
  best,           \* best_bid_tick, best_ask_tick
  depth,          \* bid_depth_index, ask_depth_index: quantity per dense index
  sparse_index,   \* bids_sparse_index, asks_sparse_index: quantity per price
  panicked

book == <<orders, base, dense, sparse, occupied, best, depth, sparse_index, panicked>>
-----------------------------------------------------------------------------
Order == [side : Side, price : Price, quantity : Quantity, filled : Quantity, terms : Terms]
Level == [total_quantity : Int, queue : Seq(OrderIds)]
EMPTY == [total_quantity |-> 0, queue |-> <<>>]

Remaining(o) == IF o.filled <= o.quantity THEN o.quantity - o.filled ELSE 0

\* p ranks before q on side s.
Better(s, p, q) == IF s = "Bid" THEN p > q ELSE p < q

BestOf(s, P) == CHOOSE p \in P : \A q \in P : ~Better(s, q, p)

InWindow(p) == base <= p /\ p < base + MaxTicks

\* The level a lookup of price p finds; a missing sparse level reads as empty.
LevelAt(s, p) ==
  IF InWindow(p) THEN dense[s][p - base]
  ELSE IF p \in DOMAIN sparse[s] THEN sparse[s][p] ELSE EMPTY

\* The prices of the levels that hold orders.
LivePrices(s) ==
  {base + i : i \in {j \in Index : dense[s][j].queue # <<>>}}
    \cup {p \in DOMAIN sparse[s] : sparse[s][p].queue # <<>>}

Bind(f, k, v) == [x \in DOMAIN f \cup {k} |-> IF x = k THEN v ELSE f[x]]
Unbind(f, k) == [x \in DOMAIN f \ {k} |-> f[x]]

Position(queue, id) == CHOOSE k \in 1 .. Len(queue) : queue[k] = id
-----------------------------------------------------------------------------
\* insert_order links the order behind the tail and adds it to the level's total.
PushFront(l, id, q) == \* Mutant: the newest order goes first.
  [total_quantity |-> l.total_quantity + q, queue |-> <<id>> \o l.queue]
PushBack(l, id, q) ==
  [total_quantity |-> l.total_quantity + q, queue |-> Append(l.queue, id)]

\* level_mut writes the level; an emptied sparse level is pruned.
WriteLevel(s, p, l) ==
  IF InWindow(p)
  THEN /\ dense' = [dense EXCEPT ![s][p - base] = l]
       /\ UNCHANGED sparse
  ELSE /\ sparse' = [sparse EXCEPT ![s] = IF l.queue = <<>> THEN Unbind(@, p) ELSE Bind(@, p, l)]
       /\ UNCHANGED dense

\* Mutant: a sparse price already indexed is overwritten.
DepthAddReplaces(s, p, q) ==
  /\ IF InWindow(p)
     THEN /\ depth' = [depth EXCEPT ![s][p - base] = @ + q]
          /\ UNCHANGED sparse_index
     ELSE /\ sparse_index' = [sparse_index EXCEPT ![s] = Bind(@, p, q)]
          /\ UNCHANGED depth
  /\ UNCHANGED panicked

DepthAdd(s, p, q) ==
  /\ IF InWindow(p)
     THEN /\ depth' = [depth EXCEPT ![s][p - base] = @ + q]
          /\ UNCHANGED sparse_index
     ELSE /\ sparse_index' = [sparse_index EXCEPT
                                ![s] = Bind(@, p, q + IF p \in DOMAIN @ THEN @[p] ELSE 0)]
          /\ UNCHANGED depth
  /\ UNCHANGED panicked

\* The quantity the indices hold for a price, whether or not it has an entry.
Indexed(s, p) ==
  IF InWindow(p) THEN depth[s][p - base]
  ELSE IF p \in DOMAIN sparse_index[s] THEN sparse_index[s][p] ELSE 0

\* A sparse price without an entry, or one that holds less, is a panic in every
\* build; a dense underflow is one in debug builds (fenwick underflow).
DepthRemove(s, p, q) ==
  IF Indexed(s, p) < q \/ (~InWindow(p) /\ p \notin DOMAIN sparse_index[s])
  THEN panicked' = TRUE /\ UNCHANGED <<depth, sparse_index>>
  ELSE /\ IF InWindow(p)
          THEN /\ depth' = [depth EXCEPT ![s][p - base] = @ - q]
               /\ UNCHANGED sparse_index
          ELSE /\ LET f == sparse_index[s] IN
                    sparse_index' = [sparse_index EXCEPT
                      ![s] = IF f[p] = q THEN Unbind(f, p) ELSE [f EXCEPT ![p] = f[p] - q]]
               /\ UNCHANGED depth
       /\ UNCHANGED panicked

\* find_highest_occupied_bid / find_lowest_occupied_ask, else the sparse side:
\* a dense level is preferred to any sparse one.
FindWorst(s, b, occ, sp) == \* Mutant: the scan runs from the wrong end.
  LET t == IF s = "Bid" THEN "Ask" ELSE "Bid" IN
  IF occ # {} THEN b + BestOf(t, occ) ELSE IF sp # {} THEN BestOf(t, sp) ELSE NONE
FindBest(s, b, occ, sp) ==
  IF occ # {} THEN b + BestOf(s, occ)
  ELSE IF sp # {} THEN BestOf(s, sp) ELSE NONE

\* Mutant: an emptied sparse level leaves the best price where it was.
RefreshSkipsSparse(s, p) ==
  /\ occupied' = IF InWindow(p) THEN [occupied EXCEPT ![s] = @ \ {p - base}] ELSE occupied
  /\ best' = IF best[s] = p /\ InWindow(p)
             THEN [best EXCEPT ![s] = FindBest(s, base, occupied'[s], DOMAIN sparse'[s])]
             ELSE best

RefreshBestAfterLevelEmpty(s, p) ==
  /\ occupied' = IF InWindow(p) THEN [occupied EXCEPT ![s] = @ \ {p - base}] ELSE occupied
  /\ best' = IF best[s] = p
             THEN [best EXCEPT ![s] = FindBest(s, base, occupied'[s], DOMAIN sparse'[s])]
             ELSE best

\* What the indices answer for the quantity on side s at price p or better:
\* ask_available_at_or_below and bid_available_at_or_above.
WindowEnd == base + MaxTicks
DenseSum(s, I) == SumFunctionOnSet(depth[s], I)
SparseSum(s, P) == SumFunctionOnSet(sparse_index[s], P)

\* Mutant: inside the window the sparse asks below it are forgotten.
AskAvailableInWindowOnly(price) ==
  LET sparseTo(p) == SparseSum("Ask", {x \in DOMAIN sparse_index["Ask"] : x <= p}) IN
  IF InWindow(price) THEN DenseSum("Ask", 0 .. price - base)
  ELSE IF price >= WindowEnd THEN DenseSum("Ask", Index) + sparseTo(price)
  ELSE sparseTo(price)

AskAvailableAtOrBelow(price) ==
  LET sparseTo(p) == SparseSum("Ask", {x \in DOMAIN sparse_index["Ask"] : x <= p}) IN
  IF InWindow(price) THEN DenseSum("Ask", 0 .. price - base) + sparseTo(IF base > 0 THEN base - 1 ELSE 0)
  ELSE IF price >= WindowEnd THEN DenseSum("Ask", Index) + sparseTo(price)
  ELSE sparseTo(price)

BidAvailableAtOrAbove(price) ==
  LET sparseFrom(p) == SparseSum("Bid", {x \in DOMAIN sparse_index["Bid"] : x >= p}) IN
  IF InWindow(price) THEN DenseSum("Bid", (price - base) .. MaxTicks - 1) + sparseFrom(WindowEnd)
  ELSE IF price < base THEN DenseSum("Bid", Index) + sparseFrom(price)
  ELSE sparseFrom(price)

Available(s, price) ==
  IF s = "Ask" THEN AskAvailableAtOrBelow(price) ELSE BidAvailableAtOrAbove(price)
-----------------------------------------------------------------------------
BookInit ==
  /\ orders = [i \in {} |-> {}]
  /\ base = BasePrice
  /\ dense = [s \in Side |-> [i \in Index |-> EMPTY]]
  /\ sparse = [s \in Side |-> [p \in {} |-> EMPTY]]
  /\ occupied = [s \in Side |-> {}]
  /\ best = [s \in Side |-> NONE]
  /\ depth = [s \in Side |-> [i \in Index |-> 0]]
  /\ sparse_index = [s \in Side |-> [p \in {} |-> 0]]
  /\ panicked = FALSE

\* insert_order returns None for an id already on the book or a full arena.
Insertable(id) == id \notin DOMAIN orders /\ Cardinality(DOMAIN orders) < Capacity

InsertOrder(id, s, p, q, t) ==
  IF ~Insertable(id) THEN UNCHANGED book
  ELSE
    /\ orders' = Bind(orders, id,
                   [side |-> s, price |-> p, quantity |-> q, filled |-> 0, terms |-> t])
    /\ WriteLevel(s, p, PushBack(LevelAt(s, p), id, q))
    /\ DepthAdd(s, p, q)
    /\ occupied' = IF InWindow(p) THEN [occupied EXCEPT ![s] = @ \cup {p - base}] ELSE occupied
    /\ best' = IF best[s] = NONE \/ Better(s, p, best[s]) THEN [best EXCEPT ![s] = p] ELSE best
    /\ UNCHANGED base

\* Unlinks the order, takes levelQty off its level and depthQty off the index,
\* frees the slot, and refreshes the best price when the level is left empty.
Unlink(id, levelQty, depthQty) ==
  LET s == orders[id].side
      p == orders[id].price
      l == LevelAt(s, p)
      rest == RemoveAt(l.queue, Position(l.queue, id))
  IN
    /\ orders' = Unbind(orders, id)
    /\ WriteLevel(s, p, [total_quantity |-> l.total_quantity - levelQty, queue |-> rest])
    /\ DepthRemove(s, p, depthQty)
    /\ IF rest = <<>> THEN RefreshBestAfterLevelEmpty(s, p) ELSE UNCHANGED <<occupied, best>>
    /\ UNCHANGED base

RemoveOrder(id) ==
  /\ id \in DOMAIN orders
  /\ Unlink(id, Remaining(orders[id]), Remaining(orders[id]))

\* Mutant: the level's total is not told.
ConsumeForgetsTotal(id, q) ==
  /\ orders' = [orders EXCEPT ![id].filled = @ + q]
  /\ UNCHANGED <<base, dense, sparse, occupied, best>>

\* The order's filled quantity and its level's total move together; the order stays.
Consume(id, q) ==
  LET s == orders[id].side
      p == orders[id].price
      l == LevelAt(s, p)
  IN
    /\ orders' = [orders EXCEPT ![id].filled = @ + q]
    /\ WriteLevel(s, p, [l EXCEPT !.total_quantity = @ - q])
    /\ UNCHANGED <<base, occupied, best>>

ReduceOrderQty(id, q) ==
  /\ id \in DOMAIN orders
  /\ Consume(id, q)
  /\ DepthRemove(orders[id].side, orders[id].price, q)

\* The engine's fill of a resting order: the volume indices are not told, and a
\* maker left with nothing is removed with remaining() = 0.
FillOrder(id, q) ==
  /\ id \in DOMAIN orders
  /\ IF q = Remaining(orders[id])
     THEN Unlink(id, q, 0)
     ELSE Consume(id, q) /\ UNCHANGED <<depth, sparse_index, panicked>>

\* refresh_bbo_after_recenter: a best price that still has orders stays.
RecenteredBestRescans(s, new_base) == \* Mutant: the scan runs in any case.
  IF best[s] # NONE THEN FindBest(s, new_base, occupied'[s], DOMAIN sparse'[s]) ELSE NONE
RecenteredBest(s, new_base) ==
  IF best[s] # NONE /\ best[s] \notin LivePrices(s)
  THEN FindBest(s, new_base, occupied'[s], DOMAIN sparse'[s]) ELSE best[s]

\* Every level is evicted to the sparse maps, those in the new window are taken
\* into the dense arrays, and the indices are rebuilt from the level totals.
ForceRecenter(new_base) ==
  IF new_base = base THEN UNCHANGED book
  ELSE IF new_base + MaxTicks > MaxPrice THEN panicked' = TRUE /\ UNCHANGED
            <<orders, base, dense, sparse, occupied, best, depth, sparse_index>>
  ELSE LET new == new_base .. new_base + MaxTicks - 1 IN
    /\ base' = new_base
    /\ dense' = [s \in Side |-> [i \in Index |->
                  IF new_base + i \in LivePrices(s) THEN LevelAt(s, new_base + i) ELSE EMPTY]]
    /\ sparse' = [s \in Side |-> [p \in LivePrices(s) \ new |-> LevelAt(s, p)]]
    /\ occupied' = [s \in Side |-> {i \in Index : dense'[s][i].queue # <<>>}]
    /\ depth' = [s \in Side |-> [i \in Index |-> dense'[s][i].total_quantity]]
    /\ sparse_index' = [s \in Side |-> [p \in DOMAIN sparse'[s] |-> sparse'[s][p].total_quantity]]
    /\ best' = [s \in Side |-> RecenteredBest(s, new_base)]
    /\ UNCHANGED <<orders, panicked>>

Threshold == (MaxTicks * 7) \div 10

\* A best bid past 70% of the window, or a best ask in its first 30%.
NeedsRecenter ==
  \/ best["Bid"] # NONE /\ best["Bid"] >= base + Threshold
  \/ best["Ask"] # NONE /\ best["Ask"] < base + (MaxTicks - Threshold)

MaybeRecenter ==
  /\ NeedsRecenter
  /\ LET center == IF best["Bid"] # NONE THEN best["Bid"] ELSE best["Ask"]
         half == MaxTicks \div 2
     IN ForceRecenter(IF center >= half THEN center - half ELSE 0)

BookNext ==
  /\ ~panicked
  /\ \/ \E id \in OrderIds, s \in Side, p \in Prices, q \in MinQuantity .. MaxQuantity, t \in Terms :
          InsertOrder(id, s, p, q, t)
     \/ \E id \in DOMAIN orders :
          \/ RemoveOrder(id)
          \/ \E q \in 1 .. Remaining(orders[id]) : FillOrder(id, q)
          \/ \E q \in 1 .. Remaining(orders[id]) - 1 : ReduceOrderQty(id, q)
     \/ MaybeRecenter
     \/ \E b \in Prices : ForceRecenter(b)

BookSpec == BookInit /\ [][BookNext]_book
-----------------------------------------------------------------------------
\* Every field keeps its type, an order is never filled beyond its quantity
\* (is_valid_state, types lib.rs:122-126), and the window ends below u64::MAX.
BookTypeOK ==
  /\ DOMAIN orders \subseteq OrderIds
  /\ \A id \in DOMAIN orders : orders[id] \in Order /\ orders[id].filled <= orders[id].quantity
  /\ base \in Nat /\ base + MaxTicks <= MaxPrice
  /\ dense \in [Side -> [Index -> Level]]
  /\ DOMAIN sparse = Side
  /\ \A s \in Side : \A p \in DOMAIN sparse[s] : p \in Price /\ sparse[s][p] \in Level
  /\ occupied \in [Side -> SUBSET Index]
  /\ best \in [Side -> Price \cup {NONE}]
  /\ panicked \in BOOLEAN

\* Every live order stands once in the queue of its own level, and a queue holds
\* nothing else: no operation leaves a dangling or a doubled link behind
\* (insert_order, remove_order and the moves of force_recenter, lib.rs:255-324, 443-480).
QueuesHoldTheOrders ==
  \A s \in Side : \A p \in Price :
    LET queue == LevelAt(s, p).queue IN
    /\ \A id \in DOMAIN orders :
         orders[id].side = s /\ orders[id].price = p => \E k \in DOMAIN queue : queue[k] = id
    /\ \A k \in DOMAIN queue :
         /\ queue[k] \in DOMAIN orders
         /\ orders[queue[k]].side = s /\ orders[queue[k]].price = p
         /\ \A j \in DOMAIN queue : queue[j] = queue[k] => j = k

\* A level is stored once: sparse levels lie outside the window and hold orders,
\* and a bit of the occupancy bitset is set exactly for a dense level with orders
\* (prune_if_sparse_empty, set_occupied, clear_occupied, rebuild_indices).
LevelsAreInPlace ==
  \A s \in Side :
    /\ \A p \in DOMAIN sparse[s] : ~InWindow(p) /\ sparse[s][p].queue # <<>>
    /\ occupied[s] = {i \in Index : dense[s][i].queue # <<>>}

\* A side reports a best price exactly while it holds an order, and the level at
\* that price is never empty: get_bid_level and get_ask_level of the best price
\* cannot panic and the matching loop finds a maker there (lib.rs:336-362, 509-529).
BestIsLive ==
  \A s \in Side :
    IF LivePrices(s) = {} THEN best[s] = NONE ELSE best[s] \in LivePrices(s)

\* The representations of the book agree, through insertions, fills, removals and moves
\* of the window: queues, places of the levels, bitsets and cached best prices (lib.rs:160-180).
BookInv == BookTypeOK /\ QueuesHoldTheOrders /\ LevelsAreInPlace /\ BestIsLive

\* What each live order has left.
OpenQuantity == [id \in DOMAIN orders |-> Remaining(orders[id])]

\* A level's total is the sum of what its orders have left (lib.rs:303, 432, 466), so
\* taking a quantity off it cannot underflow ("level qty underflow", lib.rs:435).
LevelTotals ==
  \A s \in Side : \A p \in Price :
    LevelAt(s, p).total_quantity = SumFunctionOnSet(OpenQuantity, ToSet(LevelAt(s, p).queue))

Total(s, P) == SumFunctionOnSet([p \in Price |-> LevelAt(s, p).total_quantity], P)

\* The quantity fill-or-kill is told is at least what the levels hold at the price
\* or better, wherever the price lies relative to the window: an order that could
\* be filled is not rejected (ask_available_at_or_below, bid_available_at_or_above).
AvailableCoversBook ==
  \A s \in Side : \A price \in Price :
    Available(s, price) >= Total(s, {p \in LivePrices(s) : ~Better(s, price, p)})

\* The volume indices always hold a price and as much of it as is taken off: neither
\* expect of SparseVolumeIndex::sub nor the underflow check of the Fenwick tree fires,
\* although fills bypass both (lib.rs:105-115, 408-420).
NoPanic == ~panicked

\* Moving the window moves levels between containers and nothing else: every level
\* keeps its orders and its total, each best price stays (force_recenter, lib.rs:583-643).
RecenterKeepsTheBook ==
  [][base' # base =>
       /\ UNCHANGED <<orders, best>>
       /\ \A s \in Side : \A p \in Price : LevelAt(s, p)' = LevelAt(s, p)]_book

\* Time priority: two orders that stay in the same queue keep their order, and a
\* new order enters behind both.
NobodyOvertakes ==
  [][\A s \in Side : \A p \in Price :
       LET old == LevelAt(s, p).queue
           new == LevelAt(s, p)'.queue
       IN \A i, j \in DOMAIN new :
            (i < j /\ new[j] \in ToSet(old)) =>
              \E k, l \in DOMAIN old : k < l /\ old[k] = new[i] /\ old[l] = new[j]]_book
=============================================================================
