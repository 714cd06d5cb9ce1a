------------------------------- MODULE Engine -------------------------------
(***************************************************************************)
(* matchx-engine (crates/matchx-engine/src/lib.rs, policy.rs): one call of *)
(* process() after another.  A call is cut into the steps of its loops, so *)
(* that what holds while a taker walks the book, or while stop orders      *)
(* cascade, can be stated: pc is where the call stands, taker holds the    *)
(* locals of process_new_order, back is where that function returns to.    *)
(* A step that changes the book does so by one action of OrderBook.        *)
(***************************************************************************)
EXTENDS OrderBook

CONSTANTS
  NewOrders,             \* the NewOrder commands a client may send, without id
  Modifications,         \* the [price, qty] a ModifyOrder command may carry
  StpModes,              \* the self-trade prevention modes to configure
  STP_NONE,              \* no self-trade prevention group
  MaxOrders,             \* bound of the model on the NewOrder commands sent
  ReuseIds,              \* whether clients may send an id again
  MAX_EVENTS_PER_CALL    \* size of the event buffer

\* The order types process_new_order matches against the book.
MatchableTypes == {"Limit", "Market", "Iceberg"}

\* What a NewOrder command carries besides its id.
Command ==
  [side : Side, price : Prices, qty : Quantity,
   order_type : MatchableTypes \cup {"PostOnly", "StopLimit"}, tif : {"GTC", "IOC", "FOK"},
   stop_price : Price \cup {NONE}, terms : Terms]

\* The quantity of a post-only order is not validated, every other one must exceed 0:
\* MinQuantity is 0 where clients send post-only orders of nothing.  peak is unsigned
\* (0: not an iceberg) and stp_group optional; the book drops the slice of what is no
\* longer an iceberg order, and a modified order has neither (lib.rs:704-721).
ASSUME EngineAssumption ==
  /\ MAX_EVENTS_PER_CALL \in Nat /\ MaxOrders \in Nat
  /\ OrderIds = 1 .. MaxOrders
  /\ ReuseIds \in BOOLEAN
  /\ MinQuantity <= 1 /\ NONE \notin Side
  /\ NewOrders \subseteq Command /\ Modifications \subseteq [price : Prices, qty : Quantity]
  /\ \A c \in NewOrders : c.order_type = "PostOnly" => c.qty >= MinQuantity
  /\ \A t \in Terms : t.peak \in Nat /\ [t EXCEPT !.peak = 0] \in Terms
  /\ [peak |-> 0, stp_group |-> STP_NONE] \in Terms

VARIABLES
  stp_mode,           \* config.stp_mode
  stops,              \* stop_bids and stop_asks, in the order they are drained
  last_trade_price,
  events,             \* event_buf[0 .. event_len]
  pc, taker, back,
  prev_price,         \* local of drain_stop_triggers
  submitted           \* NewOrder commands sent so far

engine == <<stp_mode, stops, last_trade_price, events, pc, taker, back, prev_price, submitted>>
vars == <<book, engine>>
-----------------------------------------------------------------------------
Opposite(s) == IF s = "Bid" THEN "Ask" ELSE "Bid"
Least(a, b) == IF a < b THEN a ELSE b

\* is_price_acceptable
AcceptableStrictly(s, incoming, resting) == \* Mutant: equal prices do not meet.
  IF s = "Bid" THEN incoming > resting ELSE incoming < resting
Acceptable(s, incoming, resting) ==
  IF s = "Bid" THEN incoming >= resting ELSE incoming <= resting

\* The price a market order matches at is the worst there is.
MarketPrice(t) == IF t.side = "Bid" THEN MaxPrice ELSE 0 \* Mutant: limits are ignored.
EffectivePrice(t) ==
  IF t.order_type = "Market" THEN (IF t.side = "Bid" THEN MaxPrice ELSE 0) ELSE t.price

\* matchable_qty: an iceberg order (peak > 0) offers what is left of its slice.
MatchableIgnoresFilled(o) == \* Mutant: what was filled before is offered again.
  IF o.terms.peak > 0 THEN Least(o.terms.peak, o.quantity) ELSE o.quantity
MatchableQty(o) ==
  IF o.terms.peak > 0
  THEN Least(o.terms.peak - (o.filled % o.terms.peak), Remaining(o))
  ELSE Remaining(o)

Accepted(id, q) == [kind |-> "OrderAccepted", id |-> id, qty |-> q]
Rejected(id, why) == [kind |-> "OrderRejected", id |-> id, reason |-> why]
Fill(maker, t, p, q) == [kind |-> "Fill", maker |-> maker, taker |-> t, price |-> p, qty |-> q]
Cancelled(id, q) == [kind |-> "OrderCancelled", id |-> id, remaining |-> q]
Modified(id) == [kind |-> "OrderModified", id |-> id]
BookUpdate(s, p, q) == [kind |-> "BookUpdate", side |-> s, price |-> p, qty |-> q]
StopTriggered(id) == [kind |-> "StopTriggered", id |-> id]

\* What the book keeps of an order: only an iceberg order has a slice.
RestingTerms(t) == IF t.order_type = "Iceberg" THEN t.terms ELSE [t.terms EXCEPT !.peak = 0]

\* An index past the buffer panics: the call gets no further.
Running == ~panicked /\ Len(events) <= MAX_EVENTS_PER_CALL
Emit(es) == events' = events \o es

\* get_level_qty after the step, at a price read before it.  The window never moves.
LevelQtyAfter(s, p) ==
  IF InWindow(p) THEN dense'[s][p - base].total_quantity
  ELSE IF p \in DOMAIN sparse'[s] THEN sparse'[s][p].total_quantity ELSE 0
-----------------------------------------------------------------------------
Init ==
  /\ BookInit
  /\ stp_mode \in StpModes
  /\ stops = [s \in Side |-> <<>>]
  /\ last_trade_price = NONE
  /\ events = <<>>
  /\ pc = "Idle" /\ taker = NONE /\ back = NONE /\ prev_price = NONE
  /\ submitted = 0

\* process(NewOrder)
SubmitNew(id, c) ==
  /\ Running /\ pc = "Idle"
  /\ id \in OrderIds /\ (id = submitted + 1 \/ (ReuseIds /\ id <= submitted))
  /\ submitted < MaxOrders
  /\ submitted' = submitted + 1
  /\ events' = <<>>
  /\ taker' = Bind(c, "id", id)
  /\ pc' = "New" /\ back' = "Drain"
  /\ UNCHANGED <<book, stp_mode, stops, last_trade_price, prev_price>>

\* process(CancelOrder): only orders on the book are looked up.
SubmitCancel(id) ==
  /\ Running /\ pc = "Idle" /\ id \in 1 .. submitted
  /\ IF id \in DOMAIN orders
     THEN LET o == orders[id] IN
          /\ RemoveOrder(id)
          /\ events' = <<Cancelled(id, Remaining(o)),
                         BookUpdate(o.side, o.price, LevelQtyAfter(o.side, o.price))>>
     ELSE events' = <<Rejected(id, "OrderNotFound")>> /\ UNCHANGED book
  /\ pc' = "Drain"
  /\ UNCHANGED <<stp_mode, stops, last_trade_price, taker, back, prev_price, submitted>>

\* process(ModifyOrder): cancel and replace by a plain GTC limit order.
SubmitModify(id, m) ==
  /\ Running /\ pc = "Idle" /\ id \in 1 .. submitted
  /\ IF id \in DOMAIN orders
     THEN LET o == orders[id] IN
          /\ RemoveOrder(id)
          /\ events' = <<Modified(id),
                         BookUpdate(o.side, o.price, LevelQtyAfter(o.side, o.price))>>
          /\ taker' = [id |-> id, side |-> o.side, price |-> m.price, qty |-> m.qty,
                       order_type |-> "Limit", tif |-> "GTC", stop_price |-> NONE,
                       terms |-> [peak |-> 0, stp_group |-> STP_NONE]]
          /\ pc' = "New" /\ back' = "Drain"
     ELSE /\ events' = <<Rejected(id, "OrderNotFound")>>
          /\ pc' = "Drain"
          /\ UNCHANGED <<book, taker, back>>
  /\ UNCHANGED <<stp_mode, stops, last_trade_price, prev_price, submitted>>
-----------------------------------------------------------------------------
\* process_new_order returns.
Finish ==
  /\ pc' = back /\ taker' = NONE /\ back' = NONE
  /\ UNCHANGED <<stp_mode, last_trade_price, prev_price, submitted>>

Reject(why) ==
  /\ Emit(<<Rejected(taker.id, why)>>)
  /\ Finish /\ UNCHANGED <<book, stops>>

WouldCross(t) ==
  LET b == best[Opposite(t.side)] IN b # NONE /\ Acceptable(t.side, t.price, b)

\* A post-only order is neither validated nor matched.
PostOnly ==
  /\ Running /\ pc = "New" /\ taker.order_type = "PostOnly"
  /\ \/ WouldCross(taker) /\ Reject("WouldCrossSpread")
     \/ /\ ~WouldCross(taker)
        /\ InsertOrder(taker.id, taker.side, taker.price, taker.qty, RestingTerms(taker))
        /\ Emit(<<Accepted(taker.id, taker.qty), BookUpdate(taker.side, taker.price, taker.qty)>>)
        /\ Finish /\ UNCHANGED stops

\* stop_bids ascend and stop_asks descend; an entry goes in front of its equals.
GoesBefore(s, a, b) == IF s = "Bid" THEN a < b ELSE a > b

PartitionPoint(s, list, px) ==
  CHOOSE n \in 0 .. Len(list) :
    /\ \A k \in 1 .. n : GoesBefore(s, list[k].stop_price, px)
    /\ \A k \in n + 1 .. Len(list) : ~GoesBefore(s, list[k].stop_price, px)

\* A stop order waits off the book; nothing checks that its id is new.
StopLimit ==
  /\ Running /\ pc = "New" /\ taker.order_type = "StopLimit"
  /\ \/ taker.qty = 0 /\ Reject("InvalidQuantity")
     \/ taker.qty # 0 /\ taker.stop_price = NONE /\ Reject("InvalidPrice")
     \/ /\ taker.qty # 0 /\ taker.stop_price # NONE
        /\ stops' = [stops EXCEPT ![taker.side] =
                       InsertAt(@, PartitionPoint(taker.side, @, taker.stop_price) + 1, taker)]
        /\ Emit(<<Accepted(taker.id, taker.qty)>>)
        /\ Finish /\ UNCHANGED book

\* stp_first_maker_matches
FirstMakerMatches(t) ==
  LET s == Opposite(t.side) IN
  /\ best[s] # NONE /\ Acceptable(t.side, EffectivePrice(t), best[s])
  /\ LevelAt(s, best[s]).queue # <<>>
  /\ LET g == orders[Head(LevelAt(s, best[s]).queue)].terms.stp_group
     IN g # STP_NONE /\ g = t.terms.stp_group

\* Why an order is refused; NONE when it is accepted.
Refusal(t) ==
  IF t.qty = 0 THEN "InvalidQuantity"
  ELSE IF t.id \in DOMAIN orders THEN "DuplicateOrderId"
  ELSE IF t.tif = "FOK" /\ Available(Opposite(t.side), EffectivePrice(t)) < t.qty
       THEN "InsufficientLiquidity"
  ELSE IF stp_mode = "CancelNewest" /\ FirstMakerMatches(t) THEN "SelfTradePreventionTriggered"
  ELSE NONE

Validate ==
  /\ Running /\ pc = "New" /\ taker.order_type \in MatchableTypes
  /\ \/ Refusal(taker) # NONE /\ Reject(Refusal(taker))
     \/ /\ Refusal(taker) = NONE
        /\ Emit(<<Accepted(taker.id, taker.qty)>>)
        /\ pc' = "Match"
        /\ UNCHANGED <<book, stp_mode, stops, last_trade_price, taker, back, prev_price, submitted>>
-----------------------------------------------------------------------------
\* match_against_book: the level the taker faces and the maker at its head.
Facing == Opposite(taker.side)
RestingPrice == best[Facing]
CanMatch ==
  /\ taker.qty > 0 /\ RestingPrice # NONE
  /\ Acceptable(taker.side, EffectivePrice(taker), RestingPrice)
  /\ LevelAt(Facing, RestingPrice).queue # <<>>
Maker == Head(LevelAt(Facing, RestingPrice).queue)
MakerRemaining == Remaining(orders[Maker])
SelfTradeLeftToPreCheck == \* Mutant: CancelNewest relies on the pre-check alone.
  LET g == orders[Maker].terms.stp_group
  IN stp_mode # "CancelNewest" /\ g # STP_NONE /\ g = taker.terms.stp_group
SelfTrade ==
  LET g == orders[Maker].terms.stp_group IN g # STP_NONE /\ g = taker.terms.stp_group

Matching == Running /\ pc = "Match"

\* The loop ends: nothing left, nothing acceptable, or CancelNewest met its group.
StopMatching ==
  /\ Matching
  /\ CanMatch => MakerRemaining > 0 /\ SelfTrade /\ stp_mode = "CancelNewest"
  /\ pc' = "Rest"
  /\ UNCHANGED <<book, stp_mode, stops, last_trade_price, events, taker, back, prev_price, submitted>>

DropStaleMaker ==
  /\ Matching /\ CanMatch /\ MakerRemaining = 0
  /\ RemoveOrder(Maker)
  /\ UNCHANGED engine

CancelOldest ==
  /\ Matching /\ CanMatch /\ MakerRemaining > 0 /\ SelfTrade /\ stp_mode = "CancelOldest"
  /\ RemoveOrder(Maker)
  /\ Emit(<<Cancelled(Maker, MakerRemaining),
            BookUpdate(Facing, RestingPrice, LevelQtyAfter(Facing, RestingPrice))>>)
  /\ UNCHANGED <<stp_mode, stops, last_trade_price, pc, taker, back, prev_price, submitted>>

\* Mutant: the maker's cancellation is not reported.
CancelBothSilently ==
  /\ Matching /\ CanMatch /\ MakerRemaining > 0 /\ SelfTrade /\ stp_mode = "CancelBoth"
  /\ RemoveOrder(Maker)
  /\ Emit(<<BookUpdate(Facing, RestingPrice, LevelQtyAfter(Facing, RestingPrice)),
            Cancelled(taker.id, taker.qty)>>)
  /\ Finish /\ UNCHANGED stops

CancelBoth ==
  /\ Matching /\ CanMatch /\ MakerRemaining > 0 /\ SelfTrade /\ stp_mode = "CancelBoth"
  /\ RemoveOrder(Maker)
  /\ Emit(<<Cancelled(Maker, MakerRemaining),
            BookUpdate(Facing, RestingPrice, LevelQtyAfter(Facing, RestingPrice)),
            Cancelled(taker.id, taker.qty)>>)
  /\ Finish /\ UNCHANGED stops

\* Mutant: a maker reduced to nothing is left on the book.
DecrementNeverRemoves ==
  LET overlap == Least(taker.qty, MakerRemaining) IN
  /\ Matching /\ CanMatch /\ MakerRemaining > 0 /\ SelfTrade /\ stp_mode = "DecrementAndCancel"
  /\ ReduceOrderQty(Maker, overlap)
  /\ Emit(<<BookUpdate(Facing, RestingPrice, LevelQtyAfter(Facing, RestingPrice)),
            Cancelled(taker.id, taker.qty - overlap)>>)
  /\ Finish /\ UNCHANGED stops

DecrementAndCancel ==
  LET overlap == Least(taker.qty, MakerRemaining) IN
  /\ Matching /\ CanMatch /\ MakerRemaining > 0 /\ SelfTrade /\ stp_mode = "DecrementAndCancel"
  /\ IF overlap = MakerRemaining THEN RemoveOrder(Maker) ELSE ReduceOrderQty(Maker, overlap)
  /\ Emit(<<BookUpdate(Facing, RestingPrice, LevelQtyAfter(Facing, RestingPrice)),
            Cancelled(taker.id, taker.qty - overlap)>>)
  /\ Finish /\ UNCHANGED stops

\* Mutant: the fill is not capped by what the taker wants.
FillMakerUncapped ==
  LET q == MatchableQty(orders[Maker]) IN
  /\ Matching /\ CanMatch /\ MakerRemaining > 0 /\ ~SelfTrade
  /\ FillOrder(Maker, q)
  /\ taker' = [taker EXCEPT !.qty = @ - q]
  /\ last_trade_price' = RestingPrice
  /\ Emit(<<Fill(Maker, taker.id, RestingPrice, q),
            BookUpdate(Facing, RestingPrice, LevelQtyAfter(Facing, RestingPrice))>>)
  /\ UNCHANGED <<stp_mode, stops, pc, back, prev_price, submitted>>

FillMaker ==
  LET q == Least(taker.qty, MatchableQty(orders[Maker])) IN
  /\ Matching /\ CanMatch /\ MakerRemaining > 0 /\ ~SelfTrade
  /\ FillOrder(Maker, q)
  /\ taker' = [taker EXCEPT !.qty = @ - q]
  /\ last_trade_price' = RestingPrice
  /\ Emit(<<Fill(Maker, taker.id, RestingPrice, q),
            BookUpdate(Facing, RestingPrice, LevelQtyAfter(Facing, RestingPrice))>>)
  /\ UNCHANGED <<stp_mode, stops, pc, back, prev_price, submitted>>

\* What is left of the taker rests (GTC limit, iceberg) or is cancelled.
Rests(t) == t.order_type # "Market" /\ t.tif = "GTC"

HandleRemainder ==
  /\ Running /\ pc = "Rest"
  /\ \/ taker.qty = 0 /\ UNCHANGED <<book, events>>
     \/ /\ taker.qty > 0 /\ Rests(taker)
        /\ InsertOrder(taker.id, taker.side, taker.price, taker.qty, RestingTerms(taker))
        /\ Emit(<<BookUpdate(taker.side, taker.price, taker.qty)>>)
     \/ /\ taker.qty > 0 /\ ~Rests(taker)
        /\ Emit(<<Cancelled(taker.id, taker.qty)>>)
        /\ UNCHANGED book
  /\ Finish /\ UNCHANGED stops
-----------------------------------------------------------------------------
\* drain_stop_triggers: the bids, then the asks, against the price at the top of
\* the loop; once more when a triggered order moved the price.
DrainStart ==
  /\ Running /\ pc = "Drain"
  /\ pc' = IF last_trade_price = NONE THEN "Idle" ELSE "Bid"
  /\ prev_price' = last_trade_price
  /\ UNCHANGED <<book, stp_mode, stops, last_trade_price, events, taker, back, submitted>>

Triggered(s, px, last) == IF s = "Bid" THEN px <= last ELSE px >= last

HeadTriggered(s) == stops[s] # <<>> /\ Triggered(s, Head(stops[s]).stop_price, prev_price)

\* Mutant: a triggered order rests without being matched.
TriggerStopRests(s) ==
  /\ Running /\ pc = s /\ HeadTriggered(s)
  /\ LET e == Head(stops[s]) IN
     /\ taker' = [e EXCEPT !.order_type = "Limit", !.stop_price = NONE]
     /\ Emit(<<StopTriggered(e.id)>>)
  /\ stops' = [stops EXCEPT ![s] = Tail(@)]
  /\ pc' = "Rest" /\ back' = s
  /\ UNCHANGED <<book, stp_mode, last_trade_price, prev_price, submitted>>

TriggerStop(s) ==
  /\ Running /\ pc = s /\ HeadTriggered(s)
  /\ LET e == Head(stops[s]) IN
     /\ taker' = [e EXCEPT !.order_type = "Limit", !.stop_price = NONE]
     /\ Emit(<<StopTriggered(e.id)>>)
  /\ stops' = [stops EXCEPT ![s] = Tail(@)]
  /\ pc' = "New" /\ back' = s
  /\ UNCHANGED <<book, stp_mode, last_trade_price, prev_price, submitted>>

\* What follows a scan of one side without a trigger.
ScanOnce(s) == IF s = "Bid" THEN "Ask" ELSE "Idle" \* Mutant: cascades are not followed.
ScanForever(s) == IF s = "Bid" THEN "Ask" ELSE "Drain" \* Mutant: the loop has no exit.
AfterScan(s) ==
  IF s = "Bid" THEN "Ask" ELSE IF last_trade_price = prev_price THEN "Idle" ELSE "Drain"

DrainDone(s) ==
  /\ Running /\ pc = s /\ ~HeadTriggered(s)
  /\ pc' = AfterScan(s)
  /\ prev_price' = IF s = "Bid" THEN prev_price ELSE NONE
  /\ UNCHANGED <<book, stp_mode, stops, last_trade_price, events, taker, back, submitted>>
-----------------------------------------------------------------------------
Step ==
  \/ PostOnly \/ StopLimit \/ Validate
  \/ StopMatching \/ DropStaleMaker \/ CancelOldest \/ CancelBoth \/ DecrementAndCancel \/ FillMaker
  \/ HandleRemainder
  \/ DrainStart \/ \E s \in Side : TriggerStop(s) \/ DrainDone(s)

Submit ==
  \/ \E id \in OrderIds, c \in NewOrders : SubmitNew(id, c)
  \/ \E id \in OrderIds : SubmitCancel(id) \/ \E m \in Modifications : SubmitModify(id, m)

Next == Step \/ Submit

\* A call, once made, runs to its end: nothing in process() waits.
Spec == Init /\ [][Next]_vars /\ WF_vars(Step)
-----------------------------------------------------------------------------
OrderCommand ==
  [id : OrderIds, side : Side, price : Prices, qty : Quantity,
   order_type : MatchableTypes \cup {"PostOnly", "StopLimit"}, tif : {"GTC", "IOC", "FOK"},
   stop_price : Price \cup {NONE}, terms : Terms]

\* Every field keeps its type, and the locals of a call are set exactly while it
\* needs them (struct MatchingEngine, lib.rs:56-73).
EngineTypeOK ==
  /\ stp_mode \in StpModes
  /\ stops \in [Side -> Seq(OrderCommand)]
  /\ \A s \in Side : \A k \in DOMAIN stops[s] : stops[s][k].stop_price # NONE
  /\ last_trade_price \in Price \cup {NONE}
  /\ pc \in {"Idle", "New", "Match", "Rest", "Drain"} \cup Side
  /\ IF pc \in {"New", "Match", "Rest"}
     THEN taker \in OrderCommand /\ back \in {"Drain"} \cup Side
     ELSE taker = NONE /\ back = NONE
  /\ IF pc \in Side \/ back \in Side THEN prev_price \in Price ELSE prev_price = NONE
  /\ submitted \in 0 .. MaxOrders

\* Once a call has returned no bid reaches an ask, whichever container the levels
\* are in: "BBO never crosses" (crates/matchx-engine/tests/properties.rs), for
\* every live level and not only for the two cached prices.
NeverCrossed ==
  pc = "Idle" => \A b \in LivePrices("Bid"), a \in LivePrices("Ask") : b < a

\* Price priority: a fill happens at the best price of any live order opposite
\* the taker, and never beyond the taker's own limit (match_against_book,
\* lib.rs:402-570; is_price_acceptable, policy.rs:72-87).
TradesAtTheBest ==
  [][events' # events /\ pc = "Match" /\ events'[Len(events) + 1].kind = "Fill" =>
       LET px == events'[Len(events) + 1].price IN
       /\ \A p \in LivePrices(Facing) : ~Better(Facing, p, px)
       /\ taker.order_type # "Market" => Acceptable(taker.side, taker.price, px)]_vars

\* When a call returns, no stop order that the last trade price has reached is still
\* waiting, however far the cascade ran and although the prices that triggered it
\* were read before the triggered orders traded (drain_stop_triggers, lib.rs:572-641).
StopsQuiescent ==
  pc = "Idle" /\ last_trade_price # NONE =>
    \A s \in Side : \A k \in DOMAIN stops[s] :
      ~Triggered(s, stops[s][k].stop_price, last_trade_price)

\* The engine never calls recenter, so the cached best price can only be wrong by
\* overlooking levels beyond the window on the better side of it: bids above it,
\* asks below it (refresh_best_after_level_empty, book lib.rs:509-529).
BestSeesTheWindow ==
  \A s \in Side : \A p \in LivePrices(s) :
    Better(s, p, best[s]) => IF s = "Bid" THEN p >= WindowEnd ELSE p < base

\* The engine uses the book only through its operations and within their
\* contracts: a fill never exceeds what the maker has left, a reduction leaves
\* something, a removed order is live.
UsesTheBook == BookSpec

\* A call to process() returns: the matching loop and the cascade of stops end.
CallReturns == pc # "Idle" ~> pc = "Idle"

\* An accepted fill-or-kill order is filled completely: "reject if insufficient,
\* else fill all" (docs/plans/2026-02-26-matching-engine-core-design.md:154; the
\* FOK pre-check, lib.rs:299-306).
FillOrKill == pc = "Rest" /\ taker.tif = "FOK" => taker.qty = 0
=============================================================================
