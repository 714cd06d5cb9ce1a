----------------------------- MODULE EngineProofs ----------------------------
(***************************************************************************)
(* The matching engine, for every set of commands clients may send: the    *)
(* types of its state, its use of the book only through the book's         *)
(* operations and within their contracts, the stop orders that wait when a *)
(* call returns, and price priority and the uncrossed book, each on the    *)
(* condition under which the code keeps it; then what the event stream     *)
(* tells an observer of the engine.                                        *)
(***************************************************************************)
EXTENDS EngineHistory, BookProofs

\* What a call holds while it needs its locals.
TakerOK ==
  pc \in {"New", "Match", "Rest"} =>
    /\ taker.order_type = "PostOnly" => taker.qty >= MinQuantity
    /\ pc # "New" => taker.order_type \in MatchableTypes
    /\ back \in Side => taker.order_type = "Limit"

\* stop_bids ascend and stop_asks descend.
StopsSorted ==
  \A s \in Side : \A i, j \in DOMAIN stops[s] :
    i < j => ~GoesBefore(s, stops[s][j].stop_price, stops[s][i].stop_price)

\* Once the bids have been scanned, none of those that still wait is reached by the
\* price the round started with, whatever the asks triggered after them.
BidsDrained ==
  pc = "Ask" \/ back = "Ask" =>
    \A k \in DOMAIN stops["Bid"] : ~Triggered("Bid", stops["Bid"][k].stop_price, prev_price)

\* What every step of the engine keeps.
EngineInv ==
  EngineTypeOK /\ BookInv /\ TakerOK /\ StopsSorted /\ BidsDrained /\ StopsQuiescent

-----------------------------------------------------------------------------
(* What a step may rely on. *)

LEMMA TakerType ==
  ASSUME EngineTypeOK, pc \in {"New", "Match", "Rest"}
  PROVE  /\ taker \in OrderCommand
         /\ taker.id \in OrderIds /\ taker.side \in Side /\ taker.price \in Prices
         /\ taker.price \in Price /\ taker.qty \in Quantity /\ taker.qty \in Nat
         /\ taker.terms \in Terms /\ RestingTerms(taker) \in Terms
         /\ Facing \in Side /\ back \in {"Drain"} \cup Side
<1>1. taker \in OrderCommand /\ back \in {"Drain"} \cup Side
  BY DEF EngineTypeOK
<1>2. /\ taker.id \in OrderIds /\ taker.side \in Side /\ taker.price \in Prices
      /\ taker.qty \in Quantity /\ taker.terms \in Terms
  BY <1>1 DEF OrderCommand
<1>3. RestingTerms(taker) \in Terms
  BY <1>2, EngineAssumption DEF RestingTerms
<1>4. taker.price \in Price /\ taker.qty \in Nat
  BY <1>2, BookAssumption DEF Quantity
<1>5. Facing \in Side
  BY <1>2 DEF Facing, Opposite, Side
<1>6. QED
  BY <1>1, <1>2, <1>3, <1>4, <1>5

\* The maker is a live order at the best price of the side the taker faces.
LEMMA MakerIsLive ==
  ASSUME EngineTypeOK, BookInv, Matching, CanMatch
  PROVE  /\ Maker \in DOMAIN orders
         /\ orders[Maker].side = Facing /\ orders[Maker].price = RestingPrice
         /\ RestingPrice \in Price /\ RestingPrice \in LivePrices(Facing)
         /\ MakerRemaining \in Nat /\ orders[Maker].terms.peak \in Nat
         /\ orders[Maker] \in Order /\ orders[Maker].filled <= orders[Maker].quantity
<1> DEFINE queue == LevelAt(Facing, RestingPrice).queue
<1>1. Facing \in Side
  BY TakerType DEF Matching
<1>2. RestingPrice \in Price
  BY <1>1 DEF CanMatch, RestingPrice, BookInv, BookTypeOK
<1>3. queue \in Seq(OrderIds) /\ queue # <<>>
  BY <1>1, <1>2, LevelAtType DEF CanMatch, BookInv, Level
<1>4. 1 \in DOMAIN queue /\ Maker = queue[1]
  <2>1. \A q \in Seq(OrderIds) : q # <<>> => 1 \in DOMAIN q /\ Head(q) = q[1]
    OBVIOUS
  <2>2. QED
    BY <1>3, <2>1 DEF Maker
<1>5. Maker \in OrdersAt(Facing, RestingPrice)
  BY <1>1, <1>2, <1>4, QueueLists DEF ToSet
<1>6. Maker \in DOMAIN orders /\ orders[Maker].side = Facing /\ orders[Maker].price = RestingPrice
  BY <1>5 DEF OrdersAt
<1>7. orders[Maker] \in Order /\ orders[Maker].filled <= orders[Maker].quantity
  BY <1>6 DEF BookInv, BookTypeOK
<1>8. orders[Maker].terms \in Terms
  BY <1>7 DEF Order
<1>9. RestingPrice \in LivePrices(Facing)
  BY <1>1, <1>2, <1>3, LiveMeansQueued DEF BookInv
<1>10. MakerRemaining \in Nat
  BY <1>6, OpenQuantityType DEF MakerRemaining
<1>11. QED
  BY <1>2, <1>6, <1>7, <1>8, <1>9, <1>10, EngineAssumption

\* A fill takes at least 1, and no more than the maker has left and the taker wants.
LEMMA FillQuantity ==
  ASSUME EngineTypeOK, BookInv, Matching, CanMatch, MakerRemaining > 0
  PROVE  /\ Least(taker.qty, MatchableQty(orders[Maker])) \in 1 .. Remaining(orders[Maker])
         /\ Least(taker.qty, MatchableQty(orders[Maker])) <= taker.qty
<1> DEFINE peak == orders[Maker].terms.peak
           filled == orders[Maker].filled
           m == MatchableQty(orders[Maker])
           left == Remaining(orders[Maker])
<1>1. peak \in Nat /\ filled \in Nat /\ left \in Nat /\ left > 0
  BY MakerIsLive, BookAssumption DEF Order, Quantity, MakerRemaining
<1>2. taker.qty \in Nat /\ taker.qty > 0
  BY TakerType DEF Matching, CanMatch
<1>3. m \in 1 .. left
  <2>1. m = IF peak > 0 THEN Least(peak - (filled % peak), left) ELSE left
    BY DEF MatchableQty
  <2>2. CASE peak > 0
    <3>1. filled % peak \in 0 .. peak - 1
      <4>1. \A a, b \in Nat : b > 0 => a % b \in 0 .. b - 1
        OBVIOUS
      <4> HIDE DEF peak, filled
      <4>2. QED
        BY <1>1, <2>2, <4>1
    <3> DEFINE r == filled % peak
    <3>2. m = Least(peak - r, left) /\ r \in 0 .. peak - 1
      BY <2>1, <2>2, <3>1
    <3> HIDE DEF r, peak, left, m
    <3>3. QED
      BY <1>1, <3>2 DEF Least
  <2>3. CASE ~(peak > 0)
    <3>1. m = left
      BY <2>1, <2>3
    <3> HIDE DEF m, left
    <3>2. QED
      BY <1>1, <3>1
  <2>4. QED
    BY <2>2, <2>3
<1> HIDE DEF m, left
<1>4. Least(taker.qty, m) \in 1 .. left /\ Least(taker.qty, m) <= taker.qty
  BY <1>1, <1>2, <1>3 DEF Least
<1>5. QED
  BY <1>4 DEF m, left

-----------------------------------------------------------------------------
(* The lists of waiting stop orders. *)

LEMMA InsertAtProperties ==
  ASSUME NEW S, NEW q \in Seq(S), NEW e \in S, NEW k \in 1 .. Len(q) + 1
  PROVE  /\ InsertAt(q, k, e) \in Seq(S)
         /\ Len(InsertAt(q, k, e)) = Len(q) + 1
         /\ \A i \in 1 .. Len(q) + 1 :
              InsertAt(q, k, e)[i] = IF i < k THEN q[i] ELSE IF i = k THEN e ELSE q[i - 1]
<1> DEFINE a == SubSeq(q, 1, k - 1)
           b == SubSeq(q, k, Len(q))
           c == a \o <<e>>
<1>1. Len(q) \in Nat /\ \A i \in 1 .. Len(q) : q[i] \in S
  OBVIOUS
<1>2. a \in Seq(S) /\ Len(a) = k - 1 /\ \A i \in 1 .. k - 1 : a[i] = q[i]
  <2>1. \A i \in 1 .. k - 1 : q[i] \in S
    BY <1>1
  <2>2. /\ a \in Seq(S) /\ Len(a) = IF 1 <= k - 1 THEN k - 1 - 1 + 1 ELSE 0
        /\ \A i \in 1 .. k - 1 - 1 + 1 : a[i] = q[1 + i - 1]
    BY <1>1, <2>1, SubSeqProperties
  <2> HIDE DEF a
  <2>3. QED
    BY <1>1, <2>2
<1>3. b \in Seq(S) /\ Len(b) = Len(q) - k + 1 /\ \A i \in 1 .. Len(q) - k + 1 : b[i] = q[k + i - 1]
  <2>1. \A i \in k .. Len(q) : q[i] \in S
    BY <1>1
  <2>2. /\ b \in Seq(S) /\ Len(b) = IF k <= Len(q) THEN Len(q) - k + 1 ELSE 0
        /\ \A i \in 1 .. Len(q) - k + 1 : b[i] = q[k + i - 1]
    BY <1>1, <2>1, SubSeqProperties
  <2> HIDE DEF b
  <2>3. QED
    BY <1>1, <2>2
<1> HIDE DEF a, b
<1>4. c \in Seq(S) /\ Len(c) = k /\ \A i \in 1 .. k : c[i] = IF i < k THEN q[i] ELSE e
  <2>1. <<e>> \in Seq(S) /\ Len(<<e>>) = 1 /\ <<e>>[1] = e
    OBVIOUS
  <2>2. /\ c \in Seq(S) /\ Len(c) = Len(a) + 1
        /\ \A i \in 1 .. Len(a) + 1 : c[i] = IF i <= Len(a) THEN a[i] ELSE <<e>>[i - Len(a)]
    BY <1>2, <2>1, ConcatProperties
  <2> HIDE DEF c
  <2>3. ASSUME NEW i \in 1 .. k PROVE c[i] = IF i < k THEN q[i] ELSE e
    <3>1. CASE i < k
      BY <1>1, <1>2, <2>2, <3>1
    <3>2. CASE ~(i < k)
      <4>1. i = k /\ ~(i <= Len(a)) /\ i - Len(a) = 1 /\ i \in 1 .. Len(a) + 1
        BY <1>1, <1>2, <3>2
      <4>2. QED
        BY <2>1, <2>2, <3>2, <4>1
    <3>3. QED
      BY <3>1, <3>2
  <2>4. QED
    BY <1>1, <1>2, <2>2, <2>3
<1> HIDE DEF c
<1>5. /\ c \o b \in Seq(S) /\ Len(c \o b) = Len(c) + Len(b)
      /\ \A i \in 1 .. Len(c) + Len(b) : (c \o b)[i] = IF i <= Len(c) THEN c[i] ELSE b[i - Len(c)]
  BY <1>3, <1>4, ConcatProperties
<1>6. InsertAt(q, k, e) = c \o b
  BY DEF InsertAt, a, b, c
<1>7. ASSUME NEW i \in 1 .. Len(q) + 1
      PROVE  (c \o b)[i] = IF i < k THEN q[i] ELSE IF i = k THEN e ELSE q[i - 1]
  <2>1. CASE i <= k
    <3>1. i \in 1 .. k /\ i <= Len(c) /\ i \in 1 .. Len(c) + Len(b)
      BY <1>1, <1>3, <1>4, <2>1
    <3>2. (c \o b)[i] = c[i]
      BY <1>5, <3>1
    <3>3. QED
      BY <1>4, <2>1, <3>1, <3>2
  <2>2. CASE ~(i <= k)
    <3>1. /\ i - k \in 1 .. Len(q) - k + 1 /\ k + (i - k) - 1 = i - 1
          /\ i \in 1 .. Len(c) + Len(b) /\ ~(i <= Len(c)) /\ Len(c) = k
      BY <1>1, <1>3, <1>4, <2>2
    <3>2. (c \o b)[i] = b[i - k]
      BY <1>5, <3>1
    <3>3. b[i - k] = q[i - 1]
      BY <1>3, <3>1
    <3>4. QED
      BY <2>2, <3>2, <3>3
  <2>3. QED
    BY <2>1, <2>2
<1>8. c \o b \in Seq(S) /\ Len(c \o b) = Len(q) + 1
  BY <1>1, <1>3, <1>4, <1>5
<1>9. QED
  BY <1>6, <1>7, <1>8

\* The stop list with an entry put at a place.
Inserted(list, k, e, new) ==
  /\ new \in Seq(OrderCommand) /\ Len(new) = Len(list) + 1
  /\ \A i \in 1 .. Len(list) + 1 :
       new[i] = IF i < k THEN list[i] ELSE IF i = k THEN e ELSE list[i - 1]

LEMMA StopInserted ==
  \A list \in Seq(OrderCommand) : \A e \in OrderCommand, k \in 1 .. Len(list) + 1 :
    Inserted(list, k, e, InsertAt(list, k, e))
BY InsertAtProperties DEF Inserted

\* A list in the order its side is drained in, every entry with a stop price.
StopList(s, list) ==
  /\ list \in Seq(OrderCommand)
  /\ \A k \in DOMAIN list : list[k].stop_price \in Price
  /\ \A i, j \in DOMAIN list : i < j => ~GoesBefore(s, list[j].stop_price, list[i].stop_price)

LEMMA StopsAreLists ==
  EngineTypeOK /\ StopsSorted =>
    stops \in [Side -> Seq(OrderCommand)] /\ \A s \in Side : StopList(s, stops[s])
<1> SUFFICES ASSUME EngineTypeOK, StopsSorted
             PROVE  /\ stops \in [Side -> Seq(OrderCommand)]
                    /\ \A s \in Side : StopList(s, stops[s])
  OBVIOUS
<1>1. ASSUME NEW s \in Side, NEW k \in DOMAIN stops[s] PROVE stops[s][k].stop_price \in Price
  <2>1. stops[s][k] \in OrderCommand /\ stops[s][k].stop_price # NONE
    BY DEF EngineTypeOK
  <2>2. QED
    BY <2>1 DEF OrderCommand
<1>2. QED
  BY <1>1 DEF EngineTypeOK, StopsSorted, StopList

\* The binary search finds the place the order of the list asks for.
LEMMA PartitionPointExists ==
  ASSUME NEW s \in Side, NEW list, StopList(s, list), NEW px \in Price
  PROVE  LET n == PartitionPoint(s, list, px) IN
         /\ n \in 0 .. Len(list)
         /\ \A k \in 1 .. n : GoesBefore(s, list[k].stop_price, px)
         /\ \A k \in n + 1 .. Len(list) : ~GoesBefore(s, list[k].stop_price, px)
<1> DEFINE T == {n \in 0 .. Len(list) :
                   \A k \in n + 1 .. Len(list) : ~GoesBefore(s, list[k].stop_price, px)}
           n == BestOf("Ask", T)
<1>1. /\ list \in Seq(OrderCommand) /\ DOMAIN list = 1 .. Len(list) /\ Len(list) \in Nat
      /\ \A k \in 1 .. Len(list) : list[k].stop_price \in Nat
      /\ px \in Nat
      /\ \A i, j \in 1 .. Len(list) :
           i < j => ~GoesBefore(s, list[j].stop_price, list[i].stop_price)
  BY BookAssumption DEF StopList, Price
<1>2. T \subseteq 0 .. Len(list) /\ Len(list) \in T
  BY <1>1
<1>3. n \in T /\ \A m \in T : ~(m < n)
  <2>1. n \in T /\ \A m \in T : ~Better("Ask", m, n)
    <3>1. "Ask" \in Side /\ T # {}
      BY <1>2 DEF Side
    <3> HIDE DEF T
    <3>2. QED
      BY <1>1, <1>2, <3>1, BestIsBest
  <2>2. QED
    BY <2>1 DEF Better
<1> HIDE DEF n
<1>4. n \in 0 .. Len(list) /\ \A k \in n + 1 .. Len(list) : ~GoesBefore(s, list[k].stop_price, px)
  BY <1>3
<1>5. ASSUME NEW k \in 1 .. n, ~GoesBefore(s, list[k].stop_price, px) PROVE FALSE
  <2>1. k \in 1 .. Len(list) /\ k - 1 \in 0 .. Len(list) /\ k - 1 < n
    BY <1>1, <1>4
  <2>2. ASSUME NEW j \in (k - 1) + 1 .. Len(list) PROVE ~GoesBefore(s, list[j].stop_price, px)
    <3>1. j \in 1 .. Len(list) /\ (j = k \/ k < j)
      BY <1>1, <2>1
    <3>2. CASE j = k
      BY <1>5, <3>2
    <3>3. CASE k < j
      <4>1. ~GoesBefore(s, list[j].stop_price, list[k].stop_price)
        BY <1>1, <2>1, <3>1, <3>3
      <4>2. list[j].stop_price \in Nat /\ list[k].stop_price \in Nat
        BY <1>1, <2>1, <3>1
      <4>3. QED
        BY <1>1, <1>5, <4>1, <4>2 DEF GoesBefore
    <3>4. QED
      BY <3>1, <3>2, <3>3
  <2>3. k - 1 \in T
    BY <2>1, <2>2
  <2>4. QED
    BY <1>3, <2>1, <2>3
<1>6. \E m \in 0 .. Len(list) :
        /\ \A k \in 1 .. m : GoesBefore(s, list[k].stop_price, px)
        /\ \A k \in m + 1 .. Len(list) : ~GoesBefore(s, list[k].stop_price, px)
  BY <1>4, <1>5
<1>7. QED
  BY <1>6 DEF PartitionPoint

LEMMA InsertKeepsStopList ==
  ASSUME NEW s \in Side, NEW list, StopList(s, list), NEW e \in OrderCommand,
         e.stop_price # NONE
  PROVE  StopList(s, InsertAt(list, PartitionPoint(s, list, e.stop_price) + 1, e))
<1> DEFINE px == e.stop_price
           n == PartitionPoint(s, list, px)
           new == InsertAt(list, n + 1, e)
<1>1. px \in Price
  BY DEF OrderCommand
<1>2. /\ list \in Seq(OrderCommand) /\ DOMAIN list = 1 .. Len(list) /\ Len(list) \in Nat
      /\ \A k \in 1 .. Len(list) : list[k].stop_price \in Price
      /\ \A i, j \in 1 .. Len(list) :
           i < j => ~GoesBefore(s, list[j].stop_price, list[i].stop_price)
  BY DEF StopList
<1> HIDE DEF px
<1>3. /\ n \in 0 .. Len(list)
      /\ \A k \in 1 .. n : GoesBefore(s, list[k].stop_price, px)
      /\ \A k \in n + 1 .. Len(list) : ~GoesBefore(s, list[k].stop_price, px)
  BY <1>1, PartitionPointExists
<1> HIDE DEF n
<1>4. n + 1 \in 1 .. Len(list) + 1
  BY <1>2, <1>3
<1>5. /\ new \in Seq(OrderCommand) /\ Len(new) = Len(list) + 1
      /\ \A i \in 1 .. Len(list) + 1 :
           new[i] = IF i < n + 1 THEN list[i] ELSE IF i = n + 1 THEN e ELSE list[i - 1]
  <2> DEFINE k == n + 1
  <2>1. list \in Seq(OrderCommand) /\ k \in 1 .. Len(list) + 1
    BY <1>2, <1>4
  <2> HIDE DEF k
  <2>2. /\ InsertAt(list, k, e) \in Seq(OrderCommand) /\ Len(InsertAt(list, k, e)) = Len(list) + 1
        /\ \A i \in 1 .. Len(list) + 1 :
             InsertAt(list, k, e)[i] = IF i < k THEN list[i] ELSE IF i = k THEN e ELSE list[i - 1]
    <3>1. Inserted(list, k, e, InsertAt(list, k, e))
      BY <2>1, StopInserted
    <3>2. QED
      BY <3>1 DEF Inserted
  <2>3. QED
    BY <2>2 DEF k
<1> HIDE DEF new
<1>6. DOMAIN new = 1 .. Len(list) + 1
  BY <1>5
<1> DEFINE price(i) == IF i < n + 1 THEN list[i].stop_price
                       ELSE IF i = n + 1 THEN px ELSE list[i - 1].stop_price
<1>7. \A i \in 1 .. Len(list) + 1 : new[i].stop_price = price(i)
  BY <1>5 DEF px
<1>8. ASSUME NEW i \in 1 .. Len(list) + 1 PROVE price(i) \in Price
  <2>1. CASE i < n + 1
    BY <1>2, <1>3, <2>1
  <2>2. CASE i = n + 1
    BY <1>1, <1>3, <2>2
  <2>3. CASE i > n + 1
    <3>1. i - 1 \in 1 .. Len(list) /\ ~(i < n + 1) /\ i # n + 1
      BY <1>2, <1>3, <2>3
    <3>2. QED
      BY <1>2, <3>1
  <2>4. QED
    BY <1>3, <2>1, <2>2, <2>3
<1>9. ASSUME NEW i \in 1 .. Len(list) + 1, NEW j \in 1 .. Len(list) + 1, i < j
      PROVE  ~GoesBefore(s, price(j), price(i))
  <2>1. \/ i < n + 1 /\ n + 1 < j
        \/ i < n + 1 /\ j < n + 1
        \/ n + 1 < i /\ n + 1 < j
        \/ i = n + 1 /\ n + 1 < j
        \/ j = n + 1 /\ i < n + 1
    BY <1>2, <1>3, <1>9
  <2>2. CASE i < n + 1 /\ n + 1 < j
    <3>1. i \in 1 .. Len(list) /\ j - 1 \in 1 .. Len(list) /\ i < j - 1
          /\ ~(j < n + 1) /\ j # n + 1
      BY <1>2, <1>3, <2>2
    <3>2. QED
      BY <1>2, <2>2, <3>1
  <2>3. CASE i < n + 1 /\ j < n + 1
    <3>1. i \in 1 .. Len(list) /\ j \in 1 .. Len(list)
      BY <1>2, <1>3, <2>3
    <3>2. QED
      BY <1>2, <1>9, <2>3, <3>1
  <2>4. CASE n + 1 < i /\ n + 1 < j
    <3>1. i - 1 \in 1 .. Len(list) /\ j - 1 \in 1 .. Len(list) /\ i - 1 < j - 1
          /\ ~(j < n + 1) /\ j # n + 1 /\ ~(i < n + 1) /\ i # n + 1
      BY <1>2, <1>3, <1>9, <2>4
    <3>2. QED
      BY <1>2, <3>1
  <2>5. CASE i = n + 1 /\ n + 1 < j
    <3>1. j - 1 \in n + 1 .. Len(list) /\ ~(j < n + 1) /\ j # n + 1 /\ ~(i < n + 1)
      BY <1>2, <1>3, <2>5
    <3>2. QED
      BY <1>3, <2>5, <3>1
  <2>6. CASE j = n + 1 /\ i < n + 1
    <3>1. i \in 1 .. n /\ i \in 1 .. Len(list) /\ ~(j < n + 1)
      BY <1>2, <1>3, <2>6
    <3>2. GoesBefore(s, list[i].stop_price, px) /\ list[i].stop_price \in Nat /\ px \in Nat
      BY <1>1, <1>2, <1>3, <3>1 DEF Price
    <3>3. QED
      BY <2>6, <3>1, <3>2 DEF GoesBefore
  <2>7. QED
    BY <2>1, <2>2, <2>3, <2>4, <2>5, <2>6
<1> HIDE DEF price
<1>10. QED
  BY <1>5, <1>6, <1>7, <1>8, <1>9 DEF StopList, new, n, px

LEMMA TailKeepsStopList ==
  ASSUME NEW s \in Side, NEW list, StopList(s, list), list # <<>>
  PROVE  /\ StopList(s, Tail(list))
         /\ 1 \in DOMAIN list /\ Head(list) = list[1]
         /\ Head(list) \in OrderCommand /\ Head(list).stop_price \in Price
<1> DEFINE new == Tail(list)
<1>1. list \in Seq(OrderCommand) /\ DOMAIN list = 1 .. Len(list) /\ Len(list) \in Nat
  BY DEF StopList
<1>2. 1 \in DOMAIN list /\ Head(list) = list[1]
  <2>1. \A q \in Seq(OrderCommand) : q # <<>> => 1 \in DOMAIN q /\ Head(q) = q[1]
    OBVIOUS
  <2>2. QED
    BY <1>1, <2>1
<1>3. new \in Seq(OrderCommand) /\ Len(new) = Len(list) - 1
      /\ \A i \in 1 .. Len(new) : new[i] = list[i + 1]
  BY <1>1, HeadTailProperties
<1> HIDE DEF new
<1>4. DOMAIN new = 1 .. Len(list) - 1 /\ \A i \in DOMAIN new : i + 1 \in DOMAIN list /\ new[i] = list[i + 1]
  BY <1>1, <1>3
<1>5. ASSUME NEW i \in DOMAIN new, NEW j \in DOMAIN new, i < j
      PROVE  ~GoesBefore(s, new[j].stop_price, new[i].stop_price)
  <2>1. i + 1 \in DOMAIN list /\ j + 1 \in DOMAIN list /\ i + 1 < j + 1
    BY <1>4, <1>5
  <2>2. QED
    BY <1>4, <2>1 DEF StopList
<1>6. StopList(s, new)
  BY <1>3, <1>4, <1>5 DEF StopList
<1>7. Head(list) \in OrderCommand /\ Head(list).stop_price \in Price
  BY <1>1, <1>2 DEF StopList
<1>8. QED
  BY <1>2, <1>6, <1>7 DEF new

\* When the first of a list is not triggered, none is.
LEMMA QuietHeadQuietList ==
  ASSUME NEW s \in Side, NEW list, StopList(s, list), NEW px \in Price,
         list # <<>> => ~Triggered(s, Head(list).stop_price, px)
  PROVE  \A k \in DOMAIN list : ~Triggered(s, list[k].stop_price, px)
<1> SUFFICES ASSUME NEW k \in DOMAIN list PROVE ~Triggered(s, list[k].stop_price, px)
  OBVIOUS
<1>1. list # <<>> /\ k \in 1 .. Len(list) /\ Len(list) \in Nat
  BY DEF StopList
<1>2. 1 \in DOMAIN list /\ ~Triggered(s, list[1].stop_price, px)
  BY <1>1, TailKeepsStopList
<1>3. list[1].stop_price \in Nat /\ list[k].stop_price \in Nat /\ px \in Nat
  BY <1>2 DEF StopList, Price
<1>4. k = 1 \/ ~GoesBefore(s, list[k].stop_price, list[1].stop_price)
  BY <1>1, <1>2 DEF StopList
<1>5. QED
  BY <1>2, <1>3, <1>4 DEF Triggered, GoesBefore

LEMMA BindIsACommand ==
  ASSUME NEW id \in OrderIds, NEW c \in Command
  PROVE  LET t == Bind(c, "id", id) IN
         /\ t \in OrderCommand /\ t.id = id
         /\ t.order_type = c.order_type /\ t.qty = c.qty /\ t.side = c.side /\ t.price = c.price
         /\ t.tif = c.tif
<1> DEFINE t == Bind(c, "id", id)
           fields == {"side", "price", "qty", "order_type", "tif", "stop_price", "terms"}
<1>1. DOMAIN c = fields
  BY DEF Command
<1>2. t = [x \in fields \cup {"id"} |-> IF x = "id" THEN id ELSE c[x]]
  BY <1>1 DEF Bind
<1>3. t = [id |-> id, side |-> c.side, price |-> c.price, qty |-> c.qty,
           order_type |-> c.order_type, tif |-> c.tif, stop_price |-> c.stop_price,
           terms |-> c.terms]
  BY <1>2
<1> HIDE DEF t
<1>4. QED
  BY <1>3 DEF Command, OrderCommand, t

-----------------------------------------------------------------------------
(* Every step of the engine is a step of the book or leaves it alone. *)

LEMMA InsertIsABookStep ==
  ASSUME EngineTypeOK, Running, pc \in {"New", "Match", "Rest"}, taker.qty >= MinQuantity,
         InsertOrder(taker.id, taker.side, taker.price, taker.qty, RestingTerms(taker))
  PROVE  BookNext
<1>1. taker.qty \in MinQuantity .. MaxQuantity
  BY TakerType, BookAssumption DEF Quantity
<1>2. QED
  BY <1>1, TakerType DEF BookNext, Running

LEMMA RemoveIsABookStep ==
  ASSUME Running, NEW id \in DOMAIN orders, RemoveOrder(id)
  PROVE  BookNext
BY DEF BookNext, Running

LEMMA EngineUsesTheBook == EngineInv /\ [Next]_vars => [BookNext]_book
<1> SUFFICES ASSUME EngineInv, [Next]_vars PROVE [BookNext]_book
  OBVIOUS
<1> USE DEF EngineInv
<1>1. ASSUME NEW id \in OrderIds, NEW c \in NewOrders, SubmitNew(id, c) PROVE UNCHANGED book
  BY <1>1 DEF SubmitNew
<1>2. ASSUME NEW id \in OrderIds, SubmitCancel(id) PROVE BookNext \/ UNCHANGED book
  BY <1>2, RemoveIsABookStep DEF SubmitCancel
<1>3. ASSUME NEW id \in OrderIds, NEW m \in Modifications, SubmitModify(id, m)
      PROVE  BookNext \/ UNCHANGED book
  BY <1>3, RemoveIsABookStep DEF SubmitModify
<1>4. CASE PostOnly
  <2>1. CASE Reject("WouldCrossSpread")
    BY <2>1 DEF Reject
  <2>2. CASE InsertOrder(taker.id, taker.side, taker.price, taker.qty, RestingTerms(taker))
    BY <1>4, <2>2, InsertIsABookStep DEF PostOnly, TakerOK
  <2>3. QED
    BY <1>4, <2>1, <2>2 DEF PostOnly
<1>5. CASE StopLimit
  BY <1>5 DEF StopLimit, Reject
<1>6. CASE Validate
  BY <1>6 DEF Validate, Reject
<1>7. CASE StopMatching
  BY <1>7 DEF StopMatching
<1>8. CASE DropStaleMaker
  BY <1>8, MakerIsLive, RemoveIsABookStep DEF DropStaleMaker, Matching
<1>9. CASE CancelOldest
  BY <1>9, MakerIsLive, RemoveIsABookStep DEF CancelOldest, Matching
<1>10. CASE CancelBoth
  BY <1>10, MakerIsLive, RemoveIsABookStep DEF CancelBoth, Matching
<1>11. CASE DecrementAndCancel
  <2> DEFINE overlap == Least(taker.qty, MakerRemaining)
  <2>1. /\ Matching /\ CanMatch /\ MakerRemaining > 0
        /\ IF overlap = MakerRemaining THEN RemoveOrder(Maker) ELSE ReduceOrderQty(Maker, overlap)
    BY <1>11 DEF DecrementAndCancel
  <2>2. Maker \in DOMAIN orders /\ ~panicked
    BY <2>1, MakerIsLive DEF Matching, Running
  <2>3. CASE overlap = MakerRemaining
    BY <2>1, <2>2, <2>3, RemoveIsABookStep DEF Matching
  <2>4. CASE overlap # MakerRemaining
    <3>1. taker.qty \in Nat /\ taker.qty > 0 /\ MakerRemaining \in Nat
      BY <2>1, TakerType, MakerIsLive DEF Matching, CanMatch
    <3>2. overlap \in 1 .. MakerRemaining - 1
      BY <2>1, <2>4, <3>1 DEF Least
    <3>3. QED
      BY <2>1, <2>2, <2>4, <3>2 DEF BookNext, MakerRemaining
  <2>5. QED
    BY <2>3, <2>4
<1>12. CASE FillMaker
  <2>1. /\ Matching /\ CanMatch /\ MakerRemaining > 0 /\ ~panicked
        /\ FillOrder(Maker, Least(taker.qty, MatchableQty(orders[Maker])))
    BY <1>12 DEF FillMaker, Matching, Running
  <2>2. QED
    BY <2>1, MakerIsLive, FillQuantity DEF BookNext
<1>13. CASE HandleRemainder
  <2>1. CASE InsertOrder(taker.id, taker.side, taker.price, taker.qty, RestingTerms(taker))
             /\ taker.qty > 0
    <3>1. taker.qty >= MinQuantity
      BY <1>13, <2>1, TakerType, EngineAssumption, BookAssumption DEF HandleRemainder
    <3>2. QED
      BY <1>13, <2>1, <3>1, InsertIsABookStep DEF HandleRemainder
  <2>2. QED
    BY <1>13, <2>1 DEF HandleRemainder
<1>14. CASE DrainStart
  BY <1>14 DEF DrainStart
<1>15. ASSUME NEW s \in Side, TriggerStop(s) \/ DrainDone(s) PROVE UNCHANGED book
  BY <1>15 DEF TriggerStop, DrainDone
<1>16. CASE UNCHANGED vars
  BY <1>16 DEF vars
<1>17. QED
  BY <1>1, <1>2, <1>3, <1>4, <1>5, <1>6, <1>7, <1>8, <1>9, <1>10, <1>11, <1>12, <1>13, <1>14,
     <1>15, <1>16 DEF Next, Step, Submit
-----------------------------------------------------------------------------
(* The engine's own state. *)

\* EngineTypeOK and TakerOK, without the lists of stop orders.
LocalsOK ==
  /\ stp_mode \in StpModes
  /\ last_trade_price \in Price \cup {NONE}
  /\ pc \in {"Idle", "New", "Match", "Rest", "Drain"} \cup Side
  /\ IF pc \in {"New", "Match", "Rest"}
     THEN taker \in OrderCommand /\ back \in {"Drain"} \cup Side
     ELSE taker = NONE /\ back = NONE
  /\ IF pc \in Side \/ back \in Side THEN prev_price \in Price ELSE prev_price = NONE
  /\ submitted \in 0 .. MaxOrders
  /\ TakerOK

StopsOK ==
  /\ stops \in [Side -> Seq(OrderCommand)]
  /\ \A s \in Side : StopList(s, stops[s])

LEMMA StateParts == EngineTypeOK /\ TakerOK /\ StopsSorted <=> LocalsOK /\ StopsOK
<1>1. EngineTypeOK /\ TakerOK => LocalsOK
  BY DEF EngineTypeOK, LocalsOK
<1>2. EngineTypeOK /\ StopsSorted => StopsOK
  BY StopsAreLists DEF StopsOK
<1>3. LocalsOK /\ StopsOK => EngineTypeOK /\ TakerOK
  <2> SUFFICES ASSUME LocalsOK, StopsOK PROVE EngineTypeOK /\ TakerOK
    OBVIOUS
  <2>1. \A s \in Side : \A k \in DOMAIN stops[s] : stops[s][k].stop_price # NONE
    BY BookAssumption DEF StopsOK, StopList, Price
  <2>2. QED
    BY <2>1 DEF LocalsOK, StopsOK, EngineTypeOK
<1>4. StopsOK => StopsSorted
  BY DEF StopsOK, StopsSorted, StopList
<1>5. QED
  BY <1>1, <1>2, <1>3, <1>4

LEMMA StatePartsNext == (EngineTypeOK /\ TakerOK /\ StopsSorted <=> LocalsOK /\ StopsOK)'
BY StateParts, PTL

\* process_new_order returns to the drain or to the cascade it was called from.
LEMMA FinishLocals ==
  ASSUME LocalsOK, pc \in {"New", "Match", "Rest"}, Finish
  PROVE  LocalsOK'
<1>1. /\ back \in {"Drain"} \cup Side /\ pc \notin Side
      /\ pc' = back /\ taker' = NONE /\ back' = NONE
      /\ UNCHANGED <<stp_mode, last_trade_price, prev_price, submitted>>
  BY DEF LocalsOK, Finish, Side
<1>2. pc' \notin {"New", "Match", "Rest"} /\ pc' \in {"Drain"} \cup Side /\ back' \notin Side
  BY <1>1, EngineAssumption DEF Side
<1>3. IF pc' \in Side THEN prev_price \in Price ELSE prev_price = NONE
  BY <1>1 DEF LocalsOK
<1>4. QED
  BY <1>1, <1>2, <1>3 DEF LocalsOK, TakerOK

LEMMA LocalsStep == EngineInv /\ [Next]_vars => LocalsOK'
<1> SUFFICES ASSUME EngineInv, [Next]_vars PROVE LocalsOK'
  OBVIOUS
<1>0. LocalsOK /\ StopsOK /\ BookInv /\ EngineTypeOK
  BY StateParts DEF EngineInv
<1> DEFINE calls == {"New", "Match", "Rest"}
<1>1. ASSUME NEW id \in OrderIds, NEW c \in NewOrders, SubmitNew(id, c) PROVE LocalsOK'
  <2>1. /\ pc = "Idle" /\ submitted < MaxOrders /\ submitted' = submitted + 1
        /\ taker' = Bind(c, "id", id) /\ pc' = "New" /\ back' = "Drain"
        /\ UNCHANGED <<stp_mode, last_trade_price, prev_price>>
    BY <1>1 DEF SubmitNew
  <2>2. c \in Command /\ (c.order_type = "PostOnly" => c.qty >= MinQuantity)
    BY EngineAssumption
  <2>3. taker' \in OrderCommand /\ (taker'.order_type = "PostOnly" => taker'.qty >= MinQuantity)
    BY <2>1, <2>2, BindIsACommand
  <2>4. back' \notin Side /\ pc' \notin Side /\ prev_price = NONE
    BY <1>0, <2>1, EngineAssumption DEF Side, LocalsOK
  <2>5. submitted' \in 0 .. MaxOrders
    BY <1>0, <2>1, EngineAssumption DEF LocalsOK
  <2>6. QED
    BY <1>0, <2>1, <2>3, <2>4, <2>5 DEF LocalsOK, TakerOK
<1>2. ASSUME pc = "Idle", pc' = "Drain",
             UNCHANGED <<stp_mode, last_trade_price, taker, back, prev_price, submitted>>
      PROVE  LocalsOK'
  BY <1>0, <1>2 DEF LocalsOK, TakerOK, Side
<1>3. ASSUME NEW id \in OrderIds, SubmitCancel(id) PROVE LocalsOK'
  BY <1>2, <1>3 DEF SubmitCancel
<1>4. ASSUME NEW id \in OrderIds, NEW m \in Modifications, SubmitModify(id, m) PROVE LocalsOK'
  <2>1. CASE id \in DOMAIN orders
    <3>1. /\ pc = "Idle" /\ pc' = "New" /\ back' = "Drain"
          /\ taker' = [id |-> id, side |-> orders[id].side, price |-> m.price, qty |-> m.qty,
                       order_type |-> "Limit", tif |-> "GTC", stop_price |-> NONE,
                       terms |-> [peak |-> 0, stp_group |-> STP_NONE]]
          /\ UNCHANGED <<stp_mode, last_trade_price, prev_price, submitted>>
      BY <1>4, <2>1 DEF SubmitModify
    <3>2. orders[id].side \in Side
      BY <1>0, <2>1 DEF BookInv, BookTypeOK, Order
    <3>3. m.price \in Prices /\ m.qty \in Quantity
      BY EngineAssumption
    <3>4. taker' \in OrderCommand /\ taker'.order_type = "Limit"
      BY <3>1, <3>2, <3>3, EngineAssumption DEF OrderCommand, MatchableTypes
    <3>5. back' \notin Side /\ pc' \notin Side /\ prev_price = NONE
      BY <1>0, <3>1, EngineAssumption DEF Side, LocalsOK
    <3>6. QED
      BY <1>0, <3>1, <3>4, <3>5 DEF LocalsOK, TakerOK
  <2>2. CASE id \notin DOMAIN orders
    BY <1>2, <1>4, <2>2 DEF SubmitModify
  <2>3. QED
    BY <2>1, <2>2
<1>5. ASSUME Finish, pc \in calls PROVE LocalsOK'
  BY <1>0, <1>5, FinishLocals
<1>6. CASE PostOnly
  BY <1>5, <1>6 DEF PostOnly, Reject
<1>7. CASE StopLimit
  BY <1>5, <1>7 DEF StopLimit, Reject
<1>8. ASSUME pc \in calls, pc' \in calls, taker.order_type \in MatchableTypes,
             UNCHANGED <<stp_mode, last_trade_price, taker, back, prev_price, submitted>>
      PROVE  LocalsOK'
  BY <1>0, <1>8 DEF LocalsOK, TakerOK, Side
<1>9. CASE Validate
  BY <1>5, <1>8, <1>9 DEF Validate, Reject
<1>10. CASE StopMatching
  BY <1>0, <1>8, <1>10 DEF StopMatching, Matching, LocalsOK, TakerOK
<1>11. CASE DropStaleMaker
  BY <1>0, <1>8, <1>11 DEF DropStaleMaker, Matching, engine, LocalsOK, TakerOK
<1>12. CASE CancelOldest
  BY <1>0, <1>8, <1>12 DEF CancelOldest, Matching, LocalsOK, TakerOK
<1>13. CASE CancelBoth
  BY <1>5, <1>13 DEF CancelBoth, Matching
<1>14. CASE DecrementAndCancel
  BY <1>5, <1>14 DEF DecrementAndCancel, Matching
<1>15. CASE FillMaker
  <2> DEFINE q == Least(taker.qty, MatchableQty(orders[Maker]))
  <2>1. /\ Matching /\ CanMatch /\ MakerRemaining > 0 /\ pc = "Match"
        /\ taker' = [taker EXCEPT !.qty = @ - q] /\ last_trade_price' = RestingPrice
        /\ UNCHANGED <<stp_mode, pc, back, prev_price, submitted>>
    BY <1>15 DEF FillMaker, Matching
  <2>2. RestingPrice \in Price
    BY <1>0, <2>1, MakerIsLive
  <2>3. taker \in OrderCommand /\ taker.qty \in Quantity /\ back \in {"Drain"} \cup Side
    BY <1>0, <2>1 DEF LocalsOK, OrderCommand
  <2>4. q \in 1 .. Remaining(orders[Maker]) /\ q <= taker.qty
    BY <1>0, <2>1, FillQuantity
  <2> HIDE DEF q
  <2>5. taker.qty - q \in Quantity
    BY <1>0, <2>1, <2>3, <2>4, MakerIsLive, BookAssumption DEF Quantity, MakerRemaining
  <2>6. taker' \in OrderCommand /\ taker'.order_type = taker.order_type
    BY <2>1, <2>3, <2>5 DEF OrderCommand
  <2>7. taker.order_type \in MatchableTypes /\ taker.order_type # "PostOnly"
    BY <1>0, <2>1 DEF LocalsOK, TakerOK, MatchableTypes
  <2>8. QED
    BY <1>0, <2>1, <2>2, <2>3, <2>6, <2>7 DEF LocalsOK, TakerOK
<1>16. CASE HandleRemainder
  BY <1>5, <1>16 DEF HandleRemainder
<1>17. CASE DrainStart
  <2>1. pc = "Drain" /\ taker = NONE /\ back = NONE
    BY <1>0, <1>17 DEF DrainStart, LocalsOK
  <2>2. QED
    BY <1>0, <1>17, <2>1, EngineAssumption DEF DrainStart, LocalsOK, TakerOK, Side
<1>18. ASSUME NEW s \in Side, TriggerStop(s) PROVE LocalsOK'
  <2> DEFINE e == Head(stops[s])
  <2>1. /\ pc = s /\ stops[s] # <<>>
        /\ taker' = [e EXCEPT !.order_type = "Limit", !.stop_price = NONE]
        /\ pc' = "New" /\ back' = s
        /\ UNCHANGED <<stp_mode, last_trade_price, prev_price, submitted>>
    BY <1>18 DEF TriggerStop, HeadTriggered
  <2>2. e \in OrderCommand
    BY <1>0, <2>1, TailKeepsStopList DEF StopsOK
  <2> HIDE DEF e
  <2>3. taker' \in OrderCommand /\ taker'.order_type = "Limit"
    BY <2>1, <2>2 DEF OrderCommand, MatchableTypes
  <2>4. prev_price \in Price
    BY <1>0, <2>1 DEF LocalsOK
  <2>5. QED
    BY <1>0, <2>1, <2>3, <2>4 DEF LocalsOK, TakerOK
<1>19. ASSUME NEW s \in Side, DrainDone(s) PROVE LocalsOK'
  <2>1. /\ pc = s /\ pc' = AfterScan(s)
        /\ prev_price' = IF s = "Bid" THEN prev_price ELSE NONE
        /\ UNCHANGED <<stp_mode, last_trade_price, taker, back, submitted>>
    BY <1>19 DEF DrainDone
  <2>2. taker = NONE /\ back = NONE /\ NONE \notin Side /\ prev_price \in Price
    BY <1>0, <2>1, EngineAssumption DEF LocalsOK, Side
  <2>3. QED
    BY <1>0, <2>1, <2>2 DEF LocalsOK, TakerOK, AfterScan, Side
<1>20. CASE UNCHANGED vars
  BY <1>0, <1>20 DEF vars, engine, LocalsOK, TakerOK
<1>21. QED
  BY <1>1, <1>3, <1>4, <1>6, <1>7, <1>9, <1>10, <1>11, <1>12, <1>13, <1>14, <1>15, <1>16, <1>17,
     <1>18, <1>19, <1>20 DEF Next, Step, Submit

\* Only a stop order that arrives or is triggered changes the lists.
LEMMA StopsStep == EngineInv /\ [Next]_vars => StopsOK'
<1> SUFFICES ASSUME EngineInv, [Next]_vars PROVE StopsOK'
  OBVIOUS
<1>0. LocalsOK /\ StopsOK
  BY StateParts DEF EngineInv
<1>1. ASSUME UNCHANGED stops PROVE StopsOK'
  BY <1>0, <1>1 DEF StopsOK
<1>2. CASE StopLimit
  <2>1. CASE UNCHANGED stops
    BY <1>1, <2>1
  <2>2. CASE stops' # stops
    <3> DEFINE s == taker.side
               new == InsertAt(stops[s], PartitionPoint(s, stops[s], taker.stop_price) + 1, taker)
    <3>1. pc = "New" /\ taker.stop_price # NONE /\ stops' = [stops EXCEPT ![s] = new]
      BY <1>2, <2>2 DEF StopLimit, Reject
    <3>2. taker \in OrderCommand /\ s \in Side
      BY <1>0, <3>1 DEF LocalsOK, OrderCommand
    <3>3. StopList(s, stops[s])
      BY <1>0, <3>2 DEF StopsOK
    <3>4. StopList(s, new)
      BY <3>1, <3>2, <3>3, InsertKeepsStopList
    <3> HIDE DEF new, s
    <3>5. new \in Seq(OrderCommand)
      BY <3>4 DEF StopList
    <3>6. QED
      BY <1>0, <3>1, <3>2, <3>4, <3>5 DEF StopsOK
  <2>3. QED
    BY <2>1, <2>2
<1>3. ASSUME NEW s \in Side, TriggerStop(s) PROVE StopsOK'
  <2> DEFINE new == Tail(stops[s])
  <2>1. stops[s] # <<>> /\ stops' = [stops EXCEPT ![s] = new]
    BY <1>3 DEF TriggerStop, HeadTriggered
  <2>2. StopList(s, new)
    BY <1>0, <2>1, TailKeepsStopList DEF StopsOK
  <2> HIDE DEF new
  <2>3. new \in Seq(OrderCommand)
    BY <2>2 DEF StopList
  <2>4. QED
    BY <1>0, <2>1, <2>2, <2>3 DEF StopsOK
<1>4. CASE Submit
  BY <1>1, <1>4 DEF Submit, SubmitNew, SubmitCancel, SubmitModify
<1>5. CASE PostOnly \/ Validate \/ StopMatching \/ DropStaleMaker
  BY <1>1, <1>5 DEF PostOnly, Reject, Validate, StopMatching, DropStaleMaker, engine
<1>6. CASE CancelOldest \/ CancelBoth \/ DecrementAndCancel \/ FillMaker
  BY <1>1, <1>6 DEF CancelOldest, CancelBoth, DecrementAndCancel, FillMaker
<1>7. CASE HandleRemainder \/ DrainStart
  BY <1>1, <1>7 DEF HandleRemainder, DrainStart
<1>8. ASSUME NEW s \in Side, DrainDone(s) PROVE StopsOK'
  BY <1>1, <1>8 DEF DrainDone
<1>9. CASE UNCHANGED vars
  BY <1>1, <1>9 DEF vars, engine
<1>10. QED
  BY <1>2, <1>3, <1>4, <1>5, <1>6, <1>7, <1>8, <1>9 DEF Next, Step

\* What a scan of one side leaves untriggered.
LEMMA ScannedSideIsQuiet ==
  ASSUME EngineInv, NEW s \in Side, DrainDone(s)
  PROVE  /\ prev_price \in Price
         /\ \A k \in DOMAIN stops[s] : ~Triggered(s, stops[s][k].stop_price, prev_price)
<1>1. LocalsOK /\ StopsOK /\ pc = s /\ ~HeadTriggered(s)
  BY StateParts DEF EngineInv, DrainDone
<1>2. prev_price \in Price
  BY <1>1 DEF LocalsOK
<1>3. StopList(s, stops[s])
  BY <1>1 DEF StopsOK
<1>4. stops[s] # <<>> => ~Triggered(s, Head(stops[s]).stop_price, prev_price)
  BY <1>1 DEF HeadTriggered
<1>5. QED
  BY <1>2, <1>3, <1>4, QuietHeadQuietList

LEMMA BidsDrainedStep == EngineInv /\ [Next]_vars => BidsDrained'
<1> SUFFICES ASSUME EngineInv, [Next]_vars PROVE BidsDrained'
  OBVIOUS
<1>0. LocalsOK /\ BidsDrained
  BY StateParts DEF EngineInv
<1>1. ASSUME UNCHANGED <<stops, prev_price>>,
             pc' = "Ask" \/ back' = "Ask" => pc = "Ask" \/ back = "Ask"
      PROVE  BidsDrained'
  BY <1>0, <1>1 DEF BidsDrained
<1>2. ASSUME pc' # "Ask", back' # "Ask" PROVE BidsDrained'
  BY <1>2 DEF BidsDrained
<1>3. NONE # "Ask"
  BY EngineAssumption DEF Side
<1>4. ASSUME Finish, UNCHANGED stops PROVE BidsDrained'
  BY <1>1, <1>3, <1>4 DEF Finish
<1>5. CASE StopLimit
  <2>1. pc = "New" /\ taker.order_type = "StopLimit" /\ pc' = back /\ back' = NONE
    BY <1>5 DEF StopLimit, Reject, Finish
  <2>2. back \notin Side
    BY <1>0, <2>1 DEF LocalsOK, TakerOK
  <2>3. QED
    BY <1>2, <1>3, <2>1, <2>2 DEF Side
<1>6. CASE Submit
  <2>1. pc = "Idle" /\ pc' \in {"New", "Drain"} /\ (back' = "Drain" \/ UNCHANGED back)
    BY <1>6 DEF Submit, SubmitNew, SubmitCancel, SubmitModify
  <2>2. back = NONE
    BY <1>0, <2>1 DEF LocalsOK
  <2>3. QED
    BY <1>2, <1>3, <2>1, <2>2
<1>7. CASE PostOnly \/ Validate \/ StopMatching \/ DropStaleMaker
  BY <1>1, <1>4, <1>7
  DEF PostOnly, Reject, Validate, StopMatching, DropStaleMaker, engine, Matching
<1>8. CASE CancelOldest \/ CancelBoth \/ DecrementAndCancel \/ FillMaker
  BY <1>1, <1>4, <1>8 DEF CancelOldest, CancelBoth, DecrementAndCancel, FillMaker
<1>9. CASE HandleRemainder
  BY <1>4, <1>9 DEF HandleRemainder
<1>10. CASE DrainStart
  <2>1. back = NONE
    BY <1>0, <1>10 DEF LocalsOK, DrainStart
  <2>2. QED
    BY <1>2, <1>3, <1>10, <2>1 DEF DrainStart
<1>11. ASSUME NEW s \in Side, TriggerStop(s) PROVE BidsDrained'
  <2>1. /\ pc = s /\ pc' = "New" /\ back' = s /\ prev_price' = prev_price
        /\ stops' = [stops EXCEPT ![s] = Tail(stops[s])]
    BY <1>11 DEF TriggerStop
  <2>2. CASE s = "Bid"
    BY <1>2, <2>1, <2>2
  <2>3. CASE s = "Ask"
    <3>1. stops'["Bid"] = stops["Bid"]
      BY <2>1, <2>3 DEF EngineInv, EngineTypeOK, Side
    <3>2. QED
      BY <1>0, <2>1, <2>3, <3>1 DEF BidsDrained
  <2>4. QED
    BY <2>2, <2>3 DEF Side
<1>12. ASSUME NEW s \in Side, DrainDone(s) PROVE BidsDrained'
  <2>1. pc = s /\ pc' = AfterScan(s) /\ UNCHANGED <<stops, back>>
    BY <1>12 DEF DrainDone
  <2>2. back = NONE
    BY <1>0, <2>1 DEF LocalsOK, Side
  <2>3. CASE s = "Bid"
    <3>1. prev_price' = prev_price
      BY <1>12, <2>3 DEF DrainDone
    <3>2. QED
      BY <1>12, <2>1, <2>3, <3>1, ScannedSideIsQuiet DEF BidsDrained
  <2>4. CASE s = "Ask"
    BY <1>2, <1>3, <2>1, <2>2, <2>4 DEF AfterScan
  <2>5. QED
    BY <2>3, <2>4 DEF Side
<1>13. CASE UNCHANGED vars
  BY <1>1, <1>13 DEF vars, engine
<1>14. QED
  BY <1>5, <1>6, <1>7, <1>8, <1>9, <1>10, <1>11, <1>12, <1>13 DEF Next, Step

LEMMA QuiescentStep == EngineInv /\ [Next]_vars => StopsQuiescent'
<1> SUFFICES ASSUME EngineInv, [Next]_vars PROVE StopsQuiescent'
  OBVIOUS
<1>0. LocalsOK /\ StopsOK /\ BidsDrained /\ StopsQuiescent
  BY StateParts DEF EngineInv
<1>1. ASSUME pc' # "Idle" PROVE StopsQuiescent'
  BY <1>1 DEF StopsQuiescent
<1>2. ASSUME Finish, pc \in {"New", "Match", "Rest"} PROVE pc' # "Idle"
  BY <1>0, <1>2 DEF Finish, LocalsOK, Side
<1>3. CASE Submit
  <2>1. pc' \in {"New", "Drain"}
    BY <1>3 DEF Submit, SubmitNew, SubmitCancel, SubmitModify
  <2>2. QED
    BY <1>1, <2>1
<1>4. CASE PostOnly \/ StopLimit \/ Validate \/ StopMatching \/ DropStaleMaker
  <2>1. pc' # "Idle"
    BY <1>2, <1>4
    DEF PostOnly, StopLimit, Reject, Validate, StopMatching, DropStaleMaker, engine, Matching
  <2>2. QED
    BY <1>1, <2>1
<1>5. CASE CancelOldest \/ CancelBoth \/ DecrementAndCancel \/ FillMaker \/ HandleRemainder
  <2>1. pc' # "Idle"
    BY <1>2, <1>5
    DEF CancelOldest, CancelBoth, DecrementAndCancel, FillMaker, HandleRemainder, Matching
  <2>2. QED
    BY <1>1, <2>1
<1>6. CASE DrainStart
  BY <1>6 DEF DrainStart, StopsQuiescent
<1>7. ASSUME NEW s \in Side, TriggerStop(s) PROVE StopsQuiescent'
  BY <1>1, <1>7 DEF TriggerStop
<1>8. ASSUME NEW s \in Side, DrainDone(s) PROVE StopsQuiescent'
  <2>1. pc = s /\ pc' = AfterScan(s) /\ UNCHANGED <<stops, last_trade_price>>
    BY <1>8 DEF DrainDone
  <2>2. CASE s = "Bid"
    BY <1>1, <2>1, <2>2 DEF AfterScan
  <2>3. CASE s = "Ask" /\ last_trade_price # prev_price
    BY <1>1, <2>1, <2>3 DEF AfterScan
  <2>4. CASE s = "Ask" /\ last_trade_price = prev_price
    <3>1. \A k \in DOMAIN stops["Bid"] :
            ~Triggered("Bid", stops["Bid"][k].stop_price, last_trade_price)
      BY <1>0, <2>1, <2>4 DEF BidsDrained
    <3>2. \A k \in DOMAIN stops["Ask"] :
            ~Triggered("Ask", stops["Ask"][k].stop_price, last_trade_price)
      BY <1>8, <2>4, ScannedSideIsQuiet
    <3>3. QED
      BY <2>1, <3>1, <3>2 DEF StopsQuiescent, Side
  <2>5. QED
    BY <2>2, <2>3, <2>4 DEF Side
<1>9. CASE UNCHANGED vars
  BY <1>0, <1>9 DEF vars, engine, StopsQuiescent
<1>10. QED
  BY <1>3, <1>4, <1>5, <1>6, <1>7, <1>8, <1>9 DEF Next, Step

LEMMA EngineInitInv == Init => EngineInv
<1> SUFFICES ASSUME Init PROVE EngineInv
  OBVIOUS
<1>1. BookInv
  BY BookInitInv DEF Init
<1>2. LocalsOK
  BY EngineAssumption DEF Init, LocalsOK, TakerOK, Side
<1>3. StopsOK
  <2>1. stops = [s \in Side |-> <<>>]
    BY DEF Init
  <2>2. \A s \in Side : stops[s] = <<>> /\ DOMAIN stops[s] = {}
    BY <2>1
  <2>3. stops \in [Side -> Seq(OrderCommand)]
    BY <2>1
  <2>4. QED
    BY <2>2, <2>3 DEF StopsOK, StopList
<1>4. BidsDrained /\ StopsQuiescent
  BY EngineAssumption DEF Init, BidsDrained, StopsQuiescent, Side
<1>5. QED
  BY <1>1, <1>2, <1>3, <1>4, StateParts DEF EngineInv

LEMMA EngineStepInv == EngineInv /\ [Next]_vars => EngineInv'
<1>1. EngineInv /\ [Next]_vars => BookInv'
  BY EngineUsesTheBook, BookStepInv DEF EngineInv
<1>2. EngineInv /\ [Next]_vars => (EngineTypeOK /\ TakerOK /\ StopsSorted)'
  BY LocalsStep, StopsStep, StatePartsNext
<1>3. QED
  BY <1>1, <1>2, BidsDrainedStep, QuiescentStep DEF EngineInv

LEMMA EngineInvariant == Spec => []EngineInv
BY EngineInitInv, EngineStepInv, PTL DEF Spec

\* The state of the engine keeps its types, and the locals of a call are set exactly while
\* a call needs them.
THEOREM EngineTypes == Spec => []EngineTypeOK
<1>1. EngineInv => EngineTypeOK
  BY DEF EngineInv
<1>2. QED
  BY <1>1, EngineInvariant, PTL

\* When a call returns no waiting stop order has been reached by the last trade price.
THEOREM StopsAreQuiescent == Spec => []StopsQuiescent
<1>1. EngineInv => StopsQuiescent
  BY DEF EngineInv
<1>2. QED
  BY <1>1, EngineInvariant, PTL

\* The engine implements the book: every behaviour of process() is a behaviour of the book's
\* operations, each called with the arguments it expects.
THEOREM EngineImplementsBook == Spec => UsesTheBook
<1>1. Init => BookInit
  BY DEF Init
<1>2. QED
  BY <1>1, EngineInvariant, EngineUsesTheBook, PTL DEF Spec, UsesTheBook, BookSpec

-----------------------------------------------------------------------------
(* The cached best prices overlook only levels beyond the window. *)

\* Beyond the window, on the better side of it.
Beyond(s, p) == IF s = "Bid" THEN p >= WindowEnd ELSE p < base

Sees(s, b) == \A p \in Price : Queued(s, p) /\ Better(s, p, b) => Beyond(s, p)

LEMMA SeesMeans ==
  BookInv => (BestSeesTheWindow <=> \A s \in Side : Sees(s, best[s]))
<1> SUFFICES ASSUME BookInv PROVE BestSeesTheWindow <=> \A s \in Side : Sees(s, best[s])
  OBVIOUS
<1>1. \A s \in Side : LivePrices(s) = {p \in Price : Queued(s, p)}
  BY LiveMeansQueued DEF BookInv, Queued
<1>2. QED
  BY <1>1 DEF BestSeesTheWindow, Sees, Beyond

LEMMA SeesMeansNext ==
  (BookInv => (BestSeesTheWindow <=> \A s \in Side : Sees(s, best[s])))'
BY SeesMeans, PTL

\* The scan prefers a level of the window to any other, and looks at all others.
LEMMA FindBestSees ==
  ContainersOK /\ LevelsAreInPlace =>
    \A s \in Side : Sees(s, FindBest(s, base, occupied[s], DOMAIN sparse[s]))
<1> SUFFICES ASSUME ContainersOK, LevelsAreInPlace, NEW s \in Side,
                    NEW p \in Price, Queued(s, p),
                    Better(s, p, FindBest(s, base, occupied[s], DOMAIN sparse[s]))
             PROVE  Beyond(s, p)
  BY DEF Sees
<1>1. ASSUME InWindow(p)
      PROVE  p - base \in occupied[s] /\ base + (p - base) = p
  <2>1. p - base \in Index /\ dense[s][p - base].queue # <<>>
    BY <1>1, BookAssumption DEF Queued, LevelAt, InWindow, Index, Price, ContainersOK
  <2>2. QED
    BY <2>1, BookAssumption DEF LevelsAreInPlace, Price, ContainersOK
<1>2. ASSUME ~InWindow(p) PROVE p \in DOMAIN sparse[s]
  BY <1>2 DEF Queued, LevelAt, EMPTY
<1>3. CASE occupied[s] # {}
  <2> DEFINE i == BestOf(s, occupied[s])
  <2>1. i \in occupied[s] /\ \A j \in occupied[s] : ~Better(s, j, i)
    <3>1. occupied[s] \subseteq 0 .. MaxTicks
      BY BookAssumption DEF ContainersOK, Index
    <3>2. QED
      BY <1>3, <3>1, BestIsBest, BookAssumption
  <2> HIDE DEF i
  <2>2. Better(s, p, base + i) /\ i \in Index
    BY <1>3, <2>1 DEF FindBest, i, ContainersOK
  <2>3. p \in Nat /\ base \in Nat /\ i \in 0 .. MaxTicks - 1 /\ MaxTicks \in Nat
    BY <2>2, BookAssumption DEF Price, ContainersOK, Index
  <2>4. CASE InWindow(p)
    <3>1. ~Better(s, p - base, i)
      BY <1>1, <2>1, <2>4
    <3>2. QED
      BY <2>2, <2>3, <3>1 DEF Better
  <2>5. CASE ~InWindow(p)
    BY <2>2, <2>3, <2>5 DEF Better, Beyond, InWindow, WindowEnd
  <2>6. QED
    BY <2>4, <2>5
<1>4. CASE occupied[s] = {} /\ DOMAIN sparse[s] # {}
  <2>1. DOMAIN sparse[s] \subseteq 0 .. MaxPrice
    BY DEF ContainersOK, Price
  <2>2. \A q \in DOMAIN sparse[s] : ~Better(s, q, BestOf(s, DOMAIN sparse[s]))
    BY <1>4, <2>1, BestIsBest, BookAssumption
  <2>3. p \in DOMAIN sparse[s]
    BY <1>1, <1>2, <1>4
  <2>4. QED
    BY <1>4, <2>2, <2>3 DEF FindBest
<1>5. CASE occupied[s] = {} /\ DOMAIN sparse[s] = {}
  BY <1>1, <1>2, <1>5
<1>6. QED
  BY <1>3, <1>4, <1>5

LEMMA FindBestSeesNext ==
  (ContainersOK /\ LevelsAreInPlace =>
    \A s \in Side : Sees(s, FindBest(s, base, occupied[s], DOMAIN sparse[s])))'
BY FindBestSees, PTL

\* A best price that stays, or is improved on, where no other level gains orders.
LEMMA SeesStays ==
  ASSUME NEW s \in Side, NEW x, Sees(s, best[s]), base' = base,
         \A p \in Price : p # x /\ Queued(s, p)' => Queued(s, p),
         \/ best'[s] = best[s] /\ (x \in Price /\ Queued(s, x)' => ~Better(s, x, best[s]))
         \/ /\ x \in Price /\ best'[s] = x
            /\ \/ best[s] = NONE /\ \A p \in Price : ~Queued(s, p)
               \/ best[s] \in Price /\ Better(s, x, best[s])
  PROVE  Sees(s, best[s])'
<1> SUFFICES ASSUME NEW p \in Price, Queued(s, p)', Better(s, p, best'[s])
             PROVE  Beyond(s, p)'
  BY DEF Sees
<1>1. Beyond(s, p)' <=> Beyond(s, p)
  BY DEF Beyond, WindowEnd
<1>2. CASE best'[s] = best[s] /\ (x \in Price /\ Queued(s, x)' => ~Better(s, x, best[s]))
  BY <1>1, <1>2 DEF Sees
<1>3. ASSUME x \in Price, best'[s] = x PROVE p # x
  BY <1>3 DEF Better, Price
<1>4. CASE x \in Price /\ best'[s] = x /\ best[s] \in Price /\ Better(s, x, best[s])
  <2>1. p # x /\ best[s] \in Nat /\ x \in Nat /\ p \in Nat
    BY <1>3, <1>4 DEF Price
  <2>2. Better(s, p, best[s]) /\ Queued(s, p)
    BY <1>4, <2>1 DEF Better
  <2>3. QED
    BY <1>1, <2>2 DEF Sees
<1>5. CASE x \in Price /\ best'[s] = x /\ \A q \in Price : ~Queued(s, q)
  BY <1>3, <1>5
<1>6. QED
  BY <1>2, <1>4, <1>5

LEMMA InsertSees ==
  ASSUME BookInv, \A a \in Side : Sees(a, best[a]),
         NEW id \in OrderIds, NEW s \in Side, NEW p \in Price, NEW q \in Quantity,
         NEW t \in Terms, Insertable(id), InsertOrder(id, s, p, q, t)
  PROVE  \A a \in Side : Sees(a, best[a])'
<1>1. /\ base' = base
      /\ best' = IF best[s] = NONE \/ Better(s, p, best[s]) THEN [best EXCEPT ![s] = p] ELSE best
  BY DEF InsertOrder
<1>2. \A a \in Side : \A x \in Price : ~(a = s /\ x = p) => (Queued(a, x)' <=> Queued(a, x))
  BY InsertLevels DEF Queued
<1>3. NamesALevel(s, best[s]) /\ best \in [Side -> Price \cup {NONE}] /\ NONE \notin Price
  BY BestIsLiveMeans, BookAssumption DEF BookInv, BookTypeOK, Price
<1>4. ASSUME NEW a \in Side, a # s PROVE Sees(a, best[a])'
  <2>1. best'[a] = best[a]
    BY <1>1, <1>3, <1>4
  <2>2. \A x \in Price : Queued(a, x)' => Queued(a, x)
    BY <1>2, <1>4
  <2>3. QED
    BY <1>1, <1>3, <2>1, <2>2, SeesStays
<1>5. Sees(s, best[s])'
  <2>1. \A x \in Price : x # p /\ Queued(s, x)' => Queued(s, x)
    BY <1>2
  <2>2. CASE best[s] = NONE
    <3>1. best'[s] = p /\ \A x \in Price : ~Queued(s, x)
      BY <1>1, <1>3, <2>2 DEF NamesALevel
    <3>2. QED
      BY <1>1, <2>1, <2>2, <3>1, SeesStays
  <2>3. CASE best[s] # NONE /\ Better(s, p, best[s])
    <3>1. best'[s] = p /\ best[s] \in Price
      BY <1>1, <1>3, <2>3
    <3>2. QED
      BY <1>1, <2>1, <2>3, <3>1, SeesStays
  <2>4. CASE best[s] # NONE /\ ~Better(s, p, best[s])
    <3>1. best'[s] = best[s]
      BY <1>1, <2>4
    <3>2. QED
      BY <1>1, <2>1, <2>4, <3>1, SeesStays
  <2>5. QED
    BY <2>2, <2>3, <2>4
<1>6. QED
  BY <1>4, <1>5

LEMMA UnlinkSees ==
  ASSUME BookInv, BookInv', \A a \in Side : Sees(a, best[a]),
         NEW id \in DOMAIN orders, NEW levelQty \in Int, NEW depthQty,
         Unlink(id, levelQty, depthQty)
  PROVE  \A a \in Side : Sees(a, best[a])'
<1> DEFINE s == orders[id].side
           p == orders[id].price
           rest == RemoveAt(QueueOf(id), Position(QueueOf(id), id))
<1>1. /\ base' = base
      /\ IF rest = <<>> THEN RefreshBestAfterLevelEmpty(s, p) ELSE UNCHANGED <<occupied, best>>
  BY DEF Unlink, QueueOf
<1>2. \A a \in Side : \A x \in Price : ~(a = s /\ x = p) => (Queued(a, x)' <=> Queued(a, x))
  BY UnlinkLevels DEF Queued
<1>3. s \in Side /\ Queued(s, p) /\ best \in [Side -> Price \cup {NONE}] /\ NONE \notin Price
  BY LiveOrderIsQueued, BookAssumption DEF BookInv, BookTypeOK, Price
<1> HIDE DEF s, p, rest
<1>4. \A a \in Side : \A x \in Price : Queued(a, x)' => Queued(a, x)
  BY <1>2, <1>3
<1>5. ASSUME NEW a \in Side, best'[a] = best[a] PROVE Sees(a, best[a])'
  BY <1>1, <1>3, <1>4, <1>5, SeesStays
<1>6. CASE rest # <<>> \/ best[s] # p
  BY <1>1, <1>5, <1>6 DEF RefreshBestAfterLevelEmpty
<1>7. CASE rest = <<>> /\ best[s] = p
  <2>1. PICK side \in Side : side = s
    BY <1>3
  <2>2. best' = [best EXCEPT ![side] = FindBest(side, base, occupied'[side], DOMAIN sparse'[side])]
    BY <1>1, <1>7, <2>1 DEF RefreshBestAfterLevelEmpty
  <2>3. \A a \in Side : a # side => best'[a] = best[a]
    BY <1>3, <2>2
  <2>4. best'[side] = FindBest(side, base', occupied'[side], DOMAIN sparse'[side])
    BY <1>1, <1>3, <2>2
  <2>5. ContainersOK' /\ LevelsAreInPlace'
    BY DEF BookInv, BookTypeOK, ContainersOK
  <2>6. Sees(side, best[side])'
    BY <2>4, <2>5, FindBestSeesNext
  <2>7. QED
    BY <1>5, <2>3, <2>6
<1>8. QED
  BY <1>6, <1>7

LEMMA ConsumeSees ==
  ASSUME BookInv, \A a \in Side : Sees(a, best[a]),
         NEW id \in DOMAIN orders, NEW q \in Int, Consume(id, q)
  PROVE  \A a \in Side : Sees(a, best[a])'
<1>1. base' = base /\ best' = best /\ NONE \notin Price
  BY BookAssumption DEF Consume, Price
<1>2. \A a \in Side : \A x \in Price : LevelAt(a, x)'.queue = LevelAt(a, x).queue
  <2>1. LevelAt(orders[id].side, orders[id].price) \in Level
    BY LiveOrderIsQueued DEF BookInv
  <2>2. QED
    BY <2>1, ConsumeLevels DEF Level
<1>3. \A a \in Side : \A x \in Price : Queued(a, x)' => Queued(a, x)
  BY <1>2 DEF Queued
<1>4. QED
  BY <1>1, <1>3, SeesStays

\* Every operation of the book that leaves the window where it is.
LEMMA SeesStep ==
  BookInv /\ BestSeesTheWindow /\ [BookNext]_book /\ base' = base => BestSeesTheWindow'
<1> SUFFICES ASSUME BookInv, BestSeesTheWindow, [BookNext]_book, base' = base
             PROVE  BestSeesTheWindow'
  OBVIOUS
<1>1. BookInv' /\ \A a \in Side : Sees(a, best[a])
  BY BookStepInv, SeesMeans
<1> SUFFICES \A a \in Side : Sees(a, best[a])'
  BY <1>1, SeesMeansNext
<1>2. ASSUME UNCHANGED <<base, dense, sparse, best>> PROVE \A a \in Side : Sees(a, best[a])'
  <2>1. \A a \in Side : \A x \in Price : Queued(a, x)' <=> Queued(a, x)
    BY <1>2 DEF Queued, LevelAt, InWindow
  <2>2. NONE \notin Price
    BY BookAssumption DEF Price
  <2>3. QED
    BY <1>1, <1>2, <2>1, <2>2, SeesStays
<1>3. ASSUME NEW id \in OrderIds, NEW s \in Side, NEW p \in Prices,
             NEW q \in MinQuantity .. MaxQuantity, NEW t \in Terms, InsertOrder(id, s, p, q, t)
      PROVE  \A a \in Side : Sees(a, best[a])'
  <2>1. p \in Price /\ q \in Quantity
    BY BookAssumption DEF Quantity
  <2>2. CASE Insertable(id)
    BY <1>1, <1>3, <2>1, <2>2, InsertSees
  <2>3. CASE ~Insertable(id)
    BY <1>2, <1>3, <2>3 DEF InsertOrder, book
  <2>4. QED
    BY <2>2, <2>3
<1>4. ASSUME NEW id \in DOMAIN orders, RemoveOrder(id) PROVE \A a \in Side : Sees(a, best[a])'
  <2>1. Remaining(orders[id]) \in Int
    BY BookAssumption DEF BookInv, BookTypeOK, Order, Quantity, Remaining
  <2>2. QED
    BY <1>1, <1>4, <2>1, UnlinkSees DEF RemoveOrder
<1>5. ASSUME NEW id \in DOMAIN orders, NEW q \in 1 .. Remaining(orders[id]), FillOrder(id, q)
      PROVE  \A a \in Side : Sees(a, best[a])'
  <2>1. CASE q = Remaining(orders[id])
    BY <1>1, <1>5, <2>1, UnlinkSees DEF FillOrder
  <2>2. CASE q # Remaining(orders[id])
    BY <1>1, <1>5, <2>2, ConsumeSees DEF FillOrder
  <2>3. QED
    BY <2>1, <2>2
<1>6. ASSUME NEW id \in DOMAIN orders, NEW q \in 1 .. Remaining(orders[id]) - 1, ReduceOrderQty(id, q)
      PROVE  \A a \in Side : Sees(a, best[a])'
  BY <1>1, <1>6, ConsumeSees DEF ReduceOrderQty
<1>7. ASSUME NEW b, ForceRecenter(b) PROVE \A a \in Side : Sees(a, best[a])'
  <2>1. b = base \/ b + MaxTicks > MaxPrice
    BY <1>7 DEF ForceRecenter
  <2>2. QED
    BY <1>2, <1>7, <2>1 DEF ForceRecenter, book
<1>8. ASSUME MaybeRecenter PROVE \A a \in Side : Sees(a, best[a])'
  BY <1>7, <1>8 DEF MaybeRecenter
<1>9. CASE UNCHANGED book
  BY <1>2, <1>9 DEF book
<1>10. QED
  BY <1>3, <1>4, <1>5, <1>6, <1>7, <1>8, <1>9 DEF BookNext

\* The engine asks for no recentering.
LEMMA BaseStaysPut == EngineInv /\ [Next]_vars => base' = base
<1> SUFFICES ASSUME EngineInv, [Next]_vars PROVE base' = base
  OBVIOUS
<1>1. ASSUME NEW id, NEW q, NEW r, Unlink(id, q, r) PROVE base' = base
  BY <1>1 DEF Unlink
<1>2. ASSUME NEW id, RemoveOrder(id) PROVE base' = base
  BY <1>1, <1>2 DEF RemoveOrder
<1>3. ASSUME NEW id, NEW q, Consume(id, q) PROVE base' = base
  BY <1>3 DEF Consume
<1>4. ASSUME NEW id, NEW q, FillOrder(id, q) \/ ReduceOrderQty(id, q) PROVE base' = base
  BY <1>1, <1>3, <1>4 DEF FillOrder, ReduceOrderQty
<1>5. ASSUME NEW id, NEW s, NEW p, NEW q, NEW t, InsertOrder(id, s, p, q, t) PROVE base' = base
  BY <1>5 DEF InsertOrder, book
<1>6. ASSUME UNCHANGED book PROVE base' = base
  BY <1>6 DEF book
<1>7. CASE Submit
  BY <1>2, <1>6, <1>7 DEF Submit, SubmitNew, SubmitCancel, SubmitModify
<1>8. CASE PostOnly \/ StopLimit \/ Validate \/ StopMatching \/ HandleRemainder
  BY <1>5, <1>6, <1>8 DEF PostOnly, StopLimit, Reject, Validate, StopMatching, HandleRemainder
<1>9. CASE DropStaleMaker \/ CancelOldest \/ CancelBoth \/ DecrementAndCancel \/ FillMaker
  BY <1>2, <1>4, <1>9 DEF DropStaleMaker, CancelOldest, CancelBoth, DecrementAndCancel, FillMaker
<1>10. CASE DrainStart \/ \E s \in Side : TriggerStop(s) \/ DrainDone(s)
  BY <1>6, <1>10 DEF DrainStart, TriggerStop, DrainDone
<1>11. CASE UNCHANGED vars
  BY <1>6, <1>11 DEF vars
<1>12. QED
  BY <1>7, <1>8, <1>9, <1>10, <1>11 DEF Next, Step

LEMMA SeesInit == Init => BestSeesTheWindow
<1> SUFFICES ASSUME Init PROVE BestSeesTheWindow
  OBVIOUS
<1>1. \A s \in Side : LivePrices(s) = {}
  BY DEF Init, BookInit, LivePrices, EMPTY
<1>2. QED
  BY <1>1 DEF BestSeesTheWindow

\* The cached best prices overlook only levels beyond the window on its better side.
THEOREM BestOverlooksOnlyBeyond == Spec => []BestSeesTheWindow
<1>1. EngineInv /\ BestSeesTheWindow /\ [Next]_vars => BestSeesTheWindow'
  BY EngineUsesTheBook, BaseStaysPut, SeesStep DEF EngineInv
<1>2. QED
  BY <1>1, SeesInit, EngineInvariant, PTL DEF Spec

-----------------------------------------------------------------------------
(* Which orders a step leaves on the book. *)

\* An order after the step was there before it, where it is now.
Kept(id) ==
  /\ id \in DOMAIN orders
  /\ orders'[id].side = orders[id].side /\ orders'[id].price = orders[id].price

LEMMA UnlinkOrders ==
  ASSUME NEW x, NEW q, NEW r, Unlink(x, q, r)
  PROVE  \A id \in DOMAIN orders' : Kept(id)
BY DEF Unlink, Unbind, Kept

LEMMA ConsumeOrders ==
  ASSUME BookInv, NEW x \in DOMAIN orders, NEW q, Consume(x, q)
  PROVE  \A id \in DOMAIN orders' : Kept(id)
<1>1. orders' = [orders EXCEPT ![x].filled = @ + q] /\ orders[x] \in Order
  BY DEF Consume, BookInv, BookTypeOK
<1>2. DOMAIN orders' = DOMAIN orders /\ \A id \in DOMAIN orders : id # x => orders'[id] = orders[id]
  BY <1>1
<1>3. orders'[x] = [orders[x] EXCEPT !.filled = @ + q]
  BY <1>1
<1>4. orders'[x].side = orders[x].side /\ orders'[x].price = orders[x].price
  BY <1>1, <1>3 DEF Order
<1>5. QED
  BY <1>2, <1>4 DEF Kept

LEMMA FillOrders ==
  ASSUME BookInv, NEW x \in DOMAIN orders, NEW q,
         RemoveOrder(x) \/ FillOrder(x, q) \/ ReduceOrderQty(x, q)
  PROVE  \A id \in DOMAIN orders' : Kept(id)
BY UnlinkOrders, ConsumeOrders DEF RemoveOrder, FillOrder, ReduceOrderQty

LEMMA InsertOrders ==
  ASSUME NEW x, NEW s, NEW p, NEW q, NEW t, InsertOrder(x, s, p, q, t)
  PROVE  \A id \in DOMAIN orders' :
           \/ Kept(id)
           \/ id = x /\ orders'[id].side = s /\ orders'[id].price = p
<1>1. CASE UNCHANGED book
  BY <1>1 DEF book, Kept
<1>2. CASE Insertable(x)
  <2> DEFINE o == [side |-> s, price |-> p, quantity |-> q, filled |-> 0, terms |-> t]
  <2>1. orders' = Bind(orders, x, o) /\ o.side = s /\ o.price = p
    BY <1>2 DEF InsertOrder
  <2> HIDE DEF o
  <2>2. QED
    BY <2>1 DEF Bind, Kept
<1>3. QED
  BY <1>1, <1>2 DEF InsertOrder

\* An order that may come to rest on the book, and the one a step puts there.
MayRest(c) == c.order_type = "PostOnly" \/ Rests(c)

TakerRests(id) ==
  /\ pc \in {"New", "Rest"} /\ MayRest(taker)
  /\ id = taker.id /\ orders'[id].side = taker.side /\ orders'[id].price = taker.price
  /\ IF pc = "New" THEN ~WouldCross(taker) ELSE taker.qty > 0 /\ Rests(taker)

LEMMA OrdersOfAStep ==
  EngineInv /\ [Next]_vars => \A id \in DOMAIN orders' : Kept(id) \/ TakerRests(id)
<1> SUFFICES ASSUME EngineInv, [Next]_vars
             PROVE  \A id \in DOMAIN orders' : Kept(id) \/ TakerRests(id)
  OBVIOUS
<1>0. BookInv /\ EngineTypeOK
  BY DEF EngineInv
<1>1. ASSUME UNCHANGED book PROVE \A id \in DOMAIN orders' : Kept(id)
  BY <1>1 DEF book, Kept
<1>2. ASSUME NEW x \in DOMAIN orders, RemoveOrder(x) PROVE \A id \in DOMAIN orders' : Kept(id)
  BY <1>0, <1>2, FillOrders
<1>3. CASE Submit
  BY <1>1, <1>2, <1>3 DEF Submit, SubmitNew, SubmitCancel, SubmitModify
<1>4. CASE PostOnly
  <2>1. CASE UNCHANGED book
    BY <1>1, <2>1
  <2>2. CASE /\ pc = "New" /\ ~WouldCross(taker) /\ taker.order_type = "PostOnly"
             /\ InsertOrder(taker.id, taker.side, taker.price, taker.qty, RestingTerms(taker))
    BY <2>2, InsertOrders DEF TakerRests, MayRest
  <2>3. QED
    BY <1>4, <2>1, <2>2 DEF PostOnly, Reject
<1>5. CASE StopLimit \/ Validate \/ StopMatching
  BY <1>1, <1>5 DEF StopLimit, Reject, Validate, StopMatching
<1>6. CASE DropStaleMaker \/ CancelOldest \/ CancelBoth \/ DecrementAndCancel \/ FillMaker
  <2>1. Matching /\ CanMatch
    BY <1>6 DEF DropStaleMaker, CancelOldest, CancelBoth, DecrementAndCancel, FillMaker
  <2>2. Maker \in DOMAIN orders
    BY <1>0, <2>1, MakerIsLive
  <2>3. \E q : RemoveOrder(Maker) \/ FillOrder(Maker, q) \/ ReduceOrderQty(Maker, q)
    BY <1>6 DEF DropStaleMaker, CancelOldest, CancelBoth, DecrementAndCancel, FillMaker
  <2>4. QED
    BY <1>0, <2>2, <2>3, FillOrders
<1>7. CASE HandleRemainder
  <2>1. CASE UNCHANGED book
    BY <1>1, <2>1
  <2>2. CASE /\ pc = "Rest" /\ taker.qty > 0 /\ Rests(taker)
             /\ InsertOrder(taker.id, taker.side, taker.price, taker.qty, RestingTerms(taker))
    BY <2>2, InsertOrders DEF TakerRests, MayRest
  <2>3. QED
    BY <1>7, <2>1, <2>2 DEF HandleRemainder
<1>8. CASE DrainStart \/ \E s \in Side : TriggerStop(s) \/ DrainDone(s)
  BY <1>1, <1>8 DEF DrainStart, TriggerStop, DrainDone
<1>9. CASE UNCHANGED vars
  BY <1>1, <1>9 DEF vars
<1>10. QED
  BY <1>3, <1>4, <1>5, <1>6, <1>7, <1>8, <1>9 DEF Next, Step

-----------------------------------------------------------------------------
(* Where resting orders are priced within reach of the scan. *)

\* No bid above the window, no ask below it.
InReach(s, p) == IF s = "Bid" THEN p < BasePrice + MaxTicks ELSE p >= BasePrice

\* The condition on the commands under which the cached best price is the best of all
\* live ones: what rests is priced where the scan of its side does not overlook it.
\* The prices of orders that cannot rest are free.
RestingOrdersInReach ==
  /\ \A c \in NewOrders : MayRest(c) => InReach(c.side, c.price)
  /\ \A m \in Modifications : \A s \in Side : InReach(s, m.price)

TermsInReach(c) == MayRest(c) => InReach(c.side, c.price)

OrdersInReach ==
  /\ base = BasePrice
  /\ \A id \in DOMAIN orders : InReach(orders[id].side, orders[id].price)
  /\ \A s \in Side : \A k \in DOMAIN stops[s] :
       stops[s][k].order_type = "StopLimit" /\ TermsInReach(stops[s][k])
  /\ pc \in {"New", "Match", "Rest"} => TermsInReach(taker)

LEMMA TakerInReachStep ==
  ASSUME RestingOrdersInReach
  PROVE  EngineInv /\ OrdersInReach /\ [Next]_vars =>
           (pc \in {"New", "Match", "Rest"} => TermsInReach(taker))'
<1> SUFFICES ASSUME EngineInv, OrdersInReach, [Next]_vars, pc' \in {"New", "Match", "Rest"}
             PROVE  TermsInReach(taker')
  BY DEF TermsInReach, MayRest, Rests
<1>0. LocalsOK /\ StopsOK /\ BookInv
  BY StateParts DEF EngineInv
<1>1. ASSUME NEW id \in OrderIds, NEW c \in NewOrders, SubmitNew(id, c) PROVE TermsInReach(taker')
  <2>1. taker' = Bind(c, "id", id) /\ c \in Command
    BY <1>1, EngineAssumption DEF SubmitNew
  <2>2. /\ taker'.order_type = c.order_type /\ taker'.side = c.side /\ taker'.price = c.price
        /\ taker'.tif = c.tif
    BY <2>1, BindIsACommand
  <2>3. QED
    BY <2>2 DEF RestingOrdersInReach, TermsInReach, MayRest, Rests
<1>2. ASSUME NEW id \in OrderIds, NEW m \in Modifications, SubmitModify(id, m)
      PROVE  TermsInReach(taker')
  <2>1. id \in DOMAIN orders
    BY <1>2 DEF SubmitModify
  <2>2. taker'.side = orders[id].side /\ taker'.price = m.price
    BY <1>2, <2>1 DEF SubmitModify
  <2>3. orders[id].side \in Side
    BY <1>0, <2>1 DEF BookInv, BookTypeOK, Order
  <2>4. QED
    BY <2>2, <2>3 DEF RestingOrdersInReach, TermsInReach
<1>3. ASSUME UNCHANGED taker, pc \in {"New", "Match", "Rest"} PROVE TermsInReach(taker')
  BY <1>3 DEF OrdersInReach
<1>4. ASSUME NEW id \in OrderIds, SubmitCancel(id) PROVE FALSE
  BY <1>4 DEF SubmitCancel
<1>5. ASSUME Finish, pc \in {"New", "Match", "Rest"} PROVE FALSE
  BY <1>0, <1>5 DEF Finish, LocalsOK, Side
<1>6. CASE PostOnly \/ StopLimit \/ Validate \/ HandleRemainder
  BY <1>3, <1>5, <1>6 DEF PostOnly, StopLimit, Reject, Validate, HandleRemainder
<1>7. CASE StopMatching \/ DropStaleMaker \/ CancelOldest \/ CancelBoth \/ DecrementAndCancel
  BY <1>3, <1>5, <1>7
  DEF StopMatching, DropStaleMaker, CancelOldest, CancelBoth, DecrementAndCancel, Matching, engine
<1>8. CASE FillMaker
  <2>1. pc = "Match" /\ taker' = [taker EXCEPT !.qty = taker.qty - Least(taker.qty, MatchableQty(orders[Maker]))]
    BY <1>8 DEF FillMaker, Matching
  <2>2. taker \in OrderCommand
    BY <1>0, <2>1 DEF LocalsOK
  <2>3. /\ taker'.order_type = taker.order_type /\ taker'.side = taker.side
        /\ taker'.price = taker.price /\ taker'.tif = taker.tif
    BY <2>1, <2>2 DEF OrderCommand
  <2>4. QED
    BY <2>1, <2>3 DEF OrdersInReach, TermsInReach, MayRest, Rests
<1>9. CASE DrainStart
  BY <1>9 DEF DrainStart
<1>10. ASSUME NEW s \in Side, TriggerStop(s) PROVE TermsInReach(taker')
  <2> DEFINE e == Head(stops[s])
  <2>1. stops[s] # <<>> /\ taker' = [e EXCEPT !.order_type = "Limit", !.stop_price = NONE]
    BY <1>10 DEF TriggerStop, HeadTriggered
  <2>2. e \in OrderCommand /\ e.order_type = "StopLimit" /\ TermsInReach(e)
    BY <1>0, <2>1, TailKeepsStopList DEF StopsOK, OrdersInReach
  <2> HIDE DEF e
  <2>3. /\ taker'.side = e.side /\ taker'.price = e.price /\ taker'.tif = e.tif
        /\ taker'.order_type = "Limit"
    BY <2>1, <2>2 DEF OrderCommand
  <2>4. QED
    BY <2>2, <2>3 DEF TermsInReach, MayRest, Rests
<1>11. ASSUME NEW s \in Side, DrainDone(s) PROVE FALSE
  BY <1>11 DEF DrainDone, AfterScan
<1>12. CASE UNCHANGED vars
  BY <1>3, <1>12 DEF vars, engine
<1>13. QED
  BY <1>1, <1>2, <1>4, <1>6, <1>7, <1>8, <1>9, <1>10, <1>11, <1>12 DEF Next, Step, Submit

LEMMA StopsInReachStep ==
  EngineInv /\ OrdersInReach /\ [Next]_vars =>
    (\A s \in Side : \A k \in DOMAIN stops[s] :
       stops[s][k].order_type = "StopLimit" /\ TermsInReach(stops[s][k]))'
<1> DEFINE Good(e) == e.order_type = "StopLimit" /\ TermsInReach(e)
<1> SUFFICES ASSUME EngineInv, OrdersInReach, [Next]_vars, NEW a \in Side, NEW k \in DOMAIN stops'[a]
             PROVE  Good(stops'[a][k])
  BY DEF TermsInReach, MayRest, Rests
<1>0. LocalsOK /\ StopsOK /\ \A s \in Side : \A j \in DOMAIN stops[s] : Good(stops[s][j])
  BY StateParts DEF EngineInv, OrdersInReach
<1> HIDE DEF Good
<1>1. ASSUME UNCHANGED stops PROVE Good(stops'[a][k])
  BY <1>0, <1>1
<1>2. CASE StopLimit /\ stops' # stops
  <2> DEFINE s == taker.side
             n == PartitionPoint(s, stops[s], taker.stop_price)
             new == InsertAt(stops[s], n + 1, taker)
  <2>1. /\ pc = "New" /\ taker.order_type = "StopLimit" /\ taker.stop_price # NONE
        /\ stops' = [stops EXCEPT ![s] = new]
    BY <1>2 DEF StopLimit, Reject
  <2>2. taker \in OrderCommand /\ s \in Side /\ taker.stop_price \in Price
    BY <1>0, <2>1 DEF LocalsOK, OrderCommand
  <2>3. StopList(s, stops[s])
    BY <1>0, <2>2 DEF StopsOK
  <2>4. n \in 0 .. Len(stops[s])
    BY <2>2, <2>3, PartitionPointExists
  <2>5. Good(taker)
    BY <2>1 DEF OrdersInReach, Good
  <2> HIDE DEF n, s
  <2>6. ASSUME a = s PROVE Good(stops'[a][k])
    <3> DEFINE list == stops[s]
               m == n + 1
    <3>1. list \in Seq(OrderCommand) /\ Len(list) \in Nat /\ m \in 1 .. Len(list) + 1
      BY <2>3, <2>4 DEF StopList
    <3>2. stops'[a] = new
      BY <1>0, <2>1, <2>2, <2>6 DEF StopsOK
    <3>3. \A j \in DOMAIN list : Good(list[j])
      BY <1>0, <2>2
    <3> HIDE DEF list, m
    <3>4. /\ InsertAt(list, m, taker) \in Seq(OrderCommand)
          /\ Len(InsertAt(list, m, taker)) = Len(list) + 1
          /\ \A i \in 1 .. Len(list) + 1 : InsertAt(list, m, taker)[i] =
               IF i < m THEN list[i] ELSE IF i = m THEN taker ELSE list[i - 1]
      <4>1. Inserted(list, m, taker, InsertAt(list, m, taker))
        BY <2>2, <3>1, StopInserted
      <4>2. QED
        BY <4>1 DEF Inserted
    <3>5. k \in 1 .. Len(list) + 1 /\ stops'[a][k] = InsertAt(list, m, taker)[k]
      BY <3>2, <3>4 DEF list, m
    <3>6. DOMAIN list = 1 .. Len(list)
      BY <3>1
    <3>7. CASE k < m
      <4>1. k \in DOMAIN list
        BY <3>1, <3>5, <3>6, <3>7
      <4>2. QED
        BY <3>3, <3>4, <3>5, <3>7, <4>1
    <3>8. CASE k = m
      BY <2>5, <3>4, <3>5, <3>8
    <3>9. CASE k > m
      <4>1. k - 1 \in DOMAIN list /\ ~(k < m) /\ k # m
        BY <3>1, <3>5, <3>6, <3>9
      <4>2. stops'[a][k] = list[k - 1]
        BY <3>4, <3>5, <4>1
      <4>3. QED
        BY <3>3, <4>1, <4>2
    <3>10. QED
      BY <3>1, <3>5, <3>7, <3>8, <3>9
  <2>7. ASSUME a # s PROVE Good(stops'[a][k])
    <3>1. stops'[a] = stops[a]
      BY <1>0, <2>1, <2>7 DEF StopsOK
    <3>2. QED
      BY <1>0, <3>1
  <2>8. QED
    BY <2>6, <2>7
<1>3. ASSUME NEW s \in Side, TriggerStop(s) PROVE Good(stops'[a][k])
  <2>1. stops[s] # <<>> /\ stops' = [stops EXCEPT ![s] = Tail(stops[s])]
    BY <1>3 DEF TriggerStop, HeadTriggered
  <2>2. ASSUME a = s PROVE Good(stops'[a][k])
    <3> DEFINE list == stops[s]
    <3>1. list \in Seq(OrderCommand) /\ list # <<>>
      BY <1>0, <2>1 DEF StopsOK
    <3>2. stops'[a] = Tail(list)
      BY <1>0, <2>1, <2>2 DEF StopsOK
    <3>3. \A j \in DOMAIN list : Good(list[j])
      BY <1>0
    <3> HIDE DEF list
    <3>4. Tail(list) \in Seq(OrderCommand) /\ Len(Tail(list)) = Len(list) - 1
          /\ \A i \in 1 .. Len(Tail(list)) : Tail(list)[i] = list[i + 1]
      BY <3>1, HeadTailProperties
    <3>5. DOMAIN list = 1 .. Len(list) /\ Len(list) \in Nat
      BY <3>1
    <3>6. k \in 1 .. Len(Tail(list)) /\ k + 1 \in DOMAIN list
      BY <3>2, <3>4, <3>5
    <3>7. stops'[a][k] = list[k + 1]
      BY <3>2, <3>4, <3>6
    <3>8. QED
      BY <3>3, <3>6, <3>7
  <2>3. ASSUME a # s PROVE Good(stops'[a][k])
    <3>1. stops'[a] = stops[a]
      BY <1>0, <2>1, <2>3 DEF StopsOK
    <3>2. QED
      BY <1>0, <3>1
  <2>4. QED
    BY <2>2, <2>3
<1>4. CASE Submit
  BY <1>1, <1>4 DEF Submit, SubmitNew, SubmitCancel, SubmitModify
<1>5. CASE PostOnly \/ Validate \/ StopMatching \/ DropStaleMaker
  BY <1>1, <1>5 DEF PostOnly, Reject, Validate, StopMatching, DropStaleMaker, engine
<1>6. CASE CancelOldest \/ CancelBoth \/ DecrementAndCancel \/ FillMaker
  BY <1>1, <1>6 DEF CancelOldest, CancelBoth, DecrementAndCancel, FillMaker
<1>7. CASE HandleRemainder \/ DrainStart
  BY <1>1, <1>7 DEF HandleRemainder, DrainStart
<1>8. ASSUME NEW s \in Side, DrainDone(s) PROVE Good(stops'[a][k])
  BY <1>1, <1>8 DEF DrainDone
<1>9. CASE UNCHANGED vars
  BY <1>1, <1>9 DEF vars, engine
<1>10. QED
  BY <1>1, <1>2, <1>3, <1>4, <1>5, <1>6, <1>7, <1>8, <1>9 DEF Next, Step

\* With the commands so restricted, every resting order stays within reach.
LEMMA InReachStep ==
  ASSUME RestingOrdersInReach
  PROVE  EngineInv /\ OrdersInReach /\ [Next]_vars => OrdersInReach'
<1> SUFFICES ASSUME EngineInv, OrdersInReach, [Next]_vars PROVE OrdersInReach'
  OBVIOUS
<1>1. base' = BasePrice
  BY BaseStaysPut DEF OrdersInReach
<1>2. ASSUME NEW id \in DOMAIN orders' PROVE InReach(orders'[id].side, orders'[id].price)
  <2>1. CASE Kept(id)
    BY <2>1 DEF Kept, OrdersInReach
  <2>2. CASE TakerRests(id)
    BY <2>2 DEF TakerRests, OrdersInReach, TermsInReach
  <2>3. QED
    BY <2>1, <2>2, OrdersOfAStep
<1>3. (pc \in {"New", "Match", "Rest"} => TermsInReach(taker))'
  BY TakerInReachStep
<1>4. (\A s \in Side : \A k \in DOMAIN stops[s] :
         stops[s][k].order_type = "StopLimit" /\ TermsInReach(stops[s][k]))'
  BY StopsInReachStep
<1>5. QED
  BY <1>1, <1>2, <1>3, <1>4 DEF OrdersInReach, InReach

LEMMA InReachInit == Init => OrdersInReach
BY EngineAssumption DEF Init, BookInit, OrdersInReach

LEMMA InReachInvariant ==
  ASSUME RestingOrdersInReach
  PROVE  Spec => [](EngineInv /\ BestSeesTheWindow /\ OrdersInReach)
<1>1. EngineInv /\ OrdersInReach /\ [Next]_vars => OrdersInReach'
  BY InReachStep
<1>2. QED
  BY <1>1, InReachInit, EngineInvariant, BestOverlooksOnlyBeyond, PTL DEF Spec

\* Then the cached best price is the best price of any live order.
LEMMA BestIsTheBest ==
  ASSUME BookInv, BestSeesTheWindow, OrdersInReach, NEW s \in Side, NEW p \in LivePrices(s)
  PROVE  p \in Price /\ best[s] \in Price /\ ~Better(s, p, best[s])
<1>1. LivePrices(s) = {x \in Price : LevelAt(s, x).queue # <<>>}
  BY LiveMeansQueued DEF BookInv
<1>2. p \in Price /\ best[s] \in Price
  BY <1>1 DEF BookInv, BestIsLive
<1>3. PICK id \in DOMAIN orders : orders[id].side = s /\ orders[id].price = p
  <2>1. LevelAt(s, p).queue \in Seq(OrderIds) /\ LevelAt(s, p).queue # <<>>
    BY <1>1, <1>2, LevelAtType DEF BookInv, Level
  <2>2. \A q \in Seq(OrderIds) : q # <<>> => q[1] \in ToSet(q)
    BY DEF ToSet
  <2>3. LevelAt(s, p).queue[1] \in OrdersAt(s, p)
    BY <1>2, <2>1, <2>2, QueueLists
  <2>4. QED
    BY <2>3 DEF OrdersAt
<1>4. InReach(s, p) /\ base = BasePrice
  BY <1>3 DEF OrdersInReach
<1>5. ~(IF s = "Bid" THEN p >= WindowEnd ELSE p < base)
  BY <1>2, <1>4, BookAssumption DEF InReach, WindowEnd, Price
<1>6. QED
  BY <1>2, <1>5 DEF BestSeesTheWindow

-----------------------------------------------------------------------------
(* Price priority. *)

\* The buffer is a sequence, whatever its entries are.
EventsAreASequence == \E S : events \in Seq(S)

LEMMA EmitAppends ==
  ASSUME EventsAreASequence, NEW T, NEW es \in Seq(T), Emit(es)
  PROVE  /\ EventsAreASequence'
         /\ es # <<>> => events'[Len(events) + 1] = es[1]
<1>1. PICK S : events \in Seq(S)
  BY DEF EventsAreASequence
<1> DEFINE U == S \cup T
<1>2. events \in Seq(U) /\ es \in Seq(U)
  BY <1>1
<1> HIDE DEF U
<1>3. /\ events' \in Seq(U) /\ Len(events') = Len(events) + Len(es)
      /\ \A i \in 1 .. Len(events) + Len(es) :
           events'[i] = IF i <= Len(events) THEN events[i] ELSE es[i - Len(events)]
  BY <1>2, ConcatProperties DEF Emit
<1>4. ASSUME es # <<>> PROVE events'[Len(events) + 1] = es[1]
  <2>1. Len(events) \in Nat /\ Len(es) \in Nat /\ Len(es) > 0
    BY <1>2, <1>4
  <2>2. /\ Len(events) + 1 \in 1 .. Len(events) + Len(es)
        /\ ~(Len(events) + 1 <= Len(events)) /\ (Len(events) + 1) - Len(events) = 1
    BY <2>1
  <2>3. QED
    BY <1>3, <2>2
<1>5. QED
  BY <1>3, <1>4 DEF EventsAreASequence

\* Every list a step appends to the buffer is written out.
LEMMA Literals ==
  /\ \A a : <<a>> \in Seq({a}) /\ <<a>> # <<>> /\ <<a>>[1] = a
  /\ \A a, b : <<a, b>> \in Seq({a, b}) /\ <<a, b>> # <<>> /\ <<a, b>>[1] = a
  /\ \A a, b, c : <<a, b, c>> \in Seq({a, b, c}) /\ <<a, b, c>> # <<>> /\ <<a, b, c>>[1] = a
OBVIOUS

LEMMA EmitLiteral ==
  ASSUME EventsAreASequence
  PROVE  /\ \A a : Emit(<<a>>) => EventsAreASequence' /\ events'[Len(events) + 1] = a
         /\ \A a, b : Emit(<<a, b>>) => EventsAreASequence' /\ events'[Len(events) + 1] = a
         /\ \A a, b, c : Emit(<<a, b, c>>) => EventsAreASequence' /\ events'[Len(events) + 1] = a
<1>1. ASSUME NEW a, Emit(<<a>>)
      PROVE  EventsAreASequence' /\ events'[Len(events) + 1] = a
  <2>1. <<a>> \in Seq({a}) /\ <<a>> # <<>> /\ <<a>>[1] = a
    BY Literals
  <2>2. QED
    BY <1>1, <2>1, EmitAppends
<1>2. ASSUME NEW a, NEW b, Emit(<<a, b>>)
      PROVE  EventsAreASequence' /\ events'[Len(events) + 1] = a
  <2>1. <<a, b>> \in Seq({a, b}) /\ <<a, b>> # <<>> /\ <<a, b>>[1] = a
    BY Literals
  <2>2. QED
    BY <1>2, <2>1, EmitAppends
<1>3. ASSUME NEW a, NEW b, NEW c, Emit(<<a, b, c>>)
      PROVE  EventsAreASequence' /\ events'[Len(events) + 1] = a
  <2>1. <<a, b, c>> \in Seq({a, b, c}) /\ <<a, b, c>> # <<>> /\ <<a, b, c>>[1] = a
    BY Literals
  <2>2. QED
    BY <1>3, <2>1, EmitAppends
<1>4. QED
  BY <1>1, <1>2, <1>3

LEMMA EventsStep == EventsAreASequence /\ [Next]_vars => EventsAreASequence'
<1> SUFFICES ASSUME EventsAreASequence, [Next]_vars PROVE EventsAreASequence'
  OBVIOUS
<1>1. ASSUME UNCHANGED events PROVE EventsAreASequence'
  BY <1>1 DEF EventsAreASequence
<1>2. ASSUME NEW T, events' \in Seq(T) PROVE EventsAreASequence'
  BY <1>2 DEF EventsAreASequence
<1>3. ASSUME NEW id \in OrderIds, NEW c \in NewOrders, SubmitNew(id, c) PROVE EventsAreASequence'
  <2>1. events' = <<>> /\ <<>> \in Seq({})
    BY <1>3 DEF SubmitNew
  <2>2. QED
    BY <1>2, <2>1
<1>4. ASSUME NEW a, NEW b, events' = <<a>> \/ events' = <<a, b>> PROVE EventsAreASequence'
  <2>1. CASE events' = <<a>>
    <3>1. events' \in Seq({a})
      BY <2>1, Literals
    <3>2. QED
      BY <1>2, <3>1
  <2>2. CASE events' = <<a, b>>
    <3>1. events' \in Seq({a, b})
      BY <2>2, Literals
    <3>2. QED
      BY <1>2, <3>1
  <2>3. QED
    BY <1>4, <2>1, <2>2
<1>5. ASSUME NEW id \in OrderIds, SubmitCancel(id) \/ \E m \in Modifications : SubmitModify(id, m)
      PROVE  EventsAreASequence'
  <2>1. \E a, b : events' = <<a>> \/ events' = <<a, b>>
    BY <1>5 DEF SubmitCancel, SubmitModify
  <2>2. QED
    BY <1>4, <2>1
<1>6. CASE PostOnly \/ StopLimit \/ Validate \/ HandleRemainder
  BY <1>1, <1>6, EmitLiteral DEF PostOnly, StopLimit, Reject, Validate, HandleRemainder
<1>7. CASE StopMatching \/ DropStaleMaker \/ DrainStart \/ \E s \in Side : DrainDone(s)
  BY <1>1, <1>7 DEF StopMatching, DropStaleMaker, engine, DrainStart, DrainDone
<1>8. CASE CancelOldest \/ CancelBoth \/ DecrementAndCancel \/ FillMaker
  BY <1>8, EmitLiteral DEF CancelOldest, CancelBoth, DecrementAndCancel, FillMaker
<1>9. ASSUME NEW s \in Side, TriggerStop(s) PROVE EventsAreASequence'
  BY <1>9, EmitLiteral DEF TriggerStop
<1>10. CASE UNCHANGED vars
  BY <1>1, <1>10 DEF vars, engine
<1>11. QED
  BY <1>3, <1>5, <1>6, <1>7, <1>8, <1>9, <1>10 DEF Next, Step, Submit

\* Of the steps of the matching loop only one reports a fill first.
LEMMA FillIsReportedByFillMaker ==
  ASSUME EngineTypeOK, EventsAreASequence, Next, events' # events, pc = "Match",
         events'[Len(events) + 1].kind = "Fill"
  PROVE  FillMaker
<1>1. pc \notin Side
  BY DEF Side
<1>2. ASSUME Submit PROVE FALSE
  BY <1>2 DEF Submit, SubmitNew, SubmitCancel, SubmitModify
<1>3. ASSUME PostOnly \/ StopLimit \/ Validate \/ HandleRemainder \/ DrainStart PROVE FALSE
  BY <1>3 DEF PostOnly, StopLimit, Validate, HandleRemainder, DrainStart
<1>4. ASSUME \E s \in Side : TriggerStop(s) \/ DrainDone(s) PROVE FALSE
  BY <1>1, <1>4 DEF TriggerStop, DrainDone
<1>5. ASSUME StopMatching \/ DropStaleMaker PROVE FALSE
  BY <1>5 DEF StopMatching, DropStaleMaker, engine
<1>6. ASSUME CancelOldest PROVE FALSE
  <2>1. events'[Len(events) + 1] = Cancelled(Maker, MakerRemaining)
    BY <1>6, EmitLiteral DEF CancelOldest
  <2>2. QED
    BY <2>1 DEF Cancelled
<1>7. ASSUME CancelBoth PROVE FALSE
  <2>1. events'[Len(events) + 1] = Cancelled(Maker, MakerRemaining)
    BY <1>7, EmitLiteral DEF CancelBoth
  <2>2. QED
    BY <2>1 DEF Cancelled
<1>8. ASSUME DecrementAndCancel PROVE FALSE
  <2>1. events'[Len(events) + 1] = BookUpdate(Facing, RestingPrice, LevelQtyAfter(Facing, RestingPrice))
    BY <1>8, EmitLiteral DEF DecrementAndCancel
  <2>2. QED
    BY <2>1 DEF BookUpdate
<1>9. QED
  BY <1>2, <1>3, <1>4, <1>5, <1>6, <1>7, <1>8 DEF Next, Step

\* A fill is reported at the best price of any live order opposite the taker, and within the
\* taker's limit: match_against_book never trades through a better resting price, as long
\* as what may rest is priced within reach of the scan.
THEOREM PricePriority ==
  ASSUME RestingOrdersInReach
  PROVE  Spec => TradesAtTheBest
<1> DEFINE AtTheBest ==
      events' # events /\ pc = "Match" /\ events'[Len(events) + 1].kind = "Fill" =>
        LET px == events'[Len(events) + 1].price IN
        /\ \A p \in LivePrices(Facing) : ~Better(Facing, p, px)
        /\ taker.order_type # "Market" => Acceptable(taker.side, taker.price, px)
<1>1. ASSUME EngineInv, BestSeesTheWindow, OrdersInReach, EventsAreASequence, [Next]_vars
      PROVE  [AtTheBest]_vars
  <2> SUFFICES ASSUME Next, events' # events, pc = "Match",
                      events'[Len(events) + 1].kind = "Fill"
               PROVE  LET px == events'[Len(events) + 1].price IN
                      /\ \A p \in LivePrices(Facing) : ~Better(Facing, p, px)
                      /\ taker.order_type # "Market" => Acceptable(taker.side, taker.price, px)
    BY <1>1
  <2>1. FillMaker /\ EngineTypeOK /\ BookInv
    BY <1>1, FillIsReportedByFillMaker DEF EngineInv
  <2>2. Matching /\ CanMatch
    BY <2>1 DEF FillMaker
  <2>3. \E q : events'[Len(events) + 1] = Fill(Maker, taker.id, RestingPrice, q)
    BY <1>1, <2>1, EmitLiteral DEF FillMaker
  <2>4. events'[Len(events) + 1].price = RestingPrice
    BY <2>3 DEF Fill
  <2>5. Facing \in Side
    BY <2>1, <2>2, TakerType DEF Matching
  <2>6. \A p \in LivePrices(Facing) : ~Better(Facing, p, RestingPrice)
    BY <1>1, <2>1, <2>5, BestIsTheBest DEF RestingPrice
  <2>7. taker.order_type # "Market" => Acceptable(taker.side, taker.price, RestingPrice)
    BY <2>2 DEF CanMatch, EffectivePrice
  <2>8. QED
    BY <2>4, <2>6, <2>7
<1>2. Init => EventsAreASequence
  <2>1. <<>> \in Seq({})
    OBVIOUS
  <2>2. QED
    BY <2>1 DEF Init, EventsAreASequence
<1>3. QED
  BY <1>1, <1>2, EventsStep, InReachInvariant, PTL DEF Spec, TradesAtTheBest

-----------------------------------------------------------------------------
(* The uncrossed book. *)

\* Between any two steps of a call, and order by order.
OrdersUncrossed ==
  \A i, j \in DOMAIN orders :
    orders[i].side = "Bid" /\ orders[j].side = "Ask" => orders[i].price < orders[j].price

\* What is left of a taker meets nothing it would still accept.
NothingLeftToMatch ==
  pc = "Rest" /\ taker.qty > 0 =>
    best[Facing] = NONE \/ ~Acceptable(taker.side, EffectivePrice(taker), best[Facing])

LEMMA UncrossedMeans ==
  BookInv /\ OrdersUncrossed => NeverCrossed
<1> SUFFICES ASSUME BookInv, OrdersUncrossed,
                    NEW b \in LivePrices("Bid"), NEW a \in LivePrices("Ask")
             PROVE  b < a
  BY DEF NeverCrossed
<1>1. ASSUME NEW s \in Side, NEW p \in LivePrices(s)
      PROVE  \E id \in DOMAIN orders : orders[id].side = s /\ orders[id].price = p
  <2>1. p \in Price /\ LevelAt(s, p).queue \in Seq(OrderIds) /\ LevelAt(s, p).queue # <<>>
    BY LiveMeansQueued, LevelAtType DEF BookInv, Level
  <2>2. \A q \in Seq(OrderIds) : q # <<>> => q[1] \in ToSet(q)
    BY DEF ToSet
  <2>3. LevelAt(s, p).queue[1] \in OrdersAt(s, p)
    BY <2>1, <2>2, QueueLists
  <2>4. QED
    BY <2>3 DEF OrdersAt
<1>2. "Bid" \in Side /\ "Ask" \in Side
  BY DEF Side
<1>3. QED
  BY <1>1, <1>2 DEF OrdersUncrossed

\* The loop ends because nothing matches: only CancelNewest leaves it early.
LEMMA NothingLeftStep ==
  ASSUME "CancelNewest" \notin StpModes
  PROVE  EngineInv /\ NothingLeftToMatch /\ [Next]_vars => NothingLeftToMatch'
<1> SUFFICES ASSUME EngineInv, NothingLeftToMatch, [Next]_vars, pc' = "Rest"
             PROVE  NothingLeftToMatch'
  BY DEF NothingLeftToMatch
<1>0. LocalsOK /\ BookInv /\ EngineTypeOK
  BY StateParts DEF EngineInv
<1>1. ASSUME Finish, pc \in {"New", "Match", "Rest"} PROVE FALSE
  BY <1>0, <1>1 DEF Finish, LocalsOK, Side
<1>2. CASE StopMatching
  <2>1. /\ pc = "Match" /\ UNCHANGED <<book, taker>>
        /\ CanMatch => stp_mode = "CancelNewest"
    BY <1>2 DEF StopMatching, Matching
  <2>2. ~CanMatch
    BY <1>0, <2>1 DEF LocalsOK
  <2>3. Facing \in Side
    BY <1>0, <2>1, TakerType
  <2>4. best[Facing] # NONE => LevelAt(Facing, RestingPrice).queue # <<>>
    <3>1. best[Facing] # NONE => best[Facing] \in LivePrices(Facing)
      BY <1>0, <2>3 DEF BookInv, BestIsLive
    <3>2. LivePrices(Facing) = {p \in Price : LevelAt(Facing, p).queue # <<>>}
      BY <1>0, <2>3, LiveMeansQueued DEF BookInv
    <3>3. QED
      BY <3>1, <3>2 DEF RestingPrice
  <2>5. taker.qty > 0 =>
          best[Facing] = NONE \/ ~Acceptable(taker.side, EffectivePrice(taker), best[Facing])
    BY <2>2, <2>4 DEF CanMatch, RestingPrice
  <2>6. /\ taker' = taker /\ best' = best
    BY <2>1 DEF book
  <2>7. QED
    BY <2>5, <2>6 DEF NothingLeftToMatch, Facing, EffectivePrice
<1>3. CASE UNCHANGED vars
  BY <1>3 DEF vars, engine, book, NothingLeftToMatch, Facing, EffectivePrice
<1>4. ASSUME Submit PROVE FALSE
  BY <1>4 DEF Submit, SubmitNew, SubmitCancel, SubmitModify
<1>5. ASSUME PostOnly \/ StopLimit \/ Validate \/ HandleRemainder PROVE FALSE
  BY <1>1, <1>5 DEF PostOnly, StopLimit, Reject, Validate, HandleRemainder
<1>6. ASSUME DropStaleMaker \/ CancelOldest \/ CancelBoth \/ DecrementAndCancel \/ FillMaker PROVE FALSE
  BY <1>1, <1>6
  DEF DropStaleMaker, engine, CancelOldest, CancelBoth, DecrementAndCancel, FillMaker, Matching
<1>7. ASSUME DrainStart \/ \E s \in Side : TriggerStop(s) \/ DrainDone(s) PROVE FALSE
  BY <1>7 DEF DrainStart, TriggerStop, DrainDone, AfterScan
<1>8. QED
  BY <1>2, <1>3, <1>4, <1>5, <1>6, <1>7 DEF Next, Step

\* What the taker leaves on the book meets no order of the other side.
LEMMA RestingTakerMeetsNobody ==
  ASSUME EngineInv, BestSeesTheWindow, OrdersInReach, NothingLeftToMatch,
         NEW id, TakerRests(id), NEW j \in DOMAIN orders, orders[j].side = Facing
  PROVE  /\ taker.side \in Side /\ taker.price \in Int /\ orders[j].price \in Int
         /\ taker.side = "Bid" => taker.price < orders[j].price
         /\ taker.side = "Ask" => orders[j].price < taker.price
<1>0. BookInv /\ EngineTypeOK /\ pc \in {"New", "Match", "Rest"}
  BY DEF EngineInv, TakerRests
<1>1. Facing \in Side /\ taker.side \in Side /\ taker.price \in Price
  BY <1>0, TakerType
<1>2. orders[j].price \in LivePrices(Facing)
  <2>1. orders[j].price \in Price /\ LevelAt(Facing, orders[j].price).queue # <<>>
    BY <1>0, LiveOrderIsQueued DEF BookInv, Queued
  <2>2. QED
    BY <1>0, <1>1, <2>1, LiveMeansQueued DEF BookInv
<1>3. /\ orders[j].price \in Price /\ best[Facing] \in Price
      /\ ~Better(Facing, orders[j].price, best[Facing])
  BY <1>0, <1>1, <1>2, BestIsTheBest
<1>4. best[Facing] # NONE
  BY <1>3, BookAssumption DEF Price
<1>5. ~Acceptable(taker.side, taker.price, best[Facing])
  <2>1. CASE pc = "New"
    BY <1>4, <2>1 DEF TakerRests, WouldCross, Facing
  <2>2. CASE pc = "Rest"
    BY <1>4, <2>2 DEF TakerRests, NothingLeftToMatch, Rests, EffectivePrice
  <2>3. QED
    BY <2>1, <2>2 DEF TakerRests
<1>6. taker.price \in Int /\ best[Facing] \in Int /\ orders[j].price \in Int
  BY <1>1, <1>3 DEF Price
<1>7. Facing = IF taker.side = "Bid" THEN "Ask" ELSE "Bid"
  BY DEF Facing, Opposite
<1>8. QED
  BY <1>1, <1>3, <1>5, <1>6, <1>7 DEF Acceptable, Better, Side

LEMMA UncrossedStep ==
  EngineInv /\ BestSeesTheWindow /\ OrdersInReach /\ NothingLeftToMatch /\ OrdersUncrossed
    /\ [Next]_vars => OrdersUncrossed'
<1> SUFFICES ASSUME EngineInv, BestSeesTheWindow, OrdersInReach, NothingLeftToMatch,
                    OrdersUncrossed, [Next]_vars, NEW i \in DOMAIN orders', NEW j \in DOMAIN orders',
                    orders'[i].side = "Bid", orders'[j].side = "Ask"
             PROVE  orders'[i].price < orders'[j].price
  BY DEF OrdersUncrossed
<1>1. (Kept(i) \/ TakerRests(i)) /\ (Kept(j) \/ TakerRests(j))
  BY OrdersOfAStep
<1>2. CASE Kept(i) /\ Kept(j)
  BY <1>2 DEF Kept, OrdersUncrossed
<1>3. CASE Kept(i) /\ TakerRests(j)
  <2>1. taker.side = "Ask" /\ i \in DOMAIN orders /\ orders[i].side = Facing
    BY <1>3 DEF Kept, TakerRests, Facing, Opposite
  <2>2. orders[i].price < taker.price
    BY <1>3, <2>1, RestingTakerMeetsNobody
  <2>3. QED
    BY <1>3, <2>2 DEF Kept, TakerRests
<1>4. CASE TakerRests(i) /\ Kept(j)
  <2>1. taker.side = "Bid" /\ j \in DOMAIN orders /\ orders[j].side = Facing
    BY <1>4 DEF Kept, TakerRests, Facing, Opposite
  <2>2. taker.price < orders[j].price
    BY <1>4, <2>1, RestingTakerMeetsNobody
  <2>3. QED
    BY <1>4, <2>2 DEF Kept, TakerRests
<1>5. ASSUME TakerRests(i), TakerRests(j) PROVE FALSE
  BY <1>5 DEF TakerRests
<1>6. QED
  BY <1>1, <1>2, <1>3, <1>4, <1>5

\* No bid of the book reaches an ask when a call has returned (nor between two steps of a
\* call), as long as what may rest is priced within reach of the scan and CancelNewest is
\* not configured: with CancelNewest the run cancel_newest_crosses finds the crossed book,
\* and beyond the scan's reach BestSeesTheWindow says what a best price may overlook.
THEOREM BookIsUncrossed ==
  ASSUME RestingOrdersInReach, "CancelNewest" \notin StpModes
  PROVE  Spec => []NeverCrossed
<1>1. Init => NothingLeftToMatch /\ OrdersUncrossed
  BY DEF Init, BookInit, NothingLeftToMatch, OrdersUncrossed
<1>2. EngineInv /\ NothingLeftToMatch /\ [Next]_vars => NothingLeftToMatch'
  BY NothingLeftStep
<1>3. EngineInv /\ OrdersUncrossed => NeverCrossed
  BY UncrossedMeans DEF EngineInv
<1>4. QED
  BY <1>1, <1>2, <1>3, UncrossedStep, InReachInvariant, PTL DEF Spec

-----------------------------------------------------------------------------
(***************************************************************************)
(* What the event stream tells an observer of the engine (EngineHistory):  *)
(* it accounts for every quantity the engine holds, and no two orders of   *)
(* one self-trade prevention group are ever reported as trading.           *)
(***************************************************************************)
-----------------------------------------------------------------------------
(* What the observer reads off a list of new events. *)

\* A list of up to three events is read one after another.
Reads(after, new) ==
  after = [n \in 0 .. Len(new) |-> IF n = 0 THEN ledger ELSE Account(after[n - 1], new[n])]

LEMMA ObserveMeans ==
  ASSUME NEW new, NEW l, \E after : Reads(after, new), \A after : Reads(after, new) => after[Len(new)] = l
  PROVE  Observe(new) => ledger' = l
<1>1. (CHOOSE after : Reads(after, new))[Len(new)] = l
  OBVIOUS
<1>2. QED
  BY <1>1 DEF Observe, Reads

LEMMA ObserveNothing == Observe(<<>>) => ledger' = ledger
<1> DEFINE f == [n \in 0 .. 0 |-> ledger]
<1>1. Len(<<>>) = 0
  OBVIOUS
<1>2. Reads(f, <<>>)
  BY <1>1 DEF Reads
<1>3. \A after : Reads(after, <<>>) => after[Len(<<>>)] = ledger
  BY <1>1 DEF Reads
<1>4. QED
  BY <1>2, <1>3, ObserveMeans

LEMMA ObserveOne ==
  ASSUME NEW a
  PROVE  Observe(<<a>>) => ledger' = Account(ledger, a)
<1> DEFINE es == <<a>>
           l1 == Account(ledger, a)
           f == [n \in 0 .. 1 |-> IF n = 0 THEN ledger ELSE l1]
<1>1. Len(es) = 1 /\ es[1] = a /\ 0 .. 1 = {0, 1} /\ 1 - 1 = 0
  OBVIOUS
<1> HIDE DEF es
<1>2. f[0] = ledger /\ f[1] = l1
  BY <1>1
<1>3. \A n \in 0 .. 1 : f[n] = IF n = 0 THEN ledger ELSE Account(f[n - 1], es[n])
  BY <1>1, <1>2
<1>4. Reads(f, es)
  BY <1>1, <1>3 DEF Reads
<1>5. \A after : Reads(after, es) => after[Len(es)] = l1
  <2> SUFFICES ASSUME NEW after, Reads(after, es) PROVE after[1] = l1
    BY <1>1
  <2>1. \A n \in 0 .. 1 : after[n] = IF n = 0 THEN ledger ELSE Account(after[n - 1], es[n])
    BY <1>1 DEF Reads
  <2>2. after[0] = ledger
    BY <1>1, <2>1
  <2>3. QED
    BY <1>1, <2>1, <2>2
<1>6. Observe(es) => ledger' = l1
  BY <1>4, <1>5, ObserveMeans
<1>7. QED
  BY <1>6 DEF es

LEMMA ObserveTwo ==
  ASSUME NEW a, NEW b
  PROVE  Observe(<<a, b>>) => ledger' = Account(Account(ledger, a), b)
<1> DEFINE es == <<a, b>>
           l1 == Account(ledger, a)
           l2 == Account(l1, b)
           f == [n \in 0 .. 2 |-> IF n = 0 THEN ledger ELSE IF n = 1 THEN l1 ELSE l2]
<1>1. /\ Len(es) = 2 /\ es[1] = a /\ es[2] = b
      /\ 0 .. 2 = {0, 1, 2} /\ 1 - 1 = 0 /\ 2 - 1 = 1
  OBVIOUS
<1> HIDE DEF es
<1>2. f[0] = ledger /\ f[1] = l1 /\ f[2] = l2
  BY <1>1
<1>3. \A n \in 0 .. 2 : f[n] = IF n = 0 THEN ledger ELSE Account(f[n - 1], es[n])
  BY <1>1, <1>2
<1>4. Reads(f, es)
  BY <1>1, <1>3 DEF Reads
<1>5. \A after : Reads(after, es) => after[Len(es)] = l2
  <2> SUFFICES ASSUME NEW after, Reads(after, es) PROVE after[2] = l2
    BY <1>1
  <2>1. \A n \in 0 .. 2 : after[n] = IF n = 0 THEN ledger ELSE Account(after[n - 1], es[n])
    BY <1>1 DEF Reads
  <2>2. after[0] = ledger
    BY <1>1, <2>1
  <2>3. after[1] = l1
    BY <1>1, <2>1, <2>2
  <2>4. QED
    BY <1>1, <2>1, <2>3
<1>6. Observe(es) => ledger' = l2
  BY <1>4, <1>5, ObserveMeans
<1>7. QED
  BY <1>6 DEF es

LEMMA ObserveThree ==
  ASSUME NEW a, NEW b, NEW c
  PROVE  Observe(<<a, b, c>>) => ledger' = Account(Account(Account(ledger, a), b), c)
<1> DEFINE es == <<a, b, c>>
           l1 == Account(ledger, a)
           l2 == Account(l1, b)
           l3 == Account(l2, c)
           f == [n \in 0 .. 3 |-> IF n = 0 THEN ledger ELSE IF n = 1 THEN l1
                                  ELSE IF n = 2 THEN l2 ELSE l3]
<1>1. /\ Len(es) = 3 /\ es[1] = a /\ es[2] = b /\ es[3] = c
      /\ 0 .. 3 = {0, 1, 2, 3} /\ 1 - 1 = 0 /\ 2 - 1 = 1 /\ 3 - 1 = 2
  OBVIOUS
<1> HIDE DEF es
<1>2. f[0] = ledger /\ f[1] = l1 /\ f[2] = l2 /\ f[3] = l3
  BY <1>1
<1>3. \A n \in 0 .. 3 : f[n] = IF n = 0 THEN ledger ELSE Account(f[n - 1], es[n])
  BY <1>1, <1>2
<1>4. Reads(f, es)
  BY <1>1, <1>3 DEF Reads
<1>5. \A after : Reads(after, es) => after[Len(es)] = l3
  <2> SUFFICES ASSUME NEW after, Reads(after, es) PROVE after[3] = l3
    BY <1>1
  <2>1. \A n \in 0 .. 3 : after[n] = IF n = 0 THEN ledger ELSE Account(after[n - 1], es[n])
    BY <1>1 DEF Reads
  <2>2. after[0] = ledger
    BY <1>1, <2>1
  <2>3. after[1] = l1
    BY <1>1, <2>1, <2>2
  <2>4. after[2] = l2
    BY <1>1, <2>1, <2>3
  <2>5. QED
    BY <1>1, <2>1, <2>4
<1>6. Observe(es) => ledger' = l3
  BY <1>4, <1>5, ObserveMeans
<1>7. QED
  BY <1>6 DEF es

\* What each event does to the account of the orders it names, and that the others do
\* nothing.
LEMMA AccountEffects ==
  /\ \A l, id, q : Account(l, Accepted(id, q)) = [l EXCEPT ![id] = q]
  /\ \A l, id, why : Account(l, Rejected(id, why)) = l
  /\ \A l, m, x, p, q : Account(l, Fill(m, x, p, q)) = [l EXCEPT ![m] = @ - q, ![x] = @ - q]
  /\ \A l, id, q : Account(l, Cancelled(id, q)) = [l EXCEPT ![id] = @ - q]
  /\ \A l, id : Account(l, Modified(id)) = [l EXCEPT ![id] = 0]
  /\ \A l, id : Account(l, StopTriggered(id)) = [l EXCEPT ![id] = 0]
  /\ \A l, s, p, q : Account(l, BookUpdate(s, p, q)) = l
BY DEF Account, Accepted, Rejected, Fill, Cancelled, Modified, StopTriggered, BookUpdate

\* A step that appends to the buffer shows the observer what it appends.
LEMMA NewEvents ==
  ASSUME EventsAreASequence, NEW T, NEW es \in Seq(T), Emit(es)
  PROVE  /\ SubSeq(events', Len(events) + 1, Len(events')) = es
         /\ ToSet(events') = ToSet(events) \cup ToSet(es)
<1>1. PICK S : events \in Seq(S)
  BY DEF EventsAreASequence
<1> DEFINE U == S \cup T
           n == Len(events)
           m == Len(es)
           new == SubSeq(events', n + 1, n + m)
<1>2. events \in Seq(U) /\ es \in Seq(U) /\ n \in Nat /\ m \in Nat
  BY <1>1
<1> HIDE DEF U
<1>3. /\ events' \in Seq(U) /\ Len(events') = n + m
      /\ \A i \in 1 .. n + m : events'[i] = IF i <= n THEN events[i] ELSE es[i - n]
  BY <1>2, ConcatProperties DEF Emit
<1>4. DOMAIN events = 1 .. n /\ DOMAIN es = 1 .. m /\ DOMAIN events' = 1 .. n + m
  BY <1>2, <1>3
<1> HIDE DEF n, m
<1>5. \A i \in 1 .. m : n + i \in 1 .. n + m /\ ~(n + i <= n) /\ (n + i) - n = i
  BY <1>2
<1>6. \A i \in 1 .. m : events'[n + i] = es[i]
  BY <1>3, <1>5
<1>7. new = es
  <2>1. \A i \in n + 1 .. n + m : events'[i] \in U
    <3>1. \A i \in n + 1 .. n + m : i \in 1 .. Len(events')
      BY <1>2, <1>3
    <3>2. QED
      BY <1>3, <3>1
  <2>2. /\ new \in Seq(U)
        /\ Len(new) = IF n + 1 <= n + m THEN (n + m) - (n + 1) + 1 ELSE 0
        /\ \A i \in 1 .. (n + m) - (n + 1) + 1 : new[i] = events'[(n + 1) + i - 1]
    BY <1>2, <1>3, <2>1, SubSeqProperties
  <2> HIDE DEF new
  <2>3. Len(new) = m /\ (n + m) - (n + 1) + 1 = m /\ \A i \in 1 .. m : (n + 1) + i - 1 = n + i
    BY <1>2, <2>2
  <2>4. \A i \in 1 .. m : new[i] = es[i]
    BY <1>6, <2>2, <2>3
  <2>5. DOMAIN new = 1 .. m
    BY <2>2, <2>3
  <2>6. QED
    BY <1>2, <1>4, <2>2, <2>4, <2>5
<1>8. ToSet(events') = ToSet(events) \cup ToSet(es)
  <2>1. \A i \in 1 .. n + m : i \in 1 .. n \/ i - n \in 1 .. m
    BY <1>2
  <2>2. \A i \in 1 .. n : i \in 1 .. n + m /\ events'[i] = events[i]
    BY <1>2, <1>3
  <2>3. \A i \in 1 .. n + m : ~(i <= n) => events'[i] = es[i - n]
    BY <1>3
  <2>4. \A i \in 1 .. n + m : events'[i] \in ToSet(events) \cup ToSet(es)
    <3> TAKE i \in 1 .. n + m
    <3>1. CASE i <= n
      <4>1. i \in 1 .. n
        BY <1>2, <3>1
      <4>2. QED
        BY <1>4, <2>2, <4>1 DEF ToSet
    <3>2. CASE ~(i <= n)
      <4>1. i - n \in 1 .. m
        BY <1>2, <3>2
      <4>2. QED
        BY <1>4, <2>3, <3>2, <4>1 DEF ToSet
    <3>3. QED
      BY <3>1, <3>2
  <2>5. \A i \in 1 .. n : events[i] \in ToSet(events')
    BY <1>4, <2>2 DEF ToSet
  <2>6. \A i \in 1 .. m : es[i] \in ToSet(events')
    BY <1>4, <1>5, <1>6 DEF ToSet
  <2>7. QED
    BY <1>4, <2>4, <2>5, <2>6 DEF ToSet
<1>9. QED
  BY <1>3, <1>7, <1>8 DEF new, n, m

\* What the observer has seen after a step of a call.
Shows == Observe(SubSeq(events', Len(events) + 1, Len(events')))

LEMMA Shown ==
  ASSUME EventsAreASequence, Shows
  PROVE  /\ UNCHANGED events => ledger' = ledger
         /\ \A a : Emit(<<a>>) =>
              ledger' = Account(ledger, a) /\ ToSet(events') = ToSet(events) \cup {a}
         /\ \A a, b : Emit(<<a, b>>) =>
              /\ ledger' = Account(Account(ledger, a), b)
              /\ ToSet(events') = ToSet(events) \cup {a, b}
         /\ \A a, b, c : Emit(<<a, b, c>>) =>
              /\ ledger' = Account(Account(Account(ledger, a), b), c)
              /\ ToSet(events') = ToSet(events) \cup {a, b, c}
<1>1. ASSUME UNCHANGED events PROVE ledger' = ledger
  <2>1. Len(events) \in Nat
    BY DEF EventsAreASequence
  <2>2. Len(events) + 1 \in Int /\ Len(events) \in Int /\ Len(events) < Len(events) + 1
    BY <2>1
  <2>3. SubSeq(events, Len(events) + 1, Len(events)) = <<>>
    BY <2>2, SubSeqEmpty
  <2>4. QED
    BY <1>1, <2>3, ObserveNothing DEF Shows
<1>2. ASSUME NEW a, Emit(<<a>>)
      PROVE  ledger' = Account(ledger, a) /\ ToSet(events') = ToSet(events) \cup {a}
  <2>1. <<a>> \in Seq({a}) /\ DOMAIN <<a>> = 1 .. 1
    OBVIOUS
  <2>2. ToSet(<<a>>) = {a}
    BY <2>1 DEF ToSet
  <2>3. QED
    BY <1>2, <2>1, <2>2, NewEvents, ObserveOne DEF Shows
<1>3. ASSUME NEW a, NEW b, Emit(<<a, b>>)
      PROVE  /\ ledger' = Account(Account(ledger, a), b)
             /\ ToSet(events') = ToSet(events) \cup {a, b}
  <2>1. <<a, b>> \in Seq({a, b}) /\ DOMAIN <<a, b>> = 1 .. 2
    OBVIOUS
  <2>2. ToSet(<<a, b>>) = {a, b}
    BY <2>1 DEF ToSet
  <2>3. QED
    BY <1>3, <2>1, <2>2, NewEvents, ObserveTwo DEF Shows
<1>4. ASSUME NEW a, NEW b, NEW c, Emit(<<a, b, c>>)
      PROVE  /\ ledger' = Account(Account(Account(ledger, a), b), c)
             /\ ToSet(events') = ToSet(events) \cup {a, b, c}
  <2>1. <<a, b, c>> \in Seq({a, b, c}) /\ DOMAIN <<a, b, c>> = 1 .. 3
    OBVIOUS
  <2>2. ToSet(<<a, b, c>>) = {a, b, c}
    BY <2>1 DEF ToSet
  <2> DEFINE es == <<a, b, c>>
  <2>3. es \in Seq({a, b, c}) /\ Emit(es)
    BY <1>4, <2>1
  <2> HIDE DEF es
  <2>4. Shows => Observe(es)
    BY <2>3, NewEvents DEF Shows
  <2>5. ToSet(events') = ToSet(events) \cup ToSet(es)
    BY <2>3, NewEvents
  <2>6. QED
    BY <2>2, <2>4, <2>5, ObserveThree DEF es
<1>5. QED
  BY <1>1, <1>2, <1>3, <1>4

\* The lists a step appends, and what they leave the observer with.
LEMMA Told ==
  ASSUME EventsAreASequence, Shows
  PROVE  /\ \A x, q : Emit(<<Accepted(x, q)>>) => ledger' = [ledger EXCEPT ![x] = q]
         /\ \A x, q, u, p, r : Emit(<<Accepted(x, q), BookUpdate(u, p, r)>>) =>
              ledger' = [ledger EXCEPT ![x] = q]
         /\ \A x, q : Emit(<<Cancelled(x, q)>>) => ledger' = [ledger EXCEPT ![x] = @ - q]
         /\ \A x, q, u, p, r : Emit(<<Cancelled(x, q), BookUpdate(u, p, r)>>) =>
              ledger' = [ledger EXCEPT ![x] = @ - q]
         /\ \A x, q, u, p, r : Emit(<<BookUpdate(u, p, r), Cancelled(x, q)>>) =>
              ledger' = [ledger EXCEPT ![x] = @ - q]
         /\ \A m, o, u, p, r, x, q : Emit(<<Cancelled(m, o), BookUpdate(u, p, r), Cancelled(x, q)>>) =>
              \E l : l = [ledger EXCEPT ![m] = @ - o] /\ ledger' = [l EXCEPT ![x] = @ - q]
         /\ \A m, x, p, q, u, r, v : Emit(<<Fill(m, x, p, q), BookUpdate(u, r, v)>>) =>
              ledger' = [ledger EXCEPT ![m] = @ - q, ![x] = @ - q]
         /\ \A u, p, r : Emit(<<BookUpdate(u, p, r)>>) => ledger' = ledger
         /\ \A x : Emit(<<StopTriggered(x)>>) => ledger' = [ledger EXCEPT ![x] = 0]
         /\ \A x, why : Emit(<<Rejected(x, why)>>) => ledger' = ledger
<1>1. ASSUME NEW x, NEW q, Emit(<<Accepted(x, q)>>) PROVE ledger' = [ledger EXCEPT ![x] = q]
  <2>1. ledger' = Account(ledger, Accepted(x, q))
    BY <1>1, Shown
  <2>2. QED
    BY <2>1, AccountEffects
<1>2. ASSUME NEW x, NEW q, NEW u, NEW p, NEW r, Emit(<<Accepted(x, q), BookUpdate(u, p, r)>>)
      PROVE  ledger' = [ledger EXCEPT ![x] = q]
  <2>1. ledger' = Account(Account(ledger, Accepted(x, q)), BookUpdate(u, p, r))
    BY <1>2, Shown
  <2>2. QED
    BY <2>1, AccountEffects
<1>3. ASSUME NEW x, NEW q, Emit(<<Cancelled(x, q)>>) PROVE ledger' = [ledger EXCEPT ![x] = @ - q]
  <2>1. ledger' = Account(ledger, Cancelled(x, q))
    BY <1>3, Shown
  <2>2. QED
    BY <2>1, AccountEffects
<1>4. ASSUME NEW x, NEW q, NEW u, NEW p, NEW r, Emit(<<Cancelled(x, q), BookUpdate(u, p, r)>>)
      PROVE  ledger' = [ledger EXCEPT ![x] = @ - q]
  <2>1. ledger' = Account(Account(ledger, Cancelled(x, q)), BookUpdate(u, p, r))
    BY <1>4, Shown
  <2>2. QED
    BY <2>1, AccountEffects
<1>5. ASSUME NEW x, NEW q, NEW u, NEW p, NEW r, Emit(<<BookUpdate(u, p, r), Cancelled(x, q)>>)
      PROVE  ledger' = [ledger EXCEPT ![x] = @ - q]
  <2>1. ledger' = Account(Account(ledger, BookUpdate(u, p, r)), Cancelled(x, q))
    BY <1>5, Shown
  <2>2. Account(ledger, BookUpdate(u, p, r)) = ledger
    BY AccountEffects
  <2>3. QED
    BY <2>1, <2>2, AccountEffects
<1>6. ASSUME NEW m, NEW o, NEW u, NEW p, NEW r, NEW x, NEW q,
             Emit(<<Cancelled(m, o), BookUpdate(u, p, r), Cancelled(x, q)>>)
      PROVE  \E l : l = [ledger EXCEPT ![m] = @ - o] /\ ledger' = [l EXCEPT ![x] = @ - q]
  <2> DEFINE l1 == [ledger EXCEPT ![m] = @ - o]
  <2>1. ledger' = Account(Account(Account(ledger, Cancelled(m, o)), BookUpdate(u, p, r)), Cancelled(x, q))
    BY <1>6, Shown
  <2>2. Account(ledger, Cancelled(m, o)) = l1
    BY DEF Account, Cancelled
  <2> HIDE DEF l1
  <2>3. Account(l1, BookUpdate(u, p, r)) = l1
    BY AccountEffects
  <2>4. Account(l1, Cancelled(x, q)) = [l1 EXCEPT ![x] = @ - q]
    BY DEF Account, Cancelled
  <2>5. ledger' = [l1 EXCEPT ![x] = @ - q]
    BY <2>1, <2>2, <2>3, <2>4
  <2>6. l1 = [ledger EXCEPT ![m] = @ - o]
    BY DEF l1
  <2>7. QED
    BY <2>5, <2>6
<1>7. ASSUME NEW m, NEW x, NEW p, NEW q, NEW u, NEW r, NEW v,
             Emit(<<Fill(m, x, p, q), BookUpdate(u, r, v)>>)
      PROVE  ledger' = [ledger EXCEPT ![m] = @ - q, ![x] = @ - q]
  <2> DEFINE l1 == [ledger EXCEPT ![m] = @ - q, ![x] = @ - q]
  <2>1. ledger' = Account(Account(ledger, Fill(m, x, p, q)), BookUpdate(u, r, v))
    BY <1>7, Shown
  <2>2. Account(ledger, Fill(m, x, p, q)) = l1
    BY DEF Account, Fill
  <2> HIDE DEF l1
  <2>3. ledger' = l1
    BY <2>1, <2>2, AccountEffects
  <2>4. QED
    BY <2>3 DEF l1
<1>8. ASSUME NEW u, NEW p, NEW r, Emit(<<BookUpdate(u, p, r)>>) PROVE ledger' = ledger
  <2>1. ledger' = Account(ledger, BookUpdate(u, p, r))
    BY <1>8, Shown
  <2>2. QED
    BY <2>1, AccountEffects
<1>9. ASSUME NEW x, Emit(<<StopTriggered(x)>>) PROVE ledger' = [ledger EXCEPT ![x] = 0]
  <2>1. ledger' = Account(ledger, StopTriggered(x))
    BY <1>9, Shown
  <2>2. QED
    BY <2>1, AccountEffects
<1>10. ASSUME NEW x, NEW why, Emit(<<Rejected(x, why)>>) PROVE ledger' = ledger
  <2>1. ledger' = Account(ledger, Rejected(x, why))
    BY <1>10, Shown
  <2>2. QED
    BY <2>1, AccountEffects
<1>11. QED
  BY <1>1, <1>2, <1>3, <1>4, <1>5, <1>6, <1>7, <1>8, <1>9, <1>10

-----------------------------------------------------------------------------
(* Every order is in one place, and its account says what is left of it. *)

InHand(id) == pc \in {"New", "Match", "Rest"} /\ taker.id = id

\* The stop orders that wait.
Waiters == UNION {ToSet(stops[s]) : s \in Side}

Nowhere(id) == id \notin DOMAIN orders /\ ~InHand(id) /\ \A e \in Waiters : e.id # id

\* What an account says of a quantity.  DecrementAndCancel takes quantity off a maker that
\* the stream does not mention.
Backs(mode, account, q) ==
  /\ account \in Int
  /\ IF mode = "DecrementAndCancel" THEN account >= q ELSE account = q

\* What is left of the taker, of which nothing has been said before it is accepted.
Unspent == IF pc = "New" THEN 0 ELSE taker.qty

Accounted(id) ==
  /\ id \in DOMAIN orders =>
       /\ Backs(stp_mode, ledger[id], Remaining(orders[id]))
       /\ id \notin modified => orders[id].terms.stp_group = declared[id]
  /\ InHand(id) =>
       /\ id \notin DOMAIN orders
       /\ Backs(stp_mode, ledger[id], Unspent)
       /\ id \notin modified => taker.terms.stp_group = declared[id]
  /\ \A e \in Waiters : e.id = id =>
       /\ id \notin DOMAIN orders /\ ~InHand(id)
       /\ Backs(stp_mode, ledger[id], e.qty)
       /\ id \notin modified => e.terms.stp_group = declared[id]
  /\ Nowhere(id) => Backs(stp_mode, ledger[id], 0)
  /\ id > submitted => Nowhere(id)

\* No two stop orders wait under one id.
StopsApart ==
  \A s, r \in Side : \A j \in DOMAIN stops[s], k \in DOMAIN stops[r] :
    stops[s][j].id = stops[r][k].id => s = r /\ j = k

\* No fill of the call joins two orders of one group.
FillsApart ==
  \A e \in ToSet(events) :
    e.kind = "Fill" /\ {e.maker, e.taker} \cap modified = {} => ~SameGroup(e.maker, e.taker)

HistoryInv ==
  /\ DOMAIN ledger = OrderIds /\ DOMAIN declared = OrderIds
  /\ \A id \in OrderIds : Accounted(id)
  /\ StopsApart /\ FillsApart /\ EventsAreASequence

\* Nothing about an order changes.
BookSame(id) ==
  /\ id \in DOMAIN orders' <=> id \in DOMAIN orders
  /\ id \in DOMAIN orders => orders'[id] = orders[id]
HandSame(id) ==
  /\ InHand(id)' <=> InHand(id)
  /\ InHand(id) => Unspent' = Unspent /\ taker'.terms = taker.terms
WaitSame(id) == \A e : e.id = id => (e \in Waiters' <=> e \in Waiters)
SaidSame(id) ==
  /\ ledger'[id] = ledger[id] /\ declared'[id] = declared[id] /\ stp_mode' = stp_mode
  /\ id \in modified => id \in modified'
  /\ id > submitted' => id > submitted

LEMMA UntouchedStays ==
  ASSUME NEW id, Accounted(id), BookSame(id), HandSame(id), WaitSame(id), SaidSame(id)
  PROVE  Accounted(id)'
BY DEF Accounted, Nowhere, BookSame, HandSame, WaitSame, SaidSame

-----------------------------------------------------------------------------
(* The stop orders that wait. *)

LEMMA WaiterIsEntry ==
  \A e : e \in Waiters <=> \E s \in Side : \E k \in DOMAIN stops[s] : e = stops[s][k]
BY DEF Waiters, ToSet

LEMMA WaiterIsEntryNext ==
  (\A e : e \in Waiters <=> \E s \in Side : \E k \in DOMAIN stops[s] : e = stops[s][k])'
BY WaiterIsEntry, PTL

LEMMA StopsUntouched ==
  UNCHANGED stops => Waiters' = Waiters /\ (StopsApart => StopsApart')
BY DEF Waiters, StopsApart

\* The entries of a list come from different places of another, but for one that is new.
Rearranged(list, new, at) ==
  /\ \A i \in DOMAIN new : i # at => \E j \in DOMAIN list : new[i] = list[j]
  /\ \A i, j \in DOMAIN new : i # at /\ j # at /\ i # j =>
       \E x, y \in DOMAIN list : x # y /\ new[i] = list[x] /\ new[j] = list[y]
  /\ at \in DOMAIN new => \A w \in Waiters : w.id # new[at].id

LEMMA ApartAfterMove ==
  ASSUME StopsApart, NEW s \in Side, NEW at,
         \A r \in Side : r # s => stops'[r] = stops[r], Rearranged(stops[s], stops'[s], at)
  PROVE  StopsApart'
<1> DEFINE new == stops'[s]
<1>0. /\ \A i \in DOMAIN new : i # at => \E j \in DOMAIN stops[s] : new[i] = stops[s][j]
      /\ \A i, j \in DOMAIN new : i # at /\ j # at /\ i # j =>
           \E x, y \in DOMAIN stops[s] : x # y /\ new[i] = stops[s][x] /\ new[j] = stops[s][y]
      /\ at \in DOMAIN new => \A w \in Waiters : w.id # new[at].id
  BY DEF Rearranged
<1>1. \A r \in Side : \A k \in DOMAIN stops[r] : stops[r][k] \in Waiters
  BY WaiterIsEntry
<1>2. ASSUME NEW i \in DOMAIN new, NEW j \in DOMAIN new, new[i].id = new[j].id PROVE i = j
  <2>1. CASE i = at \/ j = at
    <3>1. \A k \in DOMAIN new : k # at => new[k] \in Waiters
      BY <1>0, <1>1
    <3>2. QED
      BY <1>0, <1>2, <2>1, <3>1
  <2>2. CASE i # at /\ j # at
    BY <1>0, <1>2, <2>2 DEF StopsApart
  <2>3. QED
    BY <2>1, <2>2
<1>3. ASSUME NEW r \in Side, r # s, NEW i \in DOMAIN new, NEW k \in DOMAIN stops[r]
      PROVE  new[i].id # stops[r][k].id
  <2>1. CASE i = at
    BY <1>0, <1>1, <2>1
  <2>2. CASE i # at
    BY <1>0, <1>3, <2>2 DEF StopsApart
  <2>3. QED
    BY <2>1, <2>2
<1>4. ASSUME NEW r \in Side, NEW t \in Side, r # s, t # s,
             NEW j \in DOMAIN stops[r], NEW k \in DOMAIN stops[t], stops[r][j].id = stops[t][k].id
      PROVE  r = t /\ j = k
  BY <1>4 DEF StopsApart
<1>5. QED
  BY <1>2, <1>3, <1>4 DEF StopsApart

LEMMA StopArrives ==
  ASSUME StopsOK, StopsApart, NEW s \in Side, NEW e \in OrderCommand,
         NEW k \in 1 .. Len(stops[s]) + 1, \A w \in Waiters : w.id # e.id,
         stops' = [stops EXCEPT ![s] = InsertAt(@, k, e)]
  PROVE  StopsApart' /\ \A w : w \in Waiters' <=> w \in Waiters \/ w = e
<1> DEFINE list == stops[s]
           new == InsertAt(list, k, e)
           old(i) == IF i < k THEN i ELSE i - 1
<1>1. list \in Seq(OrderCommand) /\ stops \in [Side -> Seq(OrderCommand)] /\ k \in 1 .. Len(list) + 1
  BY DEF StopsOK
<1>3. stops'[s] = new /\ \A r \in Side : r # s => stops'[r] = stops[r]
  BY <1>1
<1> HIDE DEF list
<1>2. /\ new \in Seq(OrderCommand) /\ Len(new) = Len(list) + 1
      /\ \A i \in 1 .. Len(list) + 1 :
           new[i] = IF i < k THEN list[i] ELSE IF i = k THEN e ELSE list[i - 1]
  <2>1. Inserted(list, k, e, new)
    BY <1>1, StopInserted
  <2>2. QED
    BY <2>1 DEF Inserted
<1> HIDE DEF new
<1>4. DOMAIN new = 1 .. Len(list) + 1 /\ DOMAIN list = 1 .. Len(list) /\ Len(list) \in Nat
      /\ k \in 1 .. Len(list) + 1 /\ new[k] = e
  BY <1>1, <1>2 DEF list
<1>5. ASSUME NEW i \in DOMAIN new, i # k PROVE old(i) \in DOMAIN list /\ new[i] = list[old(i)]
  BY <1>2, <1>4, <1>5
<1>6. ASSUME NEW i \in DOMAIN new, NEW j \in DOMAIN new, i # k, j # k, i # j PROVE old(i) # old(j)
  BY <1>4, <1>6
<1>7. ASSUME NEW j \in DOMAIN list PROVE \E i \in DOMAIN new : new[i] = list[j]
  <2>1. CASE j < k
    <3>1. j \in DOMAIN new /\ new[j] = list[j]
      BY <1>2, <1>4, <2>1
    <3>2. QED
      BY <3>1
  <2>2. CASE ~(j < k)
    <3>1. j + 1 \in DOMAIN new /\ ~(j + 1 < k) /\ j + 1 # k /\ (j + 1) - 1 = j
      BY <1>4, <2>2
    <3>2. new[j + 1] = list[j]
      BY <1>2, <1>4, <3>1
    <3>3. QED
      BY <3>1, <3>2
  <2>3. QED
    BY <2>1, <2>2
<1> HIDE DEF old
<1>8. StopsApart'
  <2>1. \A i \in DOMAIN new : i # k => \E j \in DOMAIN list : new[i] = list[j]
    BY <1>5
  <2>2. \A i, j \in DOMAIN new : i # k /\ j # k /\ i # j =>
          \E x, y \in DOMAIN list : x # y /\ new[i] = list[x] /\ new[j] = list[y]
    BY <1>5, <1>6
  <2>3. k \in DOMAIN new => \A w \in Waiters : w.id # new[k].id
    BY <1>4
  <2>4. Rearranged(stops[s], stops'[s], k)
    BY <1>3, <2>1, <2>2, <2>3 DEF Rearranged, list
  <2>5. QED
    BY <1>3, <2>4, ApartAfterMove
<1>9. ASSUME NEW w, w \in Waiters \/ w = e PROVE w \in Waiters'
  <2>1. CASE w = e
    BY <1>3, <1>4, <2>1, WaiterIsEntryNext
  <2>2. CASE w \in Waiters
    BY <1>3, <1>7, <2>2, WaiterIsEntry, WaiterIsEntryNext DEF list
  <2>3. QED
    BY <1>9, <2>1, <2>2
<1>10. ASSUME NEW w, w \in Waiters', w # e PROVE w \in Waiters
  <2>1. PICK r \in Side : \E i \in DOMAIN stops'[r] : w = stops'[r][i]
    BY <1>10, WaiterIsEntryNext
  <2> PICK i \in DOMAIN stops'[r] : w = stops'[r][i]
    BY <2>1
  <2>2. CASE r = s
    <3>1. i \in DOMAIN new /\ w = new[i] /\ i # k
      BY <1>3, <1>4, <1>10, <2>1, <2>2
    <3>2. QED
      BY <1>5, <3>1, WaiterIsEntry DEF list
  <2>3. CASE r # s
    BY <1>3, <2>1, <2>3, WaiterIsEntry
  <2>4. QED
    BY <2>2, <2>3
<1>11. QED
  BY <1>8, <1>9, <1>10

LEMMA StopLeaves ==
  ASSUME StopsOK, StopsApart, NEW s \in Side, stops[s] # <<>>,
         stops' = [stops EXCEPT ![s] = Tail(@)]
  PROVE  /\ StopsApart' /\ Head(stops[s]) \in Waiters /\ Head(stops[s]) \in OrderCommand
         /\ \A w : w.id = Head(stops[s]).id => w \notin Waiters'
         /\ \A w : w.id # Head(stops[s]).id => (w \in Waiters' <=> w \in Waiters)
<1> DEFINE list == stops[s]
           e == Head(list)
           new == Tail(list)
<1>1. list \in Seq(OrderCommand) /\ stops \in [Side -> Seq(OrderCommand)] /\ list # <<>>
  BY DEF StopsOK
<1>2. new \in Seq(OrderCommand) /\ Len(new) = Len(list) - 1
      /\ \A i \in 1 .. Len(new) : new[i] = list[i + 1]
  BY <1>1, HeadTailProperties
<1>3. stops'[s] = new /\ \A r \in Side : r # s => stops'[r] = stops[r]
  BY <1>1
<1>4. 1 \in DOMAIN list /\ e = list[1] /\ e \in OrderCommand
  BY <1>1, TailKeepsStopList DEF StopsOK
<1> HIDE DEF new, e, list
<1>5. DOMAIN new = 1 .. Len(list) - 1 /\ DOMAIN list = 1 .. Len(list) /\ Len(list) \in Nat
  BY <1>1, <1>2
<1>6. ASSUME NEW i \in DOMAIN new PROVE i + 1 \in DOMAIN list /\ i + 1 # 1 /\ new[i] = list[i + 1]
  BY <1>2, <1>5
<1>7. ASSUME NEW j \in DOMAIN list, j # 1 PROVE \E i \in DOMAIN new : new[i] = list[j]
  <2>1. j - 1 \in DOMAIN new /\ (j - 1) + 1 = j
    BY <1>5, <1>7
  <2>2. QED
    BY <1>6, <2>1
<1>8. StopsApart'
  <2>1. \A i \in DOMAIN new : \E j \in DOMAIN list : new[i] = list[j]
    BY <1>6
  <2>2. \A i, j \in DOMAIN new : i # j =>
          \E x, y \in DOMAIN list : x # y /\ new[i] = list[x] /\ new[j] = list[y]
    <3>1. \A i, j \in DOMAIN new : i # j => i + 1 # j + 1
      BY <1>5
    <3>2. QED
      BY <1>6, <3>1
  <2>3. \A i, j \in DOMAIN new : i # 0 /\ j # 0 /\ i # j =>
          \E x, y \in DOMAIN list : x # y /\ new[i] = list[x] /\ new[j] = list[y]
    BY <2>2
  <2>4. \A i \in DOMAIN new : i # 0 => \E j \in DOMAIN list : new[i] = list[j]
    BY <2>1
  <2>5. 0 \in DOMAIN new => \A w \in Waiters : w.id # new[0].id
    BY <1>5
  <2>6. Rearranged(stops[s], stops'[s], 0)
    BY <1>3, <2>3, <2>4, <2>5 DEF Rearranged, list
  <2>7. QED
    BY <1>3, <2>6, ApartAfterMove
<1>9. e \in Waiters
  BY <1>4, WaiterIsEntry DEF list
<1>10. ASSUME NEW w, w \in Waiters', w.id = e.id PROVE FALSE
  <2>1. PICK r \in Side : \E i \in DOMAIN stops'[r] : w = stops'[r][i]
    BY <1>10, WaiterIsEntryNext
  <2> PICK i \in DOMAIN stops'[r] : w = stops'[r][i]
    BY <2>1
  <2>2. CASE r = s
    <3>1. i + 1 \in DOMAIN list /\ i + 1 # 1 /\ w = list[i + 1]
      BY <1>3, <1>6, <2>1, <2>2
    <3>2. QED
      BY <1>4, <1>10, <3>1 DEF StopsApart, list
  <2>3. CASE r # s
    BY <1>3, <1>4, <1>10, <2>1, <2>3 DEF StopsApart, list
  <2>4. QED
    BY <2>2, <2>3
<1>11. ASSUME NEW w, w.id # e.id PROVE w \in Waiters' <=> w \in Waiters
  <2>1. ASSUME w \in Waiters PROVE w \in Waiters'
    <3>1. PICK r \in Side : \E j \in DOMAIN stops[r] : w = stops[r][j]
      BY <2>1, WaiterIsEntry
    <3> PICK j \in DOMAIN stops[r] : w = stops[r][j]
      BY <3>1
    <3>2. CASE r = s
      <4>1. j # 1 /\ j \in DOMAIN list /\ w = list[j]
        BY <1>4, <1>11, <3>1, <3>2 DEF list
      <4>2. PICK i \in DOMAIN new : new[i] = list[j]
        BY <1>7, <4>1
      <4>3. QED
        BY <1>3, <4>1, <4>2, WaiterIsEntryNext
    <3>3. CASE r # s
      BY <1>3, <3>1, <3>3, WaiterIsEntryNext
    <3>4. QED
      BY <3>2, <3>3
  <2>2. ASSUME w \in Waiters' PROVE w \in Waiters
    <3>1. PICK r \in Side : \E i \in DOMAIN stops'[r] : w = stops'[r][i]
      BY <2>2, WaiterIsEntryNext
    <3> PICK i \in DOMAIN stops'[r] : w = stops'[r][i]
      BY <3>1
    <3>2. CASE r = s
      BY <1>3, <1>6, <3>1, <3>2, WaiterIsEntry DEF list
    <3>3. CASE r # s
      BY <1>3, <3>1, <3>3, WaiterIsEntry
    <3>4. QED
      BY <3>2, <3>3
  <2>3. QED
    BY <2>1, <2>2
<1>12. QED
  BY <1>4, <1>8, <1>9, <1>10, <1>11 DEF e, list

-----------------------------------------------------------------------------
(* What the operations of the book do to the orders. *)

LEMMA UnlinkLeaves ==
  ASSUME NEW x, NEW q, NEW r, Unlink(x, q, r)
  PROVE  x \notin DOMAIN orders' /\ \A id : id # x => BookSame(id)
BY DEF Unlink, Unbind, BookSame

LEMMA ConsumeLeaves ==
  ASSUME BookInv, NEW x \in DOMAIN orders, NEW q \in 1 .. Remaining(orders[x]), Consume(x, q)
  PROVE  /\ x \in DOMAIN orders' /\ orders'[x].terms = orders[x].terms
         /\ Remaining(orders'[x]) = Remaining(orders[x]) - q
         /\ \A id : id # x => BookSame(id)
<1>1. /\ orders' = [orders EXCEPT ![x].filled = @ + q]
      /\ orders[x] \in Order /\ orders[x].filled <= orders[x].quantity
  BY DEF Consume, BookInv, BookTypeOK
<1>2. DOMAIN orders' = DOMAIN orders /\ orders'[x] = [orders[x] EXCEPT !.filled = @ + q]
  BY <1>1
<1>3. /\ orders'[x].terms = orders[x].terms /\ orders'[x].quantity = orders[x].quantity
      /\ orders'[x].filled = orders[x].filled + q
  BY <1>1, <1>2 DEF Order
<1>4. orders[x].quantity \in Nat /\ orders[x].filled \in Nat
  BY <1>1, BookAssumption DEF Order, Quantity
<1>5. Remaining(orders'[x]) = Remaining(orders[x]) - q
  BY <1>1, <1>3, <1>4 DEF Remaining
<1>6. \A id : id # x => BookSame(id)
  BY <1>1 DEF BookSame
<1>7. QED
  BY <1>2, <1>3, <1>5, <1>6

LEMMA InsertArrives ==
  ASSUME NEW x, NEW s, NEW p, NEW q \in Nat, NEW t, InsertOrder(x, s, p, q, t), Insertable(x)
  PROVE  /\ x \in DOMAIN orders' /\ orders'[x].terms = t /\ Remaining(orders'[x]) = q
         /\ \A id : id # x => BookSame(id)
<1> DEFINE o == [side |-> s, price |-> p, quantity |-> q, filled |-> 0, terms |-> t]
<1>1. orders' = Bind(orders, x, o)
  BY DEF InsertOrder
<1>2. o.terms = t /\ Remaining(o) = q
  BY DEF Remaining
<1> HIDE DEF o
<1>3. QED
  BY <1>1, <1>2 DEF Bind, BookSame

LEMMA BookUntouchedSame == UNCHANGED book => \A id : BookSame(id)
BY DEF book, BookSame

\* A fill or a reduction, and the removal of what has nothing left.
LEMMA FillLeaves ==
  ASSUME BookInv, NEW x \in DOMAIN orders, NEW q \in 1 .. Remaining(orders[x]), FillOrder(x, q)
  PROVE  /\ \A id : id # x => BookSame(id)
         /\ x \in DOMAIN orders' => /\ orders'[x].terms = orders[x].terms
                                    /\ Remaining(orders'[x]) = Remaining(orders[x]) - q
         /\ x \notin DOMAIN orders' => q = Remaining(orders[x])
<1>1. CASE q = Remaining(orders[x])
  BY <1>1, UnlinkLeaves DEF FillOrder
<1>2. CASE q # Remaining(orders[x])
  <2>1. Consume(x, q)
    BY <1>2 DEF FillOrder
  <2>2. QED
    BY <2>1, ConsumeLeaves
<1>3. QED
  BY <1>1, <1>2

\* An arena with a slot for every order that clients may enter is never full when the
\* taker comes to rest.
LEMMA RoomForTaker ==
  ASSUME Capacity >= MaxOrders, BookInv, NEW x \in OrderIds, x \notin DOMAIN orders
  PROVE  Insertable(x)
<1>1. IsFiniteSet(OrderIds) /\ Cardinality(OrderIds) = MaxOrders
  <2>1. OrderIds = 1 .. MaxOrders /\ MaxOrders \in Nat
    BY EngineAssumption
  <2>2. /\ IsFiniteSet(1 .. MaxOrders)
        /\ Cardinality(1 .. MaxOrders) = IF 1 > MaxOrders THEN 0 ELSE MaxOrders - 1 + 1
    BY <2>1, FS_Interval
  <2>3. QED
    BY <2>1, <2>2
<1>2. IsFiniteSet(OrderIds \ {x}) /\ Cardinality(OrderIds \ {x}) = MaxOrders - 1
  BY <1>1, FS_RemoveElement
<1>3. DOMAIN orders \subseteq OrderIds \ {x}
  BY DEF BookInv, BookTypeOK
<1>4. Cardinality(DOMAIN orders) <= MaxOrders - 1 /\ Cardinality(DOMAIN orders) \in Nat
  BY <1>2, <1>3, FS_Subset, FS_CardinalityType
<1>5. QED
  BY <1>4, EngineAssumption, BookAssumption DEF Insertable

-----------------------------------------------------------------------------
(* Where an order is after a step, and what its account says there. *)

LEMMA BacksLess ==
  ASSUME NEW mode, NEW account, NEW q \in Int, NEW d \in Int, Backs(mode, account, q)
  PROVE  Backs(mode, account - d, q - d)
BY DEF Backs

LEMMA BacksExactly ==
  ASSUME NEW mode, NEW q \in Int
  PROVE  Backs(mode, q, q)
BY DEF Backs

LEMMA Gone ==
  ASSUME NEW x, Nowhere(x)', Backs(stp_mode', ledger'[x], 0)
  PROVE  Accounted(x)'
BY DEF Accounted, Nowhere

LEMMA AtRest ==
  ASSUME NEW x, x \in DOMAIN orders', ~InHand(x)', \A e \in Waiters' : e.id # x,
         Backs(stp_mode', ledger'[x], Remaining(orders'[x])), ~(x > submitted'),
         x \notin modified' => orders'[x].terms.stp_group = declared'[x]
  PROVE  Accounted(x)'
BY DEF Accounted, Nowhere

LEMMA AtHand ==
  ASSUME NEW x, x \notin DOMAIN orders', InHand(x)', \A e \in Waiters' : e.id # x,
         Backs(stp_mode', ledger'[x], Unspent'), ~(x > submitted'),
         x \notin modified' => taker'.terms.stp_group = declared'[x]
  PROVE  Accounted(x)'
BY DEF Accounted, Nowhere

LEMMA AtWait ==
  ASSUME NEW x, x \notin DOMAIN orders', ~InHand(x)', NEW e \in Waiters', e.id = x,
         \A f \in Waiters' : f.id = x => f = e,
         Backs(stp_mode', ledger'[x], e.qty), ~(x > submitted'),
         x \notin modified' => e.terms.stp_group = declared'[x]
  PROVE  Accounted(x)'
BY DEF Accounted, Nowhere

-----------------------------------------------------------------------------
(* The steps of a call, one after another. *)

Constant == UNCHANGED <<declared, modified, stp_mode, submitted>>

LEMMA TakerPlace ==
  ASSUME EngineInv, HistoryInv, pc \in {"New", "Match", "Rest"}, NEW x, x = taker.id
  PROVE  /\ x \in OrderIds /\ x \notin DOMAIN orders /\ ~(x > submitted)
         /\ \A e \in Waiters : e.id # x
         /\ Backs(stp_mode, ledger[x], Unspent)
         /\ x \notin modified => taker.terms.stp_group = declared[x]
<1>1. x \in OrderIds /\ InHand(x)
  BY TakerType DEF EngineInv, InHand
<1>2. Accounted(x)
  BY <1>1 DEF HistoryInv
<1>3. QED
  BY <1>1, <1>2 DEF Accounted, Nowhere

\* process_new_order returns: no order is in hand any more.
LEMMA HandIsEmpty ==
  ASSUME EngineInv, pc \in {"New", "Match", "Rest"}, Finish
  PROVE  \A id : ~InHand(id)'
<1>1. back \in {"Drain"} \cup Side /\ pc' = back
  BY DEF EngineInv, EngineTypeOK, Finish
<1>2. QED
  BY <1>1 DEF InHand, Side

LEMMA OthersAfterFinish ==
  ASSUME EngineInv, HistoryInv, Constant, pc \in {"New", "Match", "Rest"}, Finish,
         NEW id \in OrderIds, id # taker.id, BookSame(id), WaitSame(id), ledger'[id] = ledger[id]
  PROVE  Accounted(id)'
<1>1. HandSame(id)
  BY HandIsEmpty DEF HandSame, InHand
<1>2. SaidSame(id)
  BY DEF Constant, SaidSame
<1>3. QED
  BY <1>1, <1>2, UntouchedStays DEF HistoryInv

LEMMA OthersInLoop ==
  ASSUME HistoryInv, Constant, pc = "Match", pc' \in {"Match", "Rest"}, UNCHANGED stops,
         taker'.id = taker.id, taker'.terms = taker.terms,
         NEW id \in OrderIds, id = taker.id => taker'.qty = taker.qty,
         BookSame(id), ledger'[id] = ledger[id]
  PROVE  Accounted(id)'
<1>1. HandSame(id)
  BY DEF HandSame, InHand, Unspent
<1>2. SaidSame(id) /\ WaitSame(id)
  BY StopsUntouched DEF Constant, SaidSame, WaitSame
<1>3. QED
  BY <1>1, <1>2, UntouchedStays DEF HistoryInv

LEMMA TakerGone ==
  ASSUME EngineInv, HistoryInv, Constant, pc \in {"New", "Match", "Rest"}, Finish,
         UNCHANGED stops, NEW x, x = taker.id, x \notin DOMAIN orders',
         Backs(stp_mode, ledger'[x], 0)
  PROVE  Accounted(x)'
<1>1. ~InHand(x)' /\ \A e \in Waiters' : e.id # x
  BY HandIsEmpty, TakerPlace, StopsUntouched
<1>2. QED
  BY <1>1, Gone DEF Nowhere, Constant

LEMMA TakerRested ==
  ASSUME EngineInv, HistoryInv, Constant, pc \in {"New", "Match", "Rest"}, Finish,
         UNCHANGED stops, NEW x, x = taker.id, x \in DOMAIN orders',
         orders'[x].terms = RestingTerms(taker),
         Backs(stp_mode, ledger'[x], Remaining(orders'[x]))
  PROVE  Accounted(x)'
<1>1. ~InHand(x)' /\ \A e \in Waiters' : e.id # x
  BY HandIsEmpty, TakerPlace, StopsUntouched
<1>2. RestingTerms(taker).stp_group = taker.terms.stp_group
  <2>1. taker.terms \in Terms
    BY TakerType DEF EngineInv
  <2>2. DOMAIN taker.terms = {"peak", "stp_group"}
    BY <2>1, HistoryAssumption
  <2>3. QED
    BY <2>2 DEF RestingTerms
<1>3. ~(x > submitted') /\ (x \notin modified' => orders'[x].terms.stp_group = declared'[x])
  BY <1>2, TakerPlace DEF Constant
<1>4. QED
  BY <1>1, <1>3, AtRest DEF Constant

\* An order taken off the book while another, or none, is in hand.
LEMMA MakerGone ==
  ASSUME HistoryInv, UNCHANGED stops, NEW x \in DOMAIN orders, x \in OrderIds,
         x \notin DOMAIN orders', ~InHand(x)', Backs(stp_mode', ledger'[x], 0)
  PROVE  Accounted(x)'
<1>1. \A e \in Waiters : e.id # x
  BY DEF HistoryInv, Accounted
<1>2. QED
  BY <1>1, Gone, StopsUntouched DEF Nowhere

\* A maker that stays on the book, with what its account says of it.
LEMMA MakerStays ==
  ASSUME HistoryInv, Constant, UNCHANGED stops, NEW x \in DOMAIN orders, x \in OrderIds,
         x \in DOMAIN orders', orders'[x].terms = orders[x].terms, ~InHand(x)',
         Backs(stp_mode, ledger'[x], Remaining(orders'[x]))
  PROVE  Accounted(x)'
<1>1. Accounted(x)
  BY DEF HistoryInv
<1>2. /\ \A e \in Waiters : e.id # x
      /\ ~(x > submitted) /\ (x \notin modified => orders[x].terms.stp_group = declared[x])
  BY <1>1 DEF Accounted, Nowhere
<1>3. QED
  BY <1>2, AtRest, StopsUntouched DEF Constant

\* An order that is refused: nothing is said of it.
LEMMA RejectAccounts ==
  ASSUME EngineInv, HistoryInv, Constant, Shows, pc = "New", NEW why, Reject(why)
  PROVE  \A id \in OrderIds : Accounted(id)'
<1>1. Finish /\ UNCHANGED <<book, stops>> /\ Emit(<<Rejected(taker.id, why)>>)
  BY DEF Reject
<1>2. ledger' = ledger
  BY <1>1, Told DEF HistoryInv
<1>3. \A id : BookSame(id) /\ WaitSame(id)
  BY <1>1, BookUntouchedSame, StopsUntouched DEF WaitSame
<1>4. ASSUME NEW x, x = taker.id PROVE Accounted(x)'
  <2>1. Backs(stp_mode, ledger'[x], 0) /\ x \notin DOMAIN orders'
    BY <1>2, <1>3, <1>4, TakerPlace DEF Unspent, BookSame
  <2>2. QED
    BY <1>1, <1>4, <2>1, TakerGone
<1>5. QED
  BY <1>1, <1>2, <1>3, <1>4, OthersAfterFinish

LEMMA PostOnlyAccounts ==
  ASSUME Capacity >= MaxOrders, EngineInv, HistoryInv, Constant, Shows, PostOnly
  PROVE  \A id \in OrderIds : Accounted(id)'
<1>1. pc = "New"
  BY DEF PostOnly
<1>2. CASE Reject("WouldCrossSpread")
  BY <1>1, <1>2, RejectAccounts
<1>3. CASE ~Reject("WouldCrossSpread")
  <2>1. /\ Finish /\ UNCHANGED stops
        /\ InsertOrder(taker.id, taker.side, taker.price, taker.qty, RestingTerms(taker))
        /\ Emit(<<Accepted(taker.id, taker.qty), BookUpdate(taker.side, taker.price, taker.qty)>>)
    BY <1>3 DEF PostOnly
  <2>2. ledger' = [ledger EXCEPT ![taker.id] = taker.qty]
    BY <2>1, Told DEF HistoryInv
  <2>3. taker.id \in OrderIds /\ taker.id \notin DOMAIN orders /\ taker.qty \in Nat
    BY <1>1, TakerPlace, TakerType DEF EngineInv
  <2>4. /\ taker.id \in DOMAIN orders' /\ orders'[taker.id].terms = RestingTerms(taker)
        /\ Remaining(orders'[taker.id]) = taker.qty
        /\ \A id : id # taker.id => BookSame(id)
    <3>1. Insertable(taker.id)
      BY <2>3, RoomForTaker DEF EngineInv
    <3>2. QED
      BY <2>1, <2>3, <3>1, InsertArrives
  <2>5. ASSUME NEW x, x = taker.id PROVE Accounted(x)'
    <3>1. ledger'[x] = taker.qty
      BY <2>2, <2>3, <2>5 DEF HistoryInv
    <3>2. Backs(stp_mode, ledger'[x], Remaining(orders'[x]))
      BY <2>3, <2>4, <2>5, <3>1, BacksExactly
    <3>3. QED
      BY <1>1, <2>1, <2>4, <2>5, <3>2, TakerRested
  <2>6. ASSUME NEW id \in OrderIds, id # taker.id PROVE Accounted(id)'
    <3>1. ledger'[id] = ledger[id] /\ WaitSame(id)
      BY <2>1, <2>2, <2>6, StopsUntouched DEF HistoryInv, WaitSame
    <3>2. QED
      BY <1>1, <2>1, <2>4, <2>6, <3>1, OthersAfterFinish
  <2>7. QED
    BY <2>5, <2>6
<1>4. QED
  BY <1>2, <1>3

\* A stop order that is accepted waits.
LEMMA StopWaits ==
  ASSUME EngineInv, HistoryInv, pc = "New", taker.stop_price # NONE,
         stops' = [stops EXCEPT ![taker.side] =
                     InsertAt(@, PartitionPoint(taker.side, @, taker.stop_price) + 1, taker)]
  PROVE  StopsApart' /\ \A w : w \in Waiters' <=> w \in Waiters \/ w = taker
<1> DEFINE s == taker.side
           k == PartitionPoint(s, stops[s], taker.stop_price) + 1
<1>1. taker \in OrderCommand /\ s \in Side /\ taker.id \in OrderIds /\ StopsOK
  BY TakerType, StateParts DEF EngineInv
<1>2. taker.stop_price \in Price /\ StopList(s, stops[s])
  BY <1>1 DEF OrderCommand, StopsOK
<1>3. PartitionPoint(s, stops[s], taker.stop_price) \in 0 .. Len(stops[s])
  BY <1>1, <1>2, PartitionPointExists
<1>4. k \in 1 .. Len(stops[s]) + 1
  <2>1. Len(stops[s]) \in Nat
    BY <1>2 DEF StopList
  <2> DEFINE n == PartitionPoint(s, stops[s], taker.stop_price)
  <2>2. n \in 0 .. Len(stops[s])
    BY <1>3
  <2> HIDE DEF n
  <2>3. n + 1 \in 1 .. Len(stops[s]) + 1
    BY <2>1, <2>2
  <2>4. QED
    BY <2>3 DEF n
<1>5. stops' = [stops EXCEPT ![s] = InsertAt(@, k, taker)]
  BY <1>1
<1>6. \A w \in Waiters : w.id # taker.id
  BY TakerPlace
<1> HIDE DEF k, s
<1>7. QED
  BY <1>1, <1>4, <1>5, <1>6, StopArrives DEF HistoryInv

LEMMA StopLimitAccounts ==
  ASSUME EngineInv, HistoryInv, Constant, Shows, StopLimit
  PROVE  \A id \in OrderIds : Accounted(id)'
<1>1. pc = "New"
  BY DEF StopLimit
<1>2. CASE \E why : Reject(why)
  BY <1>1, <1>2, RejectAccounts
<1>3. CASE ~\E why : Reject(why)
  <2>1. /\ Finish /\ UNCHANGED book /\ taker.stop_price # NONE
        /\ stops' = [stops EXCEPT ![taker.side] =
                       InsertAt(@, PartitionPoint(taker.side, @, taker.stop_price) + 1, taker)]
        /\ Emit(<<Accepted(taker.id, taker.qty)>>)
    BY <1>3 DEF StopLimit
  <2>2. ledger' = [ledger EXCEPT ![taker.id] = taker.qty]
    BY <2>1, Told DEF HistoryInv
  <2>3. \A w : w \in Waiters' <=> w \in Waiters \/ w = taker
    BY <1>1, <2>1, StopWaits
  <2>4. \A id : BookSame(id)
    BY <2>1, BookUntouchedSame
  <2>5. ASSUME NEW x, x = taker.id PROVE Accounted(x)'
    <3>1. /\ x \in OrderIds /\ x \notin DOMAIN orders' /\ ~InHand(x)' /\ ~(x > submitted')
          /\ \A e \in Waiters : e.id # x
          /\ x \notin modified' => taker.terms.stp_group = declared'[x]
      BY <1>1, <2>1, <2>4, <2>5, TakerPlace, HandIsEmpty DEF BookSame, Constant
    <3>2. ledger'[x] = taker.qty /\ taker.qty \in Nat
      BY <1>1, <2>2, <2>5, <3>1, TakerType DEF HistoryInv, EngineInv
    <3>3. Backs(stp_mode', ledger'[x], taker.qty)
      BY <3>2, BacksExactly
    <3> DEFINE e == taker
    <3> HIDE DEF e
    <3>4. e \in Waiters' /\ \A f \in Waiters' : f.id = x => f = e
      BY <2>3, <3>1 DEF e
    <3>5. e.id = x /\ e.qty = taker.qty /\ e.terms = taker.terms
      BY <2>5 DEF e
    <3>6. Backs(stp_mode', ledger'[x], e.qty) /\ (x \notin modified' => e.terms.stp_group = declared'[x])
      BY <3>1, <3>3, <3>5
    <3>7. QED
      BY <3>1, <3>4, <3>5, <3>6, AtWait
  <2>6. ASSUME NEW id \in OrderIds, id # taker.id PROVE Accounted(id)'
    <3>1. ledger'[id] = ledger[id] /\ WaitSame(id)
      BY <2>2, <2>3, <2>6 DEF HistoryInv, WaitSame
    <3>2. QED
      BY <1>1, <2>1, <2>4, <2>6, <3>1, OthersAfterFinish
  <2>7. QED
    BY <2>5, <2>6
<1>4. QED
  BY <1>2, <1>3

LEMMA ValidateAccounts ==
  ASSUME EngineInv, HistoryInv, Constant, Shows, Validate
  PROVE  \A id \in OrderIds : Accounted(id)'
<1>1. pc = "New"
  BY DEF Validate
<1>2. CASE Reject(Refusal(taker))
  BY <1>1, <1>2, RejectAccounts
<1>3. CASE ~Reject(Refusal(taker))
  <2>1. UNCHANGED <<book, stops, taker>> /\ Emit(<<Accepted(taker.id, taker.qty)>>) /\ pc' = "Match"
    BY <1>3 DEF Validate
  <2>2. ledger' = [ledger EXCEPT ![taker.id] = taker.qty]
    BY <2>1, Told DEF HistoryInv
  <2>3. \A id : BookSame(id) /\ WaitSame(id)
    BY <2>1, BookUntouchedSame, StopsUntouched DEF WaitSame
  <2>4. ASSUME NEW x, x = taker.id PROVE Accounted(x)'
    <3>1. /\ x \in OrderIds /\ x \notin DOMAIN orders' /\ InHand(x)' /\ ~(x > submitted')
          /\ \A e \in Waiters' : e.id # x
          /\ x \notin modified' => taker'.terms.stp_group = declared'[x]
      BY <1>1, <2>1, <2>3, <2>4, TakerPlace, StopsUntouched DEF BookSame, Constant, InHand
    <3>2. ledger'[x] = taker.qty /\ taker.qty \in Nat /\ Unspent' = taker.qty
      BY <1>1, <2>1, <2>2, <2>4, <3>1, TakerType DEF HistoryInv, EngineInv, Unspent
    <3>3. Backs(stp_mode', ledger'[x], Unspent')
      BY <3>2, BacksExactly
    <3>4. QED
      BY <3>1, <3>3, AtHand
  <2>5. ASSUME NEW id \in OrderIds, id # taker.id PROVE Accounted(id)'
    <3>1. HandSame(id) /\ SaidSame(id)
      BY <2>1, <2>2, <2>5 DEF HandSame, SaidSame, InHand, Constant, HistoryInv
    <3>2. QED
      BY <2>3, <3>1, UntouchedStays DEF HistoryInv
  <2>6. QED
    BY <2>4, <2>5
<1>4. QED
  BY <1>2, <1>3

\* The maker and the taker of the loop, and what their accounts say.
LEMMA LoopPlaces ==
  ASSUME EngineInv, HistoryInv, Matching, CanMatch, NEW x, x = Maker, NEW t, t = taker.id
  PROVE  /\ x \in DOMAIN orders /\ x \in OrderIds /\ ~InHand(x)
         /\ t \in OrderIds /\ t \notin DOMAIN orders /\ x # t
         /\ MakerRemaining = Remaining(orders[x]) /\ MakerRemaining \in Nat /\ taker.qty \in Nat
         /\ Backs(stp_mode, ledger[x], MakerRemaining) /\ Backs(stp_mode, ledger[t], taker.qty)
         /\ x \notin modified => orders[x].terms.stp_group = declared[x]
         /\ t \notin modified => taker.terms.stp_group = declared[t]
<1>1. pc = "Match"
  BY DEF Matching
<1>2. /\ t \in OrderIds /\ t \notin DOMAIN orders /\ taker.qty \in Nat
      /\ Backs(stp_mode, ledger[t], taker.qty)
      /\ t \notin modified => taker.terms.stp_group = declared[t]
  BY <1>1, TakerPlace, TakerType DEF Unspent, EngineInv
<1>3. x \in DOMAIN orders /\ MakerRemaining \in Nat
  BY MakerIsLive DEF EngineInv
<1>4. x \in OrderIds
  BY <1>3 DEF EngineInv, BookInv, BookTypeOK
<1>5. Accounted(x) /\ MakerRemaining = Remaining(orders[x])
  BY <1>4 DEF HistoryInv, MakerRemaining
<1>6. QED
  BY <1>2, <1>3, <1>4, <1>5 DEF Accounted, InHand

LEMMA StopMatchingAccounts ==
  ASSUME EngineInv, HistoryInv, Constant, Shows, StopMatching
  PROVE  \A id \in OrderIds : Accounted(id)'
<1>1. pc = "Match" /\ pc' = "Rest" /\ UNCHANGED <<book, stops, taker, events>>
  BY DEF StopMatching, Matching
<1>2. ledger' = ledger /\ \A id : BookSame(id)
  BY <1>1, Shown, BookUntouchedSame DEF HistoryInv
<1>3. QED
  BY <1>1, <1>2, OthersInLoop

LEMMA DropStaleMakerAccounts ==
  ASSUME EngineInv, HistoryInv, Constant, Shows, DropStaleMaker
  PROVE  \A id \in OrderIds : Accounted(id)'
<1>1. /\ Matching /\ CanMatch /\ MakerRemaining = 0 /\ RemoveOrder(Maker)
      /\ UNCHANGED <<stops, events, pc, taker, stp_mode>>
  BY DEF DropStaleMaker, engine
<1>2. ledger' = ledger /\ pc = "Match"
  BY <1>1, Shown DEF HistoryInv, Matching
<1>3. Maker \notin DOMAIN orders' /\ \A id : id # Maker => BookSame(id)
  BY <1>1, UnlinkLeaves DEF RemoveOrder
<1>4. ASSUME NEW x, x = Maker PROVE Accounted(x)'
  <2>1. x \in DOMAIN orders /\ x \in OrderIds /\ ~InHand(x) /\ Backs(stp_mode, ledger[x], 0)
    BY <1>1, <1>4, LoopPlaces
  <2>2. ~InHand(x)' /\ Backs(stp_mode', ledger'[x], 0)
    BY <1>1, <1>2, <2>1 DEF InHand
  <2>3. QED
    BY <1>1, <1>3, <1>4, <2>1, <2>2, MakerGone
<1>5. ASSUME NEW id \in OrderIds, id # Maker PROVE Accounted(id)'
  BY <1>1, <1>2, <1>3, <1>5, OthersInLoop
<1>6. QED
  BY <1>4, <1>5

LEMMA CancelOldestAccounts ==
  ASSUME EngineInv, HistoryInv, Constant, Shows, CancelOldest
  PROVE  \A id \in OrderIds : Accounted(id)'
<1>1. /\ Matching /\ CanMatch /\ RemoveOrder(Maker)
      /\ UNCHANGED <<stops, pc, taker, stp_mode>>
      /\ Emit(<<Cancelled(Maker, MakerRemaining),
                BookUpdate(Facing, RestingPrice, LevelQtyAfter(Facing, RestingPrice))>>)
  BY DEF CancelOldest
<1>2. ledger' = [ledger EXCEPT ![Maker] = @ - MakerRemaining] /\ pc = "Match"
  BY <1>1, Told DEF HistoryInv, Matching
<1>3. Maker \notin DOMAIN orders' /\ \A id : id # Maker => BookSame(id)
  BY <1>1, UnlinkLeaves DEF RemoveOrder
<1>4. ASSUME NEW x, x = Maker PROVE Accounted(x)'
  <2>1. /\ x \in DOMAIN orders /\ x \in OrderIds /\ ~InHand(x) /\ MakerRemaining \in Nat
        /\ Backs(stp_mode, ledger[x], MakerRemaining)
    BY <1>1, <1>4, LoopPlaces
  <2>2. ledger'[x] = ledger[x] - MakerRemaining
    BY <1>2, <1>4, <2>1 DEF HistoryInv
  <2>3. ~InHand(x)' /\ Backs(stp_mode', ledger'[x], 0)
    <3>1. Backs(stp_mode, ledger[x] - MakerRemaining, MakerRemaining - MakerRemaining)
      BY <2>1, BacksLess
    <3>2. MakerRemaining - MakerRemaining = 0
      BY <2>1
    <3>3. QED
      BY <1>1, <2>1, <2>2, <3>1, <3>2 DEF InHand
  <2>4. QED
    BY <1>1, <1>3, <1>4, <2>1, <2>3, MakerGone
<1>5. ASSUME NEW id \in OrderIds, id # Maker PROVE Accounted(id)'
  <2>1. ledger'[id] = ledger[id]
    BY <1>2, <1>5 DEF HistoryInv
  <2>2. QED
    BY <1>1, <1>2, <1>3, <1>5, <2>1, OthersInLoop
<1>6. QED
  BY <1>4, <1>5

LEMMA CancelBothAccounts ==
  ASSUME EngineInv, HistoryInv, Constant, Shows, CancelBoth
  PROVE  \A id \in OrderIds : Accounted(id)'
<1>1. /\ Matching /\ CanMatch /\ RemoveOrder(Maker) /\ Finish /\ UNCHANGED stops
      /\ Emit(<<Cancelled(Maker, MakerRemaining),
                BookUpdate(Facing, RestingPrice, LevelQtyAfter(Facing, RestingPrice)),
                Cancelled(taker.id, taker.qty)>>)
  BY DEF CancelBoth
<1>2. /\ pc = "Match"
      /\ \E l : /\ l = [ledger EXCEPT ![Maker] = @ - MakerRemaining]
                /\ ledger' = [l EXCEPT ![taker.id] = @ - taker.qty]
  <2> DEFINE m == Maker
             o == MakerRemaining
             u == Facing
             p == RestingPrice
             r == LevelQtyAfter(Facing, RestingPrice)
             x == taker.id
             q == taker.qty
  <2>1. Emit(<<Cancelled(m, o), BookUpdate(u, p, r), Cancelled(x, q)>>)
    BY <1>1
  <2> HIDE DEF m, o, u, p, r, x, q
  <2>2. EventsAreASequence
    BY DEF HistoryInv
  <2>3. \E l : l = [ledger EXCEPT ![m] = @ - o] /\ ledger' = [l EXCEPT ![x] = @ - q]
    BY <2>1, <2>2, Told
  <2>4. QED
    BY <1>1, <2>3 DEF m, o, x, q, Matching
<1>3. Maker \notin DOMAIN orders' /\ \A id : id # Maker => BookSame(id)
  BY <1>1, UnlinkLeaves DEF RemoveOrder
<1>4. ASSUME NEW x, x = Maker, NEW t, t = taker.id
      PROVE  /\ ledger'[x] = ledger[x] - MakerRemaining /\ ledger'[t] = ledger[t] - taker.qty
             /\ Backs(stp_mode, ledger'[x], 0) /\ Backs(stp_mode, ledger'[t], 0)
  <2>1. /\ x \in OrderIds /\ t \in OrderIds /\ x # t /\ MakerRemaining \in Nat /\ taker.qty \in Nat
        /\ Backs(stp_mode, ledger[x], MakerRemaining) /\ Backs(stp_mode, ledger[t], taker.qty)
    BY <1>1, <1>4, LoopPlaces
  <2>2. ledger'[x] = ledger[x] - MakerRemaining /\ ledger'[t] = ledger[t] - taker.qty
    BY <1>2, <1>4, <2>1 DEF HistoryInv
  <2>3. /\ Backs(stp_mode, ledger[x] - MakerRemaining, MakerRemaining - MakerRemaining)
        /\ Backs(stp_mode, ledger[t] - taker.qty, taker.qty - taker.qty)
    BY <2>1, BacksLess
  <2>4. MakerRemaining - MakerRemaining = 0 /\ taker.qty - taker.qty = 0
    BY <2>1
  <2>5. QED
    BY <2>2, <2>3, <2>4
<1>5. ASSUME NEW x, x = Maker PROVE Accounted(x)'
  <2>1. x \in DOMAIN orders /\ x \in OrderIds /\ ~InHand(x)'
    BY <1>1, <1>2, <1>5, LoopPlaces, HandIsEmpty
  <2>2. Backs(stp_mode', ledger'[x], 0)
    BY <1>4, <1>5 DEF Constant
  <2>3. QED
    BY <1>1, <1>3, <1>5, <2>1, <2>2, MakerGone
<1>6. ASSUME NEW t, t = taker.id PROVE Accounted(t)'
  <2>1. t # Maker /\ t \notin DOMAIN orders
    BY <1>1, <1>6, LoopPlaces
  <2>2. t \notin DOMAIN orders'
    BY <1>3, <2>1 DEF BookSame
  <2>3. QED
    BY <1>1, <1>2, <1>4, <1>6, <2>2, TakerGone
<1>7. ASSUME NEW id \in OrderIds, id # Maker, id # taker.id PROVE Accounted(id)'
  <2>1. ledger'[id] = ledger[id] /\ WaitSame(id)
    BY <1>1, <1>2, <1>7, StopsUntouched DEF HistoryInv, WaitSame
  <2>2. QED
    BY <1>1, <1>2, <1>3, <1>7, <2>1, OthersAfterFinish
<1>8. QED
  BY <1>5, <1>6, <1>7

\* DecrementAndCancel: the stream says nothing of what it takes off the maker.
LEMMA DecrementAccounts ==
  ASSUME EngineInv, HistoryInv, Constant, Shows, DecrementAndCancel
  PROVE  \A id \in OrderIds : Accounted(id)'
<1> DEFINE overlap == Least(taker.qty, MakerRemaining)
<1>1. /\ Matching /\ CanMatch /\ Finish /\ UNCHANGED stops /\ stp_mode = "DecrementAndCancel"
      /\ MakerRemaining > 0
      /\ IF overlap = MakerRemaining THEN RemoveOrder(Maker) ELSE ReduceOrderQty(Maker, overlap)
      /\ Emit(<<BookUpdate(Facing, RestingPrice, LevelQtyAfter(Facing, RestingPrice)),
                Cancelled(taker.id, taker.qty - overlap)>>)
  BY DEF DecrementAndCancel
<1>2. pc = "Match" /\ ledger' = [ledger EXCEPT ![taker.id] = @ - (taker.qty - overlap)]
  <2>1. EventsAreASequence /\ pc = "Match"
    BY <1>1 DEF HistoryInv, Matching
  <2> HIDE DEF overlap
  <2>2. QED
    BY <1>1, <2>1, Told
<1>3. overlap \in 1 .. MakerRemaining /\ overlap <= taker.qty /\ taker.qty \in Nat
      /\ MakerRemaining \in Nat
  <2>1. taker.qty \in Nat /\ taker.qty > 0 /\ MakerRemaining \in Nat
    BY <1>1, LoopPlaces DEF CanMatch
  <2>2. QED
    BY <1>1, <2>1 DEF Least
<1> HIDE DEF overlap
<1>4. ASSUME NEW x, x = Maker
      PROVE  /\ \A id : id # x => BookSame(id)
             /\ x \in DOMAIN orders' => /\ orders'[x].terms = orders[x].terms
                                        /\ Remaining(orders'[x]) = MakerRemaining - overlap
  <2>1. x \in DOMAIN orders /\ MakerRemaining = Remaining(orders[x]) /\ BookInv
    BY <1>1, <1>4, LoopPlaces DEF EngineInv
  <2>2. CASE RemoveOrder(x)
    BY <2>2, UnlinkLeaves DEF RemoveOrder
  <2>3. CASE ReduceOrderQty(x, overlap)
    BY <1>3, <2>1, <2>3, ConsumeLeaves DEF ReduceOrderQty
  <2>4. QED
    BY <1>1, <1>4, <2>2, <2>3
<1>5. ASSUME NEW x, x = Maker, NEW t, t = taker.id
      PROVE  /\ ledger'[x] = ledger[x] /\ ledger'[t] = ledger[t] - (taker.qty - overlap)
             /\ Backs(stp_mode, ledger'[x], 0) /\ Backs(stp_mode, ledger'[t], 0)
             /\ Backs(stp_mode, ledger'[x], MakerRemaining - overlap)
  <2>1. /\ x \in OrderIds /\ t \in OrderIds /\ x # t
        /\ Backs(stp_mode, ledger[x], MakerRemaining) /\ Backs(stp_mode, ledger[t], taker.qty)
    BY <1>1, <1>5, LoopPlaces
  <2>2. ledger'[x] = ledger[x] /\ ledger'[t] = ledger[t] - (taker.qty - overlap)
    BY <1>2, <1>5, <2>1 DEF HistoryInv
  <2>3. /\ ledger[x] \in Int /\ ledger[t] \in Int
        /\ ledger[x] >= MakerRemaining /\ ledger[t] >= taker.qty
    BY <1>1, <2>1 DEF Backs
  <2>4. ledger'[x] \in Int /\ ledger'[t] \in Int /\ ledger'[x] >= 0 /\ ledger'[t] >= 0
        /\ ledger'[x] >= MakerRemaining - overlap
    BY <1>3, <2>2, <2>3
  <2>5. QED
    BY <1>1, <2>2, <2>4 DEF Backs
<1>6. ASSUME NEW x, x = Maker PROVE Accounted(x)'
  <2>1. x \in DOMAIN orders /\ x \in OrderIds /\ ~InHand(x)'
    BY <1>1, <1>2, <1>6, LoopPlaces, HandIsEmpty
  <2>2. /\ Backs(stp_mode', ledger'[x], 0)
        /\ Backs(stp_mode, ledger'[x], MakerRemaining - overlap)
    BY <1>5, <1>6 DEF Constant
  <2>3. CASE x \notin DOMAIN orders'
    BY <1>1, <2>1, <2>2, <2>3, MakerGone
  <2>4. CASE x \in DOMAIN orders'
    <3>1. /\ orders'[x].terms = orders[x].terms
          /\ Backs(stp_mode, ledger'[x], Remaining(orders'[x]))
      BY <1>4, <1>6, <2>2, <2>4
    <3>2. QED
      BY <1>1, <2>1, <2>4, <3>1, MakerStays
  <2>5. QED
    BY <2>3, <2>4
<1>7. ASSUME NEW t, t = taker.id PROVE Accounted(t)'
  <2>1. t # Maker /\ t \notin DOMAIN orders
    BY <1>1, <1>7, LoopPlaces
  <2>2. t \notin DOMAIN orders'
    BY <1>4, <2>1 DEF BookSame
  <2>3. QED
    BY <1>1, <1>2, <1>5, <1>7, <2>2, TakerGone
<1>8. ASSUME NEW id \in OrderIds, id # Maker, id # taker.id PROVE Accounted(id)'
  <2>1. ledger'[id] = ledger[id] /\ WaitSame(id) /\ BookSame(id)
    BY <1>1, <1>2, <1>4, <1>8, StopsUntouched DEF HistoryInv, WaitSame
  <2>2. QED
    BY <1>1, <1>2, <1>8, <2>1, OthersAfterFinish
<1>9. QED
  BY <1>6, <1>7, <1>8

LEMMA FillMakerAccounts ==
  ASSUME EngineInv, HistoryInv, Constant, Shows, FillMaker
  PROVE  \A id \in OrderIds : Accounted(id)'
<1> DEFINE q == Least(taker.qty, MatchableQty(orders[Maker]))
<1>1. /\ Matching /\ CanMatch /\ MakerRemaining > 0 /\ FillOrder(Maker, q)
      /\ taker' = [taker EXCEPT !.qty = @ - q]
      /\ UNCHANGED <<stops, pc>>
      /\ Emit(<<Fill(Maker, taker.id, RestingPrice, q),
                BookUpdate(Facing, RestingPrice, LevelQtyAfter(Facing, RestingPrice))>>)
  BY DEF FillMaker
<1>2. q \in 1 .. MakerRemaining /\ q <= taker.qty
  BY <1>1, FillQuantity DEF EngineInv, MakerRemaining
<1> HIDE DEF q
<1>3. pc = "Match" /\ ledger' = [ledger EXCEPT ![Maker] = @ - q, ![taker.id] = @ - q]
  <2>1. EventsAreASequence /\ pc = "Match"
    BY <1>1 DEF HistoryInv, Matching
  <2>2. QED
    BY <1>1, <2>1, Told
<1>4. taker'.id = taker.id /\ taker'.terms = taker.terms /\ taker'.qty = taker.qty - q
  <2>1. taker \in OrderCommand
    BY <1>3, TakerType DEF EngineInv
  <2>2. QED
    BY <1>1, <2>1 DEF OrderCommand
<1>5. ASSUME NEW x, x = Maker, NEW t, t = taker.id
      PROVE  /\ Backs(stp_mode, ledger'[x], MakerRemaining - q)
             /\ Backs(stp_mode, ledger'[t], taker.qty - q)
  <2>1. /\ x \in OrderIds /\ t \in OrderIds /\ x # t /\ MakerRemaining \in Nat /\ taker.qty \in Nat
        /\ Backs(stp_mode, ledger[x], MakerRemaining) /\ Backs(stp_mode, ledger[t], taker.qty)
    BY <1>1, <1>5, LoopPlaces
  <2>2. ledger'[x] = ledger[x] - q /\ ledger'[t] = ledger[t] - q
    BY <1>3, <1>5, <2>1 DEF HistoryInv
  <2>3. q \in Int /\ MakerRemaining \in Int /\ taker.qty \in Int
    BY <1>2, <2>1
  <2>4. QED
    BY <2>1, <2>2, <2>3, BacksLess
<1>6. ASSUME NEW x, x = Maker
      PROVE  /\ x \in DOMAIN orders /\ x \in OrderIds /\ ~InHand(x)
             /\ \A id : id # x => BookSame(id)
             /\ x \in DOMAIN orders' => /\ orders'[x].terms = orders[x].terms
                                        /\ Remaining(orders'[x]) = MakerRemaining - q
             /\ x \notin DOMAIN orders' => q = MakerRemaining
  <2>1. /\ x \in DOMAIN orders /\ x \in OrderIds /\ ~InHand(x)
        /\ MakerRemaining = Remaining(orders[x]) /\ BookInv
    BY <1>1, <1>6, LoopPlaces DEF EngineInv
  <2>2. FillOrder(x, q) /\ q \in 1 .. Remaining(orders[x])
    BY <1>1, <1>2, <1>6, <2>1
  <2>3. QED
    BY <2>1, <2>2, FillLeaves
<1>7. ASSUME NEW x, x = Maker PROVE Accounted(x)'
  <2>1. /\ ~InHand(x)' /\ x \in DOMAIN orders /\ x \in OrderIds
    BY <1>1, <1>4, <1>6, <1>7 DEF InHand
  <2>2. CASE x \notin DOMAIN orders'
    <3>1. MakerRemaining - q = 0
      BY <1>2, <1>6, <1>7, <2>2
    <3>2. Backs(stp_mode', ledger'[x], 0)
      BY <1>5, <1>7, <3>1 DEF Constant
    <3>3. QED
      BY <1>1, <2>1, <2>2, <3>2, MakerGone
  <2>3. CASE x \in DOMAIN orders'
    <3>1. /\ orders'[x].terms = orders[x].terms
          /\ Backs(stp_mode, ledger'[x], Remaining(orders'[x]))
      BY <1>5, <1>6, <1>7, <2>3
    <3>2. QED
      BY <1>1, <2>1, <2>3, <3>1, MakerStays
  <2>4. QED
    BY <2>2, <2>3
<1>8. ASSUME NEW t, t = taker.id PROVE Accounted(t)'
  <2>1. /\ t # Maker /\ t \notin DOMAIN orders /\ ~(t > submitted) /\ \A e \in Waiters : e.id # t
        /\ t \notin modified => taker.terms.stp_group = declared[t]
    BY <1>1, <1>3, <1>8, LoopPlaces, TakerPlace
  <2>2. t \notin DOMAIN orders'
    BY <1>6, <2>1 DEF BookSame
  <2>3. InHand(t)' /\ Unspent' = taker.qty - q
    BY <1>1, <1>3, <1>4, <1>8 DEF InHand, Unspent
  <2>4. Backs(stp_mode', ledger'[t], Unspent')
    BY <1>5, <1>8, <2>3 DEF Constant
  <2>5. /\ \A e \in Waiters' : e.id # t
        /\ ~(t > submitted') /\ (t \notin modified' => taker'.terms.stp_group = declared'[t])
    BY <1>1, <1>4, <2>1, StopsUntouched DEF Constant
  <2>6. QED
    BY <2>2, <2>3, <2>4, <2>5, AtHand
<1>9. ASSUME NEW id \in OrderIds, id # Maker, id # taker.id PROVE Accounted(id)'
  <2>1. ledger'[id] = ledger[id] /\ BookSame(id)
    BY <1>3, <1>6, <1>9 DEF HistoryInv
  <2>2. QED
    BY <1>1, <1>3, <1>4, <1>9, <2>1, OthersInLoop
<1>10. QED
  BY <1>7, <1>8, <1>9

LEMMA HandleRemainderAccounts ==
  ASSUME Capacity >= MaxOrders, EngineInv, HistoryInv, Constant, Shows, HandleRemainder
  PROVE  \A id \in OrderIds : Accounted(id)'
<1>1. pc = "Rest" /\ Finish /\ UNCHANGED stops
  BY DEF HandleRemainder
<1>2. /\ taker.id \in OrderIds /\ taker.id \notin DOMAIN orders /\ taker.qty \in Nat
      /\ Backs(stp_mode, ledger[taker.id], taker.qty)
  BY <1>1, TakerPlace, TakerType DEF EngineInv, Unspent
<1>3. \A id : WaitSame(id)
  BY <1>1, StopsUntouched DEF WaitSame
<1>4. CASE taker.qty = 0 /\ UNCHANGED <<book, events>>
  <2>1. ledger' = ledger /\ \A id : BookSame(id)
    BY <1>4, Shown, BookUntouchedSame DEF HistoryInv
  <2>2. ASSUME NEW x, x = taker.id PROVE Accounted(x)'
    <3>1. x \notin DOMAIN orders' /\ Backs(stp_mode, ledger'[x], 0)
      BY <1>2, <1>4, <2>1, <2>2 DEF BookSame
    <3>2. QED
      BY <1>1, <2>2, <3>1, TakerGone
  <2>3. QED
    BY <1>1, <1>3, <2>1, <2>2, OthersAfterFinish
<1>5. CASE /\ InsertOrder(taker.id, taker.side, taker.price, taker.qty, RestingTerms(taker))
           /\ Emit(<<BookUpdate(taker.side, taker.price, taker.qty)>>)
  <2>1. ledger' = ledger
    BY <1>5, Told DEF HistoryInv
  <2>2. /\ taker.id \in DOMAIN orders' /\ orders'[taker.id].terms = RestingTerms(taker)
        /\ Remaining(orders'[taker.id]) = taker.qty
        /\ \A id : id # taker.id => BookSame(id)
    <3>1. Insertable(taker.id)
      BY <1>2, RoomForTaker DEF EngineInv
    <3>2. QED
      BY <1>2, <1>5, <3>1, InsertArrives
  <2>3. ASSUME NEW x, x = taker.id PROVE Accounted(x)'
    <3>1. Backs(stp_mode, ledger'[x], Remaining(orders'[x]))
      BY <1>2, <2>1, <2>2, <2>3
    <3>2. QED
      BY <1>1, <2>2, <2>3, <3>1, TakerRested
  <2>4. QED
    BY <1>1, <1>3, <2>1, <2>2, <2>3, OthersAfterFinish
<1>6. CASE Emit(<<Cancelled(taker.id, taker.qty)>>) /\ UNCHANGED book
  <2>1. ledger' = [ledger EXCEPT ![taker.id] = @ - taker.qty]
    BY <1>6, Told DEF HistoryInv
  <2>2. \A id : BookSame(id)
    BY <1>6, BookUntouchedSame
  <2>3. ASSUME NEW x, x = taker.id PROVE Accounted(x)'
    <3>1. ledger'[x] = ledger[x] - taker.qty
      BY <1>2, <2>1, <2>3 DEF HistoryInv
    <3>2. Backs(stp_mode, ledger[x] - taker.qty, taker.qty - taker.qty)
      BY <1>2, <2>3, BacksLess
    <3>3. taker.qty - taker.qty = 0
      BY <1>2
    <3>4. x \notin DOMAIN orders' /\ Backs(stp_mode, ledger'[x], 0)
      BY <1>2, <2>2, <2>3, <3>1, <3>2, <3>3 DEF BookSame
    <3>5. QED
      BY <1>1, <2>3, <3>4, TakerGone
  <2>4. ASSUME NEW id \in OrderIds, id # taker.id PROVE Accounted(id)'
    <3>1. ledger'[id] = ledger[id]
      BY <2>1, <2>4 DEF HistoryInv
    <3>2. QED
      BY <1>1, <1>3, <2>2, <2>4, <3>1, OthersAfterFinish
  <2>5. QED
    BY <2>3, <2>4
<1>7. QED
  BY <1>4, <1>5, <1>6 DEF HandleRemainder

LEMMA DrainAccounts ==
  ASSUME EngineInv, HistoryInv, Constant, Shows, DrainStart \/ \E s \in Side : DrainDone(s)
  PROVE  \A id \in OrderIds : Accounted(id)'
<1>1. /\ pc \in {"Drain"} \cup Side /\ pc' \in {"Idle", "Drain"} \cup Side
      /\ UNCHANGED <<book, stops, taker, events>>
  BY DEF DrainStart, DrainDone, AfterScan, Side
<1>2. ledger' = ledger /\ \A id : BookSame(id) /\ WaitSame(id)
  BY <1>1, Shown, BookUntouchedSame, StopsUntouched DEF HistoryInv, WaitSame
<1>3. ASSUME NEW id \in OrderIds PROVE Accounted(id)'
  <2>1. HandSame(id) /\ SaidSame(id)
    BY <1>1, <1>2 DEF HandSame, InHand, SaidSame, Constant, Side
  <2>2. QED
    BY <1>2, <2>1, UntouchedStays DEF HistoryInv
<1>4. QED
  BY <1>3

\* A stop order that is triggered comes into the hands of process_new_order.
LEMMA TriggerStopAccounts ==
  ASSUME EngineInv, HistoryInv, Constant, Shows, NEW s \in Side, TriggerStop(s)
  PROVE  \A id \in OrderIds : Accounted(id)'
<1> DEFINE e == Head(stops[s])
<1>1. /\ pc = s /\ pc' = "New" /\ UNCHANGED book /\ stops[s] # <<>>
      /\ taker' = [e EXCEPT !.order_type = "Limit", !.stop_price = NONE]
      /\ Emit(<<StopTriggered(e.id)>>)
      /\ stops' = [stops EXCEPT ![s] = Tail(@)]
  BY DEF TriggerStop, HeadTriggered
<1>2. StopsOK /\ StopsApart
  BY StateParts DEF EngineInv, HistoryInv
<1>3. /\ e \in Waiters /\ e \in OrderCommand
      /\ \A w : w.id = e.id => w \notin Waiters'
      /\ \A w : w.id # e.id => (w \in Waiters' <=> w \in Waiters)
  BY <1>1, <1>2, StopLeaves
<1> HIDE DEF e
<1>4. ledger' = [ledger EXCEPT ![e.id] = 0]
  BY <1>1, Told DEF HistoryInv
<1>5. taker'.id = e.id /\ taker'.terms = e.terms /\ e.id \in OrderIds
  BY <1>1, <1>3 DEF OrderCommand
<1>6. \A id : BookSame(id) /\ ~InHand(id)
  BY <1>1, BookUntouchedSame DEF InHand, Side
<1>7. ASSUME NEW x, x = e.id PROVE Accounted(x)'
  <2>1. Accounted(x) /\ x \in OrderIds
    BY <1>5, <1>7 DEF HistoryInv
  <2>2. /\ x \notin DOMAIN orders /\ ~(x > submitted)
        /\ x \notin modified => e.terms.stp_group = declared[x]
    BY <1>3, <1>7, <2>1 DEF Accounted, Nowhere
  <2>3. x \notin DOMAIN orders' /\ InHand(x)' /\ ~(x > submitted')
    BY <1>1, <1>5, <1>6, <1>7, <2>2 DEF BookSame, InHand, Constant
  <2>4. \A w \in Waiters' : w.id # x
    BY <1>3, <1>7
  <2>5. Unspent' = 0 /\ ledger'[x] = 0
    BY <1>1, <1>4, <1>7, <2>1 DEF Unspent, HistoryInv
  <2>6. Backs(stp_mode', ledger'[x], Unspent')
    BY <2>5, BacksExactly
  <2>7. x \notin modified' => taker'.terms.stp_group = declared'[x]
    BY <1>5, <2>2 DEF Constant
  <2>8. QED
    BY <2>3, <2>4, <2>6, <2>7, AtHand
<1>8. ASSUME NEW id \in OrderIds, id # e.id PROVE Accounted(id)'
  <2>1. WaitSame(id)
    BY <1>3, <1>8 DEF WaitSame
  <2>2. HandSame(id)
    BY <1>5, <1>6, <1>8 DEF HandSame, InHand
  <2>3. SaidSame(id)
    BY <1>4, <1>8 DEF SaidSame, Constant, HistoryInv
  <2>4. QED
    BY <1>6, <2>1, <2>2, <2>3, UntouchedStays DEF HistoryInv
<1>9. QED
  BY <1>7, <1>8

\* A step of a call leaves the configuration and what the commands said alone.
LEMMA StepConstant == HStep => Constant /\ Shows
<1> SUFFICES ASSUME HStep PROVE Constant /\ Shows
  OBVIOUS
<1>1. UNCHANGED <<declared, modified>> /\ Shows /\ Step
  BY DEF HStep, Shows
<1>2. UNCHANGED <<stp_mode, submitted>>
  <2>1. CASE PostOnly
    BY <2>1 DEF PostOnly, Reject, Finish
  <2>2. CASE StopLimit
    BY <2>2 DEF StopLimit, Reject, Finish
  <2>3. CASE Validate
    BY <2>3 DEF Validate, Reject, Finish
  <2>4. CASE StopMatching
    BY <2>4 DEF StopMatching
  <2>5. CASE DropStaleMaker
    BY <2>5 DEF DropStaleMaker, engine
  <2>6. CASE CancelOldest
    BY <2>6 DEF CancelOldest
  <2>7. CASE CancelBoth
    BY <2>7 DEF CancelBoth, Finish
  <2>8. CASE DecrementAndCancel
    BY <2>8 DEF DecrementAndCancel, Finish
  <2>9. CASE FillMaker
    BY <2>9 DEF FillMaker
  <2>10. CASE HandleRemainder
    BY <2>10 DEF HandleRemainder, Finish
  <2>11. CASE DrainStart
    BY <2>11 DEF DrainStart
  <2>12. CASE \E s \in Side : TriggerStop(s) \/ DrainDone(s)
    BY <2>12 DEF TriggerStop, DrainDone
  <2>13. QED
    BY <1>1, <2>1, <2>2, <2>3, <2>4, <2>5, <2>6, <2>7, <2>8, <2>9, <2>10, <2>11, <2>12 DEF Step
<1>3. QED
  BY <1>1, <1>2 DEF Constant

LEMMA StepAccounts ==
  ASSUME Capacity >= MaxOrders, EngineInv, HistoryInv, HStep
  PROVE  \A id \in OrderIds : Accounted(id)'
<1>1. Constant /\ Shows /\ Step
  BY StepConstant DEF HStep
<1>2. CASE PostOnly \/ StopLimit \/ Validate
  BY <1>1, <1>2, PostOnlyAccounts, StopLimitAccounts, ValidateAccounts
<1>3. CASE StopMatching \/ DropStaleMaker \/ FillMaker
  BY <1>1, <1>3, StopMatchingAccounts, DropStaleMakerAccounts, FillMakerAccounts
<1>4. CASE CancelOldest \/ CancelBoth \/ DecrementAndCancel
  BY <1>1, <1>4, CancelOldestAccounts, CancelBothAccounts, DecrementAccounts
<1>5. CASE HandleRemainder
  BY <1>1, <1>5, HandleRemainderAccounts
<1>6. CASE DrainStart \/ \E s \in Side : DrainDone(s)
  BY <1>1, <1>6, DrainAccounts
<1>7. CASE \E s \in Side : TriggerStop(s)
  BY <1>1, <1>7, TriggerStopAccounts
<1>8. QED
  BY <1>1, <1>2, <1>3, <1>4, <1>5, <1>6, <1>7 DEF Step

LEMMA StepKeepsStopsApart ==
  ASSUME EngineInv, HistoryInv, Step
  PROVE  StopsApart'
<1>1. CASE UNCHANGED stops
  BY <1>1, StopsUntouched DEF HistoryInv
<1>2. CASE StopLimit
  <2>1. CASE \E why : Reject(why)
    BY <1>1, <2>1 DEF Reject
  <2>2. CASE ~\E why : Reject(why)
    BY <1>2, <2>2, StopWaits DEF StopLimit
  <2>3. QED
    BY <2>1, <2>2
<1>3. CASE \E s \in Side : TriggerStop(s)
  <2>1. PICK s \in Side : TriggerStop(s)
    BY <1>3
  <2>2. stops[s] # <<>> /\ stops' = [stops EXCEPT ![s] = Tail(@)]
    BY <2>1 DEF TriggerStop, HeadTriggered
  <2>3. StopsOK /\ StopsApart
    BY StateParts DEF EngineInv, HistoryInv
  <2>4. QED
    BY <2>2, <2>3, StopLeaves
<1>4. CASE PostOnly \/ Validate
  BY <1>1, <1>4 DEF PostOnly, Validate, Reject
<1>5. CASE StopMatching \/ DropStaleMaker \/ CancelOldest \/ CancelBoth \/ DecrementAndCancel
  BY <1>1, <1>5 DEF StopMatching, DropStaleMaker, CancelOldest, CancelBoth, DecrementAndCancel, engine
<1>6. CASE FillMaker \/ HandleRemainder \/ DrainStart \/ \E s \in Side : DrainDone(s)
  BY <1>1, <1>6 DEF FillMaker, HandleRemainder, DrainStart, DrainDone
<1>7. QED
  BY <1>2, <1>3, <1>4, <1>5, <1>6 DEF Step

-----------------------------------------------------------------------------
(* The fills of a call. *)

LEMMA AccountKeepsDomain == \A l, e : DOMAIN Account(l, e) = DOMAIN l
BY DEF Account

LEMMA NoFillAmong ==
  /\ \A x, q : Accepted(x, q).kind # "Fill" /\ Cancelled(x, q).kind # "Fill"
  /\ \A x, why : Rejected(x, why).kind # "Fill"
  /\ \A x : Modified(x).kind # "Fill" /\ StopTriggered(x).kind # "Fill"
  /\ \A u, p, r : BookUpdate(u, p, r).kind # "Fill"
BY DEF Accepted, Rejected, Cancelled, Modified, BookUpdate, StopTriggered

\* A step that reports no fill adds none.
LEMMA QuietStep ==
  ASSUME HistoryInv, Constant, Shows
  PROVE  /\ UNCHANGED events => FillsApart' /\ DOMAIN ledger' = OrderIds
         /\ \A a : a.kind # "Fill" /\ Emit(<<a>>) => FillsApart' /\ DOMAIN ledger' = OrderIds
         /\ \A a, b : a.kind # "Fill" /\ b.kind # "Fill" /\ Emit(<<a, b>>) =>
              FillsApart' /\ DOMAIN ledger' = OrderIds
         /\ \A a, b, c : a.kind # "Fill" /\ b.kind # "Fill" /\ c.kind # "Fill" /\ Emit(<<a, b, c>>) =>
              FillsApart' /\ DOMAIN ledger' = OrderIds
<1>1. /\ EventsAreASequence /\ DOMAIN ledger = OrderIds
      /\ declared' = declared /\ modified' = modified
      /\ \A e \in ToSet(events) :
           e.kind = "Fill" /\ {e.maker, e.taker} \cap modified = {} => ~SameGroup(e.maker, e.taker)
  BY DEF HistoryInv, Constant, FillsApart
<1>2. ASSUME \A e \in ToSet(events') : e.kind = "Fill" => e \in ToSet(events) PROVE FillsApart'
  <2>1. \A a, b : SameGroup(a, b)' <=> SameGroup(a, b)
    BY <1>1 DEF SameGroup
  <2>2. \A e \in ToSet(events') :
          e.kind = "Fill" /\ {e.maker, e.taker} \cap modified' = {} => ~SameGroup(e.maker, e.taker)
    BY <1>1, <1>2
  <2>3. QED
    BY <1>1, <2>2 DEF FillsApart, SameGroup
<1>3. ASSUME UNCHANGED events PROVE FillsApart' /\ DOMAIN ledger' = OrderIds
  <2>1. ToSet(events') = ToSet(events) /\ ledger' = ledger
    BY <1>1, <1>3, Shown DEF ToSet
  <2>2. QED
    BY <1>1, <1>2, <2>1
<1>4. ASSUME NEW a, a.kind # "Fill", Emit(<<a>>) PROVE FillsApart' /\ DOMAIN ledger' = OrderIds
  <2>1. ledger' = Account(ledger, a) /\ ToSet(events') = ToSet(events) \cup {a}
    BY <1>1, <1>4, Shown
  <2>2. QED
    BY <1>1, <1>2, <1>4, <2>1, AccountKeepsDomain
<1>5. ASSUME NEW a, NEW b, a.kind # "Fill", b.kind # "Fill", Emit(<<a, b>>)
      PROVE  FillsApart' /\ DOMAIN ledger' = OrderIds
  <2>1. /\ ledger' = Account(Account(ledger, a), b)
        /\ ToSet(events') = ToSet(events) \cup {a, b}
    BY <1>1, <1>5, Shown
  <2>2. QED
    BY <1>1, <1>2, <1>5, <2>1, AccountKeepsDomain
<1>6. ASSUME NEW a, NEW b, NEW c, a.kind # "Fill", b.kind # "Fill", c.kind # "Fill", Emit(<<a, b, c>>)
      PROVE  FillsApart' /\ DOMAIN ledger' = OrderIds
  <2>1. /\ ledger' = Account(Account(Account(ledger, a), b), c)
        /\ ToSet(events') = ToSet(events) \cup {a, b, c}
    BY <1>1, <1>6, Shown
  <2>2. QED
    BY <1>1, <1>2, <1>6, <2>1, AccountKeepsDomain
<1>7. QED
  BY <1>3, <1>4, <1>5, <1>6

\* The one step that reports a fill has looked at the groups of both orders.
LEMMA FillMakerApart ==
  ASSUME EngineInv, HistoryInv, Constant, Shows, FillMaker
  PROVE  FillsApart' /\ DOMAIN ledger' = OrderIds
<1> DEFINE q == Least(taker.qty, MatchableQty(orders[Maker]))
           f == Fill(Maker, taker.id, RestingPrice, q)
           u == BookUpdate(Facing, RestingPrice, LevelQtyAfter(Facing, RestingPrice))
<1>1. Matching /\ CanMatch /\ ~SelfTrade /\ Emit(<<f, u>>)
  BY DEF FillMaker
<1>2. f.kind = "Fill" /\ f.maker = Maker /\ f.taker = taker.id /\ u.kind # "Fill"
  BY DEF Fill, BookUpdate
<1> HIDE DEF f, u
<1>3. /\ EventsAreASequence /\ DOMAIN ledger = OrderIds
      /\ declared' = declared /\ modified' = modified
  BY DEF HistoryInv, Constant
<1>4. /\ ledger' = Account(Account(ledger, f), u)
      /\ ToSet(events') = ToSet(events) \cup {f, u}
  BY <1>1, <1>3, Shown
<1>5. {f.maker, f.taker} \cap modified = {} => ~SameGroup(f.maker, f.taker)
  <2> DEFINE x == Maker
             t == taker.id
  <2>1. /\ x \notin modified => orders[x].terms.stp_group = declared[x]
        /\ t \notin modified => taker.terms.stp_group = declared[t]
    BY <1>1, LoopPlaces
  <2>2. orders[x].terms.stp_group = STP_NONE \/ orders[x].terms.stp_group # taker.terms.stp_group
    BY <1>1 DEF SelfTrade
  <2> HIDE DEF x, t
  <2>3. {x, t} \cap modified = {} => ~SameGroup(x, t)
    BY <2>1, <2>2 DEF SameGroup
  <2>4. QED
    BY <1>2, <2>3 DEF x, t
<1>6. \A e \in ToSet(events) :
        e.kind = "Fill" /\ {e.maker, e.taker} \cap modified = {} => ~SameGroup(e.maker, e.taker)
  BY DEF HistoryInv, FillsApart
<1>7. \A e \in ToSet(events') :
        e.kind = "Fill" /\ {e.maker, e.taker} \cap modified' = {} => ~SameGroup(e.maker, e.taker)
  BY <1>2, <1>3, <1>4, <1>5, <1>6
<1>8. FillsApart'
  BY <1>3, <1>7 DEF FillsApart, SameGroup
<1>9. QED
  BY <1>3, <1>4, <1>8, AccountKeepsDomain

LEMMA StepKeepsFillsApart ==
  ASSUME EngineInv, HistoryInv, HStep
  PROVE  FillsApart' /\ DOMAIN ledger' = OrderIds
<1> DEFINE Goal == FillsApart' /\ DOMAIN ledger' = OrderIds
<1>1. Constant /\ Shows /\ Step
  BY StepConstant DEF HStep
<1>2. ASSUME NEW why, Reject(why) PROVE Goal
  BY <1>1, <1>2, QuietStep, NoFillAmong DEF Reject
<1>3. CASE PostOnly
  <2>1. CASE Reject("WouldCrossSpread")
    BY <1>2, <2>1
  <2>2. CASE ~Reject("WouldCrossSpread")
    <3>1. Emit(<<Accepted(taker.id, taker.qty), BookUpdate(taker.side, taker.price, taker.qty)>>)
      BY <1>3, <2>2 DEF PostOnly
    <3>2. QED
      BY <1>1, <3>1, QuietStep, NoFillAmong
  <2>3. QED
    BY <2>1, <2>2
<1>4. CASE StopLimit \/ Validate
  <2>1. CASE \E why : Reject(why)
    BY <1>2, <2>1
  <2>2. CASE ~\E why : Reject(why)
    <3>1. Emit(<<Accepted(taker.id, taker.qty)>>)
      BY <1>4, <2>2 DEF StopLimit, Validate
    <3>2. QED
      BY <1>1, <3>1, QuietStep, NoFillAmong
  <2>3. QED
    BY <2>1, <2>2
<1>5. CASE StopMatching \/ DropStaleMaker \/ DrainStart \/ \E s \in Side : DrainDone(s)
  <2>1. UNCHANGED events
    BY <1>5 DEF StopMatching, DropStaleMaker, DrainStart, DrainDone, engine
  <2>2. QED
    BY <1>1, <2>1, QuietStep
<1>6. CASE CancelOldest
  <2>1. Emit(<<Cancelled(Maker, MakerRemaining),
               BookUpdate(Facing, RestingPrice, LevelQtyAfter(Facing, RestingPrice))>>)
    BY <1>6 DEF CancelOldest
  <2> DEFINE a == Cancelled(Maker, MakerRemaining)
             b == BookUpdate(Facing, RestingPrice, LevelQtyAfter(Facing, RestingPrice))
  <2>2. a.kind # "Fill" /\ b.kind # "Fill" /\ Emit(<<a, b>>)
    BY <2>1, NoFillAmong
  <2> HIDE DEF a, b
  <2>3. QED
    BY <1>1, <2>2, QuietStep
<1>7. CASE CancelBoth
  <2> DEFINE a == Cancelled(Maker, MakerRemaining)
             b == BookUpdate(Facing, RestingPrice, LevelQtyAfter(Facing, RestingPrice))
             c == Cancelled(taker.id, taker.qty)
  <2>1. a.kind # "Fill" /\ b.kind # "Fill" /\ c.kind # "Fill" /\ Emit(<<a, b, c>>)
    BY <1>7, NoFillAmong DEF CancelBoth
  <2> HIDE DEF a, b, c
  <2>2. QED
    BY <1>1, <2>1, QuietStep
<1>8. CASE DecrementAndCancel
  <2> DEFINE a == BookUpdate(Facing, RestingPrice, LevelQtyAfter(Facing, RestingPrice))
             b == Cancelled(taker.id, taker.qty - Least(taker.qty, MakerRemaining))
  <2>1. a.kind # "Fill" /\ b.kind # "Fill" /\ Emit(<<a, b>>)
    BY <1>8, NoFillAmong DEF DecrementAndCancel
  <2> HIDE DEF a, b
  <2>2. QED
    BY <1>1, <2>1, QuietStep
<1>9. CASE FillMaker
  BY <1>1, <1>9, FillMakerApart
<1>10. CASE HandleRemainder
  <2>1. CASE UNCHANGED events
    BY <1>1, <2>1, QuietStep
  <2>2. CASE Emit(<<BookUpdate(taker.side, taker.price, taker.qty)>>)
    BY <1>1, <2>2, QuietStep, NoFillAmong
  <2>3. CASE Emit(<<Cancelled(taker.id, taker.qty)>>)
    BY <1>1, <2>3, QuietStep, NoFillAmong
  <2>4. QED
    BY <1>10, <2>1, <2>2, <2>3 DEF HandleRemainder
<1>11. CASE \E s \in Side : TriggerStop(s)
  <2>1. \E x : Emit(<<StopTriggered(x)>>)
    BY <1>11 DEF TriggerStop
  <2>2. QED
    BY <1>1, <2>1, QuietStep, NoFillAmong
<1>12. QED
  BY <1>1, <1>3, <1>4, <1>5, <1>6, <1>7, <1>8, <1>9, <1>10, <1>11 DEF Step

-----------------------------------------------------------------------------
(* A new call. *)

HSubmit ==
  /\ Submit
  /\ Observe(events')
  /\ declared' = IF submitted' # submitted
                 THEN [declared EXCEPT ![taker'.id] = taker'.terms.stp_group] ELSE declared
  /\ modified' = modified \cup {e.id : e \in {x \in ToSet(events') : x.kind = "OrderModified"}}

\* A buffer without a fill joins no two orders.
LEMMA NoFillIsApart ==
  ASSUME \A e \in ToSet(events') : e.kind # "Fill"
  PROVE  FillsApart'
BY DEF FillsApart

LEMMA ReplyIs ==
  /\ ToSet(<<>>) = {}
  /\ \A a : ToSet(<<a>>) = {a}
  /\ \A a, b : ToSet(<<a, b>>) = {a, b}
<1>1. ToSet(<<>>) = {}
  BY DEF ToSet
<1>2. ASSUME NEW a PROVE ToSet(<<a>>) = {a}
  <2>1. <<a>> \in Seq({a}) /\ DOMAIN <<a>> = 1 .. 1
    OBVIOUS
  <2>2. QED
    BY <2>1 DEF ToSet
<1>3. ASSUME NEW a, NEW b PROVE ToSet(<<a, b>>) = {a, b}
  <2>1. <<a, b>> \in Seq({a, b}) /\ DOMAIN <<a, b>> = 1 .. 2
    OBVIOUS
  <2>2. QED
    BY <2>1 DEF ToSet
<1>4. QED
  BY <1>1, <1>2, <1>3

LEMMA SubmitNewAccounts ==
  ASSUME EngineInv, HistoryInv, HSubmit, NEW id \in OrderIds, NEW c \in NewOrders, SubmitNew(id, c)
  PROVE  /\ \A x \in OrderIds : Accounted(x)'
         /\ StopsApart' /\ FillsApart'
         /\ DOMAIN ledger' = OrderIds /\ DOMAIN declared' = OrderIds
<1>1. /\ pc = "Idle" /\ pc' = "New" /\ submitted' = submitted + 1 /\ events' = <<>>
      /\ taker' = Bind(c, "id", id) /\ UNCHANGED <<book, stops, stp_mode>>
      /\ id = submitted + 1 /\ submitted \in Nat /\ OrderIds \subseteq Nat
  BY HistoryAssumption, EngineAssumption DEF SubmitNew, EngineInv, EngineTypeOK
<1>2. c \in Command
  BY EngineAssumption
<1>3. taker'.id = id
  BY <1>1, <1>2, BindIsACommand
<1>4. ledger' = ledger
  BY <1>1, ObserveNothing DEF HSubmit
<1>5. submitted' # submitted
  BY <1>1
<1>6. /\ declared' = [declared EXCEPT ![id] = taker'.terms.stp_group]
      /\ modified \subseteq modified' /\ modified' = modified
  BY <1>1, <1>3, <1>5, ReplyIs DEF HSubmit
<1>7. \A x : BookSame(x) /\ WaitSame(x)
  BY <1>1, BookUntouchedSame, StopsUntouched DEF WaitSame
<1>8. ASSUME NEW x, x = id PROVE Accounted(x)'
  <2>1. x \in OrderIds /\ x > submitted /\ Accounted(x)
    BY <1>1, <1>8 DEF HistoryInv
  <2>2. Nowhere(x) /\ Backs(stp_mode, ledger[x], 0)
    BY <2>1 DEF Accounted
  <2>3. x \notin DOMAIN orders' /\ InHand(x)' /\ ~(x > submitted') /\ Unspent' = 0
    BY <1>1, <1>3, <1>7, <1>8, <2>2 DEF Nowhere, InHand, BookSame, Unspent
  <2>4. \A w \in Waiters' : w.id # x
    BY <1>1, <2>2, StopsUntouched DEF Nowhere
  <2>5. Backs(stp_mode', ledger'[x], Unspent')
    BY <1>1, <1>4, <2>2, <2>3
  <2>6. taker'.terms.stp_group = declared'[x]
    BY <1>6, <1>8, <2>1 DEF HistoryInv
  <2>7. QED
    BY <2>3, <2>4, <2>5, <2>6, AtHand
<1>9. ASSUME NEW x \in OrderIds, x # id PROVE Accounted(x)'
  <2>1. HandSame(x)
    BY <1>1, <1>3, <1>9 DEF HandSame, InHand
  <2>2. SaidSame(x)
    <3>1. x > submitted' => x > submitted
      BY <1>1
    <3>2. QED
      BY <1>1, <1>4, <1>6, <1>9, <3>1 DEF SaidSame, HistoryInv
  <2>3. QED
    BY <1>7, <2>1, <2>2, UntouchedStays DEF HistoryInv
<1>10. FillsApart'
  BY <1>1, NoFillIsApart, ReplyIs
<1>11. StopsApart'
  BY <1>1, StopsUntouched DEF HistoryInv
<1>12. QED
  BY <1>4, <1>6, <1>8, <1>9, <1>10, <1>11 DEF HistoryInv

\* An order that is on the book, so neither in hand nor waiting.
LEMMA RestingPlace ==
  ASSUME HistoryInv, NEW x \in OrderIds, x \in DOMAIN orders
  PROVE  /\ ~InHand(x) /\ ~(x > submitted) /\ \A e \in Waiters : e.id # x
         /\ Backs(stp_mode, ledger[x], Remaining(orders[x]))
<1>1. Accounted(x)
  BY DEF HistoryInv
<1>2. QED
  BY <1>1 DEF Accounted, Nowhere

\* A call that finds no such order.
LEMMA NotFoundAccounts ==
  ASSUME EngineInv, HistoryInv, HSubmit, NEW id \in OrderIds, pc = "Idle", pc' = "Drain",
         events' = <<Rejected(id, "OrderNotFound")>>,
         UNCHANGED <<book, stops, stp_mode, submitted, taker>>
  PROVE  /\ \A x \in OrderIds : Accounted(x)'
         /\ StopsApart' /\ FillsApart'
         /\ DOMAIN ledger' = OrderIds /\ DOMAIN declared' = OrderIds
<1>1. ledger' = ledger
  BY ObserveOne, AccountEffects DEF HSubmit
<1>2. declared' = declared /\ modified \subseteq modified'
  BY DEF HSubmit
<1>3. ASSUME NEW x \in OrderIds PROVE Accounted(x)'
  <2>1. HandSame(x) /\ SaidSame(x)
    BY <1>1, <1>2 DEF HandSame, InHand, SaidSame
  <2>2. BookSame(x) /\ WaitSame(x)
    BY BookUntouchedSame, StopsUntouched DEF WaitSame
  <2>3. QED
    BY <2>1, <2>2, UntouchedStays DEF HistoryInv
<1>4. FillsApart'
  BY NoFillIsApart, ReplyIs, NoFillAmong
<1>5. QED
  BY <1>1, <1>2, <1>3, <1>4, StopsUntouched DEF HistoryInv

LEMMA SubmitCancelAccounts ==
  ASSUME EngineInv, HistoryInv, HSubmit, NEW id \in OrderIds, SubmitCancel(id)
  PROVE  /\ \A x \in OrderIds : Accounted(x)'
         /\ StopsApart' /\ FillsApart'
         /\ DOMAIN ledger' = OrderIds /\ DOMAIN declared' = OrderIds
<1>1. /\ pc = "Idle" /\ pc' = "Drain" /\ UNCHANGED <<stops, stp_mode, submitted, taker>>
  BY DEF SubmitCancel
<1>2. CASE id \notin DOMAIN orders
  <2>1. events' = <<Rejected(id, "OrderNotFound")>> /\ UNCHANGED book
    BY <1>2 DEF SubmitCancel
  <2>2. QED
    BY <1>1, <2>1, NotFoundAccounts
<1>3. CASE id \in DOMAIN orders
  <2> DEFINE o == orders[id]
             q == Remaining(o)
             a == Cancelled(id, q)
             b == BookUpdate(o.side, o.price, LevelQtyAfter(o.side, o.price))
  <2>1. RemoveOrder(id) /\ events' = <<a, b>>
    BY <1>3 DEF SubmitCancel
  <2>2. a.kind # "Fill" /\ b.kind # "Fill"
    BY NoFillAmong
  <2>3. \A l : Account(Account(l, a), b) = [l EXCEPT ![id] = @ - q]
    <3> HIDE DEF q
    <3>1. ASSUME NEW l PROVE Account(l, a) = [l EXCEPT ![id] = @ - q]
      BY DEF Account, Cancelled
    <3>2. \A l : Account(l, b) = l
      BY AccountEffects
    <3>3. QED
      BY <3>1, <3>2
  <2>4. q \in Int
    <3>1. o \in Order
      BY <1>3 DEF EngineInv, BookInv, BookTypeOK
    <3>2. QED
      BY <3>1, BookAssumption DEF Order, Quantity, Remaining
  <2> HIDE DEF a, b, q, o
  <2>5. ledger' = [ledger EXCEPT ![id] = @ - q]
    BY <2>1, <2>3, ObserveTwo DEF HSubmit
  <2>6. declared' = declared /\ modified \subseteq modified'
    BY <1>1 DEF HSubmit
  <2>7. id \notin DOMAIN orders' /\ \A x : x # id => BookSame(x)
    BY <2>1, UnlinkLeaves DEF RemoveOrder
  <2>8. ASSUME NEW x, x = id PROVE Accounted(x)'
    <3>1. x \in OrderIds /\ Backs(stp_mode, ledger[x], q)
      BY <1>3, <2>8, RestingPlace DEF q, o
    <3>2. ledger'[x] = ledger[x] - q /\ q - q = 0
      BY <2>4, <2>5, <2>8, <3>1 DEF HistoryInv
    <3>3. Backs(stp_mode', ledger'[x], 0)
      BY <1>1, <2>4, <3>1, <3>2, BacksLess
    <3>4. ~InHand(x)'
      BY <1>1 DEF InHand
    <3>5. QED
      BY <1>1, <1>3, <2>7, <2>8, <3>1, <3>3, <3>4, MakerGone
  <2>9. ASSUME NEW x \in OrderIds, x # id PROVE Accounted(x)'
    <3>1. HandSame(x) /\ SaidSame(x) /\ WaitSame(x)
      BY <1>1, <2>5, <2>6, <2>9, StopsUntouched
      DEF HandSame, InHand, SaidSame, WaitSame, HistoryInv
    <3>2. QED
      BY <2>7, <2>9, <3>1, UntouchedStays DEF HistoryInv
  <2>10. FillsApart'
    BY <2>1, <2>2, NoFillIsApart, ReplyIs
  <2>11. QED
    BY <1>1, <2>5, <2>6, <2>8, <2>9, <2>10, StopsUntouched DEF HistoryInv
<1>4. QED
  BY <1>2, <1>3

LEMMA SubmitModifyAccounts ==
  ASSUME EngineInv, HistoryInv, HSubmit, NEW id \in OrderIds, NEW m \in Modifications,
         SubmitModify(id, m)
  PROVE  /\ \A x \in OrderIds : Accounted(x)'
         /\ StopsApart' /\ FillsApart'
         /\ DOMAIN ledger' = OrderIds /\ DOMAIN declared' = OrderIds
<1>1. pc = "Idle" /\ UNCHANGED <<stops, stp_mode, submitted>>
  BY DEF SubmitModify
<1>2. CASE id \notin DOMAIN orders
  <2>1. /\ events' = <<Rejected(id, "OrderNotFound")>> /\ pc' = "Drain"
        /\ UNCHANGED <<book, taker>>
    BY <1>2 DEF SubmitModify
  <2>2. QED
    BY <1>1, <2>1, NotFoundAccounts
<1>3. CASE id \in DOMAIN orders
  <2> DEFINE o == orders[id]
             a == Modified(id)
             b == BookUpdate(o.side, o.price, LevelQtyAfter(o.side, o.price))
  <2>1. RemoveOrder(id) /\ events' = <<a, b>> /\ taker'.id = id /\ pc' = "New"
    BY <1>3 DEF SubmitModify
  <2>2. a.kind # "Fill" /\ b.kind # "Fill" /\ a.kind = "OrderModified" /\ a.id = id
    BY NoFillAmong DEF Modified
  <2>3. \A l : Account(Account(l, a), b) = [l EXCEPT ![id] = 0]
    <3>1. \A l : Account(l, a) = [l EXCEPT ![id] = 0]
      BY AccountEffects
    <3>2. \A l : Account(l, b) = l
      BY AccountEffects
    <3>3. QED
      BY <3>1, <3>2
  <2> HIDE DEF a, b, o
  <2>5. ledger' = [ledger EXCEPT ![id] = 0]
    BY <2>1, <2>3, ObserveTwo DEF HSubmit
  <2>6. declared' = declared /\ modified \subseteq modified' /\ id \in modified'
    BY <1>1, <2>1, <2>2, ReplyIs DEF HSubmit
  <2>7. id \notin DOMAIN orders' /\ \A x : x # id => BookSame(x)
    BY <2>1, UnlinkLeaves DEF RemoveOrder
  <2>8. ASSUME NEW x, x = id PROVE Accounted(x)'
    <3>1. x \in OrderIds /\ ~(x > submitted) /\ \A e \in Waiters : e.id # x
      BY <1>3, <2>8, RestingPlace
    <3>2. ledger'[x] = 0 /\ Unspent' = 0 /\ InHand(x)'
      BY <2>1, <2>5, <2>8, <3>1 DEF HistoryInv, Unspent, InHand
    <3>3. Backs(stp_mode', ledger'[x], Unspent')
      BY <3>2, BacksExactly
    <3>4. ~(x > submitted') /\ \A e \in Waiters' : e.id # x
      BY <1>1, <3>1, StopsUntouched
    <3>5. QED
      BY <2>6, <2>7, <2>8, <3>2, <3>3, <3>4, AtHand
  <2>9. ASSUME NEW x \in OrderIds, x # id PROVE Accounted(x)'
    <3>1. HandSame(x) /\ SaidSame(x) /\ WaitSame(x)
      BY <1>1, <2>1, <2>5, <2>6, <2>9, StopsUntouched
      DEF HandSame, InHand, SaidSame, WaitSame, HistoryInv
    <3>2. QED
      BY <2>7, <2>9, <3>1, UntouchedStays DEF HistoryInv
  <2>10. FillsApart'
    BY <2>1, <2>2, NoFillIsApart, ReplyIs
  <2>11. QED
    BY <1>1, <2>5, <2>6, <2>8, <2>9, <2>10, StopsUntouched DEF HistoryInv
<1>4. QED
  BY <1>2, <1>3

-----------------------------------------------------------------------------
(* What HistoryInv says of the quantities the engine holds. *)

Entry(w) == stops[w[1]][w[2]]
EntriesOf(id) == {w \in Waiting : Entry(w).id = id}

LEMMA WaitingEntries ==
  ASSUME StopsOK
  PROVE  /\ \A w \in Waiting : w[1] \in Side /\ w[2] \in DOMAIN stops[w[1]] /\ w = <<w[1], w[2]>>
         /\ \A w \in Waiting : Entry(w) \in Waiters /\ Entry(w).qty \in Nat
         /\ \A e \in Waiters : \E w \in Waiting : e = Entry(w)
<1>1. \A w \in Waiting : w[1] \in Side /\ w[2] \in DOMAIN stops[w[1]] /\ w = <<w[1], w[2]>>
  BY DEF Waiting
<1>2. \A s \in Side : \A k \in DOMAIN stops[s] : <<s, k>> \in Waiting
  BY DEF Waiting
<1>3. \A w \in Waiting : Entry(w) \in Waiters
  BY <1>1, WaiterIsEntry DEF Entry
<1>4. \A e \in Waiters : \E w \in Waiting : e = Entry(w)
  <2> TAKE e \in Waiters
  <2>1. PICK s \in Side : \E k \in DOMAIN stops[s] : e = stops[s][k]
    BY WaiterIsEntry
  <2> PICK k \in DOMAIN stops[s] : e = stops[s][k]
    BY <2>1
  <2>2. <<s, k>> \in Waiting /\ e = Entry(<<s, k>>)
    BY <1>2 DEF Entry
  <2>3. QED
    BY <2>2
<1>5. \A w \in Waiting : Entry(w).qty \in Nat
  <2> TAKE w \in Waiting
  <2>1. stops[w[1]] \in Seq(OrderCommand)
    BY <1>1 DEF StopsOK
  <2>2. Entry(w) \in OrderCommand
    BY <1>1, <2>1 DEF Entry
  <2>3. QED
    BY <2>2, BookAssumption DEF OrderCommand, Quantity
<1>6. QED
  BY <1>1, <1>3, <1>4, <1>5

LEMMA WaitingSum ==
  ASSUME StopsOK, StopsApart, NEW id
  PROVE  LET sum == SumFunctionOnSet([w \in Waiting |-> Entry(w).qty], EntriesOf(id)) IN
         /\ (\A e \in Waiters : e.id # id) => sum = 0
         /\ \A e \in Waiters : e.id = id => sum = e.qty
<1> DEFINE F == [w \in Waiting |-> Entry(w).qty]
           S == EntriesOf(id)
<1>1. \A w \in Waiting : F[w] \in Int /\ F[w] = Entry(w).qty /\ Entry(w) \in Waiters
  BY WaitingEntries
<1>2. \A w \in S : w \in Waiting /\ Entry(w).id = id
  BY DEF EntriesOf
<1> HIDE DEF F
<1>3. ASSUME \A e \in Waiters : e.id # id PROVE SumFunctionOnSet(F, S) = 0
  <2>1. S = {}
    BY <1>1, <1>2, <1>3
  <2>2. QED
    BY <2>1, SumEmpty
<1>4. ASSUME NEW e \in Waiters, e.id = id PROVE SumFunctionOnSet(F, S) = e.qty
  <2>1. PICK w \in Waiting : e = Entry(w)
    BY WaitingEntries
  <2>2. \A v \in Waiting : Entry(v).id = id => v = w
    <3> SUFFICES ASSUME NEW v \in Waiting, Entry(v).id = id PROVE v = w
      OBVIOUS
    <3>1. /\ v[1] \in Side /\ v[2] \in DOMAIN stops[v[1]] /\ v = <<v[1], v[2]>>
          /\ w[1] \in Side /\ w[2] \in DOMAIN stops[w[1]] /\ w = <<w[1], w[2]>>
      BY WaitingEntries
    <3>2. stops[v[1]][v[2]].id = stops[w[1]][w[2]].id
      BY <1>4, <2>1 DEF Entry
    <3>3. v[1] = w[1] /\ v[2] = w[2]
      BY <3>1, <3>2 DEF StopsApart
    <3>4. QED
      BY <3>1, <3>3
  <2>3. S = {} \cup {w}
    BY <1>4, <2>1, <2>2 DEF EntriesOf
  <2>4. F[w] \in Int /\ F[w] = e.qty
    BY <1>1, <2>1
  <2>5. IsFiniteSet({}) /\ w \notin {} /\ \A y \in {} : F[y] \in Int
    BY FS_EmptySet
  <2>6. SumFunctionOnSet(F, {} \cup {w}) = SumFunctionOnSet(F, {}) + F[w]
    BY <2>4, <2>5, SumAdd
  <2>7. QED
    BY <2>3, <2>4, <2>6, SumEmpty
<1>5. QED
  BY <1>3, <1>4 DEF F

LEMMA AccountsBackWhatIsHeld ==
  ASSUME EngineInv, HistoryInv, NEW id \in OrderIds
  PROVE  Backs(stp_mode, ledger[id], Held(id))
<1> DEFINE rest == IF id \in DOMAIN orders THEN Remaining(orders[id]) ELSE 0
           hand == IF pc \in {"Match", "Rest"} /\ taker.id = id THEN taker.qty ELSE 0
           sum == SumFunctionOnSet([w \in Waiting |-> Entry(w).qty], EntriesOf(id))
<1>1. Held(id) = rest + hand + sum
  BY DEF Held, Entry, EntriesOf
<1>2. /\ (\A e \in Waiters : e.id # id) => sum = 0
      /\ \A e \in Waiters : e.id = id => sum = e.qty
  BY StateParts, WaitingSum DEF HistoryInv, EngineInv
<1> HIDE DEF sum
<1>3. Accounted(id)
  BY DEF HistoryInv
<1>4. hand = IF InHand(id) THEN Unspent ELSE 0
  BY DEF InHand, Unspent
<1>5. ASSUME id \in DOMAIN orders PROVE rest \in Nat /\ ~InHand(id) /\ \A e \in Waiters : e.id # id
  <2>1. orders[id] \in Order /\ orders[id].filled <= orders[id].quantity
    BY <1>5 DEF EngineInv, BookInv, BookTypeOK
  <2>2. Remaining(orders[id]) \in Nat
    BY <2>1, BookAssumption DEF Order, Quantity, Remaining
  <2>3. QED
    BY <1>3, <1>5, <2>2 DEF Accounted
<1>6. ASSUME InHand(id) PROVE Unspent \in Nat /\ \A e \in Waiters : e.id # id
  <2>1. taker.qty \in Nat
    BY <1>6, TakerType DEF InHand, EngineInv
  <2>2. QED
    BY <1>3, <1>6, <2>1 DEF Accounted, Unspent
<1>7. ASSUME NEW e \in Waiters, e.id = id PROVE e.qty \in Nat
  <2>1. StopsOK
    BY StateParts DEF EngineInv
  <2>2. QED
    BY <2>1, WaitingEntries
<1> HIDE DEF rest, hand
<1>8. CASE id \in DOMAIN orders
  <2>1. hand = 0 /\ sum = 0 /\ rest = Remaining(orders[id])
    BY <1>2, <1>4, <1>5, <1>8 DEF rest
  <2>2. Held(id) = Remaining(orders[id])
    BY <1>1, <1>5, <1>8, <2>1
  <2>3. QED
    BY <1>3, <1>8, <2>2 DEF Accounted
<1>9. CASE InHand(id) /\ id \notin DOMAIN orders
  <2>1. hand = Unspent /\ sum = 0 /\ rest = 0
    BY <1>2, <1>4, <1>6, <1>9 DEF rest
  <2>2. Held(id) = Unspent
    BY <1>1, <1>6, <1>9, <2>1
  <2>3. QED
    BY <1>3, <1>9, <2>2 DEF Accounted
<1>10. CASE \E e \in Waiters : e.id = id
  <2>1. PICK e \in Waiters : e.id = id
    BY <1>10
  <2>2. hand = 0 /\ sum = e.qty /\ rest = 0
    BY <1>2, <1>3, <1>4, <2>1 DEF rest, Accounted
  <2>3. Held(id) = e.qty
    BY <1>1, <1>7, <2>1, <2>2
  <2>4. QED
    BY <1>3, <2>1, <2>3 DEF Accounted
<1>11. CASE Nowhere(id)
  <2>1. hand = 0 /\ sum = 0 /\ rest = 0
    BY <1>2, <1>4, <1>11 DEF rest, Nowhere
  <2>2. Held(id) = 0
    BY <1>1, <2>1
  <2>3. QED
    BY <1>3, <1>11, <2>2 DEF Accounted
<1>12. QED
  BY <1>8, <1>9, <1>10, <1>11 DEF Nowhere

LEMMA HistoryInvImplies ==
  EngineInv /\ HistoryInv => EventsAccountForOrders /\ UnmodifiedGroupsDoNotTrade
<1> SUFFICES ASSUME EngineInv, HistoryInv
             PROVE  EventsAccountForOrders /\ UnmodifiedGroupsDoNotTrade
  OBVIOUS
<1>1. EventsAccountForOrders
  BY AccountsBackWhatIsHeld DEF EventsAccountForOrders, Backs
<1>2. UnmodifiedGroupsDoNotTrade
  BY DEF HistoryInv, FillsApart, UnmodifiedGroupsDoNotTrade, FillsOfThisCall
<1>3. QED
  BY <1>1, <1>2

-----------------------------------------------------------------------------
(* The specification with its observer. *)

LEMMA HistoryInitInv == HInit => EngineInv /\ HistoryInv
<1> SUFFICES ASSUME HInit PROVE EngineInv /\ HistoryInv
  OBVIOUS
<1>1. EngineInv
  BY EngineInitInv DEF HInit
<1>2. /\ ledger = [id \in OrderIds |-> 0] /\ declared = [id \in OrderIds |-> STP_NONE]
      /\ stops = [s \in Side |-> <<>>] /\ events = <<>> /\ pc = "Idle" /\ DOMAIN orders = {}
  BY DEF HInit, Init, BookInit
<1>3. \A s \in Side : stops[s] = <<>> /\ DOMAIN stops[s] = {}
  BY <1>2
<1>4. Waiters = {} /\ StopsApart
  BY <1>3, WaiterIsEntry DEF StopsApart
<1>5. ASSUME NEW id \in OrderIds PROVE Accounted(id)
  <2>1. id \notin DOMAIN orders /\ ~InHand(id) /\ Nowhere(id)
    BY <1>2, <1>4 DEF InHand, Nowhere
  <2>2. Backs(stp_mode, ledger[id], 0)
    BY <1>2, BacksExactly
  <2>3. QED
    BY <1>4, <2>1, <2>2 DEF Accounted
<1>6. EventsAreASequence /\ FillsApart
  <2>1. <<>> \in Seq({}) /\ ToSet(events) = {}
    BY <1>2, ReplyIs
  <2>2. QED
    BY <1>2, <2>1 DEF EventsAreASequence, FillsApart
<1>7. QED
  BY <1>1, <1>2, <1>4, <1>5, <1>6 DEF HistoryInv

LEMMA HistoryRefinesEngine == [HNext]_hvars => [Next]_vars
BY DEF HNext, HStep, Next, hvars

LEMMA HistoryStutters ==
  ASSUME HistoryInv, UNCHANGED hvars
  PROVE  HistoryInv'
<1>1. UNCHANGED <<vars, ledger, declared, modified>>
  BY DEF hvars, history
<1>2. /\ UNCHANGED <<orders, stp_mode, stops, events, pc, taker, submitted>>
      /\ UNCHANGED <<ledger, declared, modified>> /\ UNCHANGED book
  BY <1>1 DEF vars, book, engine
<1>3. ASSUME NEW id \in OrderIds PROVE Accounted(id)'
  <2>1. BookSame(id) /\ HandSame(id) /\ WaitSame(id) /\ SaidSame(id)
    BY <1>2, BookUntouchedSame, StopsUntouched DEF HandSame, InHand, Unspent, WaitSame, SaidSame
  <2>2. QED
    BY <2>1, UntouchedStays DEF HistoryInv
<1>4. FillsApart'
  BY <1>2 DEF HistoryInv, FillsApart, SameGroup
<1>5. EventsAreASequence' /\ StopsApart'
  BY <1>2, StopsUntouched DEF HistoryInv, EventsAreASequence
<1>6. QED
  BY <1>2, <1>3, <1>4, <1>5 DEF HistoryInv

LEMMA HistoryStep ==
  ASSUME Capacity >= MaxOrders
  PROVE  EngineInv /\ HistoryInv /\ [HNext]_hvars => (EngineInv /\ HistoryInv)'
<1> SUFFICES ASSUME EngineInv, HistoryInv, [HNext]_hvars PROVE EngineInv' /\ HistoryInv'
  OBVIOUS
<1>1. EngineInv' /\ EventsAreASequence'
  BY HistoryRefinesEngine, EngineStepInv, EventsStep DEF HistoryInv
<1>2. CASE HStep
  <2>1. \A id \in OrderIds : Accounted(id)'
    BY <1>2, StepAccounts
  <2>2. StopsApart' /\ FillsApart' /\ DOMAIN ledger' = OrderIds
    BY <1>2, StepKeepsStopsApart, StepKeepsFillsApart DEF HStep
  <2>3. DOMAIN declared' = OrderIds
    BY <1>2 DEF HStep, HistoryInv
  <2>4. QED
    BY <1>1, <2>1, <2>2, <2>3 DEF HistoryInv
<1>3. CASE HSubmit
  <2>1. CASE \E id \in OrderIds, c \in NewOrders : SubmitNew(id, c)
    BY <1>1, <1>3, <2>1, SubmitNewAccounts DEF HistoryInv
  <2>2. CASE \E id \in OrderIds : SubmitCancel(id)
    BY <1>1, <1>3, <2>2, SubmitCancelAccounts DEF HistoryInv
  <2>3. CASE \E id \in OrderIds : \E m \in Modifications : SubmitModify(id, m)
    BY <1>1, <1>3, <2>3, SubmitModifyAccounts DEF HistoryInv
  <2>4. QED
    BY <1>3, <2>1, <2>2, <2>3 DEF HSubmit, Submit
<1>4. CASE UNCHANGED hvars
  BY <1>1, <1>4, HistoryStutters
<1>5. QED
  BY <1>2, <1>3, <1>4 DEF HNext, HSubmit

\* Every order is on the book, in hand, waiting as a stop or nowhere, and what the stream
\* says is left of it is what is there.
LEMMA HistoryInvariant ==
  ASSUME Capacity >= MaxOrders
  PROVE  HSpec => [](EngineInv /\ HistoryInv)
BY HistoryInitInv, HistoryStep, PTL DEF HSpec

\* The event stream accounts for every quantity the engine holds: nothing is filled,
\* cancelled, modified or triggered without the stream saying so, or twice
\* (match_against_book, process_modify, drain_stop_triggers).  The arena has a slot for
\* every order: a full one drops a resting taker and says nothing (book lib.rs insert_order,
\* engine lib.rs handle_remainder).
THEOREM EventsAccount ==
  ASSUME Capacity >= MaxOrders
  PROVE  HSpec => []EventsAccountForOrders
<1>1. EngineInv /\ HistoryInv => EventsAccountForOrders
  BY HistoryInvImplies
<1>2. QED
  BY <1>1, HistoryInvariant, PTL

\* Self-trade prevention: no fill joins two orders that were entered with one group and
\* never modified, whatever the mode (match_against_book, stp_first_maker_matches).
THEOREM GroupsDoNotTrade ==
  ASSUME Capacity >= MaxOrders
  PROVE  HSpec => []UnmodifiedGroupsDoNotTrade
<1>1. EngineInv /\ HistoryInv => UnmodifiedGroupsDoNotTrade
  BY HistoryInvImplies
<1>2. QED
  BY <1>1, HistoryInvariant, PTL
=============================================================================
