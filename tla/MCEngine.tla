------------------------------ MODULE MCEngine ------------------------------
(***************************************************************************)
(* Model-checking instances of the matching engine: the commands that each *)
(* configuration lets clients send.                                        *)
(***************************************************************************)
EXTENDS Engine

CONSTANT TopPrice    \* the highest price orders are entered at

MCPrices == 0 .. TopPrice
MCOrderIds == 1 .. MaxOrders
MCTerms == [peak : Quantity, stp_group : {STP_NONE, 1}]

Plain == [peak |-> 0, stp_group |-> STP_NONE]
Grouped == [peak |-> 0, stp_group |-> 1]
Hidden == [peak |-> 1, stp_group |-> STP_NONE]

Cmd(s, p, q, type, tif, stop, t) ==
  [side |-> s, price |-> p, qty |-> q, order_type |-> type, tif |-> tif,
   stop_price |-> stop, terms |-> t]

Limit(s, p, q) == Cmd(s, p, q, "Limit", "GTC", NONE, Plain)

\* Orders of every kind and lifetime.  The window is {1, 2}: bids rest in it and
\* below it, asks in it and above it.
CoreOrders ==
  {Limit("Bid", p, 2) : p \in 0 .. 2} \cup {Limit("Ask", p, q) : p \in 1 .. 3, q \in 1 .. 2}
    \cup {Cmd("Bid", 2, 2, "Limit", "IOC", NONE, Plain), Cmd("Bid", 3, 2, "Limit", "FOK", NONE, Plain),
          Cmd("Ask", 0, 2, "Market", "GTC", NONE, Plain), Cmd("Ask", 1, 1, "PostOnly", "GTC", NONE, Plain),
          Cmd("Bid", 1, 0, "Limit", "GTC", NONE, Plain)}
CoreModifications == {[price |-> 1, qty |-> 1], [price |-> 2, qty |-> 2]}

\* Makers and takers on both sides that move the last trade price, stop orders on both
\* sides; orders of one self-trade prevention group among the others, an iceberg
\* order, and a post-only order of nothing, which the engine lets through.
Stop(s, stop, p, q) == Cmd(s, p, q, "StopLimit", "GTC", stop, Plain)
InGroup(s, p, q) == Cmd(s, p, q, "Limit", "GTC", NONE, Grouped)
CascadeOrders ==
  {InGroup("Ask", 1, 1), InGroup("Bid", 2, 2), Cmd("Bid", 2, 2, "Iceberg", "GTC", NONE, Hidden),
   Cmd("Ask", 0, 1, "Market", "GTC", NONE, Plain), Cmd("Ask", 1, 0, "PostOnly", "GTC", NONE, Plain),
   Stop("Bid", 1, 2, 1), Stop("Bid", 2, 2, 1), Stop("Ask", 2, 1, 1)}

NoModifications == {}

\* One partly filled ask and a fill-or-kill bid for more than is left of it.
FokOrders ==
  {Limit("Ask", 1, 2), Limit("Bid", 1, 1), Cmd("Bid", 1, 2, "Limit", "FOK", NONE, Plain)}

\* An ask outside the group in front of one inside it.
NewestOrders ==
  {Limit("Ask", 1, 1), InGroup("Ask", 1, 1), InGroup("Bid", 1, 2)}
=============================================================================
