----------------------------- MODULE MCHistory ------------------------------
(***************************************************************************)
(* Model-checking instance of the engine and its observer.                 *)
(***************************************************************************)
EXTENDS MCEngine, EngineHistory

\* Fills, cancellations, modifications, stops (one without a price) and one self-trade group, and orders
\* beyond the window {1, 2} on the side where the cached best price cannot see them.
EventOrders ==
  {Limit("Bid", 2, 2), Limit("Bid", 3, 1), Limit("Bid", 4, 1),
   Limit("Ask", 0, 1), Limit("Ask", 1, 1), Limit("Ask", 2, 2),
   Cmd("Bid", 1, 2, "Limit", "IOC", NONE, Grouped), Cmd("Ask", 1, 1, "Limit", "GTC", NONE, Grouped),
   Cmd("Ask", 1, 2, "Iceberg", "GTC", NONE, Hidden), Stop("Bid", 2, 2, 1), Stop("Ask", 2, 1, 1),
   Stop("Bid", NONE, 1, 1)}

\* The last is a replacement that validation rejects.
EventModifications == {[price |-> 1, qty |-> 1], [price |-> 2, qty |-> 2], [price |-> 1, qty |-> 0]}
=============================================================================
