---------------------------- MODULE MCOrderBook -----------------------------
(***************************************************************************)
(* Model-checking instance of the order book.  Fills leave quantity behind *)
(* in the volume indices; the instance bounds how much.                    *)
(***************************************************************************)
EXTENDS OrderBook

CONSTANTS
  TopPrice,     \* the highest price orders are entered at
  MaxExcess     \* bound of the model on the quantity left behind by fills

MCPrices == 0 .. TopPrice
MCTerms == {"plain"}
Symmetry == Permutations(OrderIds)

Excess ==
  MapThenSumSet(LAMBDA sp : Indexed(sp[1], sp[2]) - LevelAt(sp[1], sp[2]).total_quantity,
                Side \X MCPrices)

MCNext == BookNext /\ (IF book' = book THEN TRUE ELSE Excess' <= MaxExcess)

MCSpec == BookInit /\ [][MCNext]_book
=============================================================================
