--------------------------- MODULE MC_MarketData ---------------------------
(* MarketData with three trades: two in one long interval, in different    *)
(* short ones, and one after a gap longer than MaxFill.                    *)
EXTENDS MarketData

CONSTANTS x1, x2, x3

AtDef == x1 :> 0 @@ x2 :> 1 @@ x3 :> 8
PriceDef == x1 :> 7 @@ x2 :> 9 @@ x3 :> 8
QuantityDef == x1 :> 1 @@ x2 :> 2 @@ x3 :> 4

TasksAlike == Permutations(Tasks)
=============================================================================
