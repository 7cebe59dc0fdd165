------------------------- MODULE MC_MatchingEngine -------------------------
(* MatchingEngine with two buy orders of two users at one price, and two   *)
(* sell orders that cross them: a market order of a third user, and a      *)
(* limit order of the first one, which has to skip his own.                *)
EXTENDS MatchingEngine

CONSTANTS b1, b2, m1, s1, alice, bob, carol

OwnerDef == b1 :> alice @@ b2 :> bob @@ m1 :> carol @@ s1 :> alice
SideDef == b1 :> "BUY" @@ b2 :> "BUY" @@ m1 :> "SELL" @@ s1 :> "SELL"
TypeDef == b1 :> "LIMIT" @@ b2 :> "LIMIT" @@ m1 :> "MARKET" @@ s1 :> "LIMIT"
QuantityDef == b1 :> 1 @@ b2 :> 1 @@ m1 :> 2 @@ s1 :> 2
PriceDef == b1 :> 2 @@ b2 :> 2 @@ m1 :> 1 @@ s1 :> 1
=============================================================================
