---------------------------- MODULE MC_Account ----------------------------
(* Account with two buy orders of one user, who has to share his cash      *)
(* between them: a limit order of two and a market order of one.           *)
EXTENDS Account

CONSTANTS alice, bob, b1, b2

OwnerDef == [o \in Orders |-> alice]
LimitDef == b1 :> 2 @@ b2 :> 2
QuantityDef == b1 :> 2 @@ b2 :> 1
ReserveCallsDef == b1 :> 2 @@ b2 :> 1

\* Release requests differ in nothing but the order they come in.
ReleaseSymmetry == Permutations(Releasers)
=============================================================================
