------------------------- MODULE MC_OrderLifecycle -------------------------
(* OrderLifecycle with a limit buy of two and a market sell of one that    *)
(* may carry the same client_order_id, and two cancel requests.            *)
EXTENDS OrderLifecycle, TLC

CONSTANTS o1, o2, k

QuantityDef == (o1 :> 2) @@ (o2 :> 1)
SideDef == (o1 :> "BUY") @@ (o2 :> "SELL")
\* No keys, or the same key twice: the requests either never or always collide.
KeyChoicesDef == {[o \in Orders |-> NoKey], [o \in Orders |-> k]}
\* Bound: two cancel requests and one trade, or one request and two trades.
FewEnough == tradeCount + Cardinality({c \in Cancels : cancelPc[c] # "start"}) <= 3
CancelSymmetry == Permutations(Cancels)
TypeDef == (o1 :> "LIMIT") @@ (o2 :> "MARKET")
=============================================================================
