------------------------- MODULE MC_Notifications -------------------------
(* Notifications with three alerts for one user, one of them beside that of *)
(* the other side of a trade, on pages of one alert each.                   *)
EXTENDS Notifications

CONSTANTS e1, e2, e3, other

EventDef ==
  e1 :> [type |-> "trade.executed", buyer |-> other, seller |-> Me]
  @@ e2 :> [type |-> "order.cancelled", user |-> Me, reason |-> "USER_REQUEST",
            quantity |-> 1]
  @@ e3 :> [type |-> "order.rejected", user |-> Me]
=============================================================================
