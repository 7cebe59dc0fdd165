--------------------------- MODULE OrderLifecycle ---------------------------
(***************************************************************************)
(* The Order Service composed with what it relies on the Matching Engine   *)
(* for.  They share only the bus, and the list of open orders from which a *)
(* restarted engine rebuilds its book (GET /internal/orders/open).         *)
(***************************************************************************)
EXTENDS OrderService, FiniteSetsExt

CONSTANTS Side, Type,
          MaxQuantity,   \* no order is larger
          MaxTrades      \* bound: trades the engine makes

VARIABLES seen, live, traded, lost, answersLost, tradeCount

\* One bound for the faults on both sides.
Engine == INSTANCE EngineContract WITH engineFaults <- faults, MaxEngineFaults <- MaxFaults

engineOwn == <<seen, live, traded, lost, answersLost, tradeCount>>
orderOwn == <<clientKey, status, filled, saga, sagaView, cancelPc, cancelOf, previous,
              republish, reserved, released, crashed>>
vars == <<orderOwn, bus, engineOwn, faults>>

ASSUME QuantityAssumption ==
  /\ MaxQuantity \in Nat
  /\ Quantity \in [Orders -> 1..MaxQuantity]
ASSUME BoundsAssumption ==
  MaxFaults \in Nat /\ MaxTrades \in Nat
ASSUME AbsentAssumption == NoOrder \notin Orders
ASSUME KeyAssumption == \A choice \in KeyChoices : DOMAIN choice = Orders

Init == OrderInit /\ Engine!EngineInit

\* GET /internal/orders/open, rebuild_book: limit orders rest with what is left
\* of them; the call may fail, and then the engine starts empty.
EngineRestart ==
  /\ \/ Engine!Restart([o \in Orders |-> IF Type[o] = "LIMIT" THEN Remaining(o) ELSE 0])
     \/ Engine!Restart([o \in Orders |-> 0])
  /\ UNCHANGED orderOwn

Next ==
  \/ OrderNext /\ UNCHANGED engineOwn
  \/ Engine!EngineNext /\ tradeCount' <= MaxTrades /\ UNCHANGED orderOwn
  \/ EngineRestart

Spec == Init /\ [][Next]_vars

-----------------------------------------------------------------------------
(* Properties *)

TypeOK ==
  /\ clientKey \in KeyChoices
  /\ status \in [Orders -> Statuses \cup {"ABSENT"}]
  /\ filled \in [Orders -> 0..MaxQuantity]
  /\ saga \in [Orders -> SagaPCs]
  /\ sagaView \in [Orders -> Statuses \cup {"ABSENT"}]
  /\ cancelPc \in [Cancels -> CancelPCs]
  /\ cancelOf \in [Cancels -> Orders \cup {NoOrder}]
  /\ previous \in [Cancels -> Statuses \cup {"ABSENT"}]
  /\ republish \in [Orders -> 0..MaxQuantity]
  /\ accepted \subseteq [order : Orders, quantity : 1..MaxQuantity]
  /\ cancelRequests \in [Orders -> Nat]
  /\ trades \subseteq [id : Nat, legs : SUBSET Orders, quantity : 1..MaxQuantity]
  /\ cancelled \in [Orders -> Nat]
  /\ cancelRejected \in [Orders -> Nat]
  /\ reserved \subseteq Orders /\ released \subseteq Orders /\ answersLost \subseteq Orders
  /\ traded \in [Orders -> Nat] /\ lost \in [Orders -> Nat]
  /\ crashed \in BOOLEAN
  /\ faults \in 0..MaxFaults
  /\ seen \subseteq Orders
  /\ live \in [Orders -> 0..MaxQuantity]
  /\ tradeCount \in 0..MaxTrades

\* ck_fill_bounds never refuses a transaction, even when a restarted engine trades
\* an order twice, and FILLED is never written over an order that is not full.
FillBounds ==
  \A o \in Orders :
    /\ filled[o] <= Quantity[o]
    /\ status[o] = "FILLED" => filled[o] = Quantity[o]

\* The engine can hear of an order only after its hold was confirmed, whatever
\* crashes, retries and republishes happen on the way.
KnownToEngine(o) ==
  o \in seen \/ live[o] > 0 \/ traded[o] > 0 \/ \E m \in accepted : m.order = o

AcceptedOnlyAfterReserve == \A o \in Orders : KnownToEngine(o) => o \in reserved

\* Two requests with the same client_order_id make one order between them.
OneOrderPerKey ==
  \A o, p \in Orders :
    /\ o # p /\ clientKey[o] = clientKey[p] /\ clientKey[o] # NoKey
    /\ status[o] # "ABSENT"
    => status[p] = "ABSENT"

\* The quantity of o in trades that wait on the bus.
Waiting(o) == Engine!QuantityIn(trades, o)

\* The row accounts for exactly what the book traded: what is filled, still waits
\* on the bus, or was never published adds up to what the engine traded, unless a
\* restarted engine traded more than the order's size and the fill was clamped.
FillsAccounted ==
  \A o \in Orders :
    traded[o] <= Quantity[o] => filled[o] + Waiting(o) + lost[o] = traded[o]

\* The quantities of a row: within the bounds the database checks, FILLED only when full,
\* and in account with the book, through fills that come late, twice or after the order's
\* end (handlers.py:108).
QuantitiesSound == TypeOK /\ FillBounds /\ FillsAccounted

\* place_order, through crashes, retries and reconciliation: one order per client id, and
\* none in the engine before its hold was confirmed (service.py:251-267).
PlacementSound == OneOrderPerKey /\ AcceptedOnlyAfterReserve

\* While the service has not crashed and the engine lost no answer, an order in
\* CANCEL_PENDING has something on its way that resolves it: a request session, the
\* request, or the engine's answer.  No interleaving of two cancel requests, fills
\* and answers leaves it stuck there.
CancelWillBeAnswered ==
  \A o \in Orders :
    /\ status[o] = "CANCEL_PENDING"
    /\ ~ crashed
    /\ o \notin answersLost
    => \/ cancelRequests[o] > 0 \/ cancelled[o] > 0 \/ cancelRejected[o] > 0
       \/ \E c \in Cancels : cancelOf[c] = o /\ cancelPc[c] \in {"publish", "revert"}

\* A request session writes o from a copy it read earlier.
SessionWrites(o) ==
  \/ saga[o] = "reject" /\ saga'[o] = "done"
  \/ \E c \in Cancels :
       cancelOf[c] = o /\ cancelPc[c] \in {"commit", "revert"} /\ cancelPc'[c] # cancelPc[c]

\* The consumers, reconciliation and the saga before _reject never move an order
\* out of a terminal status, whatever order events arrive in.
ConsumersKeepTerminal ==
  [][\A o \in Orders :
       status[o] \in Terminal /\ status'[o] # status[o] => SessionWrites(o)]_vars
=============================================================================
