---------------------------- MODULE OrderService ----------------------------
(***************************************************************************)
(* services/order-service: the place-order saga, two-phase cancellation,   *)
(* the three event consumers and the reconciliation at startup.            *)
(*                                                                         *)
(* The consumers lock a row (SELECT ... FOR UPDATE) for a whole transaction*)
(* and handle each event once (EventDelivery).  The request handlers do    *)
(* neither: a session loads the row, computes the transition on its own    *)
(* copy and later writes the columns it changed, whatever the row is then. *)
(***************************************************************************)
EXTENDS Naturals, FiniteSets

CONSTANTS Orders,        \* a place request each, which becomes a row with this id
          NoKey,         \* the request carries no client_order_id
          KeyChoices,    \* the client_order_ids the requests may carry between them
          Quantity,      \* Quantity[o]: how much the request asks for
          Cancels,       \* requests to DELETE /orders/{id}
          NoOrder,
          MaxFaults      \* bound: failed calls and publishes, crashes

VARIABLES
  clientKey,       \* clientKey[o]: client_order_id of request o
  status, filled,  \* the row of o: its status ("ABSENT" before the INSERT), filled_quantity
  saga,            \* saga[o]: where place_order stands for request o
  sagaView,        \* sagaView[o]: the status in the saga's copy of the row
  cancelPc, cancelOf, previous, \* each cancel request: step, order, status it read
  republish,       \* republish[o]: remaining read by startup_reconciliation, 0 for none
  accepted, cancelRequests, trades, cancelled, cancelRejected, \* the bus, see EngineContract
  reserved,        \* history: orders whose hold was confirmed
  released,        \* history: orders whose hold the saga or reconciliation released
  crashed,         \* history: the service has crashed before
  faults           \* faults so far, see MaxFaults

bus == <<accepted, cancelRequests, trades, cancelled, cancelRejected>>
row == <<status, filled>>
sagas == <<saga, sagaView>>
cancelVars == <<cancelPc, cancelOf, previous>>
history == <<reserved, released, crashed>>

Statuses == {"PENDING", "NEW", "PARTIALLY_FILLED", "FILLED", "CANCEL_PENDING",
             "CANCELLED", "REJECTED"}
Terminal == {"FILLED", "CANCELLED", "REJECTED"}
Open == {"NEW", "PARTIALLY_FILLED"}
Cancellable == {"NEW", "PARTIALLY_FILLED"}

\* Mutant: CANCELLED may still be overtaken by a late fill.
AllowedAfterCancel(from) ==
  CASE from = "PENDING" -> {"NEW", "REJECTED"}
    [] from = "NEW" -> {"PARTIALLY_FILLED", "FILLED", "CANCEL_PENDING", "CANCELLED", "REJECTED"}
    [] from = "PARTIALLY_FILLED" -> {"PARTIALLY_FILLED", "FILLED", "CANCEL_PENDING", "CANCELLED"}
    [] from \in {"CANCEL_PENDING", "CANCELLED"} -> {"CANCELLED", "FILLED", "PARTIALLY_FILLED", "NEW"}
    [] OTHER -> {}

Allowed(from) ==
  CASE from = "PENDING" -> {"NEW", "REJECTED"}
    [] from = "NEW" -> {"PARTIALLY_FILLED", "FILLED", "CANCEL_PENDING", "CANCELLED", "REJECTED"}
    [] from = "PARTIALLY_FILLED" -> {"PARTIALLY_FILLED", "FILLED", "CANCEL_PENDING", "CANCELLED"}
    [] from = "CANCEL_PENDING" -> {"CANCELLED", "FILLED", "PARTIALLY_FILLED", "NEW"}
    [] OTHER -> {}

\* transition(): an edge that is not allowed is refused and changes nothing.
After(from, to) == IF to \in Allowed(from) THEN to ELSE from

SagaPCs == {"start", "reserve", "fund", "publish", "compensate", "reject", "done"}
CancelPCs == {"start", "commit", "publish", "revert", "done"}

OrderInit ==
  /\ clientKey \in KeyChoices
  /\ status = [o \in Orders |-> "ABSENT"]
  /\ filled = [o \in Orders |-> 0]
  /\ saga = [o \in Orders |-> "start"]
  /\ sagaView = [o \in Orders |-> "ABSENT"]
  /\ cancelPc = [c \in Cancels |-> "start"]
  /\ cancelOf = [c \in Cancels |-> NoOrder]
  /\ previous = [c \in Cancels |-> "ABSENT"]
  /\ republish = [o \in Orders |-> 0]
  /\ reserved = {} /\ released = {}
  /\ crashed = FALSE /\ faults = 0

Fault == faults < MaxFaults /\ faults' = faults + 1

\* startup_reconciliation runs before the service takes requests.
Serving == \A o \in Orders : republish[o] = 0

-----------------------------------------------------------------------------
(* place_order *)

KeyFree(o) ==
  clientKey[o] = NoKey
    \/ \A p \in Orders : status[p] # "ABSENT" => clientKey[p] # clientKey[o]

\* The request ends and its copy of the row goes with it.
CloseSaga(o) == /\ saga' = [saga EXCEPT ![o] = "done"]
                /\ sagaView' = [sagaView EXCEPT ![o] = "ABSENT"]

\* Steps 1 to 3: the row is committed as PENDING, unless the key already has one.
Persist(o) ==
  /\ Serving
  /\ saga[o] = "start"
  /\ \/ /\ KeyFree(o)
        /\ status' = [status EXCEPT ![o] = "PENDING"]
        /\ sagaView' = [sagaView EXCEPT ![o] = "PENDING"]
        /\ saga' = [saga EXCEPT ![o] = "reserve"]
     \/ /\ ~ KeyFree(o)
        /\ CloseSaga(o)
        /\ UNCHANGED status
  /\ UNCHANGED <<clientKey, filled, cancelVars, republish, bus, history, faults>>

\* Step 4: the hold is confirmed, refused (409), or its fate is unknown.
Reserve(o) ==
  /\ saga[o] = "reserve"
  /\ \/ /\ reserved' = reserved \cup {o}
        /\ saga' = [saga EXCEPT ![o] = "fund"]
        /\ UNCHANGED faults
     \/ /\ saga' = [saga EXCEPT ![o] = "reject"]
        /\ UNCHANGED <<reserved, faults>>
     \/ /\ Fault
        /\ saga' = [saga EXCEPT ![o] = "compensate"]
        /\ UNCHANGED reserved
  /\ UNCHANGED <<clientKey, row, sagaView, cancelVars, republish, bus, released, crashed>>

\* Step 5: PENDING -> NEW on the saga's copy, committed.
Fund(o) ==
  /\ saga[o] = "fund"
  /\ sagaView' = [sagaView EXCEPT ![o] = After(@, "NEW")]
  /\ status' = [status EXCEPT ![o] = sagaView'[o]]
  /\ saga' = [saga EXCEPT ![o] = "publish"]
  /\ UNCHANGED <<clientKey, filled, cancelVars, republish, bus, history, faults>>

Message(o, q) == [order |-> o, quantity |-> q]

\* Step 6: order.accepted.  A publish that raises may have reached the exchange.
PublishAccepted(o) ==
  /\ saga[o] = "publish"
  /\ \/ /\ accepted' = accepted \cup {Message(o, Quantity[o])}
        /\ CloseSaga(o)
        /\ UNCHANGED faults
     \/ /\ Fault
        /\ saga' = [saga EXCEPT ![o] = "compensate"]
        /\ UNCHANGED sagaView
        /\ accepted' \in {accepted, accepted \cup {Message(o, Quantity[o])}}
  /\ UNCHANGED <<clientKey, row, cancelVars, republish, cancelRequests, trades, cancelled,
                 cancelRejected, history>>

\* release(): the compensating calls to Account and Portfolio.
Compensate(o) ==
  /\ saga[o] = "compensate"
  /\ released' = released \cup {o}
  /\ saga' = [saga EXCEPT ![o] = "reject"]
  /\ UNCHANGED <<clientKey, row, sagaView, cancelVars, republish, bus, reserved, crashed,
                 faults>>

\* _reject: REJECTED on the saga's copy, written over whatever the row holds.
Reject(o) ==
  /\ saga[o] = "reject"
  /\ status' = [status EXCEPT ![o] = After(sagaView[o], "REJECTED")]
  /\ CloseSaga(o)
  /\ UNCHANGED <<clientKey, filled, cancelVars, republish, bus, history, faults>>

-----------------------------------------------------------------------------
(* cancel_order *)

\* The row is read without a lock; only an open order can be cancelled.
CancelRead(c, o) ==
  /\ Serving
  /\ cancelPc[c] = "start"
  /\ status[o] \in Cancellable
  /\ cancelPc' = [cancelPc EXCEPT ![c] = "commit"]
  /\ cancelOf' = [cancelOf EXCEPT ![c] = o]
  /\ previous' = [previous EXCEPT ![c] = status[o]]
  /\ UNCHANGED <<clientKey, row, sagas, republish, bus, history, faults>>

\* CANCEL_PENDING is written over whatever the row holds by now.
CancelCommit(c) ==
  /\ cancelPc[c] = "commit"
  /\ status' = [status EXCEPT ![cancelOf[c]] = After(previous[c], "CANCEL_PENDING")]
  /\ cancelPc' = [cancelPc EXCEPT ![c] = "publish"]
  /\ UNCHANGED <<clientKey, filled, sagas, cancelOf, previous, republish, bus, history, faults>>

AskEngine(o) == cancelRequests' = [cancelRequests EXCEPT ![o] = @ + 1]

CloseCancel(c) == /\ cancelPc' = [cancelPc EXCEPT ![c] = "done"]
                  /\ cancelOf' = [cancelOf EXCEPT ![c] = NoOrder]
                  /\ previous' = [previous EXCEPT ![c] = "ABSENT"]

\* order.cancel_requested.  A publish that raises may have reached the exchange.
CancelPublish(c) ==
  /\ cancelPc[c] = "publish"
  /\ \/ /\ AskEngine(cancelOf[c])
        /\ CloseCancel(c)
        /\ UNCHANGED faults
     \/ /\ Fault
        /\ AskEngine(cancelOf[c]) \/ UNCHANGED cancelRequests
        /\ cancelPc' = [cancelPc EXCEPT ![c] = "revert"]
        /\ UNCHANGED <<cancelOf, previous>>
  /\ UNCHANGED <<clientKey, row, sagas, republish, accepted, trades, cancelled,
                 cancelRejected, history>>

\* Mutant: the order is left in CANCEL_PENDING when the request could not be sent.
CancelRevertForgotten(c) ==
  /\ cancelPc[c] = "revert"
  /\ CloseCancel(c)
  /\ UNCHANGED <<clientKey, row, sagas, republish, bus, history, faults>>

\* "cancel request could not be sent": back to the status it read at first.
CancelRevert(c) ==
  /\ cancelPc[c] = "revert"
  /\ status' = [status EXCEPT ![cancelOf[c]] = After("CANCEL_PENDING", previous[c])]
  /\ CloseCancel(c)
  /\ UNCHANGED <<clientKey, filled, sagas, republish, bus, history, faults>>

-----------------------------------------------------------------------------
(* The consumers: one locked transaction each *)

\* A fill larger than what is left is clamped, or ck_fill_bounds would refuse it.
FilledAfter(o, q) ==
  IF filled[o] + q > Quantity[o] THEN Quantity[o] ELSE filled[o] + q

\* Mutant: orders that are terminal, or waiting for a cancel, ignore late fills.
OpenLegs(t) == {o \in t.legs : status[o] \in Open}

\* The orders of a trade that this service has.
KnownLegs(t) == {o \in t.legs : status[o] # "ABSENT"}

\* handle_trade_executed, both orders in one transaction.  A terminal order gets
\* its numbers updated and keeps its status.
HandleTrade(t) ==
  /\ t \in trades
  /\ trades' = trades \ {t}
  /\ LET known == KnownLegs(t)
         now(o) == FilledAfter(o, t.quantity)
     IN /\ filled' = [o \in Orders |-> IF o \in known THEN now(o) ELSE filled[o]]
        /\ status' = [o \in Orders |->
             IF o \notin known THEN status[o]
             ELSE After(status[o], IF now(o) = Quantity[o] THEN "FILLED"
                                                           ELSE "PARTIALLY_FILLED")]
  /\ UNCHANGED <<clientKey, sagas, cancelVars, republish, accepted, cancelRequests, cancelled,
                 cancelRejected, history, faults>>

HandleOrderCancelled(o) ==
  /\ cancelled[o] > 0
  /\ cancelled' = [cancelled EXCEPT ![o] = @ - 1]
  /\ status' = [status EXCEPT ![o] = After(@, "CANCELLED")]
  /\ UNCHANGED <<clientKey, filled, sagas, cancelVars, republish, accepted, cancelRequests,
                 trades, cancelRejected, history, faults>>

\* The status an order without a pending cancel has.
Restored(o) ==
  IF filled[o] >= Quantity[o] THEN "FILLED"
  ELSE IF filled[o] > 0 THEN "PARTIALLY_FILLED" ELSE "NEW"

HandleCancelRejected(o) ==
  /\ cancelRejected[o] > 0
  /\ cancelRejected' = [cancelRejected EXCEPT ![o] = @ - 1]
  /\ status' = [status EXCEPT ![o] = IF @ = "CANCEL_PENDING" THEN After(@, Restored(o)) ELSE @]
  /\ UNCHANGED <<clientKey, filled, sagas, cancelVars, republish, accepted, cancelRequests,
                 trades, cancelled, history, faults>>

-----------------------------------------------------------------------------
(* Crash, restart and startup_reconciliation *)

\* Mutant: PENDING counts as open.
RemainingOfPending(o) ==
  IF status[o] \in Open \cup {"PENDING"} THEN Quantity[o] - filled[o] ELSE 0

\* What is left of an open order; 0 for every other order.
Remaining(o) == IF status[o] \in Open THEN Quantity[o] - filled[o] ELSE 0

\* The requests die with the process.  At startup, a PENDING order older than
\* STALE_PENDING_SECONDS is released and rejected, and the open orders are read.
CrashAndRestart ==
  /\ Fault
  /\ crashed' = TRUE
  /\ saga' = [o \in Orders |-> IF saga[o] = "start" THEN "start" ELSE "done"]
  /\ sagaView' = [o \in Orders |-> "ABSENT"]
  /\ cancelPc' = [c \in Cancels |-> IF cancelPc[c] = "start" THEN "start" ELSE "done"]
  /\ cancelOf' = [c \in Cancels |-> NoOrder]
  /\ previous' = [c \in Cancels |-> "ABSENT"]
  /\ \E stale \in SUBSET {o \in Orders : status[o] = "PENDING"} :
       /\ released' = released \cup stale
       /\ status' = [o \in Orders |-> IF o \in stale THEN After(status[o], "REJECTED")
                                                     ELSE status[o]]
  /\ republish' = [o \in Orders |-> Remaining(o)]
  /\ UNCHANGED <<clientKey, filled, bus, reserved>>

\* order.accepted again, for what was left of the order when it was read.
Republish(o) ==
  /\ republish[o] > 0
  /\ accepted' = accepted \cup {Message(o, republish[o])}
  /\ republish' = [republish EXCEPT ![o] = 0]
  /\ UNCHANGED <<clientKey, row, sagas, cancelVars, cancelRequests, trades, cancelled,
                 cancelRejected, history, faults>>

\* Reconciliation is never fatal: an exception ends it where it stands.
RepublishFails ==
  /\ ~ Serving
  /\ republish' = [o \in Orders |-> 0]
  /\ UNCHANGED <<clientKey, row, sagas, cancelVars, bus, history, faults>>

SagaStep(o) ==
  Persist(o) \/ Reserve(o) \/ Fund(o) \/ PublishAccepted(o) \/ Compensate(o) \/ Reject(o)

CancelStep(c) == CancelCommit(c) \/ CancelPublish(c) \/ CancelRevert(c)

OrderNext ==
  \/ \E o \in Orders : SagaStep(o) \/ Republish(o)
  \/ \E c \in Cancels : CancelStep(c) \/ \E o \in Orders : CancelRead(c, o)
  \/ \E t \in trades : HandleTrade(t)
  \/ \E o \in Orders : HandleOrderCancelled(o) \/ HandleCancelRejected(o)
  \/ RepublishFails
  \/ CrashAndRestart
=============================================================================
