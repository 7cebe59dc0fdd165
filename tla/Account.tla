------------------------------ MODULE Account ------------------------------
(***************************************************************************)
(* services/account-service: cash, held cash and the reservations of buy   *)
(* orders.  Every balance change runs in one transaction that holds        *)
(* lock:funds:<user> and the account row (SELECT ... FOR UPDATE), so it is *)
(* one step here.  The exception is POST .../release, which reads the      *)
(* reservation before it takes the lock and works on that copy.            *)
(*                                                                         *)
(* The callers are part of the model: the Order Service reserves, retries, *)
(* times out and unwinds, and the engine trades or cancels live orders and *)
(* publishes an event for each.  trade.executed and order.cancelled travel *)
(* on different queues, and a failed delivery waits behind later ones, so  *)
(* the events of an order arrive in any order, each handled once           *)
(* (EventDelivery).  The engine never restarts here: what it may trade     *)
(* beyond an order's size after a rebuild from rows that lag (see Trade)   *)
(* is not in the model.                                                    *)
(***************************************************************************)
EXTENDS Integers, FiniteSetsExt, SequencesExt

CONSTANTS
  Users, Orders,         \* the buy orders; sell orders hold no cash
  Owner,                 \* Owner[o]: the buyer
  Limit,                 \* Limit[o]: limit price, or the reference price with its buffer
  Quantity,              \* Quantity[o]
  Market,                \* the MARKET orders: nothing caps their trade prices at Limit
  Prices,                \* the prices trades happen at
  Deposits,              \* amounts a user may deposit
  MaxDeposits,           \* bound: deposits
  MaxReserveCalls,       \* MaxReserveCalls[o]: attempts of call_service for one reserve (1 + retries)
  Releasers,             \* release requests, each attempt one
  NoOrder

VARIABLES
  cash, held,                    \* accounts: cash_balance, held_balance
  amountHeld, consumed, released,\* reservations; amountHeld[o] = 0 means there is no row
  phase,                         \* where the Order Service stands with o
  reserveCalls,                  \* reserveCalls[o]: requests sent and not yet executed
  callsMade,                     \* callsMade[o]: attempts so far
  live,                          \* live[o]: what is left of o in the book
  stream,                        \* stream[o]: events published about o
  settled,                       \* settled[o]: positions of stream[o] that were handled
  refused,                       \* history: orders with a fill that was dead-lettered
  releasePc, releaseOf, view,    \* release requests: step, order, copy of the reservation
  deposited, deposits,           \* history: total and number of deposits
  forgotten,                     \* history: orders reserved too late or rejected unheard
  torn                           \* history: orders released on a copy that was stale

balances == <<cash, held>>
reservations == <<amountHeld, consumed, released>>
calls == <<reserveCalls, callsMade>>
events == <<stream, settled, refused>>
releases == <<releasePc, releaseOf, view>>
counters == <<deposited, deposits>>
history == <<forgotten, torn>>
vars == <<balances, reservations, phase, calls, live, events, releases, counters, history>>

ASSUME FiniteAssumption == IsFiniteSet(Users) /\ IsFiniteSet(Orders)
ASSUME OwnerAssumption == Owner \in [Orders -> Users]
ASSUME AmountAssumption ==
  /\ Limit \in [Orders -> Nat \ {0}] /\ Quantity \in [Orders -> Nat \ {0}]
  /\ Prices \subseteq Nat \ {0} /\ Deposits \subseteq Nat
  /\ MaxDeposits \in Nat /\ MaxReserveCalls \in [Orders -> Nat]
ASSUME NameAssumption == Market \subseteq Orders /\ NoOrder \notin Orders

Phases == {"idle", "reserving", "declined", "held", "live", "unwinding", "rejected"}

Hold(o) == Limit[o] * Quantity[o]
Remaining(o) == amountHeld[o] - consumed[o] - released[o]
AtLeastZero(x) == IF x < 0 THEN 0 ELSE x
Least(x, y) == IF x < y THEN x ELSE y

NoView == [held |-> 0, consumed |-> 0, released |-> 0]

Init ==
  /\ cash = [u \in Users |-> 0] /\ held = [u \in Users |-> 0]
  /\ amountHeld = [o \in Orders |-> 0]
  /\ consumed = [o \in Orders |-> 0] /\ released = [o \in Orders |-> 0]
  /\ phase = [o \in Orders |-> "idle"]
  /\ reserveCalls = [o \in Orders |-> 0] /\ callsMade = [o \in Orders |-> 0]
  /\ live = [o \in Orders |-> 0]
  /\ stream = [o \in Orders |-> <<>>] /\ settled = [o \in Orders |-> {}]
  /\ refused = {} /\ forgotten = {} /\ torn = {}
  /\ releasePc = [r \in Releasers |-> "start"]
  /\ releaseOf = [r \in Releasers |-> NoOrder]
  /\ view = [r \in Releasers |-> NoView]
  /\ deposited = 0 /\ deposits = 0

Goto(o, p) == phase' = [phase EXCEPT ![o] = p]

-----------------------------------------------------------------------------
(* deposit and reserve_funds *)

Deposit(u, amount) ==
  /\ deposits < MaxDeposits
  /\ cash' = [cash EXCEPT ![u] = @ + amount]
  /\ deposited' = deposited + amount
  /\ deposits' = deposits + 1
  /\ UNCHANGED <<held, reservations, phase, calls, live, events, releases, history>>

\* Mutant: buying power ignores what is already held.
AvailableCash(u) == cash[u]

Available(u) == cash[u] - held[u]

\* The first attempt wins; the row of an order is never deleted.
IsUnreserved(o) == amountHeld[o] = 0

\* The caller still waits for the answer to its reserve call.
Waits(o) == phase[o] = "reserving"

\* reserve_funds.  The answer may be lost, and the caller may have stopped waiting.
ReserveFunds(o) ==
  /\ reserveCalls[o] > 0
  /\ reserveCalls' = [reserveCalls EXCEPT ![o] = @ - 1]
  /\ LET u == Owner[o]
         decline == IsUnreserved(o) /\ Available(u) < Hold(o)
         book == IsUnreserved(o) /\ ~ decline
     IN /\ IF book
           THEN /\ held' = [held EXCEPT ![u] = @ + Hold(o)]
                /\ amountHeld' = [amountHeld EXCEPT ![o] = Hold(o)]
                /\ forgotten' = IF Waits(o) THEN forgotten ELSE forgotten \cup {o}
           ELSE UNCHANGED <<held, amountHeld, forgotten>>
        /\ \/ Waits(o) /\ Goto(o, IF decline THEN "declined" ELSE "held")
           \/ UNCHANGED phase
  /\ UNCHANGED <<cash, consumed, released, callsMade, live, events, releases, counters,
                 torn>>

-----------------------------------------------------------------------------
(* release_reservation *)

\* release_remaining(reservation, account) for a reservation of which `left` remains.
Unhold(u, left) == held' = [held EXCEPT ![u] = AtLeastZero(@ - left)]

Row(o) == [held |-> amountHeld[o], consumed |-> consumed[o], released |-> released[o]]

\* Before the lock: no row, or nothing left, ends the request here.
ReleaseRead(r, o) ==
  /\ releasePc[r] = "start"
  /\ phase[o] = "unwinding"
  /\ IF amountHeld[o] > 0 /\ Remaining(o) > 0
     THEN /\ releasePc' = [releasePc EXCEPT ![r] = "apply"]
          /\ releaseOf' = [releaseOf EXCEPT ![r] = o]
          /\ view' = [view EXCEPT ![r] = Row(o)]
     ELSE /\ releasePc' = [releasePc EXCEPT ![r] = "done"]
          /\ UNCHANGED <<releaseOf, view>>
  /\ UNCHANGED <<balances, reservations, phase, calls, live, events, counters, history>>

\* Under the lock, on the copy of the reservation: what was consumed or released since
\* it was read is released once more.
ReleaseApply(r) ==
  /\ releasePc[r] = "apply"
  /\ LET o == releaseOf[r]
         left == view[r].held - view[r].consumed - view[r].released
     IN /\ Unhold(Owner[o], left)
        /\ released' = [released EXCEPT ![o] = view[r].released + left]
        /\ torn' = IF view[r] = Row(o) THEN torn ELSE torn \cup {o}
  /\ releasePc' = [releasePc EXCEPT ![r] = "done"]
  /\ releaseOf' = [releaseOf EXCEPT ![r] = NoOrder]
  /\ view' = [view EXCEPT ![r] = NoView]
  /\ UNCHANGED <<cash, amountHeld, consumed, phase, calls, live, events, counters, forgotten>>

-----------------------------------------------------------------------------
(* The event handlers *)

Settle(o, i) == settled' = [settled EXCEPT ![o] = @ \cup {i}]

\* Events of o still to be handled, in any order.
Arrives(o, i) == i \in DOMAIN stream[o] /\ i \notin settled[o]

Cost(e) == e.price * e.quantity

\* Mutant: a fill consumes the hold by the size of its order.
ConsumedByOrderSize(o, e) == Least(Hold(o), AtLeastZero(Remaining(o)))

\* What a fill consumes of the hold.  A MARKET order has no limit price to consume
\* at; without a reservation, the cash there is.
Consumed(o, e) ==
  IF IsUnreserved(o) THEN Least(Cost(e), cash[Owner[o]])
  ELSE Least(IF o \in Market THEN Cost(e) ELSE Limit[o] * e.quantity,
             AtLeastZero(Remaining(o)))

\* Mutant: the last fill of an order releases nothing.
KeepsRest(o, e) == 0

\* What the last fill of an order releases on top.
ReleasedByFill(o, e) ==
  IF e.left = 0 /\ ~ IsUnreserved(o) THEN AtLeastZero(Remaining(o) - Consumed(o, e)) ELSE 0

\* The buyer's balances after a fill.
CashAfter(o, e) == cash[Owner[o]] - Cost(e)

\* Mutant: what is paid leaves held_balance, instead of what is consumed.
HeldAfterCost(o, e) ==
  AtLeastZero(AtLeastZero(held[Owner[o]] - Cost(e)) - ReleasedByFill(o, e))

HeldAfter(o, e) ==
  AtLeastZero(AtLeastZero(held[Owner[o]] - Consumed(o, e)) - ReleasedByFill(o, e))

\* ck_cash_non_negative and ck_held_le_cash, when the seller's SELECT flushes.
ChecksPass(o, e) == 0 <= CashAfter(o, e) /\ HeldAfter(o, e) <= CashAfter(o, e)

IsFill(o, i) == stream[o][i].kind = "trade.executed"

Proceeds(o, e) == Cost(e)

\* handle_trade_executed: both sides settle, the hold is consumed.
SettleFill(o, i) ==
  /\ Arrives(o, i) /\ IsFill(o, i)
  /\ LET e == stream[o][i]
         u == Owner[o]
         buyerPaid == [cash EXCEPT ![u] = CashAfter(o, e)]
     IN /\ ChecksPass(o, e)
        /\ cash' = [buyerPaid EXCEPT ![e.seller] = @ + Proceeds(o, e)]
        /\ held' = [held EXCEPT ![u] = HeldAfter(o, e)]
        /\ consumed' = [consumed EXCEPT ![o] = IF IsUnreserved(o) THEN @ ELSE @ + Consumed(o, e)]
        /\ released' = [released EXCEPT ![o] = @ + ReleasedByFill(o, e)]
  /\ Settle(o, i)
  /\ UNCHANGED <<amountHeld, phase, calls, live, stream, refused, releases, counters, history>>

\* The transaction is refused at every attempt, and the event dead-lettered.
RefuseFill(o, i) ==
  /\ Arrives(o, i) /\ IsFill(o, i)
  /\ ~ ChecksPass(o, stream[o][i])
  /\ refused' = refused \cup {o}
  /\ Settle(o, i)
  /\ UNCHANGED <<balances, reservations, phase, calls, live, stream, releases, counters,
                 history>>

\* handle_order_cancelled and handle_order_rejected.
HandleRelease(o, i) ==
  /\ Arrives(o, i) /\ ~ IsFill(o, i)
  /\ IF amountHeld[o] > 0 /\ Remaining(o) > 0
     THEN /\ Unhold(Owner[o], Remaining(o))
          /\ released' = [released EXCEPT ![o] = @ + Remaining(o)]
     ELSE UNCHANGED <<held, released>>
  /\ Settle(o, i)
  /\ UNCHANGED <<cash, amountHeld, consumed, phase, calls, live, stream, refused, releases,
                 counters, history>>

-----------------------------------------------------------------------------
(* The callers: Order Service and Matching Engine *)

\* reserve(): a call, and another one while none was answered.
CallReserve(o) ==
  /\ phase[o] \in {"idle", "reserving"}
  /\ callsMade[o] < MaxReserveCalls[o]
  /\ Goto(o, "reserving")
  /\ reserveCalls' = [reserveCalls EXCEPT ![o] = @ + 1]
  /\ callsMade' = [callsMade EXCEPT ![o] = @ + 1]
  /\ UNCHANGED <<balances, reservations, live, events, releases, counters, history>>

\* Every attempt timed out, or a restart finds the order PENDING: the holds are
\* released and the order is rejected.
GiveUp(o) ==
  /\ Waits(o)
  /\ Goto(o, "unwinding")
  /\ UNCHANGED <<balances, reservations, calls, live, events, releases, counters, history>>

Rest(o) == live' = [live EXCEPT ![o] = Quantity[o]]

\* order.accepted goes out; a publish that raises may have reached the engine.
PublishAccepted(o) ==
  /\ phase[o] = "held"
  /\ \/ Goto(o, "live") /\ Rest(o)
     \/ Goto(o, "unwinding") /\ (Rest(o) \/ UNCHANGED live)
  /\ UNCHANGED <<balances, reservations, calls, events, releases, counters, history>>

Event(kind) == [kind |-> kind, seller |-> CHOOSE u \in Users : TRUE, price |-> 0,
                quantity |-> 0, left |-> 0]

Tell(o, event) == stream' = [stream EXCEPT ![o] = Append(@, event)]

\* _reject: order.rejected goes out, or is lost with a warning.
Reject(o) ==
  /\ phase[o] \in {"declined", "unwinding"}
  /\ Goto(o, "rejected")
  /\ \/ Tell(o, Event("order.rejected")) /\ UNCHANGED forgotten
     \/ UNCHANGED stream /\ forgotten' = forgotten \cup {o}
  /\ UNCHANGED <<balances, reservations, calls, live, settled, refused, releases, counters, torn>>

\* The engine: a limit order never trades above its limit, nobody with himself, and an
\* order no more than its size, which holds while the engine does not restart.
Trade(o, seller, price, q) ==
  /\ q <= live[o]
  /\ o \in Market \/ price <= Limit[o]
  /\ live' = [live EXCEPT ![o] = @ - q]
  /\ Tell(o, [kind |-> "trade.executed", seller |-> seller, price |-> price,
              quantity |-> q, left |-> live[o] - q])
  /\ UNCHANGED <<balances, reservations, phase, calls, settled, refused, releases, counters,
                 history>>

Cancel(o) ==
  /\ live[o] > 0
  /\ live' = [live EXCEPT ![o] = 0]
  /\ Tell(o, Event("order.cancelled"))
  /\ UNCHANGED <<balances, reservations, phase, calls, settled, refused, releases, counters,
                 history>>

CallerStep(o) ==
  \/ CallReserve(o) \/ GiveUp(o) \/ PublishAccepted(o) \/ Reject(o) \/ Cancel(o)
  \/ \E seller \in Users \ {Owner[o]}, price \in Prices, q \in 1..Quantity[o] :
       Trade(o, seller, price, q)

HandlerStep(o) ==
  \E i \in DOMAIN stream[o] : SettleFill(o, i) \/ RefuseFill(o, i) \/ HandleRelease(o, i)

Next ==
  \/ \E u \in Users, amount \in Deposits : Deposit(u, amount)
  \/ \E o \in Orders : ReserveFunds(o) \/ HandlerStep(o) \/ CallerStep(o)
  \/ \E r \in Releasers : ReleaseApply(r) \/ \E o \in Orders : ReleaseRead(r, o)

Spec == Init /\ [][Next]_vars

-----------------------------------------------------------------------------
(* Properties *)

Amounts == [held : Int, consumed : Int, released : Int]
Events == [kind : {"trade.executed", "order.cancelled", "order.rejected"}, seller : Users,
           price : Prices \cup {0}, quantity : Nat, left : Nat]

\* The shape of the state; balances and reservations are never negative, which is
\* what ck_held_non_negative and ck_cash_non_negative promise.
TypeOK ==
  /\ cash \in [Users -> Nat] /\ held \in [Users -> Nat]
  /\ amountHeld \in [Orders -> Nat]
  /\ consumed \in [Orders -> Nat] /\ released \in [Orders -> Nat]
  /\ phase \in [Orders -> Phases]
  /\ reserveCalls \in [Orders -> Nat] /\ callsMade \in [Orders -> Nat]
  /\ live \in [Orders -> Nat]
  /\ stream \in [Orders -> Seq(Events)]
  /\ settled \in [Orders -> SUBSET Nat]
  /\ refused \subseteq Orders /\ forgotten \subseteq Orders /\ torn \subseteq Orders
  /\ releasePc \in [Releasers -> {"start", "apply", "done"}]
  /\ releaseOf \in [Releasers -> Orders \cup {NoOrder}]
  /\ view \in [Releasers -> Amounts]
  /\ deposited \in Nat /\ deposits \in 0..MaxDeposits

Total(f) == SumFunctionOnSet(f, Users)

\* No settlement, hold or release makes or destroys money.
CashConserved == Total(cash) = deposited

\* No account has more on hold than it has cash (ck_held_le_cash), which reserving alone
\* must see to.  A reservation gives up no more than it holds, neither by fills nor by
\* releases, and by both together only if a release worked on a stale copy of it.
HoldsCovered ==
  /\ \A u \in Users : held[u] <= cash[u]
  /\ \A o \in Orders : consumed[o] <= amountHeld[o] /\ released[o] <= amountHeld[o]
  /\ \A o \in Orders \ torn : Remaining(o) >= 0

OrdersOf(u) == {o \in Orders : Owner[o] = u}
LeftOfHolds == [o \in Orders |-> AtLeastZero(Remaining(o))]
Reserved(u) == SumFunctionOnSet(LeftOfHolds, OrdersOf(u))

\* held_balance is what is left of the user's reservations, all together: the clamp
\* max(ZERO, ...) never hides a difference.  A release that worked on a stale copy may
\* have freed money of his other orders, so that less is on hold; never more.
HeldMatchesReservations ==
  \A u \in Users :
    /\ held[u] <= Reserved(u)
    /\ torn \cap OrdersOf(u) = {} => held[u] = Reserved(u)

\* What is still to be paid of o: its rest in the book and the fills on the bus.
Unsettled(o) == DOMAIN stream[o] \ settled[o]
Quantities(s) == [i \in DOMAIN s |-> s[i].quantity]
ToPay(o) == live[o] + SumFunctionOnSet(Quantities(stream[o]), Unsettled(o))

\* Until something is released of it, the hold of a limit order covers all that can
\* still be traded of it at its limit, in whatever order the fills are handled.
HoldCoversRest ==
  \A o \in Orders \ Market :
    live[o] > 0 /\ released[o] = 0 => Remaining(o) >= Limit[o] * ToPay(o)

\* The books of the account service: no money made or lost, the balances in account with
\* the reservations, and what a reservation has left enough for what its order may cost.
BooksBalance == CashConserved /\ HeldMatchesReservations /\ HoldCoversRest

\* A fill of a limit order fails to settle only if its own hold was released before, or
\* a hold of the same buyer on a stale copy; no other buyer can take the money for it.
RefusedOnlyAfterRelease ==
  \A o \in refused \ Market : released[o] > 0 \/ torn \cap OrdersOf(Owner[o]) # {}

Finished(o) ==
  /\ phase[o] \in {"live", "rejected"} /\ live[o] = 0
  /\ settled[o] = DOMAIN stream[o]
  /\ \A r \in Releasers : releaseOf[r] # o

\* An order that is over and whose events were all handled keeps no hold, unless a
\* reserve call was executed after its caller gave up, order.rejected was lost, or
\* the last fill was refused.  Overlapping releases can free too much, never too little.
NoHoldLeak ==
  \A o \in Orders \ (forgotten \cup refused) :
    Finished(o) => Remaining(o) <= 0 /\ (o \notin torn => Remaining(o) = 0)
=============================================================================
