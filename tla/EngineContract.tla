--------------------------- MODULE EngineContract ---------------------------
(***************************************************************************)
(* What the Order Service relies on the Matching Engine for: which orders  *)
(* it has in the book, with how much left, and the events it answers with. *)
(* Prices, priorities and the matching rule are hidden: any two live       *)
(* orders of opposite sides may trade.                                     *)
(*                                                                         *)
(* Messages are delivered in any order and at least once.  The engine      *)
(* publishes after it releases the symbol lock and swallows a failed       *)
(* publish, so any event may be lost.                                      *)
(***************************************************************************)
EXTENDS Naturals, FiniteSetsExt

CONSTANTS Orders,
          Quantity,      \* Quantity[o]: the size the order was placed with
          Side,          \* Side[o]: "BUY" or "SELL"
          Type,          \* Type[o]: "LIMIT" or "MARKET"
          MaxQuantity,   \* no order is larger
          MaxEngineFaults \* bound: lost events, redelivered requests and restarts

VARIABLES
  accepted,        \* order.accepted messages not yet acked: [order, quantity]
  cancelRequests,  \* cancelRequests[o]: unacked order.cancel_requested messages
  trades,          \* trade.executed events not yet handled
  cancelled,       \* cancelled[o]: unhandled order.cancelled events
  cancelRejected,  \* cancelRejected[o]: unhandled order.cancel_rejected events
  seen,            \* seen_orders
  live,            \* live[o]: what is left of o in the book, 0 when it is not there
  traded,          \* history: traded[o], all the engine ever traded of o
  lost,            \* history: lost[o], the traded quantity whose event was never published
  answersLost,     \* history: orders with a lost cancel answer or a crashed engine
  tradeCount,      \* trades made so far, the next trade_id
  engineFaults     \* faults so far, see MaxEngineFaults

book == <<seen, live>>
engineHistory == <<traded, lost, answersLost, tradeCount>>
engineVars == <<accepted, cancelRequests, trades, cancelled, cancelRejected, seen, live,
                traded, lost, answersLost, tradeCount, engineFaults>>

\* Which orders may trade with each other.
Legs == {legs \in SUBSET {o \in Orders : live[o] > 0} :
           /\ Cardinality(legs) \in {1, 2}   \* 1: the other order is of somebody else
           /\ \A a, b \in legs : a # b => Side[a] # Side[b]}

EngineInit ==
  /\ accepted = {} /\ trades = {}
  /\ cancelRequests = [o \in Orders |-> 0]
  /\ cancelled = [o \in Orders |-> 0] /\ cancelRejected = [o \in Orders |-> 0]
  /\ seen = {} /\ live = [o \in Orders |-> 0]
  /\ traded = [o \in Orders |-> 0] /\ lost = [o \in Orders |-> 0]
  /\ answersLost = {} /\ tradeCount = 0 /\ engineFaults = 0

EngineFault == /\ engineFaults < MaxEngineFaults
               /\ engineFaults' = engineFaults + 1

\* How much of o the trades in S moved.
QuantityIn(S, o) == SumFunctionOnSet([t \in S |-> t.quantity], {t \in S : o \in t.legs})

Put(queue, o) == [queue EXCEPT ![o] = @ + 1]
Take(queue, o) == [queue EXCEPT ![o] = @ - 1]

IsNew(o) == live[o] = 0 /\ o \notin seen

\* handle_order_accepted: a new order enters the book; a duplicate is ignored.  When the
\* ack is lost the message comes again.
AcceptOrder(m) ==
  /\ m \in accepted
  /\ \/ accepted' = accepted \ {m} /\ UNCHANGED engineFaults
     \/ UNCHANGED accepted /\ EngineFault
  /\ IF IsNew(m.order)
     THEN /\ seen' = seen \cup {m.order}
          /\ live' = [live EXCEPT ![m.order] = m.quantity]
     ELSE UNCHANGED book
  /\ UNCHANGED <<cancelRequests, trades, cancelled, cancelRejected, engineHistory>>

\* match: live orders trade and a trade.executed event goes out.
Trade(legs, q) ==
  /\ tradeCount' = tradeCount + 1
  /\ \A o \in legs : live[o] >= q
  /\ live' = [o \in Orders |-> IF o \in legs THEN live[o] - q ELSE live[o]]
  /\ traded' = [o \in Orders |-> IF o \in legs THEN traded[o] + q ELSE traded[o]]
  /\ trades' = trades \cup {[id |-> tradeCount, legs |-> legs, quantity |-> q]}
  /\ UNCHANGED <<accepted, cancelRequests, cancelled, cancelRejected, seen, lost, answersLost,
                 engineFaults>>

\* match, the remainder of a MARKET order: Immediate-Or-Cancel.
CancelRemainder(o) ==
  /\ Type[o] = "MARKET"
  /\ live[o] > 0
  /\ live' = [live EXCEPT ![o] = 0]
  /\ cancelled' = Put(cancelled, o)
  /\ UNCHANGED <<accepted, cancelRequests, trades, cancelRejected, seen, engineHistory,
                 engineFaults>>

\* order.cancelled for an order the book held, order.cancel_rejected otherwise.
Answer(o) ==
  IF live[o] > 0
  THEN cancelled' = Put(cancelled, o) /\ UNCHANGED cancelRejected
  ELSE cancelRejected' = Put(cancelRejected, o) /\ UNCHANGED cancelled

\* handle_cancel_requested: the book decides.  When the ack is lost the request
\* comes again, and is then rejected.
CancelOrder(o) ==
  /\ cancelRequests[o] > 0
  /\ live' = [live EXCEPT ![o] = 0]
  /\ Answer(o)
  /\ \/ cancelRequests' = Take(cancelRequests, o) /\ UNCHANGED engineFaults
     \/ UNCHANGED cancelRequests /\ EngineFault
  /\ UNCHANGED <<accepted, trades, seen, engineHistory>>

LoseTrade(t) ==
  /\ EngineFault
  /\ trades' = trades \ {t}
  /\ lost' = [o \in Orders |-> IF o \in t.legs THEN lost[o] + t.quantity ELSE lost[o]]
  /\ UNCHANGED <<accepted, cancelRequests, cancelled, cancelRejected, book, traded, answersLost,
                 tradeCount>>

LoseAnswer(o) ==
  /\ EngineFault
  /\ \/ cancelled[o] > 0 /\ cancelled' = Take(cancelled, o) /\ UNCHANGED cancelRejected
     \/ cancelRejected[o] > 0 /\ cancelRejected' = Take(cancelRejected, o) /\ UNCHANGED cancelled
  /\ answersLost' = answersLost \cup {o}
  /\ UNCHANGED <<accepted, cancelRequests, trades, book, traded, lost, tradeCount>>

\* _publish swallows a failed publish: the event is gone.
LoseEvent == (\E t \in trades : LoseTrade(t)) \/ (\E o \in Orders : LoseAnswer(o))

\* The engine restarts with a book of open[o] of each order, as the Order Service
\* reports them, or with an empty one.  The book is in memory, and events that were
\* not yet published are gone with it; a message that was not acked comes again.
Restart(open) ==
  /\ EngineFault
  /\ seen' = {o \in Orders : open[o] > 0}
  /\ live' = open
  /\ \E gone \in SUBSET trades :
       /\ trades' = trades \ gone
       /\ lost' = [o \in Orders |-> lost[o] + QuantityIn(gone, o)]
  /\ \E silenced \in SUBSET {o \in Orders : cancelled[o] > 0},
         denied \in SUBSET {o \in Orders : cancelRejected[o] > 0} :
       /\ cancelled' = [o \in Orders |-> IF o \in silenced THEN cancelled[o] - 1
                                                           ELSE cancelled[o]]
       /\ cancelRejected' = [o \in Orders |-> IF o \in denied THEN cancelRejected[o] - 1
                                                              ELSE cancelRejected[o]]
  /\ \/ UNCHANGED accepted
     \/ \E o \in seen, q \in 1..MaxQuantity :
          q <= Quantity[o] /\ accepted' = accepted \cup {[order |-> o, quantity |-> q]}
  /\ \/ UNCHANGED cancelRequests
     \/ \E o \in Orders : cancelRequests' = Put(cancelRequests, o)
  /\ answersLost' = Orders
  /\ UNCHANGED <<traded, tradeCount>>

EngineNext ==
  \/ \E m \in accepted : AcceptOrder(m)
  \/ \E legs \in Legs, q \in 1..MaxQuantity : Trade(legs, q)
  \/ \E o \in Orders : CancelRemainder(o) \/ CancelOrder(o)
  \/ LoseEvent

\* What the services around the engine do to the bus.
EnvStep ==
  /\ UNCHANGED <<book, engineHistory>>
  /\ UNCHANGED engineFaults \/ EngineFault
  /\ \/ /\ \E m \in accepted' :
             m.quantity \in 1..Quantity[m.order] /\ accepted' = accepted \cup {m}
        /\ UNCHANGED <<cancelRequests, trades, cancelled, cancelRejected>>
     \/ /\ \E o \in Orders : cancelRequests' = Put(cancelRequests, o)
        /\ UNCHANGED <<accepted, trades, cancelled, cancelRejected>>
     \/ /\ \E t \in trades : trades' = trades \ {t}
        /\ UNCHANGED <<accepted, cancelRequests, cancelled, cancelRejected>>
     \/ /\ \E o \in Orders : cancelled[o] > 0 /\ cancelled' = Take(cancelled, o)
        /\ UNCHANGED <<accepted, cancelRequests, trades, cancelRejected>>
     \/ /\ \E o \in Orders : cancelRejected[o] > 0 /\ cancelRejected' = Take(cancelRejected, o)
        /\ UNCHANGED <<accepted, cancelRequests, trades, cancelled>>

RestartAnyhow == live' \in [Orders -> 0..MaxQuantity] /\ Restart(live')

ContractNext == EngineNext \/ EnvStep \/ RestartAnyhow

ContractSpec == EngineInit /\ [][ContractNext]_engineVars
=============================================================================
