--------------------------- MODULE MatchingEngine ---------------------------
(***************************************************************************)
(* services/matching-engine: the order book of one symbol, its two         *)
(* consumers, and the rebuild of the book after a restart.                 *)
(*                                                                         *)
(* The symbol lock serialises matching and cancelling; each match of the   *)
(* loop in match() is a step taken under the lock.  The events of a handler*)
(* go out one by one after it has released the lock, and it takes its next *)
(* message when they are out.                                              *)
(*                                                                         *)
(* Prices are small numbers.  What the engine hears from the Order Service *)
(* is modelled by the list of open orders that service keeps.              *)
(***************************************************************************)
EXTENDS Integers, SequencesExt, FiniteSetsExt

CONSTANTS
  Orders, Owner, Side, Type, Quantity,
  MaxQuantity,       \* no order is larger
  Price,             \* Price[o]: the limit; not looked at for a MARKET order
  SeenMax,           \* SEEN_ORDERS_MAX
  MaxPlaced,         \* bound: orders placed
  MaxCancels,        \* bound: orders asked to cancel, each once
  MaxFaults,         \* bound: lost acks, failed publishes and restarts
  NoOrder, NoMessage

VARIABLES
  accepted,          \* unacked order.accepted messages: [order, quantity]
  cancelRequests,    \* cancelRequests[o]: unacked order.cancel_requested messages
  inHand,            \* inHand[h]: the message handler h works on, or NoMessage
  bids, asks,        \* the levels: bids[price], asks[price] a sequence of orders
  index,             \* the resting orders
  left,              \* left[o]: BookOrder.remaining
  seen,              \* seen_orders, oldest first
  matching,          \* the order match() works on under the lock, or NoOrder
  outbox,            \* outbox[h]: what handler h has still to publish
  trades,            \* published trade.executed events
  cancelled, cancelRejected, \* how many such events were published about an order
  cancelAsked,       \* the orders the Order Service has asked to cancel
  placed,            \* the orders accepted by the Order Service, oldest first
  traded,            \* history: traded[o]
  tradeCount,        \* history: trades made, the next trade_id
  lost,              \* history: lost[o], the traded quantity that was never published
  lostAnswers,       \* history: orders about which the publish of an answer failed
  restarted,         \* history: the engine has restarted
  faults

inbox == <<accepted, cancelRequests, inHand>>
book == <<bids, asks, index, left>>
bus == <<trades, cancelled, cancelRejected>>
orderService == <<placed, cancelAsked>>
history == <<traded, tradeCount, lost, lostAnswers, restarted>>
vars == <<inbox, book, seen, matching, outbox, bus, orderService, history, faults>>

\* validate(), which the Order Service puts a request through before anything is stored:
\* prices are counted in ticks, and a MARKET order's is not looked at.
ValidPrices == Nat \ {0}
ValidQuantities == 1..MaxQuantity
Admitted ==
  /\ Side \in [Orders -> {"BUY", "SELL"}] /\ Type \in [Orders -> {"LIMIT", "MARKET"}]
  /\ Quantity \in [Orders -> ValidQuantities] /\ Price \in [Orders -> Nat]
  /\ \A o \in Orders : Type[o] = "LIMIT" => Price[o] \in ValidPrices

ASSUME OrderAssumption ==
  /\ Admitted /\ MaxQuantity \in Nat
  /\ DOMAIN Owner = Orders /\ NoOrder \notin Orders
  /\ NoMessage \notin [order : Orders, quantity : Nat]
ASSUME BoundsAssumption == SeenMax \in Nat \ {0} /\ MaxPlaced \in Nat /\ MaxCancels \in Nat /\ MaxFaults \in Nat

Handlers == {"accepted", "cancel"}
Prices == {Price[o] : o \in Orders}
Message(o, q) == [order |-> o, quantity |-> q]

Init ==
  /\ accepted = {} /\ cancelRequests = [o \in Orders |-> 0]
  /\ inHand = [accepted |-> NoMessage, cancel |-> NoMessage]
  /\ bids = [p \in Prices |-> <<>>] /\ asks = [p \in Prices |-> <<>>]
  /\ index = {} /\ left = [o \in Orders |-> 0]
  /\ seen = <<>> /\ matching = NoOrder
  /\ outbox = [h \in Handlers |-> <<>>] /\ trades = {}
  /\ cancelled = [o \in Orders |-> 0] /\ cancelRejected = [o \in Orders |-> 0]
  /\ placed = <<>> /\ cancelAsked = {}
  /\ traded = [o \in Orders |-> 0] /\ tradeCount = 0
  /\ lost = [o \in Orders |-> 0] /\ lostAnswers = {}
  /\ restarted = FALSE /\ faults = 0

Fault == faults < MaxFaults /\ faults' = faults + 1

Opposite(side) == IF side = "BUY" THEN "SELL" ELSE "BUY"
Levels(side) == IF side = "BUY" THEN bids ELSE asks

-----------------------------------------------------------------------------
(* The Order Service, as far as the engine can tell *)

\* A hold is confirmed and the order open: order.accepted goes out.
Place(o) ==
  /\ Len(placed) < MaxPlaced /\ ~ Contains(placed, o)
  /\ placed' = Append(placed, o)
  /\ accepted' = accepted \cup {Message(o, Quantity[o])}
  /\ UNCHANGED <<cancelRequests, inHand, book, seen, matching, outbox, bus, cancelAsked,
                 history, faults>>

\* The rows of the Order Service, when it has handled some of the trades and answers.  A
\* request leaves the row CANCEL_PENDING, until a fill or order.cancel_rejected is handled.
Rows ==
  {rows \in [handled : SUBSET trades, pending : SUBSET cancelAsked] :
     \A o \in cancelAsked \ rows.pending :
       cancelRejected[o] > 0 \/ \E t \in rows.handled : o \in t.orders}

\* What is left of o by its row; 0 when o is not open, which CANCEL_PENDING is not.
Open(o, rows) ==
  IF ~ Contains(placed, o) \/ o \in rows.pending THEN 0
  ELSE Quantity[o] - SumFunctionOnSet([t \in rows.handled |-> t.quantity],
                                      {t \in rows.handled : o \in t.orders})

\* startup_reconciliation publishes order.accepted again, for what is left.
Republish(o) ==
  /\ Fault
  /\ \E rows \in Rows :
       Open(o, rows) > 0 /\ accepted' = accepted \cup {Message(o, Open(o, rows))}
  /\ UNCHANGED <<cancelRequests, inHand, book, seen, matching, outbox, bus, orderService, history>>

RequestCancel(o) ==
  /\ Cardinality(cancelAsked) < MaxCancels /\ o \notin cancelAsked
  /\ \E rows \in Rows : Open(o, rows) > 0
  /\ cancelAsked' = cancelAsked \cup {o}
  /\ cancelRequests' = [cancelRequests EXCEPT ![o] = @ + 1]
  /\ UNCHANGED <<accepted, inHand, book, seen, matching, outbox, bus, placed, history, faults>>

-----------------------------------------------------------------------------
(* The book *)

\* Mutant: a new order goes to the front of its level.
RestAtFront(level, o) == <<o>> \o level

\* rest(): at the back of the level.
AtBack(level, o) == Append(level, o)

RestOrder(levels, o) == [levels EXCEPT ![Price[o]] = AtBack(@, o)]

Removed(levels, o) == [levels EXCEPT ![Price[o]] = RemoveFirst(@, o)]

\* The price of r is acceptable to the incoming order i.
Crosses(i, r) ==
  \/ Type[i] = "MARKET"
  \/ Side[i] = "BUY" /\ Price[r] <= Price[i]
  \/ Side[i] = "SELL" /\ Price[r] >= Price[i]

\* What i may trade with; orders of its own user are skipped and stay where they are.
Candidates(i) ==
  {r \in index : Side[r] = Opposite(Side[i]) /\ Owner[r] # Owner[i] /\ Crosses(i, r)}

BetterPrice(r, s) == IF Side[r] = "BUY" THEN Price[r] > Price[s] ELSE Price[r] < Price[s]

InFrontOf(r, s) ==
  LET level == Levels(Side[r])[Price[r]]
  IN \E a, b \in DOMAIN level : a < b /\ level[a] = r /\ level[b] = s

\* The first candidate: best price, then the front of the level.
IsFirst(r, candidates) ==
  /\ r \in candidates
  /\ \A s \in candidates \ {r} :
       BetterPrice(r, s) \/ (Price[r] = Price[s] /\ InFrontOf(r, s))

Least(x, y) == IF x < y THEN x ELSE y

IsTrade(e) == e.kind = "trade.executed"
IsCancel(e) == e.kind = "order.cancelled"

Event(kind, orders, q) ==
  [kind |-> kind, orders |-> orders, quantity |-> q, id |-> tradeCount]

-----------------------------------------------------------------------------
(* handle_order_accepted *)

IsKnown(o) == o \in index \/ Contains(seen, o)

\* The most recent SEEN_ORDERS_MAX orders.
Remember(o) ==
  LET longer == Append(seen, o)
  IN IF Len(longer) > SeenMax THEN Tail(longer) ELSE longer

\* Handler h may take a message, and the lock is free.
Free(h) == inHand[h] = NoMessage /\ matching = NoOrder

IgnoreDuplicate(m) ==
  /\ Free("accepted") /\ m \in accepted
  /\ IsKnown(m.order)
  /\ accepted' = accepted \ {m}
  /\ UNCHANGED <<cancelRequests, inHand, book, seen, matching, outbox, bus, orderService, history,
                 faults>>

\* The lock is taken and match() starts.
BeginMatch(m) ==
  /\ Free("accepted") /\ m \in accepted
  /\ ~ IsKnown(m.order)
  /\ accepted' = accepted \ {m}
  /\ inHand' = [inHand EXCEPT !["accepted"] = m]
  /\ seen' = Remember(m.order)
  /\ matching' = m.order
  /\ left' = [left EXCEPT ![m.order] = m.quantity]
  /\ UNCHANGED <<cancelRequests, bids, asks, index, outbox, bus, orderService, history, faults>>

\* The ack is lost, and the message is delivered again.
Redeliver ==
  /\ Fault
  /\ inHand["accepted"] # NoMessage
  /\ accepted' = accepted \cup {inHand["accepted"]}
  /\ UNCHANGED <<cancelRequests, inHand, book, seen, matching, outbox, bus, orderService, history>>

\* A handler that has nothing more to publish is done with its message.
DoneWhenOut(h) ==
  inHand' = IF outbox'[h] = <<>> THEN [inHand EXCEPT ![h] = NoMessage] ELSE inHand

Emit(h, events) == outbox' = [outbox EXCEPT ![h] = @ \o events]

Unlock == matching' = NoOrder

\* Mutant: only the index forgets o, which its level still holds.
TakeOutOfIndex(o) == index' = index \ {o} /\ UNCHANGED <<bids, asks>>

\* Takes o out of its level and the index.
TakeOut(o) ==
  /\ index' = index \ {o}
  /\ bids' = IF Side[o] = "BUY" THEN Removed(bids, o) ELSE bids
  /\ asks' = IF Side[o] = "SELL" THEN Removed(asks, o) ELSE asks

TradeQuantity(i, r) == Least(left[i], left[r])

\* One trade of the loop: with the first candidate, which leaves the book when full
\* and keeps its place otherwise.
MatchOne(r) ==
  /\ matching # NoOrder
  /\ LET i == matching
         q == TradeQuantity(i, r)
     IN /\ left[i] > 0
        /\ IsFirst(r, Candidates(i))
        /\ left' = [left EXCEPT ![i] = @ - q, ![r] = @ - q]
        /\ traded' = [traded EXCEPT ![i] = @ + q, ![r] = @ + q]
        /\ tradeCount' = tradeCount + 1
        /\ Emit("accepted", <<Event("trade.executed", {i, r}, q)>>)
        /\ IF left[r] = q THEN TakeOut(r) ELSE UNCHANGED <<index, bids, asks>>
  /\ UNCHANGED <<inbox, seen, matching, bus, orderService, lost, lostAnswers, restarted, faults>>

\* The loop is over.  What is left of a limit order rests; what is left of a market
\* order is cancelled.
EndMatch ==
  /\ matching # NoOrder
  /\ LET i == matching
     IN /\ left[i] = 0 \/ Candidates(i) = {}
        /\ IF left[i] > 0 /\ Type[i] = "LIMIT"
           THEN /\ index' = index \cup {i}
                /\ bids' = IF Side[i] = "BUY" THEN RestOrder(bids, i) ELSE bids
                /\ asks' = IF Side[i] = "SELL" THEN RestOrder(asks, i) ELSE asks
           ELSE UNCHANGED <<index, bids, asks>>
        /\ IF left[i] > 0 /\ Type[i] = "MARKET"
           THEN /\ left' = [left EXCEPT ![i] = 0]
                /\ Emit("accepted", <<Event("order.cancelled", {i}, left[i])>>)
           ELSE UNCHANGED <<left, outbox>>
  /\ DoneWhenOut("accepted")
  /\ Unlock
  /\ UNCHANGED <<accepted, cancelRequests, seen, bus, orderService, history, faults>>

-----------------------------------------------------------------------------
(* handle_cancel_requested *)

\* Mutant: order.cancelled whatever the book says.
AnswerCancelled(o) == <<Event("order.cancelled", {o}, left[o])>>

\* Mutant: a request for an order that is not in the book is dropped.
AnswerIfResting(o) == IF o \in index THEN <<Event("order.cancelled", {o}, left[o])>> ELSE <<>>

\* The book decides.
AnswerTo(o) ==
  IF o \in index THEN <<Event("order.cancelled", {o}, left[o])>>
  ELSE <<Event("order.cancel_rejected", {o}, 0)>>

CancelOrder(o) ==
  /\ Free("cancel") /\ cancelRequests[o] > 0
  /\ \/ cancelRequests' = [cancelRequests EXCEPT ![o] = @ - 1] /\ UNCHANGED faults
     \/ UNCHANGED cancelRequests /\ Fault      \* the ack will be lost
  /\ inHand' = [inHand EXCEPT !["cancel"] = Message(o, 0)]
  /\ Emit("cancel", AnswerTo(o))
  /\ IF o \in index
     THEN TakeOut(o) /\ left' = [left EXCEPT ![o] = 0]
     ELSE UNCHANGED book
  /\ UNCHANGED <<accepted, seen, matching, bus, orderService, history>>

-----------------------------------------------------------------------------
(* Publishing, restart and rebuild_book *)

NextOut(h) == Head(outbox[h])

\* The order an answer is about.
About(e) == CHOOSE o \in e.orders : TRUE

\* The next event of a handler goes out, once it has released the lock.
TakeNext(h) ==
  /\ outbox[h] # <<>>
  /\ h = "accepted" => matching = NoOrder
  /\ outbox' = [outbox EXCEPT ![h] = Tail(@)]
  /\ DoneWhenOut(h)

Publish(h) ==
  /\ TakeNext(h)
  /\ LET e == NextOut(h)
         add(counts) == [counts EXCEPT ![About(e)] = @ + 1]
     IN /\ trades' = IF IsTrade(e) THEN trades \cup {e} ELSE trades
        /\ cancelled' = IF IsCancel(e) THEN add(cancelled) ELSE cancelled
        /\ cancelRejected' = IF IsTrade(e) \/ IsCancel(e) THEN cancelRejected
                                                         ELSE add(cancelRejected)
  /\ UNCHANGED <<accepted, cancelRequests, book, seen, matching, orderService, history, faults>>

\* The quantity of o in a sequence of events.
TradedIn(events, o) ==
  SumFunctionOnSet([n \in DOMAIN events |-> events[n].quantity],
                   {n \in DOMAIN events : IsTrade(events[n]) /\ o \in events[n].orders})

\* A failed publish is swallowed.
PublishFails(h) ==
  /\ Fault
  /\ TakeNext(h)
  /\ LET e == NextOut(h)
     IN /\ lost' = [o \in Orders |-> lost[o] + TradedIn(<<e>>, o)]
        /\ lostAnswers' = IF IsTrade(e) THEN lostAnswers ELSE lostAnswers \cup e.orders
  /\ UNCHANGED <<accepted, cancelRequests, book, seen, matching, bus, orderService, traded,
                 tradeCount, restarted>>

\* The elements of a sequence that are in S, one after the other.
Those(S, seq) ==
  LET those[n \in 0..Len(seq)] ==
        IF n = 0 THEN <<>>
        ELSE IF seq[n] \in S THEN Append(those[n - 1], seq[n]) ELSE those[n - 1]
  IN those[Len(seq)]

\* The open limit orders, oldest first.
OpenOrders(rows) == Those({o \in Orders : Open(o, rows) > 0 /\ Type[o] = "LIMIT"}, placed)

AtLeastZero(x) == IF x < 0 THEN 0 ELSE x

LevelsOf(orders, side) ==
  [p \in Prices |-> Those({o \in Orders : Side[o] = side /\ Price[o] = p}, orders)]

Again(h, o) == inHand[h] # NoMessage /\ inHand[h].order = o

\* The book, seen_orders and what was not yet published are lost, and a message that
\* was not acked comes again.  rebuild_book rests the open orders; it is skipped when
\* the Order Service does not answer.
Restart ==
  /\ Fault
  /\ \E rows \in Rows : \E orders \in {OpenOrders(rows), <<>>} :
       /\ bids' = LevelsOf(orders, "BUY") /\ asks' = LevelsOf(orders, "SELL")
       /\ index' = ToSet(orders)
       /\ left' = [o \in Orders |-> IF Contains(orders, o) THEN Open(o, rows) ELSE 0]
       /\ seen' = SubSeq(orders, AtLeastZero(Len(orders) - SeenMax) + 1, Len(orders))
  /\ accepted' = accepted \cup ({inHand["accepted"]} \ {NoMessage})
  /\ cancelRequests' = [o \in Orders |->
                          cancelRequests[o] + IF Again("cancel", o) THEN 1 ELSE 0]
  /\ inHand' = [h \in Handlers |-> NoMessage]
  /\ Unlock
  /\ outbox' = [h \in Handlers |-> <<>>]
  /\ lost' = [o \in Orders |->
       lost[o] + TradedIn(outbox["accepted"], o) + TradedIn(outbox["cancel"], o)]
  /\ restarted' = TRUE
  /\ UNCHANGED <<bus, orderService, traded, tradeCount, lostAnswers>>

AcceptStep ==
  \/ \E m \in accepted : IgnoreDuplicate(m) \/ BeginMatch(m)
  \/ \E r \in Orders : MatchOne(r)
  \/ EndMatch
  \/ Publish("accepted")

CancelStep == (\E o \in Orders : CancelOrder(o)) \/ Publish("cancel")

OrderServiceStep ==
  \E o \in Orders : Place(o) \/ Republish(o) \/ RequestCancel(o)

Next == AcceptStep \/ CancelStep \/ OrderServiceStep \/ Redeliver \/ Restart \/ \E h \in Handlers : PublishFails(h)

Spec == Init /\ [][Next]_vars

\* Each consumer goes on with its message, and takes the next one.
FairSpec == Spec /\ WF_vars(AcceptStep) /\ WF_vars(CancelStep)

-----------------------------------------------------------------------------
(* Properties *)

Events == [kind : {"trade.executed", "order.cancelled", "order.cancel_rejected"},
           orders : SUBSET Orders, quantity : Nat, id : Nat]
Messages == [order : Orders, quantity : Nat]

\* The shape of the state.
TypeOK ==
  /\ accepted \subseteq Messages /\ cancelRequests \in [Orders -> Nat]
  /\ inHand \in [Handlers -> Messages \cup {NoMessage}]
  /\ bids \in [Prices -> Seq(Orders)] /\ asks \in [Prices -> Seq(Orders)]
  /\ index \subseteq Orders /\ left \in [Orders -> Nat]
  /\ seen \in Seq(Orders) /\ Len(seen) <= SeenMax
  /\ matching \in Orders \cup {NoOrder}
  /\ outbox \in [Handlers -> Seq(Events)] /\ trades \subseteq Events
  /\ cancelled \in [Orders -> Nat] /\ cancelRejected \in [Orders -> Nat]
  /\ placed \in Seq(Orders) /\ cancelAsked \subseteq Orders
  /\ traded \in [Orders -> Nat] /\ tradeCount \in Nat
  /\ lost \in [Orders -> Nat] /\ lostAnswers \subseteq Orders /\ restarted \in BOOLEAN
  /\ faults \in 0..MaxFaults

\* How often o is in the book's levels.
Occurrences(o) ==
  Cardinality({n \in DOMAIN Levels(Side[o])[Price[o]] : Levels(Side[o])[Price[o]][n] = o})

\* The index and the levels hold the same orders, each once at its own price, with
\* something left; nothing else has anything left, but for the order being matched.
\* Otherwise a cancel would miss an order that can still trade, or the other way.
BookConsistent ==
  /\ \A o \in Orders : Occurrences(o) = IF o \in index THEN 1 ELSE 0
  /\ \A p \in Prices : ToSet(bids[p]) \cup ToSet(asks[p]) \subseteq index
  /\ {o \in Orders : left[o] > 0} \in {index, index \cup {matching}}

\* check_invariants: the book is never crossed by orders of two users.
Crossed == \E b, a \in index :
  Side[b] = "BUY" /\ Side[a] = "SELL" /\ Price[b] >= Price[a] /\ Owner[b] # Owner[a]

NotCrossedBeforeRestart == ~ restarted => ~ Crossed

\* However often order.accepted is delivered, republished or redelivered, the engine
\* never trades more of an order than was placed, until it restarts.
NoOverfill == \A o \in Orders : ~ restarted => traded[o] + left[o] <= Quantity[o]

\* The events of a kind that wait to be published, and how many of them are about o.
ToPublish(kind) ==
  UNION {{outbox[h][n] : n \in {n \in DOMAIN outbox[h] : outbox[h][n].kind = kind}} : h \in Handlers}

OnTheWay(kind, o) == Cardinality({e \in ToPublish(kind) : o \in e.orders})

\* An order is cancelled at most once, by a request or as the rest of a market order,
\* until the engine restarts: "or Account would release funds twice".
CancelledOnce ==
  \A o \in Orders : ~ restarted => cancelled[o] + OnTheWay("order.cancelled", o) <= 1

\* The book through partial fills, cancels within a level, redeliveries and rebuilds: levels
\* and index agree, and until a restart no order rests against one it should have traded
\* with, trades too much or is cancelled twice.
BookSound ==
  TypeOK /\ BookConsistent /\ NotCrossedBeforeRestart /\ NoOverfill /\ CancelledOnce

\* The requests that have no answer, nor ever had one that could not be published.
Unanswered == {o \in cancelAsked \ lostAnswers : cancelled[o] + cancelRejected[o] = 0}

\* Every request to cancel is answered, by order.cancelled or order.cancel_rejected on the
\* bus: the loop of match() always ends and frees the lock, whatever o is doing then; and a
\* request whose handler crashes before the answer is out, or with the book, comes again
\* and is answered by what the book is then.  Only an answer whose publish fails is lost.
RequestsAnswered == \A o \in Orders : o \in Unanswered ~> o \notin Unanswered

SeenBefore(r, s) ==
  \E a, b \in DOMAIN seen : a < b /\ seen[a] = r /\ seen[b] = s

\* Price-time priority: whatever was cancelled, partly filled or skipped before, an
\* order trades only when no order the aggressor may trade with has a better price, or
\* the same price and an earlier arrival.
PriceTimePriority ==
  [][\A r \in index : traded'[r] > traded[r] =>
       \A s \in Candidates(matching) \ {r} :
         BetterPrice(r, s) \/ (Price[r] = Price[s] /\ SeenBefore(r, s))]_vars

-----------------------------------------------------------------------------
(* Refinement *)

\* An event counts as sent when match() or cancel() has produced it; a crash may lose any.
Contract == INSTANCE EngineContract WITH
  MaxEngineFaults <- MaxFaults,
  trades <- {[id |-> e.id, legs |-> e.orders, quantity |-> e.quantity] :
               e \in trades \cup ToPublish("trade.executed")},
  cancelled <- [o \in Orders |-> cancelled[o] + OnTheWay("order.cancelled", o)],
  cancelRejected <- [o \in Orders |-> cancelRejected[o] + OnTheWay("order.cancel_rejected", o)],
  seen <- ToSet(seen),
  live <- left,
  answersLost <- IF restarted THEN Orders ELSE lostAnswers,
  engineFaults <- faults

\* The engine does what the Order Service relies on it for.
ImplementsContract == Contract!ContractSpec
=============================================================================
