---------------------------- MODULE TradingPages ----------------------------
(***************************************************************************)
(* The order ticket and the orders page of the frontend, and what the      *)
(* Order Service answers them.  OrderService has the saga and the engine's *)
(* events in detail; here an order moves along the edges of transition()   *)
(* as it likes, and what matters is what the user is told of it.           *)
(***************************************************************************)
EXTENDS Integers, SequencesExt, Bags

CONSTANTS
  Sizes,           \* the quantities the user types
  Rows,            \* the orders there may be when the pages are opened
  MaxOrders,       \* bound: orders
  MaxPolls,        \* bound: list requests in flight at once
  MaxClicks,       \* bound: orders placed and cancelled
  MaxFaults,       \* bound: requests and answers that are lost
  Unloaded         \* the orders page has no list yet

VARIABLES
  place,           \* bound: the user works with the ticket, with the orders page, or neither
  orders,          \* the user's orders: [key, size, status], key 0 for those from before
  key,             \* the ticket's clientOrderId
  submitting,      \* the ticket's button is disabled
  posts,           \* the requests to place an order: [key, size, row, heard, answer]
  reported,        \* history: how many orders the user was told are submitted
  list,            \* the orders page: the status of each order, or Unloaded
  polls,           \* bag of the list requests' answers on their way
  cancels,         \* the cancel requests: [row, served]
  clicks, faults

tradingVars ==
  <<place, orders, key, submitting, posts, reported, list, polls, cancels, clicks, faults>>
ticket == <<key, submitting, posts, reported>>
ordersPage == <<list, polls, cancels>>

ASSUME TradingBoundAssumption ==
  /\ MaxOrders \in Nat /\ MaxPolls \in Nat \ {0} /\ MaxClicks \in Nat /\ MaxFaults \in Nat

ASSUME RowsAssumption == Rows \subseteq Seq([key : {0}, size : Sizes, status : STRING])

Click == clicks < MaxClicks /\ clicks' = clicks + 1
Lost == faults < MaxFaults /\ faults' = faults + 1

Final == {"FILLED", "CANCELLED", "REJECTED"}

\* ALLOWED, without the partial fills; the user's cancellation and the saga's
\* compensation are actions below.
Moves(status) ==
  CASE status = "PENDING" -> {"NEW", "REJECTED"}
    [] status = "NEW" -> {"FILLED", "CANCELLED"}
    [] status = "CANCEL_PENDING" -> {"CANCELLED", "FILLED", "NEW"}
    [] OTHER -> {}

OrderMoves(i) ==
  /\ \E s \in Moves(orders[i].status) : orders' = [orders EXCEPT ![i].status = s]
  /\ UNCHANGED <<place, ticket, ordersPage, clicks, faults>>

Statuses == [i \in DOMAIN orders |-> orders[i].status]

-----------------------------------------------------------------------------
(* The ticket *)

\* The order's fields are free all the time, and its button is disabled while one is placed.
CanPlace == place = "ticket" /\ ~ submitting

\* submit: what the form refuses never leaves it.
SubmitOrder(n) ==
  /\ Click
  /\ CanPlace
  /\ submitting' = TRUE
  /\ posts' = posts \cup
       {[key |-> key, size |-> n, row |-> 0, heard |-> TRUE, answer |-> "none"]}
  /\ UNCHANGED <<place, orders, key, reported, ordersPage, faults>>

\* place_order, steps 2 and 3: the order a key already has is the answer, whatever became
\* of it; another is committed as PENDING and goes on to its reservation.
PostServed(p) ==
  LET same == {i \in DOMAIN orders : orders[i].key = p.key} IN
  /\ p \in posts /\ p.row = 0
  /\ \/ /\ \E i \in same : posts' = (posts \ {p}) \cup {[p EXCEPT !.row = i, !.answer = "order"]}
        /\ UNCHANGED orders
     \/ /\ same = {} /\ Len(orders) < MaxOrders
        /\ orders' = Append(orders, [key |-> p.key, size |-> p.size, status |-> "PENDING"])
        /\ posts' = (posts \ {p}) \cup {[p EXCEPT !.row = Len(orders')]}
  /\ UNCHANGED <<place, key, submitting, reported, ordersPage, clicks, faults>>

\* Steps 4 to 7: 201 once the order is open; 409 or 503 once it is rejected, for want of
\* the reservation or because order.accepted could not be published.
PostDecided(p) ==
  LET status == orders[p.row].status IN
  /\ p \in posts /\ p.row # 0 /\ p.answer = "none" /\ status # "PENDING"
  /\ \/ /\ status # "REJECTED" /\ UNCHANGED orders
        /\ posts' = (posts \ {p}) \cup {[p EXCEPT !.answer = "order"]}
     \/ /\ status \in {"NEW", "REJECTED"}
        /\ orders' = [orders EXCEPT ![p.row].status = "REJECTED"]
        /\ posts' = (posts \ {p}) \cup {[p EXCEPT !.answer = "error"]}
  /\ UNCHANGED <<place, key, submitting, reported, ordersPage, clicks, faults>>

\* Mutant: every attempt gets an id of its own.
NewKeyAnyway(p) == key' = key + 1

\* The next order is a new order.
NextKey(p) == key' = IF p.answer = "order" THEN key + 1 ELSE key

\* What the ticket hears of its request ends it.
PostAnswered(p) ==
  /\ p \in posts /\ p.heard /\ p.answer # "none"
  /\ posts' = posts \ {p} /\ submitting' = FALSE
  /\ NextKey(p)
  /\ reported' = IF p.answer = "order" THEN reported + 1 ELSE reported
  /\ UNCHANGED <<place, orders, ordersPage, clicks, faults>>

\* The connection breaks, or the gateway gives up: an error for the ticket, while the
\* request may go on.
PostLost(p) ==
  /\ Lost
  /\ p \in posts /\ p.heard
  /\ submitting' = FALSE /\ NextKey([p EXCEPT !.answer = "error"])
  /\ posts' \in {posts \ {p}, (posts \ {p}) \cup {[p EXCEPT !.heard = FALSE]}}
  /\ UNCHANGED <<place, orders, reported, ordersPage, clicks>>

-----------------------------------------------------------------------------
(* The orders page *)

\* Mutant: the page polls for the orders of its "open" statuses.
LiveInBook == {"NEW", "CANCEL_PENDING"}
AnyOpen(l) == l # Unloaded /\ \E i \in DOMAIN l : l[i] \in LiveInBook

\* Poll only while something can still change.
AnyLive(l) == l # Unloaded /\ \E i \in DOMAIN l : l[i] \notin Final

Load == polls' = polls (+) SetToBag({Statuses})

\* The timer, whether the answers before have come or not.
PollOrders ==
  /\ place = "orders" /\ AnyLive(list) /\ BagCardinality(polls) < MaxPolls
  /\ Load
  /\ UNCHANGED <<place, orders, ticket, list, cancels, clicks, faults>>

LoadAnswered(l) ==
  /\ BagIn(l, polls) /\ polls' = polls (-) SetToBag({l})
  /\ list' = l
  /\ UNCHANGED <<place, orders, ticket, cancels, clicks, faults>>

LoadFails(l) ==
  /\ Lost
  /\ BagIn(l, polls) /\ polls' = polls (-) SetToBag({l})
  /\ UNCHANGED <<place, orders, ticket, list, cancels, clicks>>

\* Open orders: the history has no buttons.
Open == IF list = Unloaded THEN {} ELSE {i \in DOMAIN list : list[i] \notin Final}

\* The button is disabled while the order or the page's own request is on the way.
CanCancel(i) == list[i] # "CANCEL_PENDING" /\ \A c \in cancels : c.row # i

\* cancel: the mark is optimistic.
Cancel(i) ==
  /\ Click
  /\ CanCancel(i)
  /\ list' = [list EXCEPT ![i] = "CANCEL_PENDING"]
  /\ cancels' = cancels \cup {[row |-> i, served |-> FALSE]}
  /\ UNCHANGED <<place, orders, ticket, polls, faults>>

\* cancel_order: 202 for an open order, 409 for another.
CancelServed(c) ==
  /\ c \in cancels /\ ~ c.served
  /\ cancels' = (cancels \ {c}) \cup {[c EXCEPT !.served = TRUE]}
  /\ orders' = IF orders[c.row].status = "NEW"
               THEN [orders EXCEPT ![c.row].status = "CANCEL_PENDING"] ELSE orders
  /\ UNCHANGED <<place, ticket, list, polls, clicks, faults>>

\* Whatever the answer, the list is loaded again.
CancelAnswered(c) ==
  /\ c \in cancels /\ c.served
  /\ cancels' = cancels \ {c} /\ Load
  /\ UNCHANGED <<place, orders, ticket, list, clicks, faults>>

\* It breaks before it reaches the service.
CancelLost(c) ==
  /\ Lost
  /\ c \in cancels /\ ~ c.served
  /\ cancels' = cancels \ {c} /\ Load
  /\ UNCHANGED <<place, orders, ticket, list, clicks>>

TradingInit ==
  /\ place \in {"ticket", "orders", "none"}
  /\ orders \in IF place = "orders" THEN Rows ELSE {<<>>}
  /\ key = 1 /\ submitting = FALSE /\ posts = {} /\ reported = 0
  /\ list = Unloaded
  /\ polls = IF place = "orders" THEN SetToBag({Statuses}) ELSE EmptyBag
  /\ cancels = {} /\ clicks = 0 /\ faults = 0

\* The browser leaves the pages.  What was on its way has reached the service or never does.
LeavePages ==
  /\ place' = "none" /\ submitting' = FALSE
  /\ posts' = {} /\ list' = Unloaded /\ polls' = EmptyBag /\ cancels' = {}
  /\ UNCHANGED <<orders, key, reported, clicks, faults>>

TradingNext ==
  \/ \E i \in DOMAIN orders : OrderMoves(i)
  \/ \E n \in Sizes : SubmitOrder(n)
  \/ \E p \in posts : PostServed(p)
  \/ \E p \in posts : PostDecided(p)
  \/ \E p \in posts : PostAnswered(p)
  \/ \E p \in posts : PostLost(p)
  \/ PollOrders
  \/ \E l \in BagToSet(polls) : LoadAnswered(l)
  \/ \E l \in BagToSet(polls) : LoadFails(l)
  \/ \E i \in Open : Cancel(i)
  \/ \E c \in cancels : CancelServed(c)
  \/ \E c \in cancels : CancelAnswered(c)
  \/ \E c \in cancels : CancelLost(c)

-----------------------------------------------------------------------------
(* Properties *)

\* The ticket buys once (OrderTicket.tsx:37): however often the user tries again after
\* an error whose request went through, no more orders than those the ticket has reported
\* and the one it is at get past their rejection.
BuysOnce ==
  Cardinality({i \in DOMAIN orders : orders[i].key # 0 /\ orders[i].status # "REJECTED"})
    <= reported + 1

\* The orders page ends right: once every order has come to its end, a page that has loaded
\* its list shows each one's end for good, although polls overtake each other, optimistic
\* marks stand in between, and polling stops with the last order the page takes for live.
PageSettles ==
  <>[](\A i \in DOMAIN orders : orders[i].status \in Final) /\ <>[](list # Unloaded)
    => <>[](list = Statuses)
=============================================================================
