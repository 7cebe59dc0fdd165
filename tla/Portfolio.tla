----------------------------- MODULE Portfolio -----------------------------
(***************************************************************************)
(* services/portfolio-service: the holdings in one symbol and the share    *)
(* reservations of sell orders.  Unlike the Account Service it locks no    *)
(* rows: requests and the trade handler hold lock:shares:<user> and write  *)
(* back what they computed from the rows they read, and the handler of     *)
(* order.cancelled and order.rejected does so without the lock.  So each   *)
(* handler is three steps here: two reads and a commit.                    *)
(*                                                                         *)
(* The callers are part of the model, as in Account: reserve calls that    *)
(* are retried or arrive late, releases of the compensation, and an engine *)
(* whose events are handled in any order, each once (EventDelivery).  The  *)
(* engine never restarts here: what it trades beyond an order's size after *)
(* a rebuild from rows that lag (matching-engine main.py:46-93) is not in. *)
(***************************************************************************)
EXTENDS Integers, FiniteSetsExt, SequencesExt

CONSTANTS
  Users, Orders,         \* the sell orders; a user may have several
  Owner,                 \* Owner[o]: the seller
  Quantity,              \* Quantity[o]
  Shares,                \* Shares[u]: possible holdings of u at the start
  Requests,              \* sessions of HTTP requests
  MaxReserveCalls,       \* attempts of call_service for one reserve (1 + retries)
  MaxFaults,             \* bound: retries, calls given up, publishes that raise
  NoOrder

VARIABLES
  quantity, reserved,    \* holdings: quantity, reserved_quantity
  row,                   \* share_reservations
  phase,                 \* where the Order Service stands with o
  reserveCalls,          \* reserveCalls[o]: requests sent and not yet executed
  callsMade,             \* callsMade[o]: attempts so far
  live,                  \* live[o]: what is left of o in the book
  stream,                \* stream[o]: events published about o
  settled,               \* settled[o]: positions of stream[o] that were handled
  session,               \* the database sessions: what they do and have read
  returned,              \* history: orders a release or cancellation gave back
  late,                  \* history: users with a fill handled after that
  torn,                  \* history: users with a commit that a lock taken in time would prevent
  refused,               \* history: orders with a fill that was dead-lettered or dropped
  forgotten,             \* history: orders reserved too late or rejected unheard
  faults                 \* number of faults so far

holdings == <<quantity, reserved>>
calls == <<phase, reserveCalls, callsMade>>
engine == <<live, stream>>
marks == <<returned, late, torn, refused, forgotten>>
history == <<marks, faults>>
vars == <<holdings, row, calls, engine, settled, session, history>>

ASSUME OrderAssumption ==
  /\ Owner \in [Orders -> Users] /\ Quantity \in [Orders -> Nat \ {0}]
  /\ NoOrder \notin Orders
ASSUME FiniteAssumption == IsFiniteSet(Orders)
ASSUME BoundAssumption ==
  Shares \in [Users -> SUBSET Nat] /\ MaxReserveCalls \in Nat /\ MaxFaults \in Nat

Phases == {"idle", "reserving", "declined", "held", "live", "unwinding", "rejected"}

\* One consumer per queue, named after its events; prefetch is 1.
Consumers == {"trade.executed", "order.cancelled", "order.rejected"}
Sessions == Requests \cup Consumers
ASSUME SessionAssumption == Requests \cap Consumers = {}

NoRow == [quantity |-> 0, consumed |-> 0, released |-> 0, status |-> "NONE"]
NewRow(o) == [quantity |-> Quantity[o], consumed |-> 0, released |-> 0, status |-> "HELD"]
Left(r) == r.quantity - r.consumed - r.released
Released(r) == [quantity |-> r.quantity, consumed |-> r.consumed,
                released |-> r.released + Left(r), status |-> "RELEASED"]

\* A session: its handler, the order and event it is about, the next step, and its
\* copies of the reservation and of the seller's reserved_quantity.
NoWork == [task |-> "none", order |-> NoOrder, at |-> 0, step |-> "start",
           row |-> NoRow, reserved |-> 0]

Init ==
  /\ quantity \in {q \in [Users -> UNION {Shares[u] : u \in Users}] :
                     \A u \in Users : q[u] \in Shares[u]}
  /\ reserved = [u \in Users |-> 0]
  /\ row = [o \in Orders |-> NoRow]
  /\ phase = [o \in Orders |-> "idle"]
  /\ reserveCalls = [o \in Orders |-> 0] /\ callsMade = [o \in Orders |-> 0]
  /\ live = [o \in Orders |-> 0]
  /\ stream = [o \in Orders |-> <<>>] /\ settled = [o \in Orders |-> {}]
  /\ session = [s \in Sessions |-> NoWork]
  /\ returned = {} /\ late = {} /\ torn = {} /\ refused = {} /\ forgotten = {}
  /\ faults = 0

-----------------------------------------------------------------------------
(* Sessions, the lock and the rows *)

Is(s, task, step) == session[s].task = task /\ session[s].step = step
IsFree(s) == session[s] = NoWork
Seller(s) == Owner[session[s].order]
Event(s) == stream[session[s].order][session[s].at]

Start(s, work) == session' = [session EXCEPT ![s] = work]

\* The session goes on with the copies it has by now.
Continue(s, step, copy, book) ==
  Start(s, [task |-> session[s].task, order |-> session[s].order, at |-> session[s].at,
            step |-> step, row |-> copy, reserved |-> book])

End(s) == session' = [session EXCEPT ![s] = NoWork]

\* Users whose lock:shares a session holds: both sides of a trade, whose locks are
\* taken in the order of the user ids.
Locked(s) ==
  CASE session[s].task = "trade" -> {Seller(s), Event(s).buyer}
    [] Is(s, "reserve", "commit") \/ Is(s, "release", "commit") -> {Seller(s)}
    [] OTHER -> {}

\* Mutant: the lock excludes nobody.
CanAlwaysLock(u) == TRUE

CanLock(u) == \A s \in Sessions : u \notin Locked(s)

\* The ORM writes a column only if the new value differs from what the session has read.
Written(now, copy, new) == IF new = copy THEN now ELSE new

WriteRow(s, new) ==
  LET o == session[s].order
      now == row[o]
      copy == session[s].row
  IN row' = [row EXCEPT ![o] =
               [quantity |-> Written(now.quantity, copy.quantity, new.quantity),
                consumed |-> Written(now.consumed, copy.consumed, new.consumed),
                released |-> Written(now.released, copy.released, new.released),
                status |-> Written(now.status, copy.status, new.status)]]

\* reserved_quantity of u after a session has written `new`.
ReservedAfter(s, u, new) == Written(reserved[u], session[s].reserved, new)

AtLeastZero(x) == IF x < 0 THEN 0 ELSE x
Least(x, y) == IF x < y THEN x ELSE y

\* Another session holds the lock of u for the orders u sells.
LockIgnored(u) == \E s \in Sessions : u \in Locked(s) /\ Seller(s) = u

\* The reservation changed since the session has read it.
RowStale(s) == session[s].row # row[session[s].order]

-----------------------------------------------------------------------------
(* reserve_shares *)

Waits(o) == phase[o] = "reserving"

Goto(o, p) == phase' = [phase EXCEPT ![o] = p]

\* The answer may be lost, and the caller may have stopped waiting.
Answer(o, p) == (Waits(o) /\ Goto(o, p)) \/ UNCHANGED phase

\* The check for a repeated call is made before the lock.
ReserveRead(s, o) ==
  /\ s \in Requests /\ IsFree(s)
  /\ reserveCalls[o] > 0
  /\ reserveCalls' = [reserveCalls EXCEPT ![o] = @ - 1]
  /\ IF row[o] = NoRow
     THEN /\ Start(s, [task |-> "reserve", order |-> o, at |-> 0, step |-> "lock",
                       row |-> NoRow, reserved |-> 0])
          /\ UNCHANGED phase
     ELSE Answer(o, "held") /\ UNCHANGED session
  /\ UNCHANGED <<holdings, row, callsMade, engine, settled, history>>

Available(u) == quantity[u] - reserved[u]

ReserveLock(s) ==
  /\ Is(s, "reserve", "lock")
  /\ CanLock(Seller(s))
  /\ IF Available(Seller(s)) < Quantity[session[s].order]
     THEN Answer(session[s].order, "declined") /\ End(s)
     ELSE Continue(s, "commit", NoRow, reserved[Seller(s)]) /\ UNCHANGED phase
  /\ UNCHANGED <<holdings, row, reserveCalls, callsMade, engine, settled, history>>

\* The insert fails if another attempt was first: status 500, which is not retried.
ReserveCommit(s) ==
  /\ Is(s, "reserve", "commit")
  /\ LET o == session[s].order
         booked == session[s].reserved + Quantity[o]
     IN IF row[o] = NoRow
        THEN /\ reserved' = [reserved EXCEPT ![Owner[o]] = booked]
             /\ row' = [row EXCEPT ![o] = NewRow(o)]
             /\ forgotten' = IF Waits(o) THEN forgotten ELSE forgotten \cup {o}
             /\ Answer(o, "held")
        ELSE /\ Answer(o, "unwinding")
             /\ UNCHANGED <<reserved, row, forgotten>>
  /\ End(s)
  /\ UNCHANGED <<quantity, reserveCalls, callsMade, engine, settled, returned, late, torn,
                 refused, faults>>

-----------------------------------------------------------------------------
(* release_shares *)

\* Before the lock.  Without a row, or RELEASED, the request changes nothing.
ReleaseRead(s, o) ==
  /\ s \in Requests /\ IsFree(s)
  /\ phase[o] = "unwinding"
  /\ row[o].status = "HELD"
  /\ Start(s, [task |-> "release", order |-> o, at |-> 0, step |-> "lock", row |-> row[o],
               reserved |-> 0])
  /\ UNCHANGED <<holdings, row, calls, engine, settled, history>>

\* session.get finds the reservation in the session, so it is still the first copy.
ReleaseLock(s) ==
  /\ Is(s, "release", "lock")
  /\ CanLock(Seller(s))
  /\ Continue(s, "commit", session[s].row, reserved[Seller(s)])
  /\ UNCHANGED <<holdings, row, calls, engine, settled, history>>

\* Mutant: a release takes the whole size off reserved_quantity.
AfterFullRelease(s) == AtLeastZero(session[s].reserved - session[s].row.quantity)

\* What a release, and the handler of a cancellation, leave of reserved_quantity.
AfterRelease(s) == AtLeastZero(session[s].reserved - Left(session[s].row))

ReleaseCommit(s) ==
  /\ Is(s, "release", "commit")
  /\ WriteRow(s, Released(session[s].row))
  /\ LET u == Seller(s)
     IN reserved' = [reserved EXCEPT ![u] = ReservedAfter(s, u, AfterRelease(s))]
  /\ returned' = returned \cup {session[s].order}
  /\ torn' = IF RowStale(s) THEN torn \cup {Seller(s)} ELSE torn
  /\ End(s)
  /\ UNCHANGED <<quantity, calls, engine, settled, late, refused, forgotten, faults>>

\* No lock within five seconds: status 500.
LockTimesOut(s) ==
  /\ s \in Requests /\ session[s].step = "lock"
  /\ ~ CanLock(Seller(s))
  /\ End(s)
  /\ UNCHANGED <<holdings, row, calls, engine, settled, history>>

-----------------------------------------------------------------------------
(* handle_trade_executed *)

\* Events about o still to be handled; a consumer takes one at a time.
Arrives(s, o, i) ==
  /\ s \in Consumers /\ IsFree(s)
  /\ i \in DOMAIN stream[o] \ settled[o] /\ stream[o][i].kind = s

Settle(s) == settled' = [settled EXCEPT ![session[s].order] = @ \cup {session[s].at}]

\* Takes both locks and reads both holdings.
TradeLock(s, o, i) ==
  /\ s = "trade.executed" /\ Arrives(s, o, i)
  /\ CanLock(Owner[o]) /\ CanLock(stream[o][i].buyer)
  /\ Start(s, [task |-> "trade", order |-> o, at |-> i, step |-> "row", row |-> NoRow,
               reserved |-> reserved[Owner[o]]])
  /\ UNCHANGED <<holdings, row, calls, engine, settled, history>>

TradeReadRow(s) ==
  /\ Is(s, "trade", "row")
  /\ Continue(s, "commit", row[session[s].order], session[s].reserved)
  /\ UNCHANGED <<holdings, row, calls, engine, settled, history>>

\* The reservation after a fill.  The last fill releases the rest of the row, and
\* leaves reserved_quantity to the fills that are still to come.
Consume(r, e) ==
  LET used == [r EXCEPT !.consumed = @ + Least(Left(r), e.quantity)]
  IN IF r = NoRow THEN r ELSE IF e.left = 0 THEN Released(used) ELSE used

\* Mutant: a fill takes off reserved_quantity what the reservation has left.
AfterFillOfRow(s) ==
  session[s].reserved - Least(Left(session[s].row), Event(s).quantity)

AfterFill(s) == session[s].reserved - Least(session[s].reserved, Event(s).quantity)

\* ck_qty_non_negative and ck_reserved_bounds for the seller.
ChecksPass(s) ==
  LET u == Seller(s)
      left == quantity[u] - Event(s).quantity
  IN left >= 0 /\ ReservedAfter(s, u, AfterFill(s)) <= left

TradeCommit(s) ==
  /\ Is(s, "trade", "commit")
  /\ ChecksPass(s)
  /\ LET u == Seller(s)
         q == Event(s).quantity
     IN /\ quantity' = [quantity EXCEPT ![u] = @ - q, ![Event(s).buyer] = @ + q]
        /\ reserved' = [reserved EXCEPT ![u] = ReservedAfter(s, u, AfterFill(s))]
        /\ WriteRow(s, Consume(session[s].row, Event(s)))
        /\ late' = IF session[s].order \in returned THEN late \cup {u} ELSE late
  /\ Settle(s) /\ End(s)
  /\ UNCHANGED <<calls, engine, returned, torn, refused, forgotten, faults>>

\* A CHECK fails: at the flush, and the event is tried again until it is dead-lettered,
\* or at the commit, and it is dropped as if it were a duplicate.
TradeFails(s) ==
  /\ Is(s, "trade", "commit")
  /\ ~ ChecksPass(s)
  /\ \/ Settle(s) /\ refused' = refused \cup {session[s].order}
     \/ UNCHANGED <<settled, refused>>
  /\ End(s)
  /\ UNCHANGED <<holdings, row, calls, engine, returned, late, torn, forgotten, faults>>

-----------------------------------------------------------------------------
(* handle_order_cancelled_or_rejected, which takes no lock *)

CancelRead(s, o, i) ==
  /\ s # "trade.executed" /\ Arrives(s, o, i)
  /\ IF row[o].status = "HELD"
     THEN /\ Start(s, [task |-> "cancel", order |-> o, at |-> i, step |-> "holding",
                       row |-> row[o], reserved |-> 0])
          /\ UNCHANGED settled
     ELSE /\ settled' = [settled EXCEPT ![o] = @ \cup {i}]
          /\ UNCHANGED session
  /\ UNCHANGED <<holdings, row, calls, engine, history>>

CancelReadHolding(s) ==
  /\ Is(s, "cancel", "holding")
  /\ Continue(s, "commit", session[s].row, reserved[Seller(s)])
  /\ UNCHANGED <<holdings, row, calls, engine, settled, history>>

\* A CHECK that fails rolls back, and the event is dropped as a duplicate.
CancelCommit(s) ==
  /\ Is(s, "cancel", "commit")
  /\ LET u == Seller(s)
         after == ReservedAfter(s, u, AfterRelease(s))
     IN /\ IF after <= quantity[u]
           THEN /\ reserved' = [reserved EXCEPT ![u] = after]
                /\ WriteRow(s, Released(session[s].row))
                /\ returned' = returned \cup {session[s].order}
           ELSE UNCHANGED <<reserved, row, returned>>
        /\ torn' = IF LockIgnored(u) \/ RowStale(s) \/ session[s].reserved # reserved[u]
                   THEN torn \cup {u} ELSE torn
  /\ Settle(s) /\ End(s)
  /\ UNCHANGED <<quantity, calls, engine, late, refused, forgotten, faults>>

\* The process dies: its transactions are rolled back, the requests fail, the events
\* are delivered again, and the locks expire.
Crash ==
  /\ session' = [s \in Sessions |-> NoWork]
  /\ UNCHANGED <<holdings, row, calls, engine, settled, history>>

-----------------------------------------------------------------------------
(* The callers: Order Service and Matching Engine *)

Fault == faults < MaxFaults /\ faults' = faults + 1

\* reserve(): a call, and another one while none was answered.
CallReserve(o) ==
  /\ phase[o] \in {"idle", "reserving"}
  /\ callsMade[o] < MaxReserveCalls
  /\ Goto(o, "reserving")
  /\ reserveCalls' = [reserveCalls EXCEPT ![o] = @ + 1]
  /\ callsMade' = [callsMade EXCEPT ![o] = @ + 1]
  /\ IF Waits(o) THEN Fault ELSE UNCHANGED faults
  /\ UNCHANGED <<holdings, row, engine, settled, session, marks>>

\* Every attempt timed out, one failed, or a restart finds the order PENDING.
GiveUp(o) ==
  /\ Waits(o)
  /\ Goto(o, "unwinding")
  /\ Fault
  /\ UNCHANGED <<holdings, row, reserveCalls, callsMade, engine, settled, session, marks>>

Rest(o) == live' = [live EXCEPT ![o] = Quantity[o]]

\* order.accepted goes out; a publish that raises may have reached the engine.
PublishAccepted(o) ==
  /\ phase[o] = "held"
  /\ \/ Goto(o, "live") /\ Rest(o) /\ UNCHANGED faults
     \/ Goto(o, "unwinding") /\ Fault /\ (Rest(o) \/ UNCHANGED live)
  /\ UNCHANGED <<holdings, row, reserveCalls, callsMade, stream, settled, session, marks>>

Tell(o, event) == stream' = [stream EXCEPT ![o] = Append(@, event)]

Notice(o, kind) == [kind |-> kind, buyer |-> Owner[o], quantity |-> 0, left |-> 0]

\* _reject: order.rejected goes out, or is lost with a warning.
Reject(o) ==
  /\ phase[o] \in {"declined", "unwinding"}
  /\ Goto(o, "rejected")
  /\ \/ Tell(o, Notice(o, "order.rejected")) /\ UNCHANGED <<forgotten, faults>>
     \/ UNCHANGED stream /\ forgotten' = forgotten \cup {o} /\ Fault
  /\ UNCHANGED <<holdings, row, reserveCalls, callsMade, live, settled, session, returned,
                 late, torn, refused>>

\* The engine: nobody trades with himself.
Trade(o, buyer, q) ==
  /\ q <= live[o]
  /\ live' = [live EXCEPT ![o] = @ - q]
  /\ Tell(o, [kind |-> "trade.executed", buyer |-> buyer, quantity |-> q,
              left |-> live[o] - q])
  /\ UNCHANGED <<holdings, row, calls, settled, session, history>>

Cancel(o) ==
  /\ live[o] > 0
  /\ live' = [live EXCEPT ![o] = 0]
  /\ Tell(o, Notice(o, "order.cancelled"))
  /\ UNCHANGED <<holdings, row, calls, settled, session, history>>

-----------------------------------------------------------------------------
SessionStep(s) ==
  \/ ReserveLock(s) \/ ReserveCommit(s)
  \/ ReleaseLock(s) \/ ReleaseCommit(s) \/ LockTimesOut(s)
  \/ TradeReadRow(s) \/ TradeCommit(s) \/ TradeFails(s)
  \/ CancelReadHolding(s) \/ CancelCommit(s)
  \/ \E o \in Orders : ReserveRead(s, o)
  \/ \E o \in Orders : ReleaseRead(s, o)
  \/ \E o \in Orders : \E i \in DOMAIN stream[o] : TradeLock(s, o, i)
  \/ \E o \in Orders : \E i \in DOMAIN stream[o] : CancelRead(s, o, i)

CallerStep(o) ==
  \/ CallReserve(o) \/ GiveUp(o) \/ PublishAccepted(o) \/ Reject(o) \/ Cancel(o)
  \/ \E buyer \in Users \ {Owner[o]}, q \in 1..Quantity[o] : Trade(o, buyer, q)

Next ==
  \/ \E s \in Sessions : SessionStep(s)
  \/ \E o \in Orders : CallerStep(o)
  \/ Crash

Spec == Init /\ [][Next]_vars

-----------------------------------------------------------------------------
(* Properties *)

Rows == [quantity : Nat, consumed : Int, released : Int,
         status : {"NONE", "HELD", "RELEASED"}]
Events == [kind : Consumers, buyer : Users, quantity : Nat, left : Nat]
Work == [task : {"none", "reserve", "release", "trade", "cancel"},
         order : Orders \cup {NoOrder}, at : Nat,
         step : {"start", "lock", "row", "holding", "commit"}, row : Rows, reserved : Nat]

\* The shape of the state; neither column of a holding is ever negative.
TypeOK ==
  /\ quantity \in [Users -> Nat] /\ reserved \in [Users -> Nat]
  /\ row \in [Orders -> Rows]
  /\ phase \in [Orders -> Phases]
  /\ reserveCalls \in [Orders -> Nat] /\ callsMade \in [Orders -> 0..MaxReserveCalls]
  /\ live \in [Orders -> Nat]
  /\ stream \in [Orders -> Seq(Events)] /\ settled \in [Orders -> SUBSET Nat]
  /\ session \in [Sessions -> Work]
  /\ faults \in 0..MaxFaults
  /\ late \subseteq Users /\ torn \subseteq Users
  /\ returned \subseteq Orders /\ refused \subseteq Orders /\ forgotten \subseteq Orders

OrdersOf(u) == {o \in Orders : Owner[o] = u}
Quantities(events) == [i \in DOMAIN events |-> events[i].quantity]
Sold(o, positions) == SumFunctionOnSet(Quantities(stream[o]), positions)

\* Shares of o that were reserved and neither delivered nor given back.
Due == [o \in Orders |->
          IF o \in returned THEN 0 ELSE row[o].quantity - Sold(o, settled[o])]

\* Shares of o that are still to be delivered: its rest in the book and fills on the bus.
ToDeliver == [o \in Orders |-> live[o] + Sold(o, DOMAIN stream[o] \ settled[o])]

\* Handlers under the lock, in any order and however they overlap, keep
\* reserved_quantity equal to what the user's reservations still hold, as long as no
\* handler without the lock got in between and no fill came after its release.
ReservedMatches ==
  \A u \in Users \ (torn \cup late) : reserved[u] = SumFunctionOnSet(Due, OrdersOf(u))

\* A reservation is never consumed and released for more than it holds.
NeverOverdrawn == \A o \in Orders : Owner[o] \notin torn => Left(row[o]) >= 0

\* The books of the portfolio service: types, bounds, and reserved_quantity in account with
\* the reservations, in whatever order reserves, fills and releases come and overlap.
BooksBalance == TypeOK /\ ReservedMatches /\ NeverOverdrawn

\* Whatever is in the book or on the bus is reserved, and whatever is reserved is there,
\* for all orders of a user together.
SalesCovered ==
  \A u \in Users \ (torn \cup late) :
    /\ SumFunctionOnSet(ToDeliver, OrdersOf(u) \ returned) <= reserved[u]
    /\ reserved[u] <= quantity[u]

\* A fill can be refused only to a seller whose own shares were given back too early.
RefusedOnlyAfterReturn ==
  \A o \in refused : Owner[o] \in torn \cup late \/ o \in returned

\* A sale that was made can be settled: the shares are there and reserved for it, and a
\* fill is refused only where they were given back too early (events.py:146).
SalesSettle == SalesCovered /\ RefusedOnlyAfterReturn

Finished(o) ==
  /\ phase[o] \in {"idle", "live", "rejected"} /\ live[o] = 0 /\ reserveCalls[o] = 0
  /\ settled[o] = DOMAIN stream[o]
  /\ \A s \in Sessions : session[s].order # o

\* When all orders of a user are over and their events handled, none of his shares stays
\* reserved, unless a reserve call came late, order.rejected was lost, or a fill was
\* refused.
NoShareLeak ==
  \A u \in Users \ torn :
    (\A o \in OrdersOf(u) : Finished(o) /\ o \notin forgotten \cup refused)
      => reserved[u] = 0

\* "Can a user sell shares they don't own?"  "No.  Sells reserve shares ... first, and the DB
\* enforces reserved_quantity <= quantity": what a user has in the book and what he has
\* sold and not delivered never exceed his shares.
NoNakedShort ==
  \A u \in Users : SumFunctionOnSet(ToDeliver, OrdersOf(u)) <= quantity[u]
=============================================================================
