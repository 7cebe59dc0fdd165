-------------------------- MODULE Portfolio_proofs --------------------------
(***************************************************************************)
(* Proofs about Portfolio for any users, orders, holdings, sessions and    *)
(* bounds.  No row is locked in the database, so the argument begins with  *)
(* lock:shares: SessionSound says what a session may be doing, and         *)
(* LocksExclude with CopyCurrent that what a session has read under the    *)
(* lock is still true when it commits, unless a handler without the lock   *)
(* got in between (torn).  With that a commit acts on the rows as one      *)
(* step, and Ledger relates the holding of a user to his reservations, and *)
(* each reservation to its caller, to the book and to the events on the    *)
(* bus: it gives the books, the settlement of sales and the absence of     *)
(* leaks.                                                                  *)
(***************************************************************************)
EXTENDS Portfolio, SumTheorems

(* Sessions *)

\* The event a consumer works on is one of its own and not handled yet.
Pending(s) ==
  /\ session[s].at \in DOMAIN stream[session[s].order] \ settled[session[s].order]
  /\ Event(s).kind = s

\* What a session may be doing.
SessionSound(s) ==
  \/ IsFree(s)
  \/ /\ session[s].order \in Orders
     /\ \/ /\ s \in Requests
           /\ session[s].task = "reserve" /\ session[s].step \in {"lock", "commit"}
        \/ /\ s \in Requests
           /\ session[s].task = "release" /\ session[s].step \in {"lock", "commit"}
           /\ session[s].row.status = "HELD"
        \/ /\ s = "trade.executed"
           /\ session[s].task = "trade" /\ session[s].step \in {"row", "commit"}
           /\ Pending(s)
        \/ /\ s \in Consumers \ {"trade.executed"}
           /\ session[s].task = "cancel" /\ session[s].step \in {"holding", "commit"}
           /\ session[s].row.status = "HELD"
           /\ Pending(s)

SessionsSound == \A s \in Sessions : SessionSound(s)

LocksExclude == \A s, t \in Sessions : s # t => Locked(s) \cap Locked(t) = {}

\* The session has read the holding of the seller under his lock, and still has it.
Guarded(s) ==
  session[s].task = "trade" \/ Is(s, "reserve", "commit") \/ Is(s, "release", "commit")

\* What was read under the lock is still true.
CopyCurrent(s) ==
  ~ IsFree(s) /\ Seller(s) \notin torn =>
    /\ Guarded(s) => session[s].reserved = reserved[Seller(s)]
    /\ Is(s, "trade", "commit") => session[s].row = row[session[s].order]
    /\ Is(s, "reserve", "commit") =>
         session[s].reserved + Quantity[session[s].order] <= quantity[Seller(s)]

CopiesCurrent == \A s \in Sessions : CopyCurrent(s)

Sound == TypeOK /\ SessionsSound /\ LocksExclude /\ CopiesCurrent

-----------------------------------------------------------------------------
(* The ledger *)

IsFill(o, i) == stream[o][i].kind = "trade.executed"

SoldSoFar(o) == Sold(o, DOMAIN stream[o])

\* The book and the bus never have more of an order than its size, and an order that is
\* over has been told to be, or was sold completely.
EngineSound(o) ==
  /\ settled[o] \subseteq DOMAIN stream[o]
  /\ \A i \in DOMAIN stream[o] :
       IF IsFill(o, i)
       THEN /\ stream[o][i].buyer # Owner[o]
            /\ stream[o][i].left = 0 => SoldSoFar(o) = Quantity[o]
       ELSE stream[o][i].quantity = 0
  /\ live[o] + SoldSoFar(o) <= Quantity[o]
  /\ live[o] > 0 => live[o] + SoldSoFar(o) = Quantity[o]
  /\ phase[o] \in {"idle", "reserving", "declined", "held"} => live[o] = 0 /\ stream[o] = <<>>
  /\ phase[o] \in {"live", "rejected"} =>
       \/ o \in forgotten
       \/ live[o] + SoldSoFar(o) = Quantity[o]
       \/ \E i \in DOMAIN stream[o] : ~ IsFill(o, i)

\* A reservation exists before its order trades, and ends with it.
RowSound(o) ==
  /\ row[o] = NoRow \/ (row[o].quantity = Quantity[o] /\ row[o].status \in {"HELD", "RELEASED"})
  /\ row[o] = NoRow =>
       /\ phase[o] # "held" /\ live[o] = 0
       /\ \A i \in DOMAIN stream[o] : ~ IsFill(o, i)
       /\ \A s \in Sessions : session[s].order = o => session[s].task = "reserve"
  /\ phase[o] = "idle" =>
       row[o] = NoRow /\ callsMade[o] = 0 /\ \A s \in Sessions : session[s].order # o
  /\ reserveCalls[o] <= callsMade[o]
  /\ o \in returned => row[o].status = "RELEASED"
  /\ row[o].status = "RELEASED" => o \in returned \/ SoldSoFar(o) = Quantity[o]

\* What a reservation says, as long as no update of it was lost.
RowKept(o) ==
  Owner[o] \notin torn =>
    /\ Left(row[o]) >= 0
    /\ row[o].status = "HELD" /\ o \notin refused =>
         row[o].released = 0 /\ row[o].consumed = Sold(o, settled[o])
    /\ o \in refused => Owner[o] \in late \/ o \in returned
    /\ \A i \in settled[o] :
         ~ IsFill(o, i) /\ row[o] # NoRow /\ o \notin forgotten => row[o].status = "RELEASED"

DueTo(u) == SumFunctionOnSet(Due, OrdersOf(u))

\* A fill that comes after the release takes from what is reserved for other orders.
HoldingSound(u) ==
  u \notin torn =>
    /\ reserved[u] <= quantity[u]
    /\ OrdersOf(u) \cap refused = {} => reserved[u] <= DueTo(u)
    /\ u \notin late => reserved[u] = DueTo(u)

OrderSound(o) == EngineSound(o) /\ RowSound(o) /\ RowKept(o)

Ledger ==
  /\ \A o \in Orders : OrderSound(o)
  /\ \A u \in Users : HoldingSound(u)

-----------------------------------------------------------------------------
(* The rows and what is written to them *)

LEMMA AtLeastZeroNat ==
  \A x \in Int : AtLeastZero(x) \in Nat /\ AtLeastZero(x) >= x /\ (x >= 0 => AtLeastZero(x) = x)
  BY DEF AtLeastZero

LEMMA LeastSound ==
  \A x, y \in Int : /\ Least(x, y) \in {x, y} /\ Least(x, y) <= x /\ Least(x, y) <= y
                    /\ (x <= y => Least(x, y) = x) /\ (y <= x => Least(x, y) = y)
  BY DEF Least

LEMMA RowTyped ==
  ASSUME NEW r \in Rows
  PROVE  /\ r.quantity \in Nat /\ r.consumed \in Int /\ r.released \in Int
         /\ r.status \in {"NONE", "HELD", "RELEASED"}
         /\ Left(r) \in Int
         /\ r = [quantity |-> r.quantity, consumed |-> r.consumed, released |-> r.released,
                 status |-> r.status]
  BY DEF Rows, Left

LEMMA NoRowTyped == NoRow \in Rows /\ Left(NoRow) = 0 /\ NoRow.status = "NONE"
  BY DEF NoRow, Rows, Left

LEMMA NewRowTyped ==
  ASSUME NEW o \in Orders
  PROVE  /\ NewRow(o) \in Rows /\ NewRow(o).quantity = Quantity[o]
         /\ NewRow(o).consumed = 0 /\ NewRow(o).released = 0
         /\ NewRow(o).status = "HELD" /\ NewRow(o) # NoRow
  BY OrderAssumption DEF NewRow, NoRow, Rows

\* A release keeps the size and what was consumed, and leaves nothing.
LEMMA ReleasedTyped ==
  ASSUME NEW r \in Rows
  PROVE  /\ Released(r) \in Rows /\ Left(Released(r)) = 0
         /\ Released(r).quantity = r.quantity /\ Released(r).status = "RELEASED"
<1>1. Released(r) = [quantity |-> r.quantity, consumed |-> r.consumed,
                     released |-> r.released + Left(r), status |-> "RELEASED"]
  BY DEF Released
<1>2. r.quantity \in Nat /\ r.consumed \in Int /\ r.released \in Int /\ Left(r) \in Int
  BY RowTyped
<1>3. r.released + Left(r) \in Int
  BY <1>2
<1>4. Released(r) \in Rows
  BY <1>1, <1>2, <1>3 DEF Rows
<1>5. Left(r) = r.quantity - r.consumed - r.released
  BY DEF Left
<1>6. r.quantity - r.consumed - (r.released + Left(r)) = 0
  BY <1>2, <1>5
<1>7. Left(Released(r)) = r.quantity - r.consumed - (r.released + Left(r))
  BY <1>1 DEF Left
<1> QED
  BY <1>1, <1>4, <1>6, <1>7

\* A fill takes its size off what is left, as far as there is so much.
LEMMA ConsumeTyped ==
  ASSUME NEW r \in Rows, NEW e, e.quantity \in Nat
  PROVE  /\ Consume(r, e) \in Rows /\ Consume(r, e).quantity = r.quantity
         /\ Consume(r, e).status \in {r.status, "RELEASED"}
         /\ r = NoRow => Consume(r, e) = NoRow
         /\ Left(r) >= 0 => Left(Consume(r, e)) >= 0
         /\ Consume(r, e).status = "RELEASED" => r.status = "RELEASED" \/ e.left = 0
         /\ r # NoRow /\ e.left # 0 /\ e.quantity <= Left(r) =>
              /\ Consume(r, e).consumed = r.consumed + e.quantity
              /\ Consume(r, e).released = r.released
         /\ r # NoRow /\ e.left = 0 => Consume(r, e).status = "RELEASED"
<1> DEFINE x == Least(Left(r), e.quantity)
           used == [r EXCEPT !.consumed = @ + x]
<1>1. /\ r.quantity \in Nat /\ r.consumed \in Int /\ r.released \in Int /\ Left(r) \in Int
      /\ r.status \in {"NONE", "HELD", "RELEASED"}
  BY RowTyped
<1>2. x \in Int /\ x <= Left(r) /\ (e.quantity <= Left(r) => x = e.quantity)
  BY <1>1, LeastSound
<1> HIDE DEF x
<1>3. used = [quantity |-> r.quantity, consumed |-> r.consumed + x, released |-> r.released,
              status |-> r.status]
  BY DEF Rows
<1>4. Consume(r, e) = IF r = NoRow THEN r ELSE IF e.left = 0 THEN Released(used) ELSE used
  BY DEF Consume, x
<1> HIDE DEF used
<1>5. r.consumed + x \in Int
  BY <1>1, <1>2
<1>6. used \in Rows /\ used.quantity = r.quantity /\ used.consumed = r.consumed + x
      /\ used.released = r.released /\ used.status = r.status
  BY <1>1, <1>3, <1>5 DEF Rows
<1>7. Left(used) = Left(r) - x
  BY <1>1, <1>2, <1>6 DEF Left
<1>8. CASE r = NoRow
  <2>1. Consume(r, e) = r
    BY <1>4, <1>8
  <2>2. r.status = "NONE"
    BY <1>8, NoRowTyped
  <2> QED
    BY <1>1, <1>8, <2>1, <2>2
<1>9. CASE r # NoRow /\ e.left = 0
  <2>1. Consume(r, e) = Released(used)
    BY <1>4, <1>9
  <2>2. Released(used) \in Rows /\ Left(Released(used)) = 0
        /\ Released(used).quantity = used.quantity /\ Released(used).status = "RELEASED"
    BY <1>6, ReleasedTyped
  <2> QED
    BY <1>6, <1>9, <2>1, <2>2
<1>10. CASE r # NoRow /\ e.left # 0
  <2>1. Consume(r, e) = used
    BY <1>4, <1>10
  <2>2. Left(used) >= 0
    BY <1>1, <1>2, <1>7
  <2> QED
    BY <1>2, <1>6, <1>10, <2>1, <2>2
<1> QED
  BY <1>8, <1>9, <1>10

-----------------------------------------------------------------------------
(* Sessions and events *)

\* An event of the stream of o.
LEMMA EventTyped ==
  ASSUME TypeOK, NEW o \in Orders, NEW i \in DOMAIN stream[o]
  PROVE  /\ i \in Nat /\ stream[o][i] \in Events
         /\ stream[o][i].kind \in Consumers /\ stream[o][i].buyer \in Users
         /\ stream[o][i].quantity \in Nat /\ stream[o][i].left \in Nat
<1>1. stream[o] \in Seq(Events)
  BY DEF TypeOK
<1>2. i \in Nat /\ stream[o][i] \in Events
  BY <1>1
<1> DEFINE e == stream[o][i]
<1>3. e \in Events
  BY <1>2
<1> HIDE DEF e
<1>4. /\ e.kind \in Consumers /\ e.buyer \in Users
      /\ e.quantity \in Nat /\ e.left \in Nat
  BY <1>3 DEF Events
<1> QED
  BY <1>2, <1>4 DEF e

LEMMA WorkTyped ==
  ASSUME NEW w \in Work
  PROVE  /\ w.task \in {"none", "reserve", "release", "trade", "cancel"}
         /\ w.order \in Orders \cup {NoOrder} /\ w.at \in Nat
         /\ w.step \in {"start", "lock", "row", "holding", "commit"}
         /\ w.row \in Rows /\ w.reserved \in Nat
  BY DEF Work

LEMMA NoWorkTyped ==
  /\ NoWork \in Work /\ NoWork.task = "none" /\ NoWork.step = "start"
  /\ NoWork.order = NoOrder /\ NoOrder \notin Orders
  BY NoRowTyped, OrderAssumption DEF NoWork, Work

\* A session that is busy is about an order, and has read something typed.
LEMMA BusyTyped ==
  ASSUME TypeOK, SessionsSound, NEW s \in Sessions, ~ IsFree(s)
  PROVE  /\ session[s].order \in Orders /\ Seller(s) \in Users
         /\ session[s].task # "none"
         /\ session[s].row \in Rows /\ session[s].reserved \in Nat /\ session[s].at \in Nat
         /\ reserved[Seller(s)] \in Nat /\ quantity[Seller(s)] \in Nat
         /\ row[session[s].order] \in Rows
         /\ s \in Consumers => Pending(s)
<1>1. session[s] \in Work
  BY DEF TypeOK
<1>2. SessionSound(s)
  BY DEF SessionsSound
<1>3. session[s].order \in Orders /\ session[s].task # "none" /\ (s \in Consumers => Pending(s))
  BY <1>2, SessionAssumption DEF SessionSound
<1>4. Seller(s) \in Users
  BY <1>3, OrderAssumption DEF Seller
<1>5. session[s].row \in Rows /\ session[s].reserved \in Nat /\ session[s].at \in Nat
  BY <1>1, WorkTyped
<1> QED
  BY <1>3, <1>4, <1>5 DEF TypeOK

\* The event a consumer is busy with.
LEMMA PendingTyped ==
  ASSUME TypeOK, SessionsSound, NEW s \in Consumers, ~ IsFree(s)
  PROVE  /\ session[s].at \in DOMAIN stream[session[s].order] \ settled[session[s].order]
         /\ Event(s) = stream[session[s].order][session[s].at]
         /\ Event(s) \in Events /\ Event(s).kind = s
         /\ Event(s).buyer \in Users /\ Event(s).quantity \in Nat /\ Event(s).left \in Nat
<1>1. s \in Sessions
  BY DEF Sessions
<1>2. session[s].order \in Orders /\ Pending(s)
  BY <1>1, BusyTyped
<1> QED
  BY <1>2, EventTyped DEF Pending, Event

LEMMA StartTyped ==
  ASSUME TypeOK, NEW s \in Sessions, NEW work \in Work, Start(s, work)
  PROVE  /\ session' \in [Sessions -> Work] /\ session'[s] = work
         /\ \A t \in Sessions \ {s} : session'[t] = session[t]
  BY DEF TypeOK, Start

LEMMA EndTyped ==
  ASSUME TypeOK, NEW s \in Sessions, End(s)
  PROVE  /\ session' \in [Sessions -> Work] /\ session'[s] = NoWork
         /\ \A t \in Sessions \ {s} : session'[t] = session[t]
  BY NoWorkTyped DEF TypeOK, End

LEMMA ContinueTyped ==
  ASSUME TypeOK, NEW s \in Sessions,
         NEW step \in {"start", "lock", "row", "holding", "commit"},
         NEW copy \in Rows, NEW book \in Nat, Continue(s, step, copy, book)
  PROVE  /\ session' \in [Sessions -> Work]
         /\ session'[s].task = session[s].task /\ session'[s].order = session[s].order
         /\ session'[s].at = session[s].at /\ session'[s].step = step
         /\ session'[s].row = copy /\ session'[s].reserved = book
         /\ \A t \in Sessions \ {s} : session'[t] = session[t]
<1> DEFINE w == [task |-> session[s].task, order |-> session[s].order, at |-> session[s].at,
                 step |-> step, row |-> copy, reserved |-> book]
<1>1. session[s] \in Work
  BY DEF TypeOK
<1>2. w \in Work
  BY <1>1, WorkTyped DEF Work
<1>3. /\ session' \in [Sessions -> Work] /\ session'[s] = w
      /\ \A t \in Sessions \ {s} : session'[t] = session[t]
  BY <1>2, StartTyped DEF Continue
<1> QED
  BY <1>3

\* What a session writes to the reservation, and that it is what it computed where its
\* copy was current.
LEMMA WriteRowTyped ==
  ASSUME TypeOK, NEW s \in Sessions, session[s].order \in Orders, session[s].row \in Rows,
         NEW new \in Rows, new.quantity = session[s].row.quantity, WriteRow(s, new)
  PROVE  LET o == session[s].order
         IN /\ row' \in [Orders -> Rows]
            /\ \A p \in Orders \ {o} : row'[p] = row[p]
            /\ row'[o].quantity = row[o].quantity
            /\ session[s].row = row[o] => row'[o] = new
            /\ row'[o].status = IF new.status = session[s].row.status THEN row[o].status
                                ELSE new.status
<1> DEFINE o == session[s].order
           now == row[o]
           copy == session[s].row
           w == [quantity |-> Written(now.quantity, copy.quantity, new.quantity),
                 consumed |-> Written(now.consumed, copy.consumed, new.consumed),
                 released |-> Written(now.released, copy.released, new.released),
                 status |-> Written(now.status, copy.status, new.status)]
<1>1. row' = [row EXCEPT ![o] = w]
  BY DEF WriteRow
<1>2. row \in [Orders -> Rows] /\ now \in Rows /\ copy \in Rows
  BY DEF TypeOK
<1> HIDE DEF now, copy, o
<1>3. /\ w.quantity = now.quantity
      /\ w.status = IF new.status = copy.status THEN now.status ELSE new.status
  BY DEF Written, copy
<1>4. w \in Rows
  <2>1. /\ Written(now.quantity, copy.quantity, new.quantity) \in Nat
        /\ Written(now.consumed, copy.consumed, new.consumed) \in Int
        /\ Written(now.released, copy.released, new.released) \in Int
        /\ Written(now.status, copy.status, new.status) \in {"NONE", "HELD", "RELEASED"}
    BY <1>2, RowTyped DEF Written
  <2> QED
    BY <2>1 DEF Rows
<1>5. copy = now => w = new
  <2>1. new = [quantity |-> new.quantity, consumed |-> new.consumed, released |-> new.released,
               status |-> new.status]
    BY RowTyped
  <2> SUFFICES ASSUME copy = now PROVE w = new
    OBVIOUS
  <2>2. \A x, y : Written(x, x, y) = y
    BY DEF Written
  <2>3. w = [quantity |-> new.quantity, consumed |-> new.consumed, released |-> new.released,
             status |-> new.status]
    BY <2>2
  <2> QED
    BY <2>1, <2>3
<1> HIDE DEF w
<1>6. o \in Orders
  BY DEF o
<1>7. row' \in [Orders -> Rows] /\ row'[o] = w /\ \A p \in Orders \ {o} : row'[p] = row[p]
  BY <1>1, <1>2, <1>4, <1>6
<1> QED
  BY <1>3, <1>5, <1>7 DEF o, now, copy

-----------------------------------------------------------------------------
(* What a step of one session leaves to the others *)

\* A session that has read under the lock holds the lock of the seller.
LEMMA GuardedLocks ==
  ASSUME NEW s
  PROVE  /\ Guarded(s) => Seller(s) \in Locked(s) /\ ~ IsFree(s)
         /\ ~ Guarded(s) => Locked(s) = {}
         /\ session[s].task = "trade" => Locked(s) = {Seller(s), Event(s).buyer}
         /\ Guarded(s) /\ session[s].task # "trade" => Locked(s) = {Seller(s)}
<1>1. IsFree(s) => session[s].task = "none"
  BY NoWorkTyped DEF IsFree
<1>2. session[s].task = "trade" => Locked(s) = {Seller(s), Event(s).buyer}
  BY DEF Locked, Is
<1>3. Guarded(s) /\ session[s].task # "trade" => Locked(s) = {Seller(s)}
  BY DEF Guarded, Locked, Is
<1>4. ~ Guarded(s) => Locked(s) = {}
  BY DEF Guarded, Locked, Is
<1>5. Guarded(s) => ~ IsFree(s)
  BY <1>1 DEF Guarded, Is
<1> QED
  BY <1>2, <1>3, <1>4, <1>5

\* Only one session at a time is guarded by the lock of a seller.
LEMMA OneGuarded ==
  ASSUME LocksExclude, NEW s \in Sessions, NEW t \in Sessions, s # t, Guarded(t)
  PROVE  /\ Seller(t) \notin Locked(s)
         /\ Guarded(s) => Seller(t) # Seller(s)
<1>1. Seller(t) \in Locked(t)
  BY GuardedLocks
<1>2. Seller(t) \notin Locked(s)
  BY <1>1 DEF LocksExclude
<1> QED
  BY <1>2, GuardedLocks

\* The step takes nothing from under session t.
Spared(t) ==
  /\ session'[t] = session[t]
  /\ t \in Consumers /\ ~ IsFree(t) => Pending(t)' /\ Event(t)' = Event(t)
  /\ Guarded(t) /\ Seller(t) \notin torn' =>
       /\ Seller(t) \notin torn
       /\ reserved'[Seller(t)] = reserved[Seller(t)]
       /\ quantity'[Seller(t)] = quantity[Seller(t)]
       /\ row'[session[t].order] = row[session[t].order]

LEMMA SparedSound ==
  ASSUME SessionsSound, CopiesCurrent, NEW t \in Sessions, Spared(t)
  PROVE  SessionSound(t)' /\ Locked(t)' = Locked(t) /\ CopyCurrent(t)'
<1>1. session'[t] = session[t]
  BY DEF Spared
<1>2. Seller(t)' = Seller(t) /\ (Guarded(t)' <=> Guarded(t)) /\ (IsFree(t)' <=> IsFree(t))
  BY <1>1 DEF Seller, Guarded, Is, IsFree
<1>3. SessionSound(t)
  BY DEF SessionsSound
<1>4. t \in Consumers /\ ~ IsFree(t) => Pending(t)' /\ Event(t)' = Event(t)
  BY DEF Spared
<1>5. SessionSound(t)'
  <2>1. CASE IsFree(t)
    BY <1>2, <2>1 DEF SessionSound
  <2>2. CASE ~ IsFree(t) /\ t \in Consumers
    BY <1>1, <1>3, <1>4, <2>2 DEF SessionSound
  <2>3. CASE ~ IsFree(t) /\ t \notin Consumers
    <3>1. t \in Requests /\ t # "trade.executed"
      BY <2>3 DEF Sessions, Consumers
    <3> QED
      BY <1>1, <1>3, <2>3, <3>1 DEF SessionSound
  <2> QED
    BY <2>1, <2>2, <2>3
<1>6. session[t].task = "trade" => Event(t)' = Event(t)
  <2> SUFFICES ASSUME session[t].task = "trade" PROVE Event(t)' = Event(t)
    OBVIOUS
  <2>1. ~ IsFree(t)
    BY NoWorkTyped DEF IsFree
  <2>2. t \in Consumers
    BY <1>3, <2>1 DEF SessionSound, Consumers
  <2> QED
    BY <1>4, <2>1, <2>2
<1>7. Locked(t)' = Locked(t)
  <2>1. CASE session[t].task = "trade"
    <3>1. Locked(t) = {Seller(t), Event(t).buyer}
      BY <2>1 DEF Locked, Is
    <3>2. Locked(t)' = {Seller(t)', Event(t)'.buyer}
      BY <1>1, <2>1 DEF Locked, Is
    <3> QED
      BY <1>2, <1>6, <2>1, <3>1, <3>2
  <2>2. CASE session[t].task # "trade"
    BY <1>1, <1>2, <2>2 DEF Locked, Is
  <2> QED
    BY <2>1, <2>2
<1>8. CopyCurrent(t)'
  <2> SUFFICES ASSUME ~ IsFree(t), Seller(t) \notin torn', Guarded(t)
               PROVE  CopyCurrent(t)'
    <3>1. ~ Guarded(t) => CopyCurrent(t)'
      BY <1>1, <1>2 DEF CopyCurrent, Guarded, Is
    <3> QED
      BY <1>2, <3>1 DEF CopyCurrent
  <2>1. /\ Seller(t) \notin torn
        /\ reserved'[Seller(t)] = reserved[Seller(t)]
        /\ quantity'[Seller(t)] = quantity[Seller(t)]
        /\ row'[session[t].order] = row[session[t].order]
    BY DEF Spared
  <2>2. CopyCurrent(t)
    BY DEF CopiesCurrent
  <2> QED
    BY <1>1, <1>2, <2>1, <2>2 DEF CopyCurrent, Is
<1> QED
  BY <1>5, <1>7, <1>8

\* A step of session s.
LEMMA SessionStepSound ==
  ASSUME Sound, NEW s \in Sessions, TypeOK',
         \A t \in Sessions \ {s} : Spared(t),
         SessionSound(s)', CopyCurrent(s)',
         \A t \in Sessions \ {s} : Locked(s)' \cap Locked(t) = {}
  PROVE  Sound'
<1>1. \A t \in Sessions \ {s} : SessionSound(t)' /\ Locked(t)' = Locked(t) /\ CopyCurrent(t)'
  BY SparedSound DEF Sound
<1>2. SessionsSound' /\ CopiesCurrent'
  BY <1>1 DEF SessionsSound, CopiesCurrent, Sessions
<1>3. LocksExclude'
  <2> SUFFICES ASSUME NEW t \in Sessions, NEW w \in Sessions, t # w
               PROVE  Locked(t)' \cap Locked(w)' = {}
    BY DEF LocksExclude, Sessions
  <2>1. CASE t = s
    BY <1>1, <2>1
  <2>2. CASE w = s
    BY <1>1, <2>2
  <2>3. CASE t # s /\ w # s
    BY <1>1, <2>3 DEF Sound, LocksExclude
  <2> QED
    BY <2>1, <2>2, <2>3
<1> QED
  BY <1>2, <1>3 DEF Sound

\* A step that ends session s.
LEMMA SessionEndSound ==
  ASSUME Sound, NEW s \in Sessions, End(s), TypeOK', \A t \in Sessions \ {s} : Spared(t)
  PROVE  Sound'
<1>1. session'[s] = NoWork
  BY EndTyped DEF Sound
<1>2. SessionSound(s)' /\ CopyCurrent(s)'
  BY <1>1 DEF SessionSound, CopyCurrent, IsFree
<1>3. Locked(s)' = {}
  BY <1>1, NoWorkTyped DEF Locked, Is
<1> QED
  BY <1>2, <1>3, SessionStepSound

\* A step of nobody's session.
LEMMA CallerStepSound ==
  ASSUME Sound, TypeOK', \A t \in Sessions : Spared(t)
  PROVE  Sound'
<1>1. \A t \in Sessions : SessionSound(t)' /\ Locked(t)' = Locked(t) /\ CopyCurrent(t)'
  BY SparedSound DEF Sound
<1> QED
  BY <1>1 DEF Sound, SessionsSound, CopiesCurrent, LocksExclude, Sessions

\* Reading takes nothing from anybody.
LEMMA ReadingSpares ==
  ASSUME Sound, NEW t \in Sessions, session'[t] = session[t],
         UNCHANGED <<holdings, row, torn, stream, settled>>
  PROVE  Spared(t)
<1>1. t \in Consumers /\ ~ IsFree(t) => Pending(t)
  BY BusyTyped DEF Sound
<1>2. Event(t)' = Event(t) /\ (Pending(t)' <=> Pending(t))
  BY DEF Event, Pending
<1> QED
  BY <1>1, <1>2 DEF Spared, holdings

\* What handling one event does to the consumer of another kind.
LEMMA SettlingSpares ==
  ASSUME Sound, NEW o \in Orders, NEW i \in DOMAIN stream[o],
         NEW t \in Consumers, t # stream[o][i].kind, ~ IsFree(t), session'[t] = session[t],
         stream' = stream, settled' = [settled EXCEPT ![o] = @ \cup {i}]
  PROVE  Pending(t)' /\ Event(t)' = Event(t)
<1>1. t \in Sessions /\ session[t].order \in Orders /\ Pending(t)
  BY BusyTyped DEF Sound, Sessions
<1>2. Event(t)' = Event(t)
  BY DEF Event
<1>3. ~ (session[t].order = o /\ session[t].at = i)
  BY <1>1 DEF Pending, Event
<1>4. session[t].at \notin settled'[session[t].order]
  BY <1>1, <1>3 DEF Pending, Sound, TypeOK
<1> QED
  BY <1>1, <1>2, <1>4 DEF Pending

\* What a commit about an order of one seller does to the sessions under other locks.
LEMMA CommitSpares ==
  ASSUME Sound, NEW s \in Sessions, ~ IsFree(s), NEW t \in Sessions \ {s},
         session'[t] = session[t], torn \subseteq torn',
         t \in Consumers /\ ~ IsFree(t) => Pending(t)' /\ Event(t)' = Event(t),
         Guarded(t) /\ Seller(t) \notin torn' =>
           Seller(t) # Seller(s) /\ quantity'[Seller(t)] = quantity[Seller(t)],
         \A u \in Users \ {Seller(s)} : reserved'[u] = reserved[u],
         \A o \in Orders \ {session[s].order} : row'[o] = row[o]
  PROVE  Spared(t)
<1> SUFFICES ASSUME Guarded(t), Seller(t) \notin torn'
             PROVE  /\ Seller(t) \notin torn
                    /\ reserved'[Seller(t)] = reserved[Seller(t)]
                    /\ quantity'[Seller(t)] = quantity[Seller(t)]
                    /\ row'[session[t].order] = row[session[t].order]
  BY DEF Spared
<1>1. ~ IsFree(t)
  BY GuardedLocks
<1>2. session[t].order \in Orders /\ Seller(t) \in Users
  BY <1>1, BusyTyped DEF Sound
<1>3. Seller(t) # Seller(s)
  OBVIOUS
<1>4. session[t].order # session[s].order
  BY <1>3 DEF Seller
<1> QED
  BY <1>2, <1>3, <1>4

-----------------------------------------------------------------------------
(* Reserving *)

LEMMA AnswerTyped ==
  ASSUME TypeOK, NEW o \in Orders, NEW p \in {"declined", "held", "unwinding"}, Answer(o, p)
  PROVE  phase' \in [Orders -> Phases]
  BY DEF Answer, Goto, TypeOK, Phases

LEMMA ReserveReadSound ==
  ASSUME Sound, NEW s \in Sessions, NEW o \in Orders, ReserveRead(s, o)
  PROVE  Sound'
<1>1. /\ s \in Requests /\ reserveCalls' \in [Orders -> Nat]
      /\ UNCHANGED <<holdings, row, callsMade, engine, settled, history>>
  BY DEF ReserveRead, Sound, TypeOK
<1>2. phase' \in [Orders -> Phases]
  BY AnswerTyped DEF ReserveRead, Sound, TypeOK
<1>3. CASE row[o] = NoRow
  <2> DEFINE w == [task |-> "reserve", order |-> o, at |-> 0, step |-> "lock",
                   row |-> NoRow, reserved |-> 0]
  <2>1. w \in Work
    BY NoRowTyped DEF Work
  <2>2. Start(s, w)
    BY <1>3 DEF ReserveRead
  <2>3. /\ session' \in [Sessions -> Work] /\ session'[s] = w
        /\ \A t \in Sessions \ {s} : session'[t] = session[t]
    BY <2>1, <2>2, StartTyped DEF Sound
  <2>4. TypeOK'
    BY <1>1, <1>2, <2>3 DEF Sound, TypeOK, holdings, engine, history, marks
  <2>5. \A t \in Sessions \ {s} : Spared(t)
    BY <1>1, <2>3, ReadingSpares DEF engine, history, marks
  <2>6. SessionSound(s)'
    BY <1>1, <2>3 DEF SessionSound
  <2>7. Locked(s)' = {} /\ CopyCurrent(s)'
    BY <2>3 DEF Locked, CopyCurrent, Guarded, Is
  <2> QED
    BY <2>4, <2>5, <2>6, <2>7, SessionStepSound
<1>4. CASE row[o] # NoRow
  <2>1. session' = session
    BY <1>4 DEF ReserveRead
  <2>2. TypeOK'
    BY <1>1, <1>2, <2>1 DEF Sound, TypeOK, holdings, engine, history, marks
  <2>3. \A t \in Sessions : Spared(t)
    BY <1>1, <2>1, ReadingSpares DEF engine, history, marks
  <2> QED
    BY <2>2, <2>3, CallerStepSound
<1> QED
  BY <1>3, <1>4

\* A reserve goes on only where the shares are there, and nobody else holds the lock.
LEMMA ReserveLockSound ==
  ASSUME Sound, NEW s \in Sessions, ReserveLock(s)
  PROVE  Sound'
<1> DEFINE u == Seller(s)
           o == session[s].order
<1>1. /\ session[s].task = "reserve" /\ session[s].step = "lock" /\ ~ IsFree(s) /\ CanLock(u)
      /\ UNCHANGED <<holdings, row, reserveCalls, callsMade, engine, settled, history>>
  BY NoWorkTyped DEF ReserveLock, Is, IsFree
<1>2. /\ o \in Orders /\ u \in Users
      /\ reserved[u] \in Nat /\ quantity[u] \in Nat
  BY <1>1, BusyTyped DEF Sound
<1>3. CASE Available(u) < Quantity[o]
  <2>1. Answer(o, "declined") /\ End(s)
    BY <1>3 DEF ReserveLock
  <2>2. phase' \in [Orders -> Phases]
    BY <1>2, <2>1, AnswerTyped DEF Sound
  <2>3. session' \in [Sessions -> Work] /\ \A t \in Sessions \ {s} : session'[t] = session[t]
    BY <2>1, EndTyped DEF Sound
  <2>4. TypeOK'
    BY <1>1, <2>2, <2>3 DEF Sound, TypeOK, holdings, engine, history, marks
  <2>5. \A t \in Sessions \ {s} : Spared(t)
    BY <1>1, <2>3, ReadingSpares DEF engine, history, marks
  <2> QED
    BY <2>1, <2>4, <2>5, SessionEndSound
<1>4. CASE ~ (Available(u) < Quantity[o])
  <2>1. Continue(s, "commit", NoRow, reserved[u]) /\ UNCHANGED phase
    BY <1>4 DEF ReserveLock
  <2>2. /\ session' \in [Sessions -> Work]
        /\ session'[s].task = "reserve" /\ session'[s].order = o /\ session'[s].step = "commit"
        /\ session'[s].reserved = reserved[u]
        /\ \A t \in Sessions \ {s} : session'[t] = session[t]
    BY <1>1, <1>2, <2>1, ContinueTyped, NoRowTyped DEF Sound
  <2>3. TypeOK'
    BY <1>1, <2>1, <2>2 DEF Sound, TypeOK, holdings, engine, history, marks
  <2>4. \A t \in Sessions \ {s} : Spared(t)
    BY <1>1, <2>2, ReadingSpares DEF engine, history, marks
  <2>5. SessionSound(s)'
    <3>1. s \in Requests
      BY <1>1 DEF Sound, SessionsSound, SessionSound
    <3> QED
      BY <1>2, <2>2, <3>1 DEF SessionSound
  <2>6. Seller(s)' = u /\ Locked(s)' = {u}
    BY <2>2 DEF Seller, Locked, Is
  <2>7. reserved[u] + Quantity[o] <= quantity[u]
    <3>1. Quantity[o] \in Nat
      BY <1>2, OrderAssumption
    <3> QED
      BY <1>2, <1>4, <3>1 DEF Available
  <2>8. CopyCurrent(s)'
    <3>1. reserved' = reserved /\ quantity' = quantity
      BY <1>1 DEF holdings
    <3> QED
      BY <2>2, <2>6, <2>7, <3>1 DEF CopyCurrent, Is
  <2>9. \A t \in Sessions \ {s} : Locked(s)' \cap Locked(t) = {}
    BY <1>1, <2>6 DEF CanLock
  <2> QED
    BY <2>3, <2>4, <2>5, <2>8, <2>9, SessionStepSound
<1> QED
  BY <1>3, <1>4

\* A reserve books under the lock; of two for the same order the second fails.
LEMMA ReserveCommitSound ==
  ASSUME Sound, NEW s \in Sessions, ReserveCommit(s)
  PROVE  Sound'
<1> DEFINE u == Seller(s)
           o == session[s].order
<1>1. /\ session[s].task = "reserve" /\ ~ IsFree(s) /\ Guarded(s) /\ s \in Requests
      /\ UNCHANGED <<quantity, reserveCalls, callsMade, engine, settled, returned, late, torn,
                     refused, faults>>
  BY NoWorkTyped DEF ReserveCommit, Is, IsFree, Guarded, Sound, SessionsSound, SessionSound
<1>2. /\ o \in Orders /\ u \in Users /\ u = Owner[o]
      /\ session[s].reserved \in Nat
  BY <1>1, BusyTyped DEF Sound, Seller
<1>3. session' \in [Sessions -> Work] /\ \A t \in Sessions \ {s} : session'[t] = session[t]
  BY EndTyped DEF ReserveCommit, Sound
<1>4. phase' \in [Orders -> Phases]
  BY <1>2, AnswerTyped DEF ReserveCommit, Sound
<1>5. /\ reserved' \in [Users -> Nat] /\ row' \in [Orders -> Rows] /\ forgotten' \subseteq Orders
      /\ \A v \in Users \ {u} : reserved'[v] = reserved[v]
      /\ \A p \in Orders \ {o} : row'[p] = row[p]
  <2>1. CASE row[o] = NoRow
    <3>1. /\ reserved' = [reserved EXCEPT ![u] = session[s].reserved + Quantity[o]]
          /\ row' = [row EXCEPT ![o] = NewRow(o)]
          /\ forgotten' \subseteq forgotten \cup {o}
      BY <1>2, <2>1 DEF ReserveCommit
    <3>2. session[s].reserved + Quantity[o] \in Nat
      BY <1>2, OrderAssumption
    <3>3. NewRow(o) \in Rows
      BY <1>2, NewRowTyped
    <3> QED
      BY <1>2, <3>1, <3>2, <3>3 DEF Sound, TypeOK
  <2>2. CASE row[o] # NoRow
    BY <2>2 DEF ReserveCommit, Sound, TypeOK
  <2> QED
    BY <2>1, <2>2
<1>6. TypeOK'
  BY <1>1, <1>3, <1>4, <1>5 DEF Sound, TypeOK, engine
<1>7. ASSUME NEW t \in Sessions \ {s} PROVE Spared(t)
  <2>1. t \in Consumers /\ ~ IsFree(t) => Pending(t)' /\ Event(t)' = Event(t)
    <3>1. session'[t] = session[t] /\ UNCHANGED <<stream, settled>>
      BY <1>1, <1>3 DEF engine
    <3>2. t \in Consumers /\ ~ IsFree(t) => Pending(t)
      BY BusyTyped DEF Sound
    <3> QED
      BY <3>1, <3>2 DEF Pending, Event
  <2>2. Guarded(t) => Seller(t) # Seller(s)
    BY <1>1, OneGuarded DEF Sound
  <2> QED
    BY <1>1, <1>3, <1>5, <2>1, <2>2, CommitSpares
<1> QED
  BY <1>6, <1>7, SessionEndSound DEF ReserveCommit

\* No lock within five seconds.
LEMMA LockTimesOutSound ==
  ASSUME Sound, NEW s \in Sessions, LockTimesOut(s)
  PROVE  Sound'
<1>1. End(s) /\ UNCHANGED <<holdings, row, calls, engine, settled, history>>
  BY DEF LockTimesOut
<1>2. session' \in [Sessions -> Work] /\ \A t \in Sessions \ {s} : session'[t] = session[t]
  BY <1>1, EndTyped DEF Sound
<1>3. TypeOK'
  BY <1>1, <1>2 DEF Sound, TypeOK, holdings, calls, engine, history, marks
<1>4. \A t \in Sessions \ {s} : Spared(t)
  BY <1>1, <1>2, ReadingSpares DEF engine, history, marks
<1> QED
  BY <1>1, <1>3, <1>4, SessionEndSound

-----------------------------------------------------------------------------
(* Releasing *)

LEMMA ReleaseReadSound ==
  ASSUME Sound, NEW s \in Sessions, NEW o \in Orders, ReleaseRead(s, o)
  PROVE  Sound'
<1> DEFINE w == [task |-> "release", order |-> o, at |-> 0, step |-> "lock", row |-> row[o],
                 reserved |-> 0]
<1>1. /\ s \in Requests /\ row[o].status = "HELD" /\ Start(s, w)
      /\ UNCHANGED <<holdings, row, calls, engine, settled, history>>
  BY DEF ReleaseRead
<1>2. row[o] \in Rows
  BY DEF Sound, TypeOK
<1>3. w \in Work
  BY <1>2 DEF Work
<1>4. /\ session' \in [Sessions -> Work] /\ session'[s] = w
      /\ \A t \in Sessions \ {s} : session'[t] = session[t]
  BY <1>1, <1>3, StartTyped DEF Sound
<1>5. TypeOK'
  BY <1>1, <1>4 DEF Sound, TypeOK, holdings, calls, engine, history, marks
<1>6. \A t \in Sessions \ {s} : Spared(t)
  BY <1>1, <1>4, ReadingSpares DEF engine, history, marks
<1>7. SessionSound(s)'
  BY <1>1, <1>4 DEF SessionSound
<1>8. Locked(s)' = {} /\ CopyCurrent(s)'
  BY <1>4 DEF Locked, CopyCurrent, Guarded, Is
<1> QED
  BY <1>5, <1>6, <1>7, <1>8, SessionStepSound

LEMMA ReleaseLockSound ==
  ASSUME Sound, NEW s \in Sessions, ReleaseLock(s)
  PROVE  Sound'
<1> DEFINE u == Seller(s)
           o == session[s].order
<1>1. /\ session[s].task = "release" /\ session[s].step = "lock" /\ ~ IsFree(s) /\ CanLock(u)
      /\ Continue(s, "commit", session[s].row, reserved[u])
      /\ UNCHANGED <<holdings, row, calls, engine, settled, history>>
  BY NoWorkTyped DEF ReleaseLock, Is, IsFree
<1>2. /\ o \in Orders /\ u \in Users
      /\ reserved[u] \in Nat /\ session[s].row \in Rows
      /\ s \in Requests /\ session[s].row.status = "HELD"
  BY <1>1, BusyTyped DEF Sound, SessionsSound, SessionSound
<1>3. /\ session' \in [Sessions -> Work]
      /\ session'[s].task = "release" /\ session'[s].order = o /\ session'[s].step = "commit"
      /\ session'[s].reserved = reserved[u] /\ session'[s].row = session[s].row
      /\ \A t \in Sessions \ {s} : session'[t] = session[t]
  BY <1>1, <1>2, ContinueTyped DEF Sound
<1>4. TypeOK'
  BY <1>1, <1>3 DEF Sound, TypeOK, holdings, calls, engine, history, marks
<1>5. \A t \in Sessions \ {s} : Spared(t)
  BY <1>1, <1>3, ReadingSpares DEF engine, history, marks
<1>6. SessionSound(s)'
  BY <1>2, <1>3 DEF SessionSound
<1>7. Seller(s)' = u /\ Locked(s)' = {u}
  BY <1>3 DEF Seller, Locked, Is
<1>8. CopyCurrent(s)'
  <2>1. reserved' = reserved
    BY <1>1 DEF holdings
  <2> QED
    BY <1>3, <1>7, <2>1 DEF CopyCurrent, Is
<1>9. \A t \in Sessions \ {s} : Locked(s)' \cap Locked(t) = {}
  BY <1>1, <1>7 DEF CanLock
<1> QED
  BY <1>4, <1>5, <1>6, <1>8, <1>9, SessionStepSound

\* What a release or a cancellation leaves reserved.
LEMMA AfterReleaseTyped ==
  ASSUME Sound, NEW s \in Sessions, ~ IsFree(s)
  PROVE  /\ AfterRelease(s) \in Nat /\ AfterRelease(s) >= session[s].reserved - Left(session[s].row)
         /\ ReservedAfter(s, Seller(s), AfterRelease(s)) \in Nat
         /\ session[s].reserved = reserved[Seller(s)] =>
              ReservedAfter(s, Seller(s), AfterRelease(s)) = AfterRelease(s)
         /\ Left(session[s].row) \in Int
         /\ session[s].reserved >= Left(session[s].row) =>
              AfterRelease(s) = session[s].reserved - Left(session[s].row)
<1>1. session[s].reserved \in Nat /\ session[s].row \in Rows /\ reserved[Seller(s)] \in Nat
  BY BusyTyped DEF Sound
<1>2. Left(session[s].row) \in Int
  BY <1>1, RowTyped
<1>3. session[s].reserved - Left(session[s].row) \in Int
  BY <1>1, <1>2
<1> QED
  BY <1>1, <1>2, <1>3, AtLeastZeroNat DEF AfterRelease, ReservedAfter, Written

LEMMA ReleaseCommitSound ==
  ASSUME Sound, NEW s \in Sessions, ReleaseCommit(s)
  PROVE  Sound'
<1> DEFINE u == Seller(s)
           o == session[s].order
<1>1. /\ session[s].task = "release" /\ ~ IsFree(s) /\ Guarded(s)
      /\ reserved' = [reserved EXCEPT ![u] = ReservedAfter(s, u, AfterRelease(s))]
      /\ returned' = returned \cup {o} /\ torn' \in {torn, torn \cup {u}}
      /\ End(s) /\ WriteRow(s, Released(session[s].row))
      /\ UNCHANGED <<quantity, calls, engine, settled, late, refused, forgotten, faults>>
  BY NoWorkTyped DEF ReleaseCommit, Is, IsFree, Guarded
<1>2. /\ o \in Orders /\ u \in Users /\ session[s].row \in Rows
  BY <1>1, BusyTyped DEF Sound
<1>3. session' \in [Sessions -> Work] /\ \A t \in Sessions \ {s} : session'[t] = session[t]
  BY <1>1, EndTyped DEF Sound
<1>4. row' \in [Orders -> Rows] /\ \A p \in Orders \ {o} : row'[p] = row[p]
  <2>1. Released(session[s].row) \in Rows /\ Released(session[s].row).quantity = session[s].row.quantity
    BY <1>2, ReleasedTyped
  <2> QED
    BY <1>1, <1>2, <2>1, WriteRowTyped DEF Sound
<1>5. /\ reserved' \in [Users -> Nat]
      /\ \A v \in Users \ {u} : reserved'[v] = reserved[v]
  BY <1>1, <1>2, AfterReleaseTyped DEF Sound, TypeOK
<1>6. TypeOK'
  BY <1>1, <1>2, <1>3, <1>4, <1>5 DEF Sound, TypeOK, calls, engine
<1>7. ASSUME NEW t \in Sessions \ {s} PROVE Spared(t)
  <2>1. t \in Consumers /\ ~ IsFree(t) => Pending(t)' /\ Event(t)' = Event(t)
    <3>1. session'[t] = session[t] /\ UNCHANGED <<stream, settled>>
      BY <1>1, <1>3 DEF engine
    <3>2. t \in Consumers /\ ~ IsFree(t) => Pending(t)
      BY BusyTyped DEF Sound
    <3> QED
      BY <3>1, <3>2 DEF Pending, Event
  <2>2. Guarded(t) => Seller(t) # Seller(s)
    BY <1>1, OneGuarded DEF Sound
  <2>3. torn \subseteq torn'
    BY <1>1
  <2> QED
    BY <1>1, <1>3, <1>4, <1>5, <2>1, <2>2, <2>3, CommitSpares
<1> QED
  BY <1>1, <1>6, <1>7, SessionEndSound

-----------------------------------------------------------------------------
(* Fills *)

LEMMA TradeLockSound ==
  ASSUME Sound, NEW s \in Sessions, NEW o \in Orders, NEW i \in DOMAIN stream[o], TradeLock(s, o, i)
  PROVE  Sound'
<1> DEFINE w == [task |-> "trade", order |-> o, at |-> i, step |-> "row", row |-> NoRow,
                 reserved |-> reserved[Owner[o]]]
<1>1. /\ s = "trade.executed" /\ Start(s, w) /\ CanLock(Owner[o]) /\ CanLock(stream[o][i].buyer)
      /\ i \in DOMAIN stream[o] \ settled[o] /\ stream[o][i].kind = s
      /\ UNCHANGED <<holdings, row, calls, engine, settled, history>>
  BY DEF TradeLock, Arrives
<1>2. Owner[o] \in Users /\ reserved[Owner[o]] \in Nat /\ i \in Nat
  BY OrderAssumption, EventTyped DEF Sound, TypeOK
<1>3. w \in Work
  BY <1>2, NoRowTyped DEF Work
<1>4. /\ session' \in [Sessions -> Work] /\ session'[s] = w
      /\ \A t \in Sessions \ {s} : session'[t] = session[t]
  BY <1>1, <1>3, StartTyped DEF Sound
<1>5. TypeOK'
  BY <1>1, <1>4 DEF Sound, TypeOK, holdings, calls, engine, history, marks
<1>6. \A t \in Sessions \ {s} : Spared(t)
  BY <1>1, <1>4, ReadingSpares DEF engine, history, marks
<1>7. UNCHANGED <<stream, settled, reserved>>
  BY <1>1 DEF engine, holdings
<1>8. Seller(s)' = Owner[o] /\ Event(s)' = stream[o][i]
  BY <1>4, <1>7 DEF Seller, Event
<1>9. SessionSound(s)'
  <2>1. Pending(s)'
    BY <1>1, <1>4, <1>7, <1>8 DEF Pending
  <2> QED
    BY <1>1, <1>4, <2>1 DEF SessionSound
<1>10. Locked(s)' = {Owner[o], stream[o][i].buyer}
  <2>1. Locked(s)' = {Seller(s)', Event(s)'.buyer}
    BY <1>4 DEF Locked, Is
  <2> QED
    BY <1>8, <2>1
<1>11. CopyCurrent(s)'
  BY <1>4, <1>7, <1>8 DEF CopyCurrent, Is
<1>12. \A t \in Sessions \ {s} : Locked(s)' \cap Locked(t) = {}
  BY <1>1, <1>10 DEF CanLock
<1> QED
  BY <1>5, <1>6, <1>9, <1>11, <1>12, SessionStepSound

LEMMA TradeReadRowSound ==
  ASSUME Sound, NEW s \in Sessions, TradeReadRow(s)
  PROVE  Sound'
<1> DEFINE u == Seller(s)
           o == session[s].order
<1>1. /\ session[s].task = "trade" /\ ~ IsFree(s) /\ Guarded(s)
      /\ Continue(s, "commit", row[o], session[s].reserved)
      /\ UNCHANGED <<holdings, row, calls, engine, settled, history>>
  BY NoWorkTyped DEF TradeReadRow, Is, IsFree, Guarded
<1>2. /\ o \in Orders /\ u \in Users
      /\ session[s].reserved \in Nat /\ row[o] \in Rows
      /\ s = "trade.executed" /\ Pending(s)
  BY <1>1, BusyTyped DEF Sound, SessionsSound, SessionSound
<1>3. /\ session' \in [Sessions -> Work]
      /\ session'[s].task = "trade" /\ session'[s].order = o /\ session'[s].step = "commit"
      /\ session'[s].at = session[s].at
      /\ session'[s].reserved = session[s].reserved /\ session'[s].row = row[o]
      /\ \A t \in Sessions \ {s} : session'[t] = session[t]
  BY <1>1, <1>2, ContinueTyped DEF Sound
<1>4. TypeOK'
  BY <1>1, <1>3 DEF Sound, TypeOK, holdings, calls, engine, history, marks
<1>5. \A t \in Sessions \ {s} : Spared(t)
  BY <1>1, <1>3, ReadingSpares DEF engine, history, marks
<1>6. UNCHANGED <<stream, settled, reserved, row, torn>>
  BY <1>1 DEF engine, holdings, history, marks
<1>7. Seller(s)' = u /\ Event(s)' = Event(s) /\ Pending(s)'
  BY <1>2, <1>3, <1>6 DEF Seller, Event, Pending
<1>8. SessionSound(s)'
  BY <1>2, <1>3, <1>7 DEF SessionSound
<1>9. Locked(s) = {u, Event(s).buyer}
  BY <1>1, GuardedLocks
<1>10. Locked(s)' = {Seller(s)', Event(s)'.buyer}
  BY <1>3 DEF Locked, Is
<1>11. Locked(s)' = Locked(s)
  BY <1>7, <1>9, <1>10
<1>12. CopyCurrent(s)'
  <2>1. u \notin torn => session[s].reserved = reserved[u]
    BY <1>1 DEF Sound, CopiesCurrent, CopyCurrent
  <2> QED
    BY <1>3, <1>6, <1>7, <2>1 DEF CopyCurrent, Is
<1>13. \A t \in Sessions \ {s} : Locked(s)' \cap Locked(t) = {}
  BY <1>11 DEF Sound, LocksExclude
<1> QED
  BY <1>4, <1>5, <1>8, <1>12, <1>13, SessionStepSound

\* What a fill leaves reserved.
LEMMA AfterFillTyped ==
  ASSUME Sound, NEW s \in Sessions, session[s].task = "trade"
  PROVE  /\ ~ IsFree(s) /\ s = "trade.executed" /\ s \in Consumers
         /\ Event(s).quantity \in Nat
         /\ AfterFill(s) \in Nat /\ AfterFill(s) <= session[s].reserved
         /\ session[s].reserved >= Event(s).quantity =>
              AfterFill(s) = session[s].reserved - Event(s).quantity
         /\ session[s].reserved <= Event(s).quantity => AfterFill(s) = 0
         /\ ReservedAfter(s, Seller(s), AfterFill(s)) \in Nat
         /\ session[s].reserved = reserved[Seller(s)] =>
              ReservedAfter(s, Seller(s), AfterFill(s)) = AfterFill(s)
<1>1. ~ IsFree(s)
  BY NoWorkTyped DEF IsFree
<1>2. s = "trade.executed" /\ s \in Consumers
  BY <1>1 DEF Sound, SessionsSound, SessionSound, Consumers
<1>3. Event(s).quantity \in Nat
  BY <1>1, <1>2, PendingTyped DEF Sound
<1>4. session[s].reserved \in Nat /\ reserved[Seller(s)] \in Nat
  BY <1>1, BusyTyped DEF Sound
<1> DEFINE x == session[s].reserved
           q == Event(s).quantity
           a == AfterFill(s)
<1>5. x \in Nat /\ q \in Nat /\ a = x - Least(x, q)
  BY <1>3, <1>4 DEF AfterFill
<1> HIDE DEF x, q, a
<1>6. a \in Nat /\ a <= x /\ (x >= q => a = x - q) /\ (x <= q => a = 0)
  BY <1>5 DEF Least
<1>7. ReservedAfter(s, Seller(s), a) = IF a = x THEN reserved[Seller(s)] ELSE a
  BY DEF ReservedAfter, Written, x
<1> QED
  BY <1>1, <1>2, <1>3, <1>4, <1>6, <1>7 DEF x, q, a

LEMMA SettleTyped ==
  ASSUME TypeOK, NEW s, session[s].order \in Orders, session[s].at \in Nat, Settle(s)
  PROVE  /\ settled' \in [Orders -> SUBSET Nat]
         /\ settled' = [settled EXCEPT ![session[s].order] = @ \cup {session[s].at}]
  BY DEF TypeOK, Settle

\* What a consumer that handles its event does to another consumer.
LEMMA ConsumersApart ==
  ASSUME Sound, NEW s \in Consumers, ~ IsFree(s), NEW t \in Sessions \ {s},
         session'[t] = session[t], stream' = stream, Settle(s) \/ settled' = settled
  PROVE  t \in Consumers /\ ~ IsFree(t) => Pending(t)' /\ Event(t)' = Event(t)
<1> DEFINE o == session[s].order
           i == session[s].at
<1>1. s \in Sessions
  BY DEF Sessions
<1>2. o \in Orders /\ i \in Nat /\ i \in DOMAIN stream[o] /\ stream[o][i].kind = s
  BY <1>1, BusyTyped, PendingTyped DEF Sound
<1> SUFFICES ASSUME t \in Consumers, ~ IsFree(t) PROVE Pending(t)' /\ Event(t)' = Event(t)
  OBVIOUS
<1>3. CASE Settle(s)
  <2>1. settled' = [settled EXCEPT ![o] = @ \cup {i}]
    BY <1>2, <1>3, SettleTyped DEF Sound
  <2> QED
    BY <1>2, <2>1, SettlingSpares
<1>4. CASE settled' = settled
  <2>1. Pending(t)
    BY BusyTyped DEF Sound
  <2> QED
    BY <1>4, <2>1 DEF Pending, Event
<1> QED
  BY <1>3, <1>4

\* A fill is settled under both locks.
LEMMA TradeCommitSound ==
  ASSUME Sound, NEW s \in Sessions, TradeCommit(s)
  PROVE  Sound'
<1> DEFINE u == Seller(s)
           o == session[s].order
           b == Event(s).buyer
           q == Event(s).quantity
<1>1. /\ session[s].task = "trade" /\ Guarded(s)
      /\ quantity' = [quantity EXCEPT ![u] = @ - q, ![b] = @ + q]
      /\ reserved' = [reserved EXCEPT ![u] = ReservedAfter(s, u, AfterFill(s))]
      /\ WriteRow(s, Consume(session[s].row, Event(s)))
      /\ late' = (IF o \in returned THEN late \cup {u} ELSE late)
      /\ quantity[u] - q >= 0
      /\ Settle(s) /\ End(s)
      /\ UNCHANGED <<calls, engine, returned, torn, refused, forgotten, faults>>
  BY DEF TradeCommit, Is, Guarded, ChecksPass
<1>2. /\ ~ IsFree(s) /\ s \in Consumers
      /\ q \in Nat /\ b \in Users
      /\ ReservedAfter(s, u, AfterFill(s)) \in Nat
  BY <1>1, AfterFillTyped, PendingTyped DEF Sound
<1>3. /\ o \in Orders /\ u \in Users /\ session[s].row \in Rows /\ session[s].at \in Nat
      /\ quantity[u] \in Nat
  BY <1>2, BusyTyped DEF Sound
<1>4. session' \in [Sessions -> Work] /\ \A t \in Sessions \ {s} : session'[t] = session[t]
  BY <1>1, EndTyped DEF Sound
<1>5. row' \in [Orders -> Rows] /\ \A p \in Orders \ {o} : row'[p] = row[p]
  <2> DEFINE new == Consume(session[s].row, Event(s))
  <2>1. new \in Rows /\ new.quantity = session[s].row.quantity
    BY <1>2, <1>3, ConsumeTyped
  <2> HIDE DEF new
  <2>2. WriteRow(s, new)
    BY <1>1 DEF new
  <2> QED
    BY <1>3, <2>1, <2>2, WriteRowTyped DEF Sound
<1>6. settled' \in [Orders -> SUBSET Nat]
  BY <1>1, <1>3, SettleTyped DEF Sound
<1>7. /\ reserved' \in [Users -> Nat]
      /\ \A v \in Users \ {u} : reserved'[v] = reserved[v]
  BY <1>1, <1>2, <1>3 DEF Sound, TypeOK
<1> HIDE DEF u, o, b, q
<1>8. /\ quantity' \in [Users -> Nat]
      /\ \A v \in Users \ {u, b} : quantity'[v] = quantity[v]
  <2>1. quantity \in [Users -> Nat]
    BY DEF Sound, TypeOK
  <2> QED
    BY <1>1, <1>2, <1>3, <2>1
<1>9. TypeOK'
  <2>1. late' \subseteq Users
    BY <1>1, <1>3 DEF Sound, TypeOK
  <2> QED
    BY <1>1, <1>4, <1>5, <1>6, <1>7, <1>8, <2>1 DEF Sound, TypeOK, calls, engine
<1>10. ASSUME NEW t \in Sessions \ {s} PROVE Spared(t)
  <2>1. t \in Consumers /\ ~ IsFree(t) => Pending(t)' /\ Event(t)' = Event(t)
    BY <1>1, <1>2, <1>4, ConsumersApart DEF engine
  <2>2. Locked(s) = {u, b}
    BY <1>1, GuardedLocks DEF u, b
  <2>3. Guarded(t) => Seller(t) \notin {u, b} /\ Seller(t) \in Users
    BY <2>2, OneGuarded, BusyTyped, GuardedLocks DEF Sound
  <2>4. Guarded(t) => Seller(t) # Seller(s) /\ quantity'[Seller(t)] = quantity[Seller(t)]
    BY <1>8, <2>3 DEF u
  <2>5. torn \subseteq torn'
    BY <1>1
  <2> QED
    BY <1>2, <1>4, <1>5, <1>7, <2>1, <2>4, <2>5, CommitSpares DEF u, o
<1> QED
  BY <1>1, <1>9, <1>10, SessionEndSound

LEMMA TradeFailsSound ==
  ASSUME Sound, NEW s \in Sessions, TradeFails(s)
  PROVE  Sound'
<1>1. /\ session[s].task = "trade" /\ End(s)
      /\ Settle(s) \/ settled' = settled
      /\ refused' \in {refused, refused \cup {session[s].order}}
      /\ UNCHANGED <<holdings, row, calls, engine, returned, torn, late, forgotten, faults>>
  BY DEF TradeFails, Is
<1>2. ~ IsFree(s) /\ s \in Consumers
  BY <1>1, AfterFillTyped DEF Sound
<1>3. session[s].order \in Orders /\ session[s].at \in Nat
  BY <1>2, BusyTyped DEF Sound
<1>4. session' \in [Sessions -> Work] /\ \A t \in Sessions \ {s} : session'[t] = session[t]
  BY <1>1, EndTyped DEF Sound
<1>5. settled' \in [Orders -> SUBSET Nat]
  BY <1>1, <1>3, SettleTyped DEF Sound, TypeOK
<1>6. TypeOK'
  BY <1>1, <1>3, <1>4, <1>5 DEF Sound, TypeOK, holdings, calls, engine
<1>7. ASSUME NEW t \in Sessions \ {s} PROVE Spared(t)
  <2>1. t \in Consumers /\ ~ IsFree(t) => Pending(t)' /\ Event(t)' = Event(t)
    BY <1>1, <1>2, <1>4, ConsumersApart DEF engine
  <2> QED
    BY <1>1, <1>4, <2>1 DEF Spared, holdings
<1> QED
  BY <1>1, <1>6, <1>7, SessionEndSound

-----------------------------------------------------------------------------
(* Cancellations and rejections *)

LEMMA CancelReadSound ==
  ASSUME Sound, NEW s \in Sessions, NEW o \in Orders, NEW i \in DOMAIN stream[o], CancelRead(s, o, i)
  PROVE  Sound'
<1>1. /\ s \in Consumers \ {"trade.executed"}
      /\ i \in DOMAIN stream[o] \ settled[o] /\ stream[o][i].kind = s
      /\ UNCHANGED <<holdings, row, calls, engine, history>>
  BY DEF CancelRead, Arrives
<1>2. i \in Nat /\ row[o] \in Rows
  BY EventTyped DEF Sound, TypeOK
<1>3. CASE row[o].status = "HELD"
  <2> DEFINE w == [task |-> "cancel", order |-> o, at |-> i, step |-> "holding", row |-> row[o],
                   reserved |-> 0]
  <2>1. Start(s, w) /\ UNCHANGED settled
    BY <1>3 DEF CancelRead
  <2>2. w \in Work
    BY <1>2 DEF Work
  <2>3. /\ session' \in [Sessions -> Work] /\ session'[s] = w
        /\ \A t \in Sessions \ {s} : session'[t] = session[t]
    BY <2>1, <2>2, StartTyped DEF Sound
  <2>4. TypeOK'
    BY <1>1, <2>1, <2>3 DEF Sound, TypeOK, holdings, calls, engine, history, marks
  <2>5. \A t \in Sessions \ {s} : Spared(t)
    BY <1>1, <2>1, <2>3, ReadingSpares DEF engine, history, marks
  <2>6. SessionSound(s)'
    <3>1. Pending(s)'
      BY <1>1, <2>1, <2>3 DEF Pending, Event, engine
    <3> QED
      BY <1>1, <1>3, <2>3, <3>1 DEF SessionSound
  <2>7. Locked(s)' = {} /\ CopyCurrent(s)'
    BY <2>3 DEF Locked, CopyCurrent, Guarded, Is
  <2> QED
    BY <2>4, <2>5, <2>6, <2>7, SessionStepSound
<1>4. CASE row[o].status # "HELD"
  <2>1. session' = session /\ settled' = [settled EXCEPT ![o] = @ \cup {i}]
    BY <1>4 DEF CancelRead
  <2>2. TypeOK'
    BY <1>1, <1>2, <2>1 DEF Sound, TypeOK, holdings, calls, engine, history, marks
  <2>3. IsFree(s)
    BY DEF CancelRead, Arrives
  <2>4. ASSUME NEW t \in Sessions PROVE Spared(t)
    <3>1. t \in Consumers /\ ~ IsFree(t) => Pending(t)' /\ Event(t)' = Event(t)
      <4> SUFFICES ASSUME t \in Consumers, ~ IsFree(t) PROVE Pending(t)' /\ Event(t)' = Event(t)
        OBVIOUS
      <4>1. t # stream[o][i].kind
        BY <1>1, <2>3
      <4> QED
        BY <1>1, <2>1, <4>1, SettlingSpares DEF engine
    <3> QED
      BY <1>1, <2>1, <3>1 DEF Spared, holdings, history, marks
  <2> QED
    BY <2>2, <2>4, CallerStepSound
<1> QED
  BY <1>3, <1>4

LEMMA CancelReadHoldingSound ==
  ASSUME Sound, NEW s \in Sessions, CancelReadHolding(s)
  PROVE  Sound'
<1> DEFINE u == Seller(s)
           o == session[s].order
<1>1. /\ session[s].task = "cancel" /\ ~ IsFree(s)
      /\ Continue(s, "commit", session[s].row, reserved[u])
      /\ UNCHANGED <<holdings, row, calls, engine, settled, history>>
  BY NoWorkTyped DEF CancelReadHolding, Is, IsFree
<1>2. /\ o \in Orders /\ u \in Users
      /\ reserved[u] \in Nat /\ session[s].row \in Rows
      /\ s \in Consumers \ {"trade.executed"} /\ Pending(s) /\ session[s].row.status = "HELD"
  BY <1>1, BusyTyped DEF Sound, SessionsSound, SessionSound
<1>3. /\ session' \in [Sessions -> Work]
      /\ session'[s].task = "cancel" /\ session'[s].order = o /\ session'[s].step = "commit"
      /\ session'[s].at = session[s].at /\ session'[s].row = session[s].row
      /\ \A t \in Sessions \ {s} : session'[t] = session[t]
  BY <1>1, <1>2, ContinueTyped DEF Sound
<1>4. TypeOK'
  BY <1>1, <1>3 DEF Sound, TypeOK, holdings, calls, engine, history, marks
<1>5. \A t \in Sessions \ {s} : Spared(t)
  BY <1>1, <1>3, ReadingSpares DEF engine, history, marks
<1>6. SessionSound(s)'
  <2>1. Pending(s)'
    BY <1>1, <1>2, <1>3 DEF Pending, Event, engine
  <2> QED
    BY <1>2, <1>3, <2>1 DEF SessionSound
<1>7. Locked(s)' = {} /\ CopyCurrent(s)'
  BY <1>3 DEF Locked, CopyCurrent, Guarded, Is
<1> QED
  BY <1>4, <1>5, <1>6, <1>7, SessionStepSound

\* The handler without the lock marks the seller whose lock it ignores.
LEMMA CancelCommitSound ==
  ASSUME Sound, NEW s \in Sessions, CancelCommit(s)
  PROVE  Sound'
<1> DEFINE u == Seller(s)
           o == session[s].order
           after == ReservedAfter(s, u, AfterRelease(s))
<1>1. /\ session[s].task = "cancel" /\ ~ IsFree(s)
      /\ IF after <= quantity[u]
         THEN /\ reserved' = [reserved EXCEPT ![u] = after]
              /\ WriteRow(s, Released(session[s].row))
              /\ returned' = returned \cup {o}
         ELSE UNCHANGED <<reserved, row, returned>>
      /\ torn' \in {torn, torn \cup {u}} /\ (LockIgnored(u) => u \in torn')
      /\ Settle(s) /\ End(s)
      /\ UNCHANGED <<quantity, calls, engine, late, refused, forgotten, faults>>
  BY NoWorkTyped DEF CancelCommit, Is, IsFree
<1>2. /\ o \in Orders /\ u \in Users /\ session[s].row \in Rows /\ session[s].at \in Nat
      /\ s \in Consumers
  BY <1>1, BusyTyped DEF Sound, SessionsSound, SessionSound
<1>3. session' \in [Sessions -> Work] /\ \A t \in Sessions \ {s} : session'[t] = session[t]
  BY <1>1, EndTyped DEF Sound
<1>4. settled' \in [Orders -> SUBSET Nat]
  BY <1>1, <1>2, SettleTyped DEF Sound
<1>5. /\ reserved' \in [Users -> Nat] /\ row' \in [Orders -> Rows] /\ returned' \subseteq Orders
      /\ \A v \in Users \ {u} : reserved'[v] = reserved[v]
      /\ \A p \in Orders \ {o} : row'[p] = row[p]
  <2>1. CASE after <= quantity[u]
    <3>1. after \in Nat
      BY <1>1, AfterReleaseTyped DEF Sound
    <3>2. row' \in [Orders -> Rows] /\ \A p \in Orders \ {o} : row'[p] = row[p]
      <4>1. /\ Released(session[s].row) \in Rows
            /\ Released(session[s].row).quantity = session[s].row.quantity
        BY <1>2, ReleasedTyped
      <4> QED
        BY <1>1, <1>2, <2>1, <4>1, WriteRowTyped DEF Sound
    <3> HIDE DEF after
    <3> QED
      BY <1>1, <1>2, <2>1, <3>1, <3>2 DEF Sound, TypeOK
  <2>2. CASE ~ (after <= quantity[u])
    BY <1>1, <2>2 DEF Sound, TypeOK
  <2> QED
    BY <2>1, <2>2
<1> HIDE DEF after
<1>6. TypeOK'
  BY <1>1, <1>2, <1>3, <1>4, <1>5 DEF Sound, TypeOK, calls, engine
<1>7. ASSUME NEW t \in Sessions \ {s} PROVE Spared(t)
  <2>1. t \in Consumers /\ ~ IsFree(t) => Pending(t)' /\ Event(t)' = Event(t)
    BY <1>1, <1>2, <1>3, ConsumersApart DEF engine
  <2>2. Guarded(t) /\ Seller(t) \notin torn' => Seller(t) # Seller(s)
    BY <1>1, GuardedLocks DEF LockIgnored
  <2>3. torn \subseteq torn' /\ quantity' = quantity
    BY <1>1
  <2> QED
    BY <1>1, <1>3, <1>5, <2>1, <2>2, <2>3, CommitSpares
<1> QED
  BY <1>1, <1>6, <1>7, SessionEndSound

\* A crash leaves every session free.
LEMMA CrashSound == ASSUME Sound, Crash PROVE Sound'
<1>1. /\ session' = [s \in Sessions |-> NoWork]
      /\ UNCHANGED <<holdings, row, calls, engine, settled, history>>
  BY DEF Crash
<1>2. session' \in [Sessions -> Work]
  BY <1>1, NoWorkTyped
<1>3. TypeOK'
  BY <1>1, <1>2 DEF Sound, TypeOK, holdings, calls, engine, history, marks
<1>4. ASSUME NEW s \in Sessions PROVE SessionSound(s)' /\ CopyCurrent(s)' /\ Locked(s)' = {}
  BY <1>1, NoWorkTyped DEF SessionSound, CopyCurrent, IsFree, Locked, Is
<1> QED
  BY <1>3, <1>4 DEF Sound, SessionsSound, CopiesCurrent, LocksExclude, Sessions

-----------------------------------------------------------------------------
(* The callers *)

\* A published event stays where it is, and is not handled yet.
LEMMA TellSpares ==
  ASSUME Sound, NEW o \in Orders, NEW e \in Events, Tell(o, e)
  PROVE  /\ stream' \in [Orders -> Seq(Events)]
         /\ \A p \in Orders \ {o} : stream'[p] = stream[p]
         /\ Len(stream[o]) + 1 \notin DOMAIN stream[o]
         /\ DOMAIN stream'[o] = DOMAIN stream[o] \cup {Len(stream[o]) + 1}
         /\ stream'[o][Len(stream[o]) + 1] = e
         /\ \A p \in Orders : \A i \in DOMAIN stream[p] :
              i \in DOMAIN stream'[p] /\ stream'[p][i] = stream[p][i]
<1>1. stream \in [Orders -> Seq(Events)]
  BY DEF Sound, TypeOK
<1>2. Append(stream[o], e) \in Seq(Events)
  BY <1>1
<1>3. /\ stream' \in [Orders -> Seq(Events)] /\ stream'[o] = Append(stream[o], e)
      /\ \A p \in Orders \ {o} : stream'[p] = stream[p]
  BY <1>1, <1>2 DEF Tell
<1>4. /\ Len(stream[o]) + 1 \notin DOMAIN stream[o]
      /\ DOMAIN stream'[o] = DOMAIN stream[o] \cup {Len(stream[o]) + 1}
      /\ stream'[o][Len(stream[o]) + 1] = e
      /\ \A i \in DOMAIN stream[o] : i \in DOMAIN stream'[o] /\ stream'[o][i] = stream[o][i]
  BY <1>1, <1>3
<1>5. \A p \in Orders : \A i \in DOMAIN stream[p] :
        i \in DOMAIN stream'[p] /\ stream'[p][i] = stream[p][i]
  BY <1>3, <1>4
<1> QED
  BY <1>3, <1>4, <1>5

LEMMA TellingSpares ==
  ASSUME Sound, NEW o \in Orders, NEW e \in Events, Tell(o, e),
         UNCHANGED <<holdings, row, settled, session, torn>>
  PROVE  \A t \in Sessions : Spared(t)
<1> SUFFICES ASSUME NEW t \in Sessions PROVE Spared(t)
  OBVIOUS
<1>1. t \in Consumers /\ ~ IsFree(t) => Pending(t)' /\ Event(t)' = Event(t)
  <2> SUFFICES ASSUME t \in Consumers, ~ IsFree(t) PROVE Pending(t)' /\ Event(t)' = Event(t)
    OBVIOUS
  <2>1. session[t].order \in Orders /\ Pending(t)
    BY BusyTyped DEF Sound
  <2>2. /\ session[t].at \in DOMAIN stream'[session[t].order]
        /\ stream'[session[t].order][session[t].at] = stream[session[t].order][session[t].at]
    BY <2>1, TellSpares DEF Pending
  <2> QED
    BY <2>1, <2>2 DEF Pending, Event
<1> QED
  BY <1>1 DEF Spared, holdings

LEMMA NoticeTyped ==
  ASSUME NEW o \in Orders, NEW kind \in Consumers
  PROVE  Notice(o, kind) \in Events
  BY OrderAssumption DEF Notice, Events

\* A step of a caller that leaves the streams alone.
LEMMA CallingSound ==
  ASSUME Sound, TypeOK', UNCHANGED <<holdings, row, torn, stream, settled, session>>
  PROVE  Sound'
<1>1. \A t \in Sessions : Spared(t)
  BY ReadingSpares
<1> QED
  BY <1>1, CallerStepSound

LEMMA CallReserveSound ==
  ASSUME Sound, NEW o \in Orders, CallReserve(o)
  PROVE  Sound'
<1>1. /\ phase' \in [Orders -> Phases]
      /\ reserveCalls' \in [Orders -> Nat] /\ callsMade' \in [Orders -> 0..MaxReserveCalls]
      /\ faults' \in 0..MaxFaults
  BY BoundAssumption DEF CallReserve, Goto, Phases, Fault, Sound, TypeOK
<1>2. UNCHANGED <<holdings, row, engine, settled, session, marks>>
  BY DEF CallReserve
<1>3. TypeOK'
  BY <1>1, <1>2 DEF Sound, TypeOK, holdings, engine, marks
<1> QED
  BY <1>2, <1>3, CallingSound DEF engine, marks

LEMMA GiveUpSound ==
  ASSUME Sound, NEW o \in Orders, GiveUp(o)
  PROVE  Sound'
<1>1. phase' \in [Orders -> Phases] /\ faults' \in 0..MaxFaults
  BY BoundAssumption DEF GiveUp, Goto, Phases, Fault, Sound, TypeOK
<1>2. UNCHANGED <<holdings, row, reserveCalls, callsMade, engine, settled, session, marks>>
  BY DEF GiveUp
<1>3. TypeOK'
  BY <1>1, <1>2 DEF Sound, TypeOK, holdings, engine, marks
<1> QED
  BY <1>2, <1>3, CallingSound DEF engine, marks

LEMMA PublishAcceptedSound ==
  ASSUME Sound, NEW o \in Orders, PublishAccepted(o)
  PROVE  Sound'
<1>1. Quantity[o] \in Nat
  BY OrderAssumption
<1>2. phase' \in [Orders -> Phases] /\ faults' \in 0..MaxFaults /\ live' \in [Orders -> Nat]
  <2>1. /\ phase \in [Orders -> Phases] /\ faults \in 0..MaxFaults /\ live \in [Orders -> Nat]
        /\ MaxFaults \in Nat
    BY BoundAssumption DEF Sound, TypeOK
  <2>2. Goto(o, "live") \/ Goto(o, "unwinding") => phase' \in [Orders -> Phases]
    BY <2>1 DEF Goto, Phases
  <2>3. Rest(o) => live' \in [Orders -> Nat]
    BY <1>1, <2>1 DEF Rest
  <2>4. Fault => faults' \in 0..MaxFaults
    BY <2>1 DEF Fault
  <2> QED
    BY <2>1, <2>2, <2>3, <2>4 DEF PublishAccepted
<1>3. UNCHANGED <<holdings, row, reserveCalls, callsMade, stream, settled, session, marks>>
  BY DEF PublishAccepted
<1>4. TypeOK'
  BY <1>2, <1>3 DEF Sound, TypeOK, holdings, marks
<1> QED
  BY <1>3, <1>4, CallingSound DEF marks

LEMMA RejectSound ==
  ASSUME Sound, NEW o \in Orders, Reject(o)
  PROVE  Sound'
<1>1. /\ phase' \in [Orders -> Phases]
      /\ UNCHANGED <<holdings, row, reserveCalls, callsMade, live, settled, session, returned,
                     late, torn, refused>>
  BY DEF Reject, Goto, Phases, Sound, TypeOK
<1>2. CASE Tell(o, Notice(o, "order.rejected")) /\ UNCHANGED <<forgotten, faults>>
  <2>1. Notice(o, "order.rejected") \in Events
    BY NoticeTyped DEF Consumers
  <2>2. stream' \in [Orders -> Seq(Events)]
    BY <1>2, <2>1, TellSpares
  <2>3. TypeOK'
    BY <1>1, <1>2, <2>2 DEF Sound, TypeOK, holdings
  <2>4. \A t \in Sessions : Spared(t)
    BY <1>1, <1>2, <2>1, TellingSpares
  <2> QED
    BY <2>3, <2>4, CallerStepSound
<1>3. CASE UNCHANGED stream /\ forgotten' = forgotten \cup {o} /\ Fault
  <2>1. faults' \in 0..MaxFaults
    BY <1>3, BoundAssumption DEF Fault, Sound, TypeOK
  <2>2. TypeOK'
    BY <1>1, <1>3, <2>1 DEF Sound, TypeOK, holdings
  <2> QED
    BY <1>1, <1>3, <2>2, CallingSound
<1> QED
  BY <1>2, <1>3 DEF Reject

LEMMA TradeTyped ==
  ASSUME Sound, NEW o \in Orders, NEW buyer \in Users, NEW q \in 1..Quantity[o], Trade(o, buyer, q)
  PROVE  /\ q \in Nat /\ q >= 1 /\ live[o] \in Nat /\ live[o] - q \in Nat
         /\ [kind |-> "trade.executed", buyer |-> buyer, quantity |-> q, left |-> live[o] - q]
            \in Events
<1>1. Quantity[o] \in Nat /\ live[o] \in Nat /\ q <= live[o]
  BY OrderAssumption DEF Trade, Sound, TypeOK
<1>2. q \in Nat /\ q >= 1 /\ live[o] - q \in Nat
  BY <1>1
<1> QED
  BY <1>1, <1>2 DEF Events, Consumers

LEMMA TradeSound ==
  ASSUME Sound, NEW o \in Orders, NEW buyer \in Users, NEW q \in 1..Quantity[o], Trade(o, buyer, q)
  PROVE  Sound'
<1> DEFINE e == [kind |-> "trade.executed", buyer |-> buyer, quantity |-> q, left |-> live[o] - q]
<1>1. e \in Events /\ live[o] - q \in Nat
  BY TradeTyped
<1>2. /\ live' = [live EXCEPT ![o] = @ - q] /\ Tell(o, e)
      /\ UNCHANGED <<holdings, row, calls, settled, session, history>>
  BY DEF Trade
<1> HIDE DEF e
<1>3. stream' \in [Orders -> Seq(Events)] /\ \A t \in Sessions : Spared(t)
  BY <1>1, <1>2, TellSpares, TellingSpares DEF history, marks
<1>4. TypeOK'
  BY <1>1, <1>2, <1>3 DEF Sound, TypeOK, holdings, calls, history, marks
<1> QED
  BY <1>3, <1>4, CallerStepSound

LEMMA CancelSound ==
  ASSUME Sound, NEW o \in Orders, Cancel(o)
  PROVE  Sound'
<1>1. Notice(o, "order.cancelled") \in Events
  BY NoticeTyped DEF Consumers
<1>2. /\ live' = [live EXCEPT ![o] = 0] /\ Tell(o, Notice(o, "order.cancelled"))
      /\ UNCHANGED <<holdings, row, calls, settled, session, history>>
  BY DEF Cancel
<1>3. stream' \in [Orders -> Seq(Events)] /\ \A t \in Sessions : Spared(t)
  BY <1>1, <1>2, TellSpares, TellingSpares DEF history, marks
<1>4. TypeOK'
  BY <1>2, <1>3 DEF Sound, TypeOK, holdings, calls, history, marks
<1> QED
  BY <1>3, <1>4, CallerStepSound

-----------------------------------------------------------------------------
LEMMA SoundInit == Init => Sound
<1> SUFFICES ASSUME Init PROVE Sound
  OBVIOUS
<1>1. quantity \in [Users -> Nat]
  BY BoundAssumption DEF Init
<1>2. session \in [Sessions -> Work]
  BY NoWorkTyped DEF Init
<1>3. stream \in [Orders -> Seq(Events)]
  <2>1. <<>> \in Seq(Events)
    OBVIOUS
  <2> QED
    BY <2>1 DEF Init
<1>4. TypeOK
  BY <1>1, <1>2, <1>3, NoRowTyped, BoundAssumption DEF Init, TypeOK, Phases
<1>5. ASSUME NEW s \in Sessions PROVE SessionSound(s) /\ CopyCurrent(s) /\ Locked(s) = {}
  BY NoWorkTyped DEF Init, SessionSound, CopyCurrent, IsFree, Locked, Is
<1> QED
  BY <1>4, <1>5 DEF Sound, SessionsSound, CopiesCurrent, LocksExclude

LEMMA SoundNext == Sound /\ [Next]_vars => Sound'
<1> SUFFICES ASSUME Sound, [Next]_vars PROVE Sound'
  OBVIOUS
<1>1. CASE UNCHANGED vars
  <2>1. TypeOK'
    BY <1>1 DEF Sound, TypeOK, vars, holdings, calls, engine, history, marks
  <2> QED
    BY <1>1, <2>1, CallingSound DEF vars, engine, history, marks
<1>2. ASSUME NEW s \in Sessions, SessionStep(s) PROVE Sound'
  BY <1>2, ReserveLockSound, ReserveCommitSound, ReleaseLockSound, ReleaseCommitSound,
     LockTimesOutSound, TradeReadRowSound, TradeCommitSound, TradeFailsSound,
     CancelReadHoldingSound, CancelCommitSound, ReserveReadSound, ReleaseReadSound,
     TradeLockSound, CancelReadSound
  DEF SessionStep
<1>3. ASSUME NEW o \in Orders, CallerStep(o) PROVE Sound'
  BY <1>3, CallReserveSound, GiveUpSound, PublishAcceptedSound, RejectSound, TradeSound, CancelSound
  DEF CallerStep
<1> QED
  BY <1>1, <1>2, <1>3, CrashSound DEF Next

LEMMA AlwaysSound == Spec => []Sound
<1>1. Sound /\ [Next]_vars => Sound'
  BY SoundNext
<1> QED
  BY <1>1, SoundInit, PTL DEF Spec

\* The state keeps its shape; in particular no column of a holding ever goes negative,
\* for any holdings, orders and interleaving of requests, fills and cancellations.
THEOREM TypeCorrect == Spec => []TypeOK
<1>1. Sound => TypeOK
  BY DEF Sound
<1> QED
  BY <1>1, AlwaysSound, PTL

\* What a handler has read under lock:shares is still true when it commits, unless the
\* handler that takes no lock got in between.
THEOREM LockedReadsCurrent == Spec => [](LocksExclude /\ CopiesCurrent)
<1>1. Sound => LocksExclude /\ CopiesCurrent
  BY DEF Sound
<1> QED
  BY <1>1, AlwaysSound, PTL

-----------------------------------------------------------------------------
(* What was sold *)

LEMMA OrdersOfFinite == \A u : IsFiniteSet(OrdersOf(u)) /\ OrdersOf(u) \subseteq Orders
  BY FiniteAssumption, FS_Subset DEF OrdersOf

\* What was sold by some of the events about an order.
LEMMA SoldTyped ==
  ASSUME Sound, NEW o \in Orders, NEW P \in SUBSET DOMAIN stream[o]
  PROVE  /\ Sold(o, P) \in Nat
         /\ Sold(o, P) + Sold(o, DOMAIN stream[o] \ P) = SoldSoFar(o)
         /\ Sold(o, DOMAIN stream[o] \ P) \in Nat
         /\ \A i \in DOMAIN stream[o] \ P :
              Sold(o, P \cup {i}) = Sold(o, P) + stream[o][i].quantity
         /\ (\A i \in P : stream[o][i].quantity = 0) => Sold(o, P) = 0
<1> DEFINE f == Quantities(stream[o])
           D == DOMAIN stream[o]
<1>1. IsFiniteSet(D)
  <2>1. D = 1..Len(stream[o]) /\ Len(stream[o]) \in Nat
    BY DEF Sound, TypeOK
  <2> QED
    BY <2>1, FS_Interval
<1>2. \A i \in D : f[i] = stream[o][i].quantity /\ f[i] \in Nat
  BY EventTyped DEF Quantities, Sound
<1>3. \A Q : Sold(o, Q) = SumFunctionOnSet(f, Q)
  BY DEF Sold
<1> HIDE DEF f, D
<1>4. ASSUME NEW Q \in SUBSET D PROVE IsFiniteSet(Q) /\ SumFunctionOnSet(f, Q) \in Nat
  <2>1. IsFiniteSet(Q)
    BY <1>1, FS_Subset
  <2> QED
    BY <1>2, <2>1, SumNat
<1>5. P \in SUBSET D
  BY DEF D
<1>6. SumFunctionOnSet(f, D) = SumFunctionOnSet(f, P) + SumFunctionOnSet(f, D \ P)
  BY <1>1, <1>2, <1>5, SumSplit
<1>7. ASSUME NEW i \in D \ P
      PROVE  SumFunctionOnSet(f, P \cup {i}) = SumFunctionOnSet(f, P) + f[i]
  <2>1. SumFunctionOnSet(f, P \cup {i}) = f[i] + SumFunctionOnSet(f, P)
    BY <1>2, <1>4, <1>5, SumAdd
  <2> QED
    BY <1>2, <1>4, <1>5, <2>1
<1>8. (\A i \in P : f[i] = 0) => SumFunctionOnSet(f, P) = 0
  BY <1>4, <1>5, SumZero
<1>9. Sold(o, P) \in Nat /\ Sold(o, D \ P) \in Nat
  BY <1>3, <1>4, <1>5
<1>10. Sold(o, P) + Sold(o, D \ P) = SoldSoFar(o)
  BY <1>3, <1>6 DEF SoldSoFar, D
<1>11. \A i \in D \ P : Sold(o, P \cup {i}) = Sold(o, P) + stream[o][i].quantity
  BY <1>2, <1>3, <1>7
<1>12. (\A i \in P : stream[o][i].quantity = 0) => Sold(o, P) = 0
  BY <1>2, <1>3, <1>5, <1>8
<1> QED
  BY <1>9, <1>10, <1>11, <1>12 DEF D

LEMMA SoldSoFarNat ==
  ASSUME Sound, NEW o \in Orders
  PROVE  SoldSoFar(o) \in Nat /\ (stream[o] = <<>> => SoldSoFar(o) = 0)
<1>1. DOMAIN stream[o] \in SUBSET DOMAIN stream[o] /\ SoldSoFar(o) = Sold(o, DOMAIN stream[o])
  BY DEF SoldSoFar
<1>2. stream[o] = <<>> => DOMAIN stream[o] = {}
  OBVIOUS
<1> QED
  BY <1>1, <1>2, SoldTyped

\* The numbers of one order.
LEMMA OrderNumbers ==
  ASSUME Sound, NEW o \in Orders, EngineSound(o), RowSound(o)
  PROVE  /\ settled[o] \in SUBSET DOMAIN stream[o]
         /\ Sold(o, settled[o]) \in Nat /\ SoldSoFar(o) \in Nat /\ live[o] \in Nat
         /\ Quantity[o] \in Nat /\ Quantity[o] > 0
         /\ Sold(o, settled[o]) + Sold(o, DOMAIN stream[o] \ settled[o]) = SoldSoFar(o)
         /\ Sold(o, DOMAIN stream[o] \ settled[o]) \in Nat
         /\ Owner[o] \in Users /\ row[o] \in Rows
         /\ reserved[Owner[o]] \in Nat /\ quantity[Owner[o]] \in Nat
         /\ row[o] = NoRow => SoldSoFar(o) = 0 /\ Sold(o, settled[o]) = 0 /\ o \notin returned
         /\ row[o] # NoRow => row[o].quantity = Quantity[o]
<1>1. settled[o] \in SUBSET DOMAIN stream[o]
  BY DEF EngineSound
<1>2. /\ Sold(o, settled[o]) \in Nat /\ SoldSoFar(o) \in Nat
      /\ Sold(o, settled[o]) + Sold(o, DOMAIN stream[o] \ settled[o]) = SoldSoFar(o)
      /\ Sold(o, DOMAIN stream[o] \ settled[o]) \in Nat
  BY <1>1, SoldTyped, SoldSoFarNat
<1>3. /\ live[o] \in Nat /\ Quantity[o] \in Nat /\ Quantity[o] > 0
      /\ Owner[o] \in Users /\ row[o] \in Rows
      /\ reserved[Owner[o]] \in Nat /\ quantity[Owner[o]] \in Nat
  BY OrderAssumption DEF Sound, TypeOK
<1>4. ASSUME row[o] = NoRow PROVE SoldSoFar(o) = 0 /\ Sold(o, settled[o]) = 0 /\ o \notin returned
  <2>1. \A i \in DOMAIN stream[o] : stream[o][i].quantity = 0
    BY <1>4 DEF EngineSound, RowSound
  <2>2. DOMAIN stream[o] \in SUBSET DOMAIN stream[o]
    OBVIOUS
  <2>3. SoldSoFar(o) = 0 /\ Sold(o, settled[o]) = 0
    BY <1>1, <2>1, <2>2, SoldTyped DEF SoldSoFar
  <2>4. o \notin returned
    BY <1>4, NoRowTyped DEF RowSound
  <2> QED
    BY <2>3, <2>4
<1> QED
  BY <1>1, <1>2, <1>3, <1>4 DEF RowSound

\* What is due of an order: it covers all that is still to be delivered.
LEMMA DueTyped ==
  ASSUME Sound, NEW o \in Orders, EngineSound(o), RowSound(o)
  PROVE  /\ Due[o] \in Nat
         /\ Due[o] = IF o \in returned THEN 0 ELSE row[o].quantity - Sold(o, settled[o])
         /\ row[o] = NoRow => Due[o] = 0
         /\ o \notin returned => ToDeliver[o] <= Due[o]
         /\ ToDeliver[o] \in Nat
<1>1. Due[o] = IF o \in returned THEN 0 ELSE row[o].quantity - Sold(o, settled[o])
  BY DEF Due
<1>2. ToDeliver[o] = live[o] + Sold(o, DOMAIN stream[o] \ settled[o])
  BY DEF ToDeliver
<1>3. live[o] + SoldSoFar(o) <= Quantity[o] /\ (row[o] = NoRow => live[o] = 0)
  BY DEF EngineSound, RowSound
<1>4. row[o] = NoRow => row[o].quantity = 0
  BY DEF NoRow
<1> DEFINE x == Sold(o, settled[o])
           y == Sold(o, DOMAIN stream[o] \ settled[o])
           z == SoldSoFar(o)
<1>5. /\ x \in Nat /\ y \in Nat /\ z \in Nat /\ x + y = z
      /\ live[o] \in Nat /\ Quantity[o] \in Nat
      /\ row[o] = NoRow => z = 0 /\ x = 0
      /\ row[o] # NoRow => row[o].quantity = Quantity[o]
  BY OrderNumbers
<1>6. /\ Due[o] = IF o \in returned THEN 0 ELSE row[o].quantity - x
      /\ ToDeliver[o] = live[o] + y
      /\ live[o] + z <= Quantity[o]
  BY <1>1, <1>2, <1>3
<1> HIDE DEF x, y, z
<1>7. ASSUME row[o] = NoRow
      PROVE  /\ Due[o] = 0 /\ ToDeliver[o] = 0
  BY <1>3, <1>4, <1>5, <1>6, <1>7
<1>8. ASSUME row[o] # NoRow
      PROVE  /\ Due[o] \in Nat /\ ToDeliver[o] \in Nat
             /\ o \notin returned => ToDeliver[o] <= Due[o]
  BY <1>5, <1>6, <1>8
<1>9. /\ Due[o] \in Nat /\ ToDeliver[o] \in Nat
      /\ row[o] = NoRow => Due[o] = 0
      /\ o \notin returned => ToDeliver[o] <= Due[o]
  BY <1>7, <1>8
<1> QED
  BY <1>1, <1>9

-----------------------------------------------------------------------------
(* What a step leaves alone *)

\* The histories only grow.
Monotone ==
  /\ torn \subseteq torn' /\ late \subseteq late' /\ returned \subseteq returned'
  /\ refused \subseteq refused' /\ forgotten \subseteq forgotten'

\* The step is not about o.
Untouched(o) ==
  /\ phase'[o] = phase[o] /\ live'[o] = live[o]
  /\ stream'[o] = stream[o] /\ settled'[o] = settled[o] /\ row'[o] = row[o]
  /\ reserveCalls'[o] = reserveCalls[o] /\ callsMade'[o] = callsMade[o]
  /\ o \in returned' <=> o \in returned
  /\ o \in refused' <=> o \in refused
  /\ \A s \in Sessions : session'[s].order = o =>
       session[s].order = o /\ session'[s].task = session[s].task

LEMMA EngineUntouched ==
  ASSUME NEW o \in Orders, EngineSound(o), forgotten \subseteq forgotten',
         phase'[o] = phase[o], live'[o] = live[o], stream'[o] = stream[o], settled'[o] = settled[o]
  PROVE  EngineSound(o)'
<1>1. SoldSoFar(o)' = SoldSoFar(o)
  BY DEF SoldSoFar, Sold
<1>2. \A i : IsFill(o, i)' <=> IsFill(o, i)
  BY DEF IsFill
<1> QED
  BY <1>1, <1>2 DEF EngineSound

LEMMA OrderUntouched ==
  ASSUME NEW o \in Orders, OrderSound(o), Monotone, Untouched(o)
  PROVE  OrderSound(o)' /\ Due'[o] = Due[o]
<1>1. /\ phase'[o] = phase[o] /\ live'[o] = live[o]
      /\ stream'[o] = stream[o] /\ settled'[o] = settled[o] /\ row'[o] = row[o]
      /\ reserveCalls'[o] = reserveCalls[o] /\ callsMade'[o] = callsMade[o]
      /\ o \in returned' <=> o \in returned
      /\ o \in refused' <=> o \in refused
  BY DEF Untouched
<1>2. EngineSound(o)'
  BY <1>1, EngineUntouched DEF OrderSound, Monotone
<1>3. /\ SoldSoFar(o)' = SoldSoFar(o)
      /\ Sold(o, settled[o])' = Sold(o, settled[o])
  BY <1>1 DEF SoldSoFar, Sold
<1>4. \A i : IsFill(o, i)' <=> IsFill(o, i)
  BY <1>1 DEF IsFill
<1>5. RowSound(o)'
  <2>1. RowSound(o)
    BY DEF OrderSound
  <2>2. Sessions' = Sessions
    BY DEF Sessions
  <2>3. row[o] = NoRow => \A s \in Sessions : session'[s].order = o => session'[s].task = "reserve"
    BY <2>1 DEF RowSound, Untouched
  <2>4. phase[o] = "idle" => \A s \in Sessions : session'[s].order # o
    BY <2>1 DEF RowSound, Untouched
  <2> QED
    BY <1>1, <1>3, <1>4, <2>1, <2>2, <2>3, <2>4 DEF RowSound
<1>6. RowKept(o)'
  BY <1>1, <1>3, <1>4 DEF OrderSound, RowKept, Monotone, Left
<1>7. Due'[o] = Due[o]
  BY <1>1, <1>3 DEF Due
<1> QED
  BY <1>2, <1>5, <1>6, <1>7 DEF OrderSound

\* What is due to a user, all his orders together.
LEMMA DueToTyped ==
  ASSUME Sound, Ledger, NEW u
  PROVE  DueTo(u) \in Nat /\ \A o \in OrdersOf(u) : Due[o] \in Nat /\ Due[o] <= DueTo(u)
<1> DEFINE f == Due
           S == OrdersOf(u)
<1>1. \A o \in S : f[o] \in Nat
  BY OrdersOfFinite, DueTyped DEF Ledger, OrderSound
<1>2. IsFiniteSet(S)
  BY OrdersOfFinite
<1>3. DueTo(u) = SumFunctionOnSet(f, S)
  BY DEF DueTo
<1> HIDE DEF f, S
<1>4. SumFunctionOnSet(f, S) \in Nat /\ \A o \in S : f[o] <= SumFunctionOnSet(f, S)
  BY <1>1, <1>2, SumNat
<1> QED
  BY <1>1, <1>3, <1>4 DEF f, S

\* What is due changes by what is due of the one order that the step is about.
LEMMA DueMoves ==
  ASSUME Sound, Ledger, NEW o \in Orders, Due'[o] \in Int,
         \A p \in Orders \ {o} : Due'[p] = Due[p]
  PROVE  /\ DueTo(Owner[o])' = DueTo(Owner[o]) + Due'[o] - Due[o]
         /\ \A u : u # Owner[o] => DueTo(u)' = DueTo(u)
<1> DEFINE f == Due
           g == Due'
<1>1. \A p \in Orders : f[p] \in Int /\ g[p] \in Int
  BY DueTyped DEF Ledger, OrderSound
<1>2. \A p \in Orders \ {o} : g[p] = f[p]
  OBVIOUS
<1>3. \A u : DueTo(u) = SumFunctionOnSet(f, OrdersOf(u)) /\ DueTo(u)' = SumFunctionOnSet(g, OrdersOf(u))
  BY DEF DueTo, OrdersOf
<1> HIDE DEF f, g
<1>4. ASSUME NEW u, u # Owner[o] PROVE SumFunctionOnSet(f, OrdersOf(u)) = SumFunctionOnSet(g, OrdersOf(u))
  <2> DEFINE S == OrdersOf(u)
  <2>1. \A p \in S : p \in Orders \ {o}
    BY <1>4 DEF OrdersOf
  <2>2. IsFiniteSet(S) /\ \A p \in S : f[p] = g[p]
    BY <1>2, <2>1, OrdersOfFinite
  <2> HIDE DEF S
  <2>3. SumFunctionOnSet(f, S) = SumFunctionOnSet(g, S)
    BY <2>2, SumEqual
  <2> QED
    BY <2>3 DEF S
<1>5. SumFunctionOnSet(g, OrdersOf(Owner[o])) = SumFunctionOnSet(f, OrdersOf(Owner[o])) + g[o] - f[o]
  <2> DEFINE S == OrdersOf(Owner[o])
  <2>1. IsFiniteSet(S) /\ o \in S /\ S \subseteq Orders
    BY OrdersOfFinite DEF OrdersOf
  <2> HIDE DEF S
  <2>2. SumFunctionOnSet(g, S) = SumFunctionOnSet(f, S) + g[o] - f[o]
    BY <1>1, <1>2, <2>1, SumChange
  <2> QED
    BY <2>2 DEF S
<1> QED
  BY <1>3, <1>4, <1>5 DEF f, g

\* A step about one order, which moves the holding of its seller at most.
LEMMA LedgerStep ==
  ASSUME Sound, Ledger, Monotone, NEW o \in Orders, \A p \in Orders \ {o} : Untouched(p),
         OrderSound(o)', HoldingSound(Owner[o])', Due'[o] \in Int,
         quantity' \in [Users -> Nat],
         \A u \in Users \ {Owner[o]} : reserved'[u] = reserved[u] /\ quantity'[u] >= quantity[u]
  PROVE  Ledger'
<1>1. \A p \in Orders \ {o} : OrderSound(p)' /\ Due'[p] = Due[p]
  BY OrderUntouched DEF Ledger
<1>2. ASSUME NEW u \in Users, u # Owner[o] PROVE HoldingSound(u)'
  <2>1. DueTo(u)' = DueTo(u)
    BY <1>1, <1>2, DueMoves
  <2>2. HoldingSound(u)
    BY DEF Ledger
  <2>3. OrdersOf(u)' = OrdersOf(u)
    BY DEF OrdersOf
  <2>4. reserved[u] \in Nat /\ quantity[u] \in Nat /\ quantity'[u] \in Nat
    BY DEF Sound, TypeOK
  <2>5. reserved'[u] = reserved[u] /\ quantity'[u] >= quantity[u]
    BY <1>2
  <2>6. u \notin torn' => u \notin torn
    BY DEF Monotone
  <2>7. u \notin late' => u \notin late
    BY DEF Monotone
  <2>8. OrdersOf(u)' \cap refused' = {} => OrdersOf(u) \cap refused = {}
    BY <2>3 DEF Monotone
  <2>9. reserved[u] <= quantity[u] => reserved'[u] <= quantity'[u]
    BY <2>4, <2>5
  <2> QED
    BY <2>1, <2>2, <2>5, <2>6, <2>7, <2>8, <2>9 DEF HoldingSound
<1>3. \A u \in Users : HoldingSound(u)'
  BY <1>2
<1> QED
  BY <1>1, <1>3 DEF Ledger

\* A step about one order, of which neither more nor less is due then.
LEMMA LedgerNothingDue ==
  ASSUME Sound, Ledger, Monotone, NEW o \in Orders, \A p \in Orders \ {o} : Untouched(p),
         OrderSound(o)', Due'[o] = Due[o], UNCHANGED holdings
  PROVE  Ledger'
<1> DEFINE u == Owner[o]
<1>1. u \in Users /\ Due[o] \in Nat /\ quantity \in [Users -> Nat] /\ reserved \in [Users -> Nat]
  BY OrderAssumption, DueTyped DEF Ledger, OrderSound, Sound, TypeOK
<1>2. \A p \in Orders \ {o} : Due'[p] = Due[p]
  BY OrderUntouched DEF Ledger
<1>3. DueTo(u)' = DueTo(u) /\ DueTo(u) \in Nat
  <2>1. DueTo(u)' = DueTo(u) + Due[o] - Due[o]
    BY <1>1, <1>2, DueMoves
  <2>2. DueTo(u) \in Nat
    BY DueToTyped
  <2> QED
    BY <1>1, <2>1, <2>2
<1>4. HoldingSound(u)'
  <2>1. HoldingSound(u)
    BY <1>1 DEF Ledger
  <2>2. OrdersOf(u)' = OrdersOf(u) /\ reserved' = reserved /\ quantity' = quantity
    BY DEF OrdersOf, holdings
  <2> QED
    BY <1>3, <2>1, <2>2 DEF HoldingSound, Monotone
<1>5. \A v \in Users \ {u} : reserved'[v] = reserved[v] /\ quantity'[v] >= quantity[v]
  BY <1>1 DEF holdings
<1>6. quantity' \in [Users -> Nat] /\ Due'[o] \in Int
  BY <1>1 DEF holdings
<1> QED
  BY <1>4, <1>5, <1>6, LedgerStep

\* A step about no order.
LEMMA LedgerUntouched ==
  ASSUME Sound, Ledger, Monotone, \A p \in Orders : Untouched(p), UNCHANGED holdings
  PROVE  Ledger'
<1>1. CASE Orders = {}
  <2>1. ASSUME NEW u \in Users PROVE HoldingSound(u)'
    <3>1. OrdersOf(u) = {} /\ OrdersOf(u)' = {}
      BY <1>1 DEF OrdersOf
    <3>2. DueTo(u) = 0 /\ DueTo(u)' = 0
      BY <3>1, SumEmpty DEF DueTo
    <3>3. HoldingSound(u)
      BY DEF Ledger
    <3> QED
      BY <3>1, <3>2, <3>3 DEF HoldingSound, Monotone, holdings
  <2> QED
    BY <1>1, <2>1 DEF Ledger
<1>2. ASSUME NEW o \in Orders PROVE Ledger'
  <2>1. OrderSound(o)' /\ Due'[o] = Due[o]
    BY OrderUntouched DEF Ledger
  <2> QED
    BY <2>1, LedgerNothingDue
<1> QED
  BY <1>1, <1>2

-----------------------------------------------------------------------------
(* The ledger when sessions read *)

\* A step that only starts, continues or ends sessions.
LEMMA SessionsOnlyLedger ==
  ASSUME Sound, Ledger, UNCHANGED <<holdings, row, calls, engine, settled, history>>,
         \A s \in Sessions : \A o \in Orders : session'[s].order = o =>
           session[s].order = o /\ session'[s].task = session[s].task
  PROVE  Ledger'
<1>1. Monotone
  BY DEF Monotone, history, marks
<1>2. \A p \in Orders : Untouched(p)
  BY DEF Untouched, calls, engine, history, marks
<1> QED
  BY <1>1, <1>2, LedgerUntouched

\* A session that starts about an order that has been placed, with a row for it unless it
\* reserves.
LEMMA StartedLedger ==
  ASSUME Sound, Ledger, NEW s \in Sessions, NEW o \in Orders, NEW w \in Work, Start(s, w),
         w.order = o, phase[o] # "idle", row[o] = NoRow => w.task = "reserve",
         UNCHANGED <<holdings, row, phase, callsMade, engine, settled, history>>,
         reserveCalls' = reserveCalls
           \/ (reserveCalls' = [reserveCalls EXCEPT ![o] = @ - 1])
  PROVE  Ledger'
<1>1. /\ session'[s] = w /\ \A t \in Sessions \ {s} : session'[t] = session[t]
  BY StartTyped DEF Sound
<1>2. Monotone
  BY DEF Monotone, history, marks
<1>3. \A p \in Orders \ {o} : Untouched(p)
  BY <1>1 DEF Untouched, engine, history, marks, Sound, TypeOK
<1>4. EngineSound(o)' /\ RowKept(o)' /\ Due'[o] = Due[o]
  <2>1. UNCHANGED <<row, live, stream, settled, returned, refused, late, torn, forgotten>>
    BY DEF engine, history, marks
  <2>2. /\ Sold(o, settled[o])' = Sold(o, settled[o])
        /\ \A i : IsFill(o, i)' <=> IsFill(o, i)
    BY <2>1 DEF Sold, IsFill
  <2>3. EngineSound(o)'
    BY <2>1, EngineUntouched DEF Ledger, OrderSound
  <2>4. RowKept(o)'
    BY <2>1, <2>2 DEF Ledger, OrderSound, RowKept, Left
  <2>5. Due'[o] = Due[o]
    BY <2>1, <2>2 DEF Due
  <2> QED
    BY <2>3, <2>4, <2>5
<1>5. RowSound(o)'
  <2>1. RowSound(o)
    BY DEF Ledger, OrderSound
  <2>2. UNCHANGED <<row, phase, callsMade, live, stream, settled, returned>>
    BY DEF engine, history, marks
  <2>3. SoldSoFar(o)' = SoldSoFar(o) /\ \A i : IsFill(o, i)' <=> IsFill(o, i)
    BY <2>2 DEF SoldSoFar, Sold, IsFill
  <2>4. row[o] = NoRow => \A t \in Sessions : session'[t].order = o => session'[t].task = "reserve"
    BY <1>1, <2>1 DEF RowSound
  <2>5. reserveCalls'[o] <= callsMade[o]
    BY <2>1 DEF RowSound, Sound, TypeOK
  <2>6. Sessions' = Sessions
    BY DEF Sessions
  <2> QED
    BY <2>1, <2>2, <2>3, <2>4, <2>5, <2>6 DEF RowSound
<1> QED
  BY <1>2, <1>3, <1>4, <1>5, LedgerNothingDue DEF OrderSound

LEMMA ReserveReadLedger ==
  ASSUME Sound, Ledger, NEW s \in Sessions, NEW o \in Orders, ReserveRead(s, o)
  PROVE  Ledger'
<1>1. /\ reserveCalls[o] > 0 /\ reserveCalls' = [reserveCalls EXCEPT ![o] = @ - 1]
      /\ UNCHANGED <<holdings, row, callsMade, engine, settled, history>>
      /\ reserveCalls[o] \in Nat /\ reserveCalls \in [Orders -> Nat]
  BY DEF ReserveRead, Sound, TypeOK
<1>2. phase[o] # "idle"
  <2>1. reserveCalls[o] <= callsMade[o] /\ (phase[o] = "idle" => callsMade[o] = 0)
    BY DEF Ledger, OrderSound, RowSound
  <2> QED
    BY <1>1, <2>1
<1>3. CASE row[o] = NoRow
  <2> DEFINE w == [task |-> "reserve", order |-> o, at |-> 0, step |-> "lock",
                   row |-> NoRow, reserved |-> 0]
  <2>1. w \in Work
    BY NoRowTyped DEF Work
  <2>2. Start(s, w) /\ UNCHANGED phase
    BY <1>3 DEF ReserveRead
  <2>3. w.order = o /\ w.task = "reserve"
    OBVIOUS
  <2> HIDE DEF w
  <2> QED
    BY <1>1, <1>2, <2>1, <2>2, <2>3, StartedLedger
<1>4. CASE row[o] # NoRow
  <2>1. /\ session' = session /\ phase' \in [Orders -> Phases]
        /\ phase'[o] = phase[o] \/ (phase[o] = "reserving" /\ phase'[o] = "held")
        /\ \A p \in Orders \ {o} : phase'[p] = phase[p]
    BY <1>4 DEF ReserveRead, Answer, Goto, Waits, Sound, TypeOK, Phases
  <2>2. Monotone
    BY <1>1 DEF Monotone, history, marks
  <2>3. \A p \in Orders \ {o} : Untouched(p)
    BY <1>1, <2>1 DEF Untouched, engine, history, marks
  <2>4. UNCHANGED <<row, live, stream, settled, returned, refused, late, torn, forgotten, callsMade>>
    BY <1>1 DEF engine, history, marks
  <2>5. /\ Sold(o, settled[o])' = Sold(o, settled[o]) /\ SoldSoFar(o)' = SoldSoFar(o)
        /\ \A i : IsFill(o, i)' <=> IsFill(o, i)
    BY <2>4 DEF SoldSoFar, Sold, IsFill
  <2>6. EngineSound(o) /\ RowSound(o) /\ RowKept(o)
    BY DEF Ledger, OrderSound
  <2>7. EngineSound(o)'
    BY <2>1, <2>4, <2>5, <2>6 DEF EngineSound
  <2>8. RowKept(o)' /\ Due'[o] = Due[o]
    BY <2>4, <2>5, <2>6 DEF RowKept, Left, Due
  <2>9. reserveCalls'[o] <= callsMade[o]
    <3>1. callsMade[o] \in Nat /\ reserveCalls[o] <= callsMade[o]
      BY <2>6, BoundAssumption DEF RowSound, Sound, TypeOK
    <3> QED
      BY <1>1, <3>1
  <2>10. RowSound(o)'
    BY <1>2, <1>4, <2>1, <2>4, <2>5, <2>6, <2>9 DEF RowSound
  <2> QED
    BY <1>1, <2>2, <2>3, <2>7, <2>8, <2>10, LedgerNothingDue DEF OrderSound
<1> QED
  BY <1>3, <1>4

LEMMA ReleaseReadLedger ==
  ASSUME Sound, Ledger, NEW s \in Sessions, NEW o \in Orders, ReleaseRead(s, o)
  PROVE  Ledger'
<1> DEFINE w == [task |-> "release", order |-> o, at |-> 0, step |-> "lock", row |-> row[o],
                 reserved |-> 0]
<1>1. /\ row[o].status = "HELD" /\ Start(s, w) /\ phase[o] = "unwinding"
      /\ UNCHANGED <<holdings, row, calls, engine, settled, history>>
  BY DEF ReleaseRead
<1>2. row[o] \in Rows /\ row[o] # NoRow
  BY <1>1, NoRowTyped DEF Sound, TypeOK
<1>3. w \in Work /\ w.order = o
  BY <1>2 DEF Work
<1> HIDE DEF w
<1> QED
  BY <1>1, <1>2, <1>3, StartedLedger DEF calls

\* An order with an event has been placed.
LEMMA EventPlaced ==
  ASSUME Sound, Ledger, NEW o \in Orders, NEW i \in DOMAIN stream[o]
  PROVE  /\ phase[o] \notin {"idle", "reserving", "declined", "held"}
         /\ IsFill(o, i) => row[o] # NoRow
<1>1. stream[o] # <<>>
  OBVIOUS
<1> QED
  BY <1>1 DEF Ledger, OrderSound, EngineSound, RowSound

LEMMA TradeLockLedger ==
  ASSUME Sound, Ledger, NEW s \in Sessions, NEW o \in Orders, NEW i \in DOMAIN stream[o],
         TradeLock(s, o, i)
  PROVE  Ledger'
<1> DEFINE w == [task |-> "trade", order |-> o, at |-> i, step |-> "row", row |-> NoRow,
                 reserved |-> reserved[Owner[o]]]
<1>1. /\ Start(s, w) /\ IsFill(o, i)
      /\ UNCHANGED <<holdings, row, calls, engine, settled, history>>
  BY DEF TradeLock, Arrives, IsFill
<1>2. reserved[Owner[o]] \in Nat /\ i \in Nat
  BY OrderAssumption, EventTyped DEF Sound, TypeOK
<1>3. w \in Work /\ w.order = o
  BY <1>2, NoRowTyped DEF Work
<1>4. phase[o] # "idle" /\ row[o] # NoRow
  BY <1>1, EventPlaced
<1> HIDE DEF w
<1> QED
  BY <1>1, <1>3, <1>4, StartedLedger DEF calls

\* A session that goes on, or ends, is about nothing new.
LEMMA GoingOnLedger ==
  ASSUME Sound, Ledger, NEW s \in Sessions,
         ReleaseLock(s) \/ TradeReadRow(s) \/ CancelReadHolding(s) \/ LockTimesOut(s)
  PROVE  Ledger'
<1>1. UNCHANGED <<holdings, row, calls, engine, settled, history>>
  BY DEF ReleaseLock, TradeReadRow, CancelReadHolding, LockTimesOut
<1>2. CASE LockTimesOut(s)
  <2>1. session'[s] = NoWork /\ \A t \in Sessions \ {s} : session'[t] = session[t]
    BY <1>2, EndTyped DEF LockTimesOut, Sound
  <2>2. \A t \in Sessions : \A o \in Orders : session'[t].order = o =>
          session[t].order = o /\ session'[t].task = session[t].task
    BY <2>1, NoWorkTyped
  <2> QED
    BY <1>1, <2>2, SessionsOnlyLedger
<1>3. CASE ~ LockTimesOut(s)
  <2>1. ~ IsFree(s)
    BY <1>3, NoWorkTyped DEF ReleaseLock, TradeReadRow, CancelReadHolding, Is, IsFree
  <2>2. /\ session[s].row \in Rows /\ session[s].reserved \in Nat
        /\ reserved[Seller(s)] \in Nat /\ row[session[s].order] \in Rows
    BY <2>1, BusyTyped DEF Sound
  <2>3. /\ session'[s].order = session[s].order /\ session'[s].task = session[s].task
        /\ \A t \in Sessions \ {s} : session'[t] = session[t]
    BY <1>3, <2>2, ContinueTyped DEF Sound, ReleaseLock, TradeReadRow, CancelReadHolding
  <2>4. \A t \in Sessions : \A o \in Orders : session'[t].order = o =>
          session[t].order = o /\ session'[t].task = session[t].task
    BY <2>3
  <2> QED
    BY <1>1, <2>4, SessionsOnlyLedger
<1> QED
  BY <1>2, <1>3

LEMMA CrashLedger == ASSUME Sound, Ledger, Crash PROVE Ledger'
<1>1. /\ session' = [s \in Sessions |-> NoWork]
      /\ UNCHANGED <<holdings, row, calls, engine, settled, history>>
  BY DEF Crash
<1>2. \A t \in Sessions : \A o \in Orders : session'[t].order = o =>
        session[t].order = o /\ session'[t].task = session[t].task
  BY <1>1, NoWorkTyped
<1> QED
  BY <1>1, <1>2, SessionsOnlyLedger

-----------------------------------------------------------------------------
(* The ledger when a reserve ends *)

\* What a session that ends leaves of the others.
LEMMA EndingSpares ==
  ASSUME Sound, NEW s \in Sessions, End(s)
  PROVE  /\ \A t \in Sessions : \A o \in Orders : session'[t].order = o =>
              session[t].order = o /\ session'[t].task = session[t].task
         /\ Sessions' = Sessions
<1>1. session'[s] = NoWork /\ \A t \in Sessions \ {s} : session'[t] = session[t]
  BY EndTyped DEF Sound
<1> QED
  BY <1>1, NoWorkTyped DEF Sessions

LEMMA AnswerMoves ==
  ASSUME Sound, NEW o \in Orders, NEW p \in {"declined", "held", "unwinding"}, Answer(o, p)
  PROVE  /\ phase'[o] = phase[o] \/ (phase[o] = "reserving" /\ phase'[o] = p)
         /\ \A q \in Orders \ {o} : phase'[q] = phase[q]
  BY DEF Answer, Goto, Waits, Sound, TypeOK, Phases

LEMMA ReserveLockLedger ==
  ASSUME Sound, Ledger, NEW s \in Sessions, ReserveLock(s),
         NEW o \in Orders, session[s].order = o
  PROVE  Ledger'
<1>1. /\ ~ IsFree(s) /\ session[s].task = "reserve"
      /\ UNCHANGED <<holdings, row, reserveCalls, callsMade, engine, settled, history>>
  BY NoWorkTyped DEF ReserveLock, Is, IsFree
<1>2. reserved[Seller(s)] \in Nat
  BY <1>1, BusyTyped DEF Sound
<1>3. CASE Available(Seller(s)) < Quantity[o]
  <2>1. Answer(o, "declined") /\ End(s)
    BY <1>3 DEF ReserveLock
  <2>2. /\ phase'[o] = phase[o] \/ (phase[o] = "reserving" /\ phase'[o] = "declined")
        /\ \A q \in Orders \ {o} : phase'[q] = phase[q]
    BY <1>2, <2>1, AnswerMoves
  <2>3. /\ \A t \in Sessions : \A p \in Orders : session'[t].order = p =>
             session[t].order = p /\ session'[t].task = session[t].task
        /\ Sessions' = Sessions
    BY <2>1, EndingSpares
  <2>4. Monotone
    BY <1>1 DEF Monotone, history, marks
  <2>5. \A p \in Orders \ {o} : Untouched(p)
    BY <1>1, <2>2, <2>3 DEF Untouched, engine, history, marks
  <2>6. UNCHANGED <<row, live, stream, settled, returned, refused, late, torn, forgotten,
                    reserveCalls, callsMade>>
    BY <1>1 DEF engine, history, marks
  <2>7. /\ Sold(o, settled[o])' = Sold(o, settled[o]) /\ SoldSoFar(o)' = SoldSoFar(o)
        /\ \A i : IsFill(o, i)' <=> IsFill(o, i)
    BY <2>6 DEF SoldSoFar, Sold, IsFill
  <2>8. EngineSound(o) /\ RowSound(o) /\ RowKept(o)
    BY <1>2 DEF Ledger, OrderSound
  <2>9. EngineSound(o)'
    BY <2>2, <2>6, <2>7, <2>8 DEF EngineSound
  <2>10. RowKept(o)' /\ Due'[o] = Due[o]
    BY <1>2, <2>6, <2>7, <2>8 DEF RowKept, Left, Due
  <2>11. RowSound(o)'
    BY <1>2, <2>2, <2>3, <2>6, <2>7, <2>8 DEF RowSound
  <2> QED
    BY <1>1, <1>2, <2>4, <2>5, <2>9, <2>10, <2>11, LedgerNothingDue DEF OrderSound
<1>4. CASE ~ (Available(Seller(s)) < Quantity[o])
  <2>1. Continue(s, "commit", NoRow, reserved[Seller(s)]) /\ UNCHANGED phase
    BY <1>4 DEF ReserveLock
  <2>2. /\ session'[s].order = session[s].order /\ session'[s].task = session[s].task
        /\ \A t \in Sessions \ {s} : session'[t] = session[t]
    BY <1>2, <2>1, NoRowTyped, ContinueTyped DEF Sound
  <2>3. \A t \in Sessions : \A p \in Orders : session'[t].order = p =>
          session[t].order = p /\ session'[t].task = session[t].task
    BY <2>2
  <2> QED
    BY <1>1, <2>1, <2>3, SessionsOnlyLedger DEF calls
<1> QED
  BY <1>3, <1>4

\* A reserve books the size of the order, of which nothing has been sold yet.
LEMMA ReserveCommitLedger ==
  ASSUME Sound, Ledger, NEW s \in Sessions, ReserveCommit(s),
         NEW o \in Orders, session[s].order = o, NEW u \in Users, u = Owner[o]
  PROVE  Ledger'
<1>1. /\ session[s].task = "reserve" /\ ~ IsFree(s) /\ Guarded(s) /\ Is(s, "reserve", "commit")
      /\ End(s)
      /\ UNCHANGED <<quantity, reserveCalls, callsMade, engine, settled, returned, late, torn,
                     refused, faults>>
  BY NoWorkTyped DEF ReserveCommit, Is, IsFree, Guarded
<1>2. session[s].reserved \in Nat /\ Seller(s) = u
  BY <1>1, BusyTyped DEF Sound, Seller
<1>3. /\ \A t \in Sessions : \A p \in Orders : session'[t].order = p =>
           session[t].order = p /\ session'[t].task = session[t].task
      /\ Sessions' = Sessions
  BY <1>1, EndingSpares
<1>4. EngineSound(o) /\ RowSound(o) /\ RowKept(o)
  BY <1>2 DEF Ledger, OrderSound
<1>5. phase[o] # "idle"
  BY <1>2, <1>4 DEF RowSound
<1>6. UNCHANGED <<live, stream, settled, returned, refused, late, torn, quantity, reserveCalls,
                  callsMade>>
  BY <1>1 DEF engine
<1>7. /\ Sold(o, settled[o])' = Sold(o, settled[o]) /\ SoldSoFar(o)' = SoldSoFar(o)
      /\ \A i : IsFill(o, i)' <=> IsFill(o, i)
  BY <1>6 DEF SoldSoFar, Sold, IsFill
<1>8. CASE row[o] = NoRow
  <2>1. /\ reserved' = [reserved EXCEPT ![u] = session[s].reserved + Quantity[o]]
        /\ row' = [row EXCEPT ![o] = NewRow(o)]
        /\ forgotten' = IF Waits(o) THEN forgotten ELSE forgotten \cup {o}
        /\ Answer(o, "held")
    BY <1>2, <1>8 DEF ReserveCommit
  <2>2. /\ phase'[o] = phase[o] \/ (phase[o] = "reserving" /\ phase'[o] = "held")
        /\ \A q \in Orders \ {o} : phase'[q] = phase[q]
    BY <1>2, <2>1, AnswerMoves
  <2>3. /\ row'[o] = NewRow(o) /\ \A p \in Orders \ {o} : row'[p] = row[p]
        /\ reserved'[u] = session[s].reserved + Quantity[o]
        /\ \A v \in Users \ {u} : reserved'[v] = reserved[v]
    BY <1>2, <2>1 DEF Sound, TypeOK
  <2>4. Monotone
    BY <1>6, <2>1 DEF Monotone
  <2>5. \A p \in Orders \ {o} : Untouched(p)
    BY <1>3, <1>6, <2>2, <2>3 DEF Untouched
  <2>6. /\ Quantity[o] \in Nat /\ Quantity[o] > 0 /\ SoldSoFar(o) = 0 /\ Sold(o, settled[o]) = 0
        /\ o \notin returned /\ reserved[u] \in Nat /\ quantity[u] \in Nat
    BY <1>2, <1>4, <1>8, OrderNumbers
  <2>7. /\ NewRow(o).quantity = Quantity[o] /\ NewRow(o).status = "HELD" /\ NewRow(o) # NoRow
        /\ NewRow(o).consumed = 0 /\ NewRow(o).released = 0 /\ Left(NewRow(o)) = Quantity[o]
    <3>1. Left(NewRow(o)) = NewRow(o).quantity - NewRow(o).consumed - NewRow(o).released
      BY DEF Left
    <3> QED
      BY <1>2, <2>6, <3>1, NewRowTyped
  <2>8. EngineSound(o)'
    <3>1. o \in forgotten => o \in forgotten'
      BY <2>1
    <3> QED
      BY <1>4, <1>6, <1>7, <2>2, <3>1 DEF EngineSound
  <2>9. RowSound(o)'
    BY <1>3, <1>4, <1>5, <1>6, <1>7, <2>2, <2>3, <2>6, <2>7 DEF RowSound
  <2>10. RowKept(o)'
    <3>1. ASSUME NEW i \in settled[o] PROVE o \in forgotten'
      <4>1. i \in DOMAIN stream[o]
        BY <1>4, <3>1 DEF EngineSound
      <4>2. phase[o] # "reserving"
        BY <1>2, <4>1, EventPlaced
      <4> QED
        BY <2>1, <4>2 DEF Waits
    <3>2. Left(row[o])' = Left(NewRow(o))
      BY <2>3 DEF Left, NewRow
    <3> QED
      BY <1>4, <1>6, <1>7, <2>3, <2>6, <2>7, <3>1, <3>2 DEF RowKept
  <2>11. Due[o] = 0 /\ Due'[o] = Quantity[o]
    <3>1. Due[o] = 0
      BY <1>2, <1>4, <1>8, DueTyped
    <3>2. Due'[o] = row'[o].quantity - Sold(o, settled[o])'
      BY <1>2, <1>6, <2>6 DEF Due
    <3> QED
      BY <1>7, <2>3, <2>6, <2>7, <3>1, <3>2
  <2>12. HoldingSound(u)'
    <3>1. DueTo(u)' = DueTo(u) + Quantity[o] - 0
      <4>1. \A p \in Orders \ {o} : Due'[p] = Due[p]
        BY <2>4, <2>5, OrderUntouched DEF Ledger
      <4>2. Due'[o] \in Int
        BY <2>6, <2>11
      <4>3. DueTo(Owner[o])' = DueTo(Owner[o]) + Due'[o] - Due[o]
        BY <1>2, <4>1, <4>2, DueMoves
      <4> QED
        BY <1>2, <2>11, <4>3
    <3>2. DueTo(u) \in Nat
      BY DueToTyped
    <3>3. HoldingSound(u) /\ OrdersOf(u)' = OrdersOf(u)
      BY <1>2 DEF Ledger, OrdersOf
    <3>4. u \notin torn => session[s].reserved = reserved[u]
                           /\ session[s].reserved + Quantity[o] <= quantity[u]
      BY <1>1, <1>2 DEF Sound, CopiesCurrent, CopyCurrent
    <3>5. u \notin torn => reserved'[u] = reserved[u] + Quantity[o] /\ reserved'[u] <= quantity'[u]
      BY <1>6, <2>3, <3>4
    <3> QED
      BY <1>6, <2>6, <3>1, <3>2, <3>3, <3>5 DEF HoldingSound
  <2>13. quantity' \in [Users -> Nat] /\ \A v \in Users : quantity'[v] >= quantity[v]
    BY <1>6 DEF Sound, TypeOK
  <2>14. Due'[o] \in Int
    BY <2>6, <2>11
  <2> QED
    BY <1>2, <2>3, <2>4, <2>5, <2>8, <2>9, <2>10, <2>12, <2>13, <2>14, LedgerStep DEF OrderSound
<1>9. CASE row[o] # NoRow
  <2>1. Answer(o, "unwinding") /\ UNCHANGED <<reserved, row, forgotten>>
    BY <1>9 DEF ReserveCommit
  <2>2. /\ phase'[o] = phase[o] \/ (phase[o] = "reserving" /\ phase'[o] = "unwinding")
        /\ \A q \in Orders \ {o} : phase'[q] = phase[q]
    BY <1>2, <2>1, AnswerMoves
  <2>3. Monotone
    BY <1>6, <2>1 DEF Monotone
  <2>4. \A p \in Orders \ {o} : Untouched(p)
    BY <1>3, <1>6, <2>1, <2>2 DEF Untouched
  <2>5. EngineSound(o)'
    BY <1>4, <1>6, <1>7, <2>1, <2>2 DEF EngineSound
  <2>6. RowSound(o)'
    BY <1>3, <1>4, <1>5, <1>6, <1>7, <1>9, <2>1, <2>2 DEF RowSound
  <2>7. RowKept(o)' /\ Due'[o] = Due[o]
    BY <1>2, <1>4, <1>6, <1>7, <2>1 DEF RowKept, Left, Due
  <2> QED
    BY <1>2, <1>6, <2>1, <2>3, <2>4, <2>5, <2>6, <2>7, LedgerNothingDue DEF OrderSound, holdings
<1> QED
  BY <1>8, <1>9

-----------------------------------------------------------------------------
(* The ledger when shares are given back *)

\* Handling one more event.
Handles(o, i) == i \in DOMAIN stream[o] \ settled[o] /\ settled' = [settled EXCEPT ![o] = @ \cup {i}]

LEMMA HandlesTyped ==
  ASSUME Sound, NEW o \in Orders, NEW i, Handles(o, i)
  PROVE  /\ settled'[o] = settled[o] \cup {i} /\ \A p \in Orders \ {o} : settled'[p] = settled[p]
         /\ i \in DOMAIN stream[o] /\ i \notin settled[o]
  BY DEF Handles, Sound, TypeOK

LEMMA EngineHandles ==
  ASSUME Sound, NEW o \in Orders, EngineSound(o), forgotten \subseteq forgotten',
         phase'[o] = phase[o], live'[o] = live[o], stream'[o] = stream[o],
         settled'[o] \subseteq DOMAIN stream[o]
  PROVE  EngineSound(o)'
<1>1. SoldSoFar(o)' = SoldSoFar(o)
  BY DEF SoldSoFar, Sold
<1>2. \A i : IsFill(o, i)' <=> IsFill(o, i)
  BY DEF IsFill
<1> QED
  BY <1>1, <1>2 DEF EngineSound

\* A release, or a cancellation, of a reservation that may have been filled in part.
LEMMA GivesBack ==
  ASSUME Sound, Ledger, NEW s \in Sessions, ~ IsFree(s), End(s),
         NEW o \in Orders, session[s].order = o, NEW u \in Users, u = Owner[o],
         session[s].task \in {"release", "cancel"}, session[s].row.status = "HELD",
         WriteRow(s, Released(session[s].row)),
         reserved' = [reserved EXCEPT ![u] = ReservedAfter(s, u, AfterRelease(s))],
         returned' = returned \cup {o}, torn \subseteq torn',
         u \notin torn' => session[s].row = row[o] /\ session[s].reserved = reserved[u],
         settled' = settled \/ (\E i : Handles(o, i)),
         UNCHANGED <<quantity, calls, engine, late, refused, forgotten>>
  PROVE  Ledger'
<1>1. /\ session[s].row \in Rows /\ session[s].reserved \in Nat /\ Seller(s) = u
  BY BusyTyped DEF Sound, Seller
<1>2. /\ \A t \in Sessions : \A p \in Orders : session'[t].order = p =>
           session[t].order = p /\ session'[t].task = session[t].task
      /\ Sessions' = Sessions
  BY EndingSpares
<1>3. EngineSound(o) /\ RowSound(o) /\ RowKept(o) /\ HoldingSound(u)
  BY DEF Ledger, OrderSound
<1>4. UNCHANGED <<phase, reserveCalls, callsMade, live, stream>>
  BY DEF calls, engine
<1>5. Monotone
  BY DEF Monotone
<1>6. settled'[o] \subseteq DOMAIN stream[o] /\ \A p \in Orders \ {o} : settled'[p] = settled[p]
  <2>1. settled[o] \subseteq DOMAIN stream[o]
    BY <1>3 DEF EngineSound
  <2> QED
    BY <2>1, HandlesTyped
<1>7. row[o] # NoRow /\ row[o].quantity = Quantity[o]
  BY <1>3 DEF RowSound
<1>8. /\ \A p \in Orders \ {o} : row'[p] = row[p]
      /\ row'[o].quantity = Quantity[o] /\ row'[o].status = "RELEASED" /\ row'[o] # NoRow
      /\ u \notin torn' => row'[o] = Released(row[o])
      /\ row'[o] \in Rows
  <2> DEFINE new == Released(session[s].row)
  <2>1. new \in Rows /\ new.quantity = session[s].row.quantity /\ new.status = "RELEASED"
    BY <1>1, ReleasedTyped
  <2> HIDE DEF new
  <2>2. WriteRow(s, new)
    BY DEF new
  <2>3. /\ row' \in [Orders -> Rows] /\ \A p \in Orders \ {o} : row'[p] = row[p]
        /\ row'[o].quantity = row[o].quantity
        /\ session[s].row = row[o] => row'[o] = new
        /\ row'[o].status = IF new.status = session[s].row.status THEN row[o].status ELSE new.status
    BY <1>1, <2>1, <2>2, WriteRowTyped DEF Sound
  <2>4. row'[o].status = "RELEASED"
    BY <2>1, <2>3
  <2>5. row'[o] # NoRow
    BY <2>4, NoRowTyped
  <2>6. u \notin torn' => row'[o] = Released(row[o])
    BY <2>3 DEF new
  <2> QED
    BY <1>7, <2>3, <2>4, <2>5, <2>6
<1>9. \A p \in Orders \ {o} : Untouched(p)
  BY <1>2, <1>4, <1>6, <1>8 DEF Untouched
<1>10. EngineSound(o)'
  BY <1>3, <1>4, <1>5, <1>6, EngineHandles DEF Monotone
<1>11. RowSound(o)'
  <2>1. SoldSoFar(o)' = SoldSoFar(o) /\ \A i : IsFill(o, i)' <=> IsFill(o, i)
    BY <1>4 DEF SoldSoFar, Sold, IsFill
  <2>2. o \in returned' /\ phase[o] # "idle"
    BY <1>3 DEF RowSound
  <2> QED
    BY <1>3, <1>4, <1>8, <2>1, <2>2 DEF RowSound
<1>12. RowKept(o)'
  <2>1. u \notin torn' => Left(row'[o]) = 0
    <3>1. row[o] \in Rows
      BY DEF Sound, TypeOK
    <3> QED
      BY <1>8, <3>1, ReleasedTyped
  <2>2. Left(row[o])' = Left(row'[o])
    BY DEF Left
  <2>3. o \in returned'
    OBVIOUS
  <2> QED
    BY <1>8, <2>1, <2>2, <2>3 DEF RowKept
<1>13. Due'[o] = 0
  BY DEF Due
<1>14. ASSUME u \notin torn'
       PROVE  /\ Due[o] \in Nat /\ Due[o] <= DueTo(u) /\ DueTo(u) \in Nat
              /\ reserved[u] \in Nat /\ quantity[u] \in Nat
              /\ o \notin returned /\ (o \in refused => u \in late)
              /\ reserved'[u] \in Nat /\ reserved'[u] <= reserved[u]
              /\ o \notin refused /\ reserved[u] >= Due[o] => reserved'[u] = reserved[u] - Due[o]
              /\ o \notin refused /\ reserved[u] < Due[o] => reserved'[u] = 0
  <2>1. /\ u \notin torn /\ session[s].row = row[o] /\ session[s].reserved = reserved[u]
    BY <1>14
  <2>2. o \notin returned /\ (o \in refused => u \in late)
    BY <1>3, <2>1 DEF RowSound, RowKept
  <2>3. Left(row[o]) \in Int /\ Left(row[o]) >= 0
    BY <1>1, <1>3, <2>1, RowTyped DEF RowKept
  <2>4. o \notin refused => Left(row[o]) = Due[o]
    <3>1. Due[o] = row[o].quantity - Sold(o, settled[o])
      BY <1>3, <2>2, DueTyped
    <3>2. o \notin refused => row[o].released = 0 /\ row[o].consumed = Sold(o, settled[o])
      BY <1>3, <2>1 DEF RowKept
    <3>3. Left(row[o]) = row[o].quantity - row[o].consumed - row[o].released
      BY DEF Left
    <3>4. Sold(o, settled[o]) \in Nat /\ row[o].quantity \in Nat
      BY <1>1, <1>3, <2>1, OrderNumbers, RowTyped
    <3> QED
      BY <3>1, <3>2, <3>3, <3>4
  <2>5. reserved'[u] = AfterRelease(s)
    <3>1. ReservedAfter(s, u, AfterRelease(s)) = AfterRelease(s)
      BY <1>1, <2>1, AfterReleaseTyped
    <3> QED
      BY <3>1 DEF Sound, TypeOK
  <2>6. AfterRelease(s) = AtLeastZero(reserved[u] - Left(row[o]))
    BY <2>1 DEF AfterRelease
  <2>7. reserved[u] \in Nat /\ quantity[u] \in Nat
    BY DEF Sound, TypeOK
  <2>8. /\ reserved'[u] \in Nat /\ reserved'[u] <= reserved[u]
        /\ reserved[u] >= Left(row[o]) => reserved'[u] = reserved[u] - Left(row[o])
        /\ reserved[u] < Left(row[o]) => reserved'[u] = 0
    BY <2>3, <2>5, <2>6, <2>7 DEF AtLeastZero
  <2>9. Due[o] \in Nat /\ Due[o] <= DueTo(u) /\ DueTo(u) \in Nat
    BY DueToTyped DEF OrdersOf
  <2> QED
    BY <2>2, <2>4, <2>7, <2>8, <2>9
<1>15. HoldingSound(u)'
  <2> SUFFICES ASSUME u \notin torn' PROVE HoldingSound(u)'
    BY DEF HoldingSound
  <2>1. DueTo(u)' = DueTo(u) + 0 - Due[o]
    <3>1. \A p \in Orders \ {o} : Due'[p] = Due[p]
      BY <1>5, <1>9, OrderUntouched DEF Ledger
    <3>2. Due'[o] \in Int
      BY <1>13
    <3> QED
      BY <1>13, <3>1, <3>2, DueMoves
  <2>2. OrdersOf(u)' = OrdersOf(u) /\ o \in OrdersOf(u)
    BY DEF OrdersOf
  <2>3. u \notin torn
    OBVIOUS
  <2>4. reserved'[u] <= quantity'[u]
    BY <1>3, <1>14, <2>3 DEF HoldingSound
  <2>5. OrdersOf(u)' \cap refused' = {} => reserved'[u] <= DueTo(u)'
    <3> SUFFICES ASSUME OrdersOf(u) \cap refused = {} PROVE reserved'[u] <= DueTo(u)'
      BY <2>2
    <3>1. o \notin refused /\ reserved[u] <= DueTo(u)
      BY <1>3, <2>2, <2>3 DEF HoldingSound
    <3> QED
      BY <1>14, <2>1, <3>1
  <2>6. u \notin late' => reserved'[u] = DueTo(u)'
    <3> SUFFICES ASSUME u \notin late PROVE reserved'[u] = DueTo(u)'
      OBVIOUS
    <3>1. o \notin refused /\ reserved[u] = DueTo(u)
      BY <1>3, <1>14, <2>3 DEF HoldingSound
    <3> QED
      BY <1>14, <2>1, <3>1
  <2> QED
    BY <2>4, <2>5, <2>6 DEF HoldingSound
<1>16. /\ quantity' \in [Users -> Nat]
       /\ \A v \in Users \ {u} : reserved'[v] = reserved[v] /\ quantity'[v] >= quantity[v]
  BY DEF Sound, TypeOK
<1>17. Due'[o] \in Int
  BY <1>13
<1> QED
  BY <1>5, <1>9, <1>10, <1>11, <1>12, <1>15, <1>16, <1>17, LedgerStep DEF OrderSound

LEMMA ReleaseCommitLedger ==
  ASSUME Sound, Ledger, NEW s \in Sessions, ReleaseCommit(s),
         NEW o \in Orders, session[s].order = o, NEW u \in Users, u = Owner[o]
  PROVE  Ledger'
<1>1. /\ session[s].task = "release" /\ ~ IsFree(s) /\ Guarded(s) /\ Seller(s) = u
      /\ reserved' = [reserved EXCEPT ![u] = ReservedAfter(s, u, AfterRelease(s))]
      /\ returned' = returned \cup {o}
      /\ torn' = (IF RowStale(s) THEN torn \cup {u} ELSE torn)
      /\ End(s) /\ WriteRow(s, Released(session[s].row))
      /\ UNCHANGED <<quantity, calls, engine, settled, late, refused, forgotten, faults>>
  BY NoWorkTyped DEF ReleaseCommit, Is, IsFree, Guarded, Seller
<1>2. session[s].row.status = "HELD"
  BY <1>1 DEF Sound, SessionsSound, SessionSound
<1>3. u \notin torn' => session[s].row = row[o] /\ session[s].reserved = reserved[u]
  BY <1>1 DEF RowStale, Sound, CopiesCurrent, CopyCurrent
<1> QED
  BY <1>1, <1>2, <1>3, GivesBack

\* The handler without the lock either marks the seller as torn, or has read what is there.
LEMMA CancelCommitLedger ==
  ASSUME Sound, Ledger, NEW s \in Sessions, CancelCommit(s),
         NEW o \in Orders, session[s].order = o, NEW u \in Users, u = Owner[o]
  PROVE  Ledger'
<1> DEFINE after == ReservedAfter(s, u, AfterRelease(s))
<1>1. /\ session[s].task = "cancel" /\ ~ IsFree(s) /\ Seller(s) = u
      /\ IF after <= quantity[u]
         THEN /\ reserved' = [reserved EXCEPT ![u] = after]
              /\ WriteRow(s, Released(session[s].row))
              /\ returned' = returned \cup {o}
         ELSE UNCHANGED <<reserved, row, returned>>
      /\ torn' = (IF LockIgnored(u) \/ RowStale(s) \/ session[s].reserved # reserved[u]
                  THEN torn \cup {u} ELSE torn)
      /\ Settle(s) /\ End(s)
      /\ UNCHANGED <<quantity, calls, engine, late, refused, forgotten, faults>>
  BY NoWorkTyped DEF CancelCommit, Is, IsFree, Seller
<1>2. /\ session[s].row.status = "HELD" /\ s \in Consumers \ {"trade.executed"}
      /\ session[s].at \in DOMAIN stream[o] \ settled[o]
      /\ ~ IsFill(o, session[s].at)
      /\ session[s].row \in Rows /\ session[s].reserved \in Nat /\ session[s].at \in Nat
  BY <1>1, BusyTyped, PendingTyped DEF Sound, SessionsSound, SessionSound, IsFill
<1>3. Handles(o, session[s].at)
  BY <1>1, <1>2, SettleTyped DEF Handles, Sound
<1>4. torn \subseteq torn'
  BY <1>1
<1>5. u \notin torn' => session[s].row = row[o] /\ session[s].reserved = reserved[u]
  BY <1>1 DEF RowStale
<1>6. CASE after <= quantity[u]
  <2>1. /\ reserved' = [reserved EXCEPT ![u] = after]
        /\ WriteRow(s, Released(session[s].row))
        /\ returned' = returned \cup {o}
    BY <1>1, <1>6
  <2> QED
    BY <1>1, <1>2, <1>3, <1>4, <1>5, <2>1, GivesBack
<1>7. CASE ~ (after <= quantity[u])
  <2>1. UNCHANGED <<reserved, row, returned>>
    BY <1>1, <1>7
  <2>2. EngineSound(o) /\ RowSound(o) /\ RowKept(o) /\ HoldingSound(u)
    BY DEF Ledger, OrderSound
  <2>3. u \in torn'
    <3> SUFFICES ASSUME u \notin torn' PROVE FALSE
      OBVIOUS
    <3>1. u \notin torn /\ session[s].row = row[o] /\ session[s].reserved = reserved[u]
      BY <1>4, <1>5
    <3>2. Left(row[o]) \in Int /\ Left(row[o]) >= 0
      BY <1>2, <2>2, <3>1, RowTyped DEF RowKept
    <3>3. after = AtLeastZero(reserved[u] - Left(row[o]))
      BY <1>1, <3>1, AfterReleaseTyped DEF AfterRelease
    <3>4. reserved[u] \in Nat /\ quantity[u] \in Nat /\ reserved[u] <= quantity[u]
      BY <2>2, <3>1 DEF HoldingSound, Sound, TypeOK
    <3> HIDE DEF after
    <3> QED
      BY <1>7, <3>2, <3>3, <3>4 DEF AtLeastZero
  <2>4. UNCHANGED <<phase, reserveCalls, callsMade, live, stream>>
    BY <1>1 DEF calls, engine
  <2>5. settled'[o] \subseteq DOMAIN stream[o] /\ \A p \in Orders \ {o} : settled'[p] = settled[p]
    BY <1>3, <2>2, HandlesTyped DEF EngineSound
  <2>6. /\ \A t \in Sessions : \A p \in Orders : session'[t].order = p =>
             session[t].order = p /\ session'[t].task = session[t].task
        /\ Sessions' = Sessions
    BY <1>1, EndingSpares
  <2>7. Monotone
    BY <1>1, <1>4, <2>1 DEF Monotone
  <2>8. \A p \in Orders \ {o} : Untouched(p)
    BY <1>1, <2>1, <2>4, <2>5, <2>6 DEF Untouched
  <2>9. EngineSound(o)'
    BY <2>2, <2>4, <2>5, <2>7, EngineHandles DEF Monotone
  <2>10. SoldSoFar(o)' = SoldSoFar(o) /\ \A i : IsFill(o, i)' <=> IsFill(o, i)
    BY <2>4 DEF SoldSoFar, Sold, IsFill
  <2>11. RowSound(o)'
    BY <2>1, <2>2, <2>4, <2>6, <2>10 DEF RowSound
  <2>12. RowKept(o)' /\ HoldingSound(u)'
    BY <2>3 DEF RowKept, HoldingSound
  <2>13. Due'[o] \in Int
    <3>1. Due'[o] = IF o \in returned THEN 0 ELSE row[o].quantity - Sold(o, settled'[o])
      BY <2>1, <2>4 DEF Due, Sold
    <3>2. Sold(o, settled'[o]) \in Nat
      BY <2>5, SoldTyped
    <3>3. row[o].quantity \in Nat
      BY RowTyped DEF Sound, TypeOK
    <3> QED
      BY <3>1, <3>2, <3>3
  <2>14. /\ quantity' \in [Users -> Nat]
         /\ \A v \in Users \ {u} : reserved'[v] = reserved[v] /\ quantity'[v] >= quantity[v]
    BY <1>1, <2>1 DEF Sound, TypeOK
  <2> QED
    BY <2>7, <2>8, <2>9, <2>11, <2>12, <2>13, <2>14, LedgerStep DEF OrderSound
<1> QED
  BY <1>6, <1>7

-----------------------------------------------------------------------------
(* The ledger when a fill is handled *)

\* The fill a session is about to settle: it is covered by what is due of its order.
LEMMA FillTyped ==
  ASSUME Sound, Ledger, NEW s \in Sessions, Is(s, "trade", "commit"),
         NEW o \in Orders, session[s].order = o, NEW u \in Users, u = Owner[o],
         NEW i, session[s].at = i, NEW e, Event(s) = e
  PROVE  /\ ~ IsFree(s) /\ Guarded(s) /\ Seller(s) = u
         /\ i \in DOMAIN stream[o] \ settled[o] /\ i \in Nat /\ IsFill(o, i)
         /\ e = stream[o][i] /\ e.quantity \in Nat /\ e.buyer \in Users /\ e.buyer # u
         /\ e.left = 0 => SoldSoFar(o) = Quantity[o]
         /\ row[o] # NoRow /\ row[o].quantity = Quantity[o]
         /\ u \notin torn => session[s].row = row[o] /\ session[s].reserved = reserved[u]
         /\ Sold(o, settled[o]) \in Nat
         /\ Sold(o, settled[o] \cup {i}) = Sold(o, settled[o]) + e.quantity
         /\ Sold(o, settled[o]) + e.quantity <= Quantity[o]
         /\ Due[o] \in Nat /\ (o \notin returned => e.quantity <= Due[o])
<1>1. /\ session[s].task = "trade" /\ ~ IsFree(s) /\ Guarded(s) /\ Seller(s) = u
      /\ s \in Consumers /\ s = "trade.executed"
  BY AfterFillTyped DEF Is, Guarded, Seller
<1>2. /\ i \in DOMAIN stream[o] \ settled[o] /\ IsFill(o, i) /\ e = stream[o][i]
      /\ e.quantity \in Nat /\ e.buyer \in Users
  BY <1>1, PendingTyped DEF Sound, IsFill
<1>3. i \in Nat
  BY <1>2, EventTyped DEF Sound
<1>4. EngineSound(o) /\ RowSound(o)
  BY DEF Ledger, OrderSound
<1>5. e.buyer # u /\ (e.left = 0 => SoldSoFar(o) = Quantity[o])
  BY <1>2, <1>4 DEF EngineSound
<1>6. row[o] # NoRow /\ row[o].quantity = Quantity[o]
  BY <1>2, <1>4, EventPlaced DEF RowSound
<1>7. u \notin torn => session[s].row = row[o] /\ session[s].reserved = reserved[u]
  BY <1>1 DEF Sound, CopiesCurrent, CopyCurrent
<1>8. settled[o] \in SUBSET DOMAIN stream[o] /\ settled[o] \cup {i} \in SUBSET DOMAIN stream[o]
  BY <1>2, <1>4 DEF EngineSound
<1> DEFINE x == Sold(o, settled[o])
           y == Sold(o, settled[o] \cup {i})
           rest == Sold(o, DOMAIN stream[o] \ (settled[o] \cup {i}))
<1>9. x \in Nat /\ y \in Nat /\ rest \in Nat /\ y + rest = SoldSoFar(o)
  BY <1>8, SoldTyped
<1>10. y = x + e.quantity
  <2>1. \A j \in DOMAIN stream[o] \ settled[o] :
          Sold(o, settled[o] \cup {j}) = Sold(o, settled[o]) + stream[o][j].quantity
    BY <1>8, SoldTyped
  <2> QED
    BY <1>2, <2>1
<1>11. /\ live[o] \in Nat /\ Quantity[o] \in Nat /\ SoldSoFar(o) \in Nat
       /\ live[o] + SoldSoFar(o) <= Quantity[o]
  BY <1>4, OrderNumbers DEF EngineSound
<1> HIDE DEF y, rest
<1>12. x + e.quantity <= Quantity[o]
  BY <1>2, <1>9, <1>10, <1>11
<1>13. Due[o] \in Nat /\ (o \notin returned => Due[o] = Quantity[o] - x)
  BY <1>4, <1>6, DueTyped
<1>14. o \notin returned => e.quantity <= Due[o]
  BY <1>2, <1>9, <1>11, <1>12, <1>13
<1> QED
  BY <1>1, <1>2, <1>3, <1>5, <1>6, <1>7, <1>9, <1>10, <1>12, <1>13, <1>14 DEF y

\* A fill takes its size off the holding, off what is reserved and off the reservation.
LEMMA TradeCommitLedger ==
  ASSUME Sound, Ledger, NEW s \in Sessions, TradeCommit(s),
         NEW o \in Orders, session[s].order = o, NEW u \in Users, u = Owner[o],
         NEW i, session[s].at = i, NEW e, Event(s) = e
  PROVE  Ledger'
<1>1. /\ Is(s, "trade", "commit") /\ session[s].task = "trade"
      /\ ChecksPass(s) /\ Settle(s) /\ End(s)
      /\ UNCHANGED <<calls, engine, returned, torn, refused, forgotten, faults>>
  BY DEF TradeCommit, Is
<1>2. /\ ~ IsFree(s) /\ Guarded(s) /\ Seller(s) = u
      /\ i \in DOMAIN stream[o] \ settled[o] /\ i \in Nat /\ IsFill(o, i)
      /\ e.quantity \in Nat /\ e.buyer \in Users /\ e.buyer # u
      /\ e.left = 0 => SoldSoFar(o) = Quantity[o]
      /\ row[o] # NoRow /\ row[o].quantity = Quantity[o]
      /\ u \notin torn => session[s].row = row[o] /\ session[s].reserved = reserved[u]
      /\ Sold(o, settled[o]) \in Nat
      /\ Sold(o, settled[o] \cup {i}) = Sold(o, settled[o]) + e.quantity
      /\ Sold(o, settled[o]) + e.quantity <= Quantity[o]
      /\ Due[o] \in Nat /\ (o \notin returned => e.quantity <= Due[o])
  BY <1>1, FillTyped
<1>3. /\ quantity' = [quantity EXCEPT ![u] = @ - e.quantity, ![e.buyer] = @ + e.quantity]
      /\ reserved' = [reserved EXCEPT ![u] = ReservedAfter(s, u, AfterFill(s))]
      /\ WriteRow(s, Consume(session[s].row, e))
      /\ late' = IF o \in returned THEN late \cup {u} ELSE late
  BY <1>2 DEF TradeCommit
<1>4. EngineSound(o) /\ RowSound(o) /\ RowKept(o) /\ HoldingSound(u)
  BY DEF Ledger, OrderSound
<1>5. UNCHANGED <<phase, reserveCalls, callsMade, live, stream, returned, torn, refused, forgotten>>
  BY <1>1 DEF calls, engine
<1>6. settled'[o] = settled[o] \cup {i} /\ \A p \in Orders \ {o} : settled'[p] = settled[p]
  <2>1. Handles(o, i)
    BY <1>1, <1>2, SettleTyped DEF Handles, Sound
  <2> QED
    BY <2>1, HandlesTyped
<1>7. /\ session[s].row \in Rows /\ session[s].reserved \in Nat /\ row[o] \in Rows
      /\ reserved \in [Users -> Nat] /\ quantity \in [Users -> Nat]
      /\ reserved[u] \in Nat /\ quantity[u] \in Nat
  BY <1>2, BusyTyped DEF Sound, TypeOK
<1>8. /\ \A t \in Sessions : \A p \in Orders : session'[t].order = p =>
           session[t].order = p /\ session'[t].task = session[t].task
      /\ Sessions' = Sessions
  BY <1>1, EndingSpares
<1>9. /\ \A p \in Orders \ {o} : row'[p] = row[p]
      /\ row'[o] # NoRow /\ row'[o].quantity = Quantity[o]
      /\ row'[o].status \in {row[o].status, "RELEASED"}
      /\ row[o].status \in {"HELD", "RELEASED"}
      /\ row'[o].status = "RELEASED" => row[o].status = "RELEASED" \/ e.left = 0
      /\ u \notin torn => row'[o] = Consume(row[o], e)
  <2> DEFINE new == Consume(session[s].row, e)
  <2>1. /\ new \in Rows /\ new.quantity = session[s].row.quantity
        /\ new.status \in {session[s].row.status, "RELEASED"}
        /\ new.status = "RELEASED" => session[s].row.status = "RELEASED" \/ e.left = 0
    BY <1>2, <1>7, ConsumeTyped
  <2> HIDE DEF new
  <2>2. WriteRow(s, new)
    BY <1>3 DEF new
  <2>3. /\ \A p \in Orders \ {o} : row'[p] = row[p]
        /\ row'[o].quantity = row[o].quantity
        /\ session[s].row = row[o] => row'[o] = new
        /\ row'[o].status = IF new.status = session[s].row.status THEN row[o].status ELSE new.status
    BY <1>7, <2>1, <2>2, WriteRowTyped DEF Sound
  <2>4. row[o].status \in {"HELD", "RELEASED"}
    BY <1>2, <1>4 DEF RowSound
  <2>5. row'[o].status \in {row[o].status, "RELEASED"}
    BY <2>1, <2>3
  <2>6. row'[o] # NoRow
    BY <2>4, <2>5, NoRowTyped
  <2>7. u \notin torn => row'[o] = Consume(row[o], e)
    BY <1>2, <2>3 DEF new
  <2>8. row'[o].status = "RELEASED" => row[o].status = "RELEASED" \/ e.left = 0
    BY <2>1, <2>3
  <2> QED
    BY <1>2, <2>3, <2>4, <2>5, <2>6, <2>7, <2>8
<1>10. Monotone
  BY <1>3, <1>5 DEF Monotone
<1>11. \A p \in Orders \ {o} : Untouched(p)
  BY <1>5, <1>6, <1>8, <1>9 DEF Untouched
<1>12. EngineSound(o)'
  <2>1. settled'[o] \subseteq DOMAIN stream[o]
    BY <1>2, <1>4, <1>6 DEF EngineSound
  <2> QED
    BY <1>4, <1>5, <1>10, <2>1, EngineHandles DEF Monotone
<1>13. /\ SoldSoFar(o)' = SoldSoFar(o) /\ \A j : IsFill(o, j)' <=> IsFill(o, j)
       /\ Sold(o, settled[o])' = Sold(o, settled[o]) + e.quantity
  BY <1>2, <1>5, <1>6 DEF SoldSoFar, Sold, IsFill
<1>14. RowSound(o)'
  <2>1. phase[o] # "idle"
    BY <1>2, EventPlaced
  <2> QED
    BY <1>2, <1>4, <1>5, <1>9, <1>13, <2>1 DEF RowSound
<1>15. RowKept(o)'
  <2> SUFFICES ASSUME u \notin torn PROVE RowKept(o)'
    BY <1>5 DEF RowKept
  <2> DEFINE new == Consume(row[o], e)
  <2>1. row'[o] = new
    BY <1>9
  <2>2. /\ Left(row[o]) >= 0
        /\ row[o].status = "HELD" /\ o \notin refused =>
             row[o].released = 0 /\ row[o].consumed = Sold(o, settled[o])
        /\ o \in refused => u \in late \/ o \in returned
        /\ \A j \in settled[o] :
             ~ IsFill(o, j) /\ row[o] # NoRow /\ o \notin forgotten => row[o].status = "RELEASED"
    BY <1>4 DEF RowKept
  <2>3. /\ Left(row[o]) >= 0 => Left(new) >= 0
        /\ row[o] # NoRow /\ e.left # 0 /\ e.quantity <= Left(row[o]) =>
             new.consumed = row[o].consumed + e.quantity /\ new.released = row[o].released
        /\ row[o] # NoRow /\ e.left = 0 => new.status = "RELEASED"
    BY <1>2, <1>7, ConsumeTyped
  <2> HIDE DEF new
  <2>4. Left(row[o])' = Left(new)
    BY <2>1 DEF Left
  <2>5. ASSUME row'[o].status = "HELD", o \notin refused
        PROVE  row'[o].released = 0 /\ row'[o].consumed = Sold(o, settled[o])'
    <3>1. row[o].status = "HELD" /\ e.left # 0
      BY <1>2, <1>9, <2>1, <2>3, <2>5
    <3>2. row[o].released = 0 /\ row[o].consumed = Sold(o, settled[o])
      BY <2>2, <2>5, <3>1
    <3>3. Left(row[o]) = Quantity[o] - Sold(o, settled[o])
      <4>1. Left(row[o]) = row[o].quantity - row[o].consumed - row[o].released
        BY DEF Left
      <4> QED
        BY <1>2, <1>7, <3>2, <4>1, RowTyped
    <3>4. e.quantity <= Left(row[o])
      <4>1. Quantity[o] \in Nat
        BY OrderAssumption
      <4> QED
        BY <1>2, <3>3, <4>1
    <3> QED
      BY <1>2, <1>13, <2>1, <2>3, <3>1, <3>2, <3>4
  <2>6. \A j \in settled'[o] :
          ~ IsFill(o, j) /\ o \notin forgotten => row'[o].status = "RELEASED"
    BY <1>2, <1>6, <1>9, <2>2
  <2>7. o \in refused => u \in late' \/ o \in returned'
    BY <1>5, <1>10, <2>2 DEF Monotone
  <2> QED
    BY <1>5, <1>13, <2>2, <2>3, <2>4, <2>5, <2>6, <2>7 DEF RowKept
<1>16. /\ Due'[o] \in Nat
       /\ o \in returned => Due[o] = 0 /\ Due'[o] = 0
       /\ o \notin returned => Due'[o] = Due[o] - e.quantity
  <2>1. Due'[o] = IF o \in returned THEN 0 ELSE row'[o].quantity - Sold(o, settled[o])'
    BY <1>5 DEF Due
  <2>2. Due[o] = IF o \in returned THEN 0 ELSE row[o].quantity - Sold(o, settled[o])
    BY <1>4, DueTyped
  <2>3. Quantity[o] \in Nat
    BY OrderAssumption
  <2> QED
    BY <1>2, <1>9, <1>13, <2>1, <2>2, <2>3
<1>17. /\ quantity' \in [Users -> Nat] /\ quantity'[u] = quantity[u] - e.quantity
       /\ \A v \in Users \ {u} : quantity'[v] >= quantity[v]
       /\ \A v \in Users \ {u} : reserved'[v] = reserved[v]
  <2>1. quantity[u] - e.quantity \in Nat
    BY <1>2, <1>7 DEF ChecksPass, TradeCommit
  <2>2. reserved' = [reserved EXCEPT ![u] = ReservedAfter(s, u, AfterFill(s))]
    BY <1>3
  <2> QED
    BY <1>2, <1>3, <1>7, <2>1
<1>18. HoldingSound(u)'
  <2> SUFFICES ASSUME u \notin torn PROVE HoldingSound(u)'
    BY <1>5 DEF HoldingSound
  <2>1. DueTo(u)' = DueTo(u) + Due'[o] - Due[o]
    <3>1. \A p \in Orders \ {o} : Due'[p] = Due[p]
      BY <1>10, <1>11, OrderUntouched DEF Ledger
    <3>2. Due'[o] \in Int
      BY <1>16
    <3> QED
      BY <3>1, <3>2, DueMoves
  <2>2. Due[o] <= DueTo(u) /\ DueTo(u) \in Nat
    BY DueToTyped DEF OrdersOf
  <2>3. reserved'[u] = AfterFill(s) /\ ReservedAfter(s, u, AfterFill(s)) = AfterFill(s)
    <3>1. ReservedAfter(s, u, AfterFill(s)) = AfterFill(s)
      BY <1>1, <1>2, AfterFillTyped
    <3> QED
      BY <1>3, <1>7, <3>1
  <2>4. /\ reserved'[u] \in Nat /\ reserved'[u] <= reserved[u]
        /\ reserved[u] >= e.quantity => reserved'[u] = reserved[u] - e.quantity
        /\ reserved[u] <= e.quantity => reserved'[u] = 0
    BY <1>1, <1>2, <2>3, AfterFillTyped
  <2>5. reserved'[u] <= quantity'[u]
    BY <1>1, <1>2, <1>17, <2>3 DEF ChecksPass
  <2>6. /\ reserved[u] <= quantity[u]
        /\ OrdersOf(u) \cap refused = {} => reserved[u] <= DueTo(u)
        /\ u \notin late => reserved[u] = DueTo(u)
    BY <1>4 DEF HoldingSound
  <2>7. reserved[u] <= DueTo(u) => reserved'[u] <= DueTo(u)'
    BY <1>2, <1>7, <1>16, <2>1, <2>2, <2>4
  <2>8. u \notin late' => reserved'[u] = DueTo(u)'
    <3> SUFFICES ASSUME u \notin late' PROVE reserved'[u] = DueTo(u)'
      OBVIOUS
    <3>1. o \notin returned /\ u \notin late
      BY <1>3
    <3>2. reserved[u] = DueTo(u) /\ Due'[o] = Due[o] - e.quantity /\ e.quantity <= Due[o]
      BY <1>2, <1>16, <2>6, <3>1
    <3> QED
      BY <1>2, <1>7, <2>1, <2>2, <2>4, <3>2
  <2>9. OrdersOf(u)' = OrdersOf(u)
    BY DEF OrdersOf
  <2> QED
    BY <1>5, <2>5, <2>6, <2>7, <2>8, <2>9 DEF HoldingSound
<1>19. Due'[o] \in Int
  BY <1>16
<1> QED
  BY <1>10, <1>11, <1>12, <1>14, <1>15, <1>17, <1>18, <1>19, LedgerStep DEF OrderSound

\* A fill is refused only where shares were given back too early: the books are kept, and
\* the refused order owes an explanation.
LEMMA TradeFailsLedger ==
  ASSUME Sound, Ledger, NEW s \in Sessions, TradeFails(s),
         NEW o \in Orders, session[s].order = o, NEW u \in Users, u = Owner[o],
         NEW i, session[s].at = i, NEW e, Event(s) = e
  PROVE  Ledger'
<1>1. /\ Is(s, "trade", "commit") /\ session[s].task = "trade" /\ ~ ChecksPass(s) /\ End(s)
      /\ UNCHANGED <<holdings, row, calls, engine, returned, late, torn, forgotten, faults>>
  BY DEF TradeFails, Is
<1>2. /\ ~ IsFree(s) /\ Guarded(s) /\ Seller(s) = u
      /\ i \in DOMAIN stream[o] \ settled[o] /\ i \in Nat /\ IsFill(o, i)
      /\ e.quantity \in Nat /\ e.buyer \in Users /\ e.buyer # u
      /\ e.left = 0 => SoldSoFar(o) = Quantity[o]
      /\ row[o] # NoRow /\ row[o].quantity = Quantity[o]
      /\ u \notin torn => session[s].row = row[o] /\ session[s].reserved = reserved[u]
      /\ Sold(o, settled[o]) \in Nat
      /\ Sold(o, settled[o] \cup {i}) = Sold(o, settled[o]) + e.quantity
      /\ Sold(o, settled[o]) + e.quantity <= Quantity[o]
      /\ Due[o] \in Nat /\ (o \notin returned => e.quantity <= Due[o])
  BY <1>1, FillTyped
<1>3. /\ \A t \in Sessions : \A p \in Orders : session'[t].order = p =>
           session[t].order = p /\ session'[t].task = session[t].task
      /\ Sessions' = Sessions
  BY <1>1, EndingSpares
<1>4. CASE UNCHANGED <<settled, refused>>
  BY <1>1, <1>3, <1>4, SessionsOnlyLedger DEF history, marks
<1>5. CASE Settle(s) /\ refused' = refused \cup {o}
  <2>2. EngineSound(o) /\ RowSound(o) /\ RowKept(o) /\ HoldingSound(u)
    BY DEF Ledger, OrderSound
  <2>3. UNCHANGED <<phase, reserveCalls, callsMade, live, stream, row, reserved, quantity,
                    returned, late, torn, forgotten>>
    BY <1>1 DEF calls, engine, holdings
  <2>4. settled'[o] = settled[o] \cup {i} /\ \A p \in Orders \ {o} : settled'[p] = settled[p]
    <3>1. Handles(o, i)
      BY <1>5, <1>2, SettleTyped DEF Handles, Sound
    <3> QED
      BY <3>1, HandlesTyped
  <2>5. settled'[o] \in SUBSET DOMAIN stream[o]
    BY <1>2, <2>2, <2>4 DEF EngineSound
  <2>6. Monotone
    BY <1>5, <2>3 DEF Monotone
  <2>7. \A p \in Orders \ {o} : Untouched(p)
    BY <1>3, <1>5, <2>3, <2>4 DEF Untouched
  <2>8. EngineSound(o)'
    BY <2>2, <2>3, <2>5, <2>6, EngineHandles DEF Monotone
  <2>9. SoldSoFar(o)' = SoldSoFar(o) /\ \A j : IsFill(o, j)' <=> IsFill(o, j)
    BY <2>3 DEF SoldSoFar, Sold, IsFill
  <2>10. RowSound(o)'
    BY <1>3, <2>2, <2>3, <2>9 DEF RowSound
  <2>11. reserved[u] \in Nat /\ quantity[u] \in Nat /\ quantity \in [Users -> Nat]
    BY DEF Sound, TypeOK
  <2>12. u \in torn \/ u \in late \/ o \in returned
    <3> SUFFICES ASSUME u \notin torn, u \notin late, o \notin returned PROVE ChecksPass(s)
      BY <1>1
    <3>1. reserved[u] = DueTo(u) /\ reserved[u] <= quantity[u] /\ session[s].reserved = reserved[u]
      BY <1>2, <2>2 DEF HoldingSound
    <3>2. Due[o] <= DueTo(u) /\ DueTo(u) \in Nat
      BY DueToTyped DEF OrdersOf
    <3>3. e.quantity <= reserved[u]
      BY <1>2, <2>11, <3>1, <3>2
    <3>4. AfterFill(s) = reserved[u] - e.quantity
          /\ ReservedAfter(s, u, AfterFill(s)) = AfterFill(s)
      BY <1>1, <1>2, <3>1, <3>3, AfterFillTyped
    <3>5. /\ quantity[u] - e.quantity >= 0
          /\ ReservedAfter(s, u, AfterFill(s)) <= quantity[u] - e.quantity
      BY <1>2, <2>11, <3>1, <3>3, <3>4
    <3> QED
      BY <1>2, <3>5 DEF ChecksPass
  <2>13. RowKept(o)'
    <3>1. \A j \in settled'[o] :
            ~ IsFill(o, j) /\ u \notin torn /\ row[o] # NoRow /\ o \notin forgotten =>
              row[o].status = "RELEASED"
      BY <1>2, <2>2, <2>4 DEF RowKept
    <3>2. Left(row[o])' = Left(row[o]) /\ o \in refused'
      BY <1>5, <2>3 DEF Left
    <3> QED
      BY <2>2, <2>3, <2>9, <2>12, <3>1, <3>2 DEF RowKept
  <2>14. Due'[o] \in Int /\ (o \in returned => Due'[o] = 0 /\ Due[o] = 0)
    <3>1. /\ Due'[o] = IF o \in returned THEN 0 ELSE row[o].quantity - Sold(o, settled'[o])
          /\ Due[o] = IF o \in returned THEN 0 ELSE row[o].quantity - Sold(o, settled[o])
      BY <2>3 DEF Due, Sold
    <3>2. Sold(o, settled'[o]) \in Nat
      BY <2>5, SoldTyped
    <3>3. row[o].quantity \in Nat
      BY RowTyped DEF Sound, TypeOK
    <3> QED
      BY <3>1, <3>2, <3>3
  <2>15. HoldingSound(u)'
    <3> SUFFICES ASSUME u \notin torn PROVE HoldingSound(u)'
      BY <2>3 DEF HoldingSound
    <3>1. o \in OrdersOf(u)' \cap refused'
      BY <1>5 DEF OrdersOf
    <3>2. u \notin late => DueTo(u)' = DueTo(u)
      <4> SUFFICES ASSUME u \notin late PROVE DueTo(u)' = DueTo(u)
        OBVIOUS
      <4>1. Due'[o] = 0 /\ Due[o] = 0
        BY <2>12, <2>14
      <4>2. \A p \in Orders \ {o} : Due'[p] = Due[p]
        BY <2>6, <2>7, OrderUntouched DEF Ledger
      <4>3. DueTo(u)' = DueTo(u) + 0 - 0 /\ DueTo(u) \in Nat
        BY <2>14, <4>1, <4>2, DueMoves, DueToTyped
      <4> QED
        BY <4>3
    <3> QED
      BY <2>2, <2>3, <3>1, <3>2 DEF HoldingSound
  <2>16. /\ quantity' \in [Users -> Nat]
         /\ \A v \in Users \ {u} : reserved'[v] = reserved[v] /\ quantity'[v] >= quantity[v]
    BY <2>3, <2>11
  <2> QED
    BY <2>6, <2>7, <2>8, <2>10, <2>13, <2>14, <2>15, <2>16, LedgerStep DEF OrderSound
<1> QED
  BY <1>4, <1>5 DEF TradeFails

-----------------------------------------------------------------------------
(* The ledger when an order is cancelled or rejected *)

\* Without a reservation that is held, the handler only marks its event.
LEMMA CancelReadLedger ==
  ASSUME Sound, Ledger, NEW s \in Sessions, NEW o \in Orders, NEW i \in DOMAIN stream[o],
         CancelRead(s, o, i)
  PROVE  Ledger'
<1>1. /\ i \in DOMAIN stream[o] \ settled[o] /\ stream[o][i].kind = s /\ ~ IsFill(o, i)
      /\ UNCHANGED <<holdings, row, calls, engine, history>>
  BY DEF CancelRead, Arrives, IsFill
<1>2. EngineSound(o) /\ RowSound(o) /\ RowKept(o)
  BY DEF Ledger, OrderSound
<1>3. row[o] \in Rows /\ i \in Nat
  BY EventTyped DEF Sound, TypeOK
<1>4. CASE row[o].status = "HELD"
  <2> DEFINE w == [task |-> "cancel", order |-> o, at |-> i, step |-> "holding",
                   row |-> row[o], reserved |-> 0]
  <2>1. Start(s, w) /\ UNCHANGED settled
    BY <1>4 DEF CancelRead
  <2>2. w \in Work /\ w.order = o
    BY <1>3 DEF Work
  <2>3. phase[o] # "idle" /\ row[o] # NoRow
    BY <1>4, NoRowTyped, EventPlaced
  <2> HIDE DEF w
  <2> QED
    BY <1>1, <2>1, <2>2, <2>3, StartedLedger DEF calls
<1>5. CASE row[o].status # "HELD"
  <2>1. /\ settled' = [settled EXCEPT ![o] = @ \cup {i}] /\ UNCHANGED session
        /\ Handles(o, i)
    BY <1>1, <1>5 DEF CancelRead, Handles
  <2>2. /\ settled'[o] = settled[o] \cup {i} /\ \A p \in Orders \ {o} : settled'[p] = settled[p]
    BY <2>1, HandlesTyped
  <2>3. UNCHANGED <<phase, reserveCalls, callsMade, live, stream, row, reserved, quantity,
                    returned, late, torn, refused, forgotten>>
    BY <1>1 DEF calls, engine, holdings, history, marks
  <2>4. settled[o] \in SUBSET DOMAIN stream[o] /\ settled'[o] \in SUBSET DOMAIN stream[o]
    BY <1>1, <1>2, <2>2 DEF EngineSound
  <2>5. Monotone
    BY <2>3 DEF Monotone
  <2>6. \A p \in Orders \ {o} : Untouched(p)
    BY <2>1, <2>2, <2>3 DEF Untouched
  <2>7. EngineSound(o)'
    BY <1>2, <2>3, <2>4, <2>5, EngineHandles DEF Monotone
  <2>8. SoldSoFar(o)' = SoldSoFar(o) /\ \A j : IsFill(o, j)' <=> IsFill(o, j)
    BY <2>3 DEF SoldSoFar, Sold, IsFill
  <2>9. Sold(o, settled[o])' = Sold(o, settled[o])
    <3>1. stream[o][i].quantity = 0
      BY <1>1, <1>2 DEF EngineSound
    <3>2. \A j \in DOMAIN stream[o] \ settled[o] :
            Sold(o, settled[o] \cup {j}) = Sold(o, settled[o]) + stream[o][j].quantity
      BY <2>4, SoldTyped
    <3>3. Sold(o, settled[o]) \in Nat
      BY <2>4, SoldTyped
    <3>4. Sold(o, settled[o] \cup {i}) = Sold(o, settled[o])
      BY <1>1, <3>1, <3>2, <3>3
    <3> QED
      BY <2>2, <2>3, <3>4 DEF Sold
  <2>10. RowSound(o)'
    <3>1. Sessions' = Sessions
      BY DEF Sessions
    <3> QED
      BY <1>2, <2>1, <2>3, <2>8, <3>1 DEF RowSound
  <2>11. RowKept(o)'
    <3>1. row[o] # NoRow => row[o].status = "RELEASED"
      BY <1>2, <1>5 DEF RowSound
    <3> QED
      BY <1>2, <1>5, <2>3, <3>1 DEF RowKept, Left
  <2>12. Due'[o] = Due[o]
    BY <2>3, <2>9 DEF Due
  <2> QED
    BY <1>1, <2>5, <2>6, <2>7, <2>10, <2>11, <2>12, LedgerNothingDue DEF OrderSound
<1> QED
  BY <1>4, <1>5

-----------------------------------------------------------------------------
(* The ledger when the callers move *)

\* An event that is published counts as sold, and as not handled.
LEMMA SoldTold ==
  ASSUME Sound, NEW o \in Orders, NEW e \in Events, Tell(o, e), UNCHANGED settled,
         settled[o] \subseteq DOMAIN stream[o]
  PROVE  /\ Sold(o, settled[o])' = Sold(o, settled[o])
         /\ SoldSoFar(o)' = SoldSoFar(o) + e.quantity
         /\ \A i \in DOMAIN stream[o] : IsFill(o, i)' <=> IsFill(o, i)
<1> DEFINE D == DOMAIN stream[o]
           E == DOMAIN stream'[o]
           n == Len(stream[o]) + 1
           f == Quantities(stream[o])
           g == Quantities(stream'[o])
<1>1. /\ n \notin D /\ E = D \cup {n} /\ stream'[o][n] = e
      /\ \A i \in D : i \in E /\ stream'[o][i] = stream[o][i]
  BY TellSpares
<1>2. IsFiniteSet(D)
  <2>1. D = 1..Len(stream[o]) /\ Len(stream[o]) \in Nat
    BY DEF Sound, TypeOK
  <2> QED
    BY <2>1, FS_Interval
<1>3. e.quantity \in Nat
  BY DEF Events
<1>4. /\ \A i \in D : f[i] = stream[o][i].quantity /\ f[i] \in Nat
      /\ \A i \in E : g[i] = stream'[o][i].quantity
  BY EventTyped DEF Quantities, Sound
<1>5. /\ \A P : Sold(o, P) = SumFunctionOnSet(f, P)
      /\ SoldSoFar(o) = SumFunctionOnSet(f, D) /\ SoldSoFar(o)' = SumFunctionOnSet(g, E)
      /\ Sold(o, settled[o])' = SumFunctionOnSet(g, settled[o])
  BY DEF Sold, SoldSoFar
<1>6. \A i \in D : IsFill(o, i)' <=> IsFill(o, i)
  BY <1>1 DEF IsFill
<1> HIDE DEF D, E, n, f, g
<1>7. \A i \in D : g[i] = f[i]
  BY <1>1, <1>4
<1>8. g[n] = e.quantity
  BY <1>1, <1>4
<1>9. settled[o] \subseteq D /\ IsFiniteSet(settled[o])
  BY <1>2, FS_Subset DEF D
<1>10. SumFunctionOnSet(g, settled[o]) = SumFunctionOnSet(f, settled[o])
  BY <1>7, <1>9, SumEqual
<1>11. SumFunctionOnSet(g, D) = SumFunctionOnSet(f, D)
  BY <1>2, <1>7, SumEqual
<1>12. SumFunctionOnSet(g, E) = e.quantity + SumFunctionOnSet(g, D)
  <2>1. \A i \in D \cup {n} : g[i] \in Int
    BY <1>3, <1>4, <1>7, <1>8
  <2>2. SumFunctionOnSet(g, D \cup {n}) = g[n] + SumFunctionOnSet(g, D)
    BY <1>1, <1>2, <2>1, SumAdd
  <2> QED
    BY <1>1, <1>8, <2>2
<1>13. SumFunctionOnSet(f, D) \in Int
  BY <1>2, <1>4, SumInt
<1> QED
  BY <1>3, <1>5, <1>6, <1>10, <1>11, <1>12, <1>13 DEF D

\* A step of a caller neither touches a row nor handles an event.
LEMMA CallerLedger ==
  ASSUME Sound, Ledger, NEW o \in Orders,
         UNCHANGED <<holdings, row, settled, session, returned, late, torn, refused>>,
         forgotten \subseteq forgotten',
         \A p \in Orders \ {o} :
           /\ phase'[p] = phase[p] /\ live'[p] = live[p] /\ stream'[p] = stream[p]
           /\ reserveCalls'[p] = reserveCalls[p] /\ callsMade'[p] = callsMade[p],
         stream'[o] = stream[o] \/ \E e \in Events : Tell(o, e),
         EngineSound(o)', RowSound(o)'
  PROVE  Ledger'
<1>1. EngineSound(o) /\ RowKept(o) /\ settled[o] \subseteq DOMAIN stream[o]
  BY DEF Ledger, OrderSound, EngineSound
<1>2. /\ Sold(o, settled[o])' = Sold(o, settled[o])
      /\ \A i \in settled[o] : IsFill(o, i)' <=> IsFill(o, i)
  <2>1. CASE stream'[o] = stream[o]
    BY <2>1 DEF Sold, IsFill
  <2>2. CASE \E e \in Events : Tell(o, e)
    BY <1>1, <2>2, SoldTold
  <2> QED
    BY <2>1, <2>2
<1>3. RowKept(o)' /\ Due'[o] = Due[o]
  <2>1. Due'[o] = Due[o]
    BY <1>2 DEF Due
  <2> QED
    BY <1>1, <1>2, <2>1 DEF RowKept, Left
<1>4. Monotone /\ \A p \in Orders \ {o} : Untouched(p)
  BY DEF Monotone, Untouched
<1> QED
  BY <1>3, <1>4, LedgerNothingDue DEF OrderSound

LEMMA CallReserveLedger ==
  ASSUME Sound, Ledger, NEW o \in Orders, CallReserve(o)
  PROVE  Ledger'
<1>1. /\ phase[o] \in {"idle", "reserving"} /\ Goto(o, "reserving")
      /\ reserveCalls' = [reserveCalls EXCEPT ![o] = @ + 1]
      /\ callsMade' = [callsMade EXCEPT ![o] = @ + 1]
      /\ UNCHANGED <<holdings, row, live, stream, settled, session, returned, late, torn, refused,
                     forgotten>>
  BY DEF CallReserve, engine, marks
<1>2. EngineSound(o) /\ RowSound(o)
  BY DEF Ledger, OrderSound
<1>3. /\ phase'[o] = "reserving" /\ \A p \in Orders \ {o} : phase'[p] = phase[p]
      /\ reserveCalls'[o] = reserveCalls[o] + 1 /\ callsMade'[o] = callsMade[o] + 1
      /\ \A p \in Orders \ {o} : reserveCalls'[p] = reserveCalls[p] /\ callsMade'[p] = callsMade[p]
      /\ reserveCalls[o] \in Nat /\ callsMade[o] \in Nat
  BY <1>1, BoundAssumption DEF Goto, Sound, TypeOK
<1>4. SoldSoFar(o)' = SoldSoFar(o) /\ \A j : IsFill(o, j)' <=> IsFill(o, j)
  BY <1>1 DEF SoldSoFar, Sold, IsFill
<1>5. EngineSound(o)'
  BY <1>1, <1>2, <1>3, <1>4 DEF EngineSound
<1>6. RowSound(o)'
  <2>1. reserveCalls'[o] <= callsMade'[o]
    BY <1>2, <1>3 DEF RowSound
  <2>2. Sessions' = Sessions
    BY DEF Sessions
  <2> QED
    BY <1>1, <1>2, <1>3, <1>4, <2>1, <2>2 DEF RowSound
<1> QED
  BY <1>1, <1>3, <1>5, <1>6, CallerLedger

LEMMA GiveUpLedger ==
  ASSUME Sound, Ledger, NEW o \in Orders, GiveUp(o)
  PROVE  Ledger'
<1>1. /\ phase[o] = "reserving" /\ Goto(o, "unwinding")
      /\ UNCHANGED <<holdings, row, live, stream, settled, session, returned, late, torn, refused,
                     forgotten, reserveCalls, callsMade>>
  BY DEF GiveUp, Waits, engine, marks
<1>2. EngineSound(o) /\ RowSound(o)
  BY DEF Ledger, OrderSound
<1>3. phase'[o] = "unwinding" /\ \A p \in Orders \ {o} : phase'[p] = phase[p]
  BY <1>1 DEF Goto, Sound, TypeOK
<1>4. SoldSoFar(o)' = SoldSoFar(o) /\ (\A j : IsFill(o, j)' <=> IsFill(o, j))
      /\ Sessions' = Sessions
  BY <1>1 DEF SoldSoFar, Sold, IsFill, Sessions
<1>5. EngineSound(o)'
  BY <1>1, <1>2, <1>3, <1>4 DEF EngineSound
<1>6. RowSound(o)'
  BY <1>1, <1>2, <1>3, <1>4 DEF RowSound
<1> QED
  BY <1>1, <1>3, <1>5, <1>6, CallerLedger

\* An order rests in the book only after its shares were reserved.
LEMMA PublishAcceptedLedger ==
  ASSUME Sound, Ledger, NEW o \in Orders, PublishAccepted(o)
  PROVE  Ledger'
<1>1. /\ phase[o] = "held"
      /\ \/ Goto(o, "live") /\ Rest(o)
         \/ Goto(o, "unwinding") /\ (Rest(o) \/ UNCHANGED live)
      /\ UNCHANGED <<holdings, row, stream, settled, session, returned, late, torn, refused,
                     forgotten, reserveCalls, callsMade>>
  BY DEF PublishAccepted, marks
<1>2. EngineSound(o) /\ RowSound(o)
  BY DEF Ledger, OrderSound
<1>3. /\ phase'[o] \in {"live", "unwinding"} /\ (phase'[o] = "live" => live'[o] = Quantity[o])
      /\ live'[o] \in {live[o], Quantity[o]}
      /\ \A p \in Orders \ {o} : phase'[p] = phase[p] /\ live'[p] = live[p]
  BY <1>1 DEF Goto, Rest, Sound, TypeOK
<1>4. SoldSoFar(o)' = SoldSoFar(o) /\ (\A j : IsFill(o, j)' <=> IsFill(o, j))
      /\ Sessions' = Sessions
  BY <1>1 DEF SoldSoFar, Sold, IsFill, Sessions
<1>5. live[o] = 0 /\ SoldSoFar(o) = 0 /\ Quantity[o] \in Nat /\ row[o] # NoRow
  BY <1>1, <1>2, SoldSoFarNat, OrderAssumption DEF EngineSound, RowSound
<1>6. EngineSound(o)'
  BY <1>1, <1>2, <1>3, <1>4, <1>5 DEF EngineSound
<1>7. RowSound(o)'
  BY <1>1, <1>2, <1>3, <1>4, <1>5 DEF RowSound
<1> QED
  BY <1>1, <1>3, <1>6, <1>7, CallerLedger

\* What a notice about an order changes: nothing is sold, and the order has been told.
LEMMA NoticeTold ==
  ASSUME Sound, NEW o \in Orders, EngineSound(o), NEW kind \in {"order.cancelled", "order.rejected"},
         Tell(o, Notice(o, kind)), UNCHANGED settled
  PROVE  /\ Notice(o, kind) \in Events
         /\ SoldSoFar(o)' = SoldSoFar(o)
         /\ \A i \in DOMAIN stream[o] :
              i \in DOMAIN stream'[o] /\ stream'[o][i] = stream[o][i]
              /\ (IsFill(o, i)' <=> IsFill(o, i))
         /\ \A i \in DOMAIN stream'[o] \ DOMAIN stream[o] :
              ~ IsFill(o, i)' /\ stream'[o][i].quantity = 0
         /\ \E i \in DOMAIN stream'[o] : ~ IsFill(o, i)'
         /\ settled'[o] \subseteq DOMAIN stream'[o]
         /\ \A p \in Orders \ {o} : stream'[p] = stream[p]
<1> DEFINE e == Notice(o, kind)
<1>1. e \in Events /\ e.quantity = 0 /\ e.kind # "trade.executed"
  BY NoticeTyped DEF Notice, Consumers
<1>2. settled[o] \subseteq DOMAIN stream[o] /\ SoldSoFar(o) \in Nat
  BY SoldSoFarNat DEF EngineSound
<1> HIDE DEF e
<1>3. Tell(o, e)
  BY DEF e
<1>4. /\ SoldSoFar(o)' = SoldSoFar(o) + e.quantity
      /\ \A i \in DOMAIN stream[o] : IsFill(o, i)' <=> IsFill(o, i)
  BY <1>1, <1>2, <1>3, SoldTold
<1>5. PICK n :
      /\ n \notin DOMAIN stream[o] /\ DOMAIN stream'[o] = DOMAIN stream[o] \cup {n}
      /\ stream'[o][n] = e
      /\ \A i \in DOMAIN stream[o] : i \in DOMAIN stream'[o] /\ stream'[o][i] = stream[o][i]
      /\ \A p \in Orders \ {o} : stream'[p] = stream[p]
  BY <1>1, <1>3, TellSpares
<1>6. ~ IsFill(o, n)' /\ n \in DOMAIN stream'[o] /\ stream'[o][n].quantity = 0
  BY <1>1, <1>5 DEF IsFill
<1>7. \A i \in DOMAIN stream'[o] \ DOMAIN stream[o] :
        ~ IsFill(o, i)' /\ stream'[o][i].quantity = 0
  BY <1>5, <1>6
<1>8. SoldSoFar(o)' = SoldSoFar(o)
  BY <1>1, <1>2, <1>4
<1>9. settled'[o] \subseteq DOMAIN stream'[o]
  BY <1>2, <1>5
<1>10. \A i \in DOMAIN stream[o] :
         i \in DOMAIN stream'[o] /\ stream'[o][i] = stream[o][i]
         /\ (IsFill(o, i)' <=> IsFill(o, i))
  BY <1>4, <1>5
<1>11. \E i \in DOMAIN stream'[o] : ~ IsFill(o, i)'
  BY <1>6
<1> QED
  BY <1>1, <1>5, <1>7, <1>8, <1>9, <1>10, <1>11 DEF e

LEMMA RejectLedger ==
  ASSUME Sound, Ledger, NEW o \in Orders, Reject(o)
  PROVE  Ledger'
<1>1. /\ phase[o] \in {"declined", "unwinding"} /\ Goto(o, "rejected")
      /\ \/ Tell(o, Notice(o, "order.rejected")) /\ UNCHANGED forgotten
         \/ UNCHANGED stream /\ forgotten' = forgotten \cup {o}
      /\ UNCHANGED <<holdings, row, live, settled, session, returned, late, torn, refused,
                     reserveCalls, callsMade>>
  BY DEF Reject
<1>2. EngineSound(o) /\ RowSound(o)
  BY DEF Ledger, OrderSound
<1>3. phase'[o] = "rejected" /\ \A p \in Orders \ {o} : phase'[p] = phase[p]
  BY <1>1 DEF Goto, Sound, TypeOK
<1>4. Sessions' = Sessions
  BY DEF Sessions
<1>5. CASE UNCHANGED stream /\ forgotten' = forgotten \cup {o}
  <2>1. SoldSoFar(o)' = SoldSoFar(o) /\ (\A j : IsFill(o, j)' <=> IsFill(o, j))
    BY <1>1, <1>5 DEF SoldSoFar, Sold, IsFill
  <2>2. EngineSound(o)'
    BY <1>1, <1>2, <1>3, <1>5, <2>1 DEF EngineSound
  <2>3. RowSound(o)'
    BY <1>1, <1>2, <1>3, <1>4, <1>5, <2>1 DEF RowSound
  <2> QED
    BY <1>1, <1>3, <1>5, <2>2, <2>3, CallerLedger
<1>6. CASE Tell(o, Notice(o, "order.rejected")) /\ UNCHANGED forgotten
  <2>1. /\ Notice(o, "order.rejected") \in Events
        /\ SoldSoFar(o)' = SoldSoFar(o)
        /\ \A i \in DOMAIN stream[o] :
             i \in DOMAIN stream'[o] /\ stream'[o][i] = stream[o][i]
             /\ (IsFill(o, i)' <=> IsFill(o, i))
        /\ \A i \in DOMAIN stream'[o] \ DOMAIN stream[o] :
             ~ IsFill(o, i)' /\ stream'[o][i].quantity = 0
        /\ \E i \in DOMAIN stream'[o] : ~ IsFill(o, i)'
        /\ settled'[o] \subseteq DOMAIN stream'[o]
        /\ \A p \in Orders \ {o} : stream'[p] = stream[p]
    BY <1>1, <1>2, <1>6, NoticeTold
  <2>2. EngineSound(o)'
    BY <1>1, <1>2, <1>3, <2>1 DEF EngineSound
  <2>3. RowSound(o)'
    BY <1>1, <1>2, <1>3, <1>4, <2>1 DEF RowSound
  <2> QED
    BY <1>1, <1>3, <1>6, <2>1, <2>2, <2>3, CallerLedger
<1> QED
  BY <1>1, <1>5, <1>6

LEMMA CancelLedger ==
  ASSUME Sound, Ledger, NEW o \in Orders, Cancel(o)
  PROVE  Ledger'
<1>1. /\ live[o] > 0 /\ live' = [live EXCEPT ![o] = 0] /\ Tell(o, Notice(o, "order.cancelled"))
      /\ UNCHANGED <<holdings, row, phase, settled, session, returned, late, torn, refused,
                     forgotten, reserveCalls, callsMade>>
  BY DEF Cancel, calls, history, marks
<1>2. EngineSound(o) /\ RowSound(o)
  BY DEF Ledger, OrderSound
<1>3. live'[o] = 0 /\ \A p \in Orders \ {o} : live'[p] = live[p]
  BY <1>1 DEF Sound, TypeOK
<1>4. live[o] \in Nat /\ SoldSoFar(o) \in Nat /\ Quantity[o] \in Nat /\ Sessions' = Sessions
  BY <1>2, OrderNumbers DEF Sessions
<1>5. /\ Notice(o, "order.cancelled") \in Events
      /\ SoldSoFar(o)' = SoldSoFar(o)
      /\ \A i \in DOMAIN stream[o] :
           i \in DOMAIN stream'[o] /\ stream'[o][i] = stream[o][i]
           /\ (IsFill(o, i)' <=> IsFill(o, i))
      /\ \A i \in DOMAIN stream'[o] \ DOMAIN stream[o] :
           ~ IsFill(o, i)' /\ stream'[o][i].quantity = 0
      /\ \E i \in DOMAIN stream'[o] : ~ IsFill(o, i)'
      /\ settled'[o] \subseteq DOMAIN stream'[o]
      /\ \A p \in Orders \ {o} : stream'[p] = stream[p]
  BY <1>1, <1>2, NoticeTold
<1>6. phase[o] \notin {"idle", "reserving", "declined", "held"} /\ row[o] # NoRow
  BY <1>1, <1>2 DEF EngineSound, RowSound
<1>7. EngineSound(o)'
  BY <1>1, <1>2, <1>3, <1>4, <1>5, <1>6 DEF EngineSound
<1>8. RowSound(o)'
  BY <1>1, <1>2, <1>4, <1>5, <1>6 DEF RowSound
<1> QED
  BY <1>1, <1>3, <1>5, <1>7, <1>8, CallerLedger

\* A trade moves its size from the book to the bus.
LEMMA TradeLedger ==
  ASSUME Sound, Ledger, NEW o \in Orders, NEW buyer \in Users \ {Owner[o]},
         NEW q \in 1..Quantity[o], Trade(o, buyer, q)
  PROVE  Ledger'
<1> DEFINE e == [kind |-> "trade.executed", buyer |-> buyer, quantity |-> q, left |-> live[o] - q]
<1>1. /\ q <= live[o] /\ live' = [live EXCEPT ![o] = @ - q] /\ Tell(o, e)
      /\ UNCHANGED <<holdings, row, phase, settled, session, returned, late, torn, refused,
                     forgotten, reserveCalls, callsMade>>
  BY DEF Trade, calls, history, marks
<1>2. EngineSound(o) /\ RowSound(o)
  BY DEF Ledger, OrderSound
<1>3. /\ q \in Nat /\ q >= 1 /\ live[o] \in Nat /\ live[o] - q \in Nat /\ e \in Events
      /\ e.quantity = q /\ e.left = live[o] - q /\ e.buyer # Owner[o] /\ e.kind = "trade.executed"
  BY TradeTyped
<1> HIDE DEF e
<1>4. live'[o] = live[o] - q /\ \A p \in Orders \ {o} : live'[p] = live[p]
  BY <1>1 DEF Sound, TypeOK
<1>5. SoldSoFar(o) \in Nat /\ Quantity[o] \in Nat /\ live[o] + SoldSoFar(o) = Quantity[o]
  <2>1. live[o] > 0
    BY <1>1, <1>3
  <2>2. SoldSoFar(o) \in Nat /\ Quantity[o] \in Nat
    BY SoldSoFarNat, OrderAssumption
  <2> QED
    BY <1>2, <2>1, <2>2 DEF EngineSound
<1>6. /\ SoldSoFar(o)' = SoldSoFar(o) + q
      /\ \A i \in DOMAIN stream[o] : IsFill(o, i)' <=> IsFill(o, i)
  BY <1>1, <1>2, <1>3, SoldTold DEF EngineSound
<1>7. PICK n :
      /\ n \notin DOMAIN stream[o] /\ DOMAIN stream'[o] = DOMAIN stream[o] \cup {n}
      /\ stream'[o][n] = e
      /\ \A i \in DOMAIN stream[o] : i \in DOMAIN stream'[o] /\ stream'[o][i] = stream[o][i]
      /\ \A p \in Orders \ {o} : stream'[p] = stream[p]
  <2>1. /\ Len(stream[o]) + 1 \notin DOMAIN stream[o]
        /\ DOMAIN stream'[o] = DOMAIN stream[o] \cup {Len(stream[o]) + 1}
        /\ stream'[o][Len(stream[o]) + 1] = e
        /\ \A i \in DOMAIN stream[o] : i \in DOMAIN stream'[o] /\ stream'[o][i] = stream[o][i]
        /\ \A p \in Orders \ {o} : stream'[p] = stream[p]
    BY <1>1, <1>3, TellSpares
  <2> QED
    BY <2>1
<1>8. /\ phase[o] \notin {"idle", "reserving", "declined", "held"} /\ row[o] # NoRow
      /\ row[o].status = "RELEASED" => o \in returned
      /\ \A i \in DOMAIN stream[o] :
           IF IsFill(o, i) THEN stream[o][i].buyer # Owner[o] /\ stream[o][i].left # 0
           ELSE stream[o][i].quantity = 0
  BY <1>1, <1>2, <1>3, <1>5 DEF EngineSound, RowSound
<1>9. IsFill(o, n)' /\ (e.left = 0 => SoldSoFar(o)' = Quantity[o])
      /\ live'[o] + SoldSoFar(o)' = Quantity[o]
  BY <1>3, <1>4, <1>5, <1>6, <1>7 DEF IsFill
<1>10. EngineSound(o)'
  <2>1. ASSUME NEW i \in DOMAIN stream'[o]
        PROVE  IF IsFill(o, i)'
               THEN /\ stream'[o][i].buyer # Owner[o]
                    /\ stream'[o][i].left = 0 => SoldSoFar(o)' = Quantity[o]
               ELSE stream'[o][i].quantity = 0
    <3>1. CASE i = n
      BY <1>3, <1>7, <1>9, <3>1
    <3>2. CASE i \in DOMAIN stream[o]
      BY <1>6, <1>7, <1>8, <3>2
    <3> QED
      BY <1>7, <2>1, <3>1, <3>2
  <2>2. settled'[o] \subseteq DOMAIN stream'[o]
    BY <1>1, <1>2, <1>7 DEF EngineSound
  <2>3. live'[o] + SoldSoFar(o)' <= Quantity[o]
    BY <1>5, <1>9
  <2> QED
    BY <1>1, <1>8, <1>9, <2>1, <2>2, <2>3 DEF EngineSound
<1>11. RowSound(o)'
  <2>1. Sessions' = Sessions
    BY DEF Sessions
  <2> QED
    BY <1>1, <1>2, <1>8, <2>1 DEF RowSound
<1> QED
  BY <1>1, <1>3, <1>4, <1>7, <1>10, <1>11, CallerLedger

-----------------------------------------------------------------------------
LEMMA LedgerInit == Init => Ledger
<1> SUFFICES ASSUME Init PROVE Ledger
  OBVIOUS
<1>1. Sound
  BY SoundInit
<1>2. ASSUME NEW o \in Orders PROVE OrderSound(o) /\ Due[o] = 0
  <2>1. /\ row[o] = NoRow /\ phase[o] = "idle" /\ live[o] = 0 /\ stream[o] = <<>>
        /\ settled[o] = {} /\ reserveCalls[o] = 0 /\ callsMade[o] = 0
        /\ returned = {} /\ refused = {}
    BY DEF Init
  <2>2. DOMAIN stream[o] = {} /\ \A i : i \notin DOMAIN stream[o]
    BY <2>1
  <2>3. SoldSoFar(o) = 0 /\ Sold(o, settled[o]) = 0 /\ Quantity[o] \in Nat
    BY <2>1, <2>2, SumEmpty, OrderAssumption DEF SoldSoFar, Sold
  <2>4. EngineSound(o)
    BY <2>1, <2>2, <2>3 DEF EngineSound
  <2>5. \A s \in Sessions : session[s].order # o
    BY NoWorkTyped DEF Init
  <2>6. RowSound(o)
    BY <2>1, <2>2, <2>5, NoRowTyped DEF RowSound
  <2>7. RowKept(o)
    BY <2>1, NoRowTyped DEF RowKept
  <2>8. Due[o] = 0
    BY <1>1, <2>1, <2>4, <2>6, DueTyped
  <2> QED
    BY <2>4, <2>6, <2>7, <2>8 DEF OrderSound
<1>3. ASSUME NEW u \in Users PROVE HoldingSound(u)
  <2>1. reserved[u] = 0 /\ quantity[u] \in Nat
    BY <1>1 DEF Init, Sound, TypeOK
  <2>2. DueTo(u) = 0
    BY <1>2, OrdersOfFinite, SumZero DEF DueTo
  <2> QED
    BY <2>1, <2>2 DEF HoldingSound
<1> QED
  BY <1>2, <1>3 DEF Ledger

LEMMA LedgerStutters == Sound /\ Ledger /\ UNCHANGED vars => Ledger'
<1> SUFFICES ASSUME Sound, Ledger, UNCHANGED vars PROVE Ledger'
  OBVIOUS
<1>1. UNCHANGED <<holdings, row, calls, engine, settled, history>> /\ UNCHANGED session
  BY DEF vars
<1> QED
  BY <1>1, SessionsOnlyLedger

\* A session that does something is about an order, of a user.
LEMMA SessionStepLedger ==
  ASSUME Sound, Ledger, NEW s \in Sessions, SessionStep(s)
  PROVE  Ledger'
<1>1. CASE \/ \E o \in Orders : ReserveRead(s, o)
           \/ \E o \in Orders : ReleaseRead(s, o)
           \/ \E o \in Orders : \E i \in DOMAIN stream[o] : TradeLock(s, o, i)
           \/ \E o \in Orders : \E i \in DOMAIN stream[o] : CancelRead(s, o, i)
  BY <1>1, ReserveReadLedger, ReleaseReadLedger, TradeLockLedger, CancelReadLedger
<1>2. CASE ReleaseLock(s) \/ TradeReadRow(s) \/ CancelReadHolding(s) \/ LockTimesOut(s)
  BY <1>2, GoingOnLedger
<1>3. CASE \/ ReserveLock(s) \/ ReserveCommit(s) \/ ReleaseCommit(s)
           \/ TradeCommit(s) \/ TradeFails(s) \/ CancelCommit(s)
  <2>1. ~ IsFree(s)
    BY <1>3, NoWorkTyped DEF ReserveLock, ReserveCommit, ReleaseCommit, TradeCommit, TradeFails,
       CancelCommit, Is, IsFree
  <2>2. PICK o \in Orders : session[s].order = o
    BY <2>1, BusyTyped DEF Sound
  <2>3. PICK u \in Users : u = Owner[o]
    BY OrderAssumption
  <2>4. PICK i : session[s].at = i
    OBVIOUS
  <2>5. PICK e : Event(s) = e
    OBVIOUS
  <2>6. CASE ReserveLock(s)
    BY <2>2, <2>6, ReserveLockLedger
  <2>7. CASE ReserveCommit(s)
    BY <2>2, <2>3, <2>7, ReserveCommitLedger
  <2>8. CASE ReleaseCommit(s)
    BY <2>2, <2>3, <2>8, ReleaseCommitLedger
  <2>9. CASE TradeCommit(s)
    BY <2>2, <2>3, <2>4, <2>5, <2>9, TradeCommitLedger
  <2>10. CASE TradeFails(s)
    BY <2>2, <2>3, <2>4, <2>5, <2>10, TradeFailsLedger
  <2>11. CASE CancelCommit(s)
    BY <2>2, <2>3, <2>11, CancelCommitLedger
  <2> QED
    BY <1>3, <2>6, <2>7, <2>8, <2>9, <2>10, <2>11
<1> QED
  BY <1>1, <1>2, <1>3 DEF SessionStep

LEMMA LedgerNext == Sound /\ Ledger /\ [Next]_vars => Ledger'
<1> SUFFICES ASSUME Sound, Ledger, [Next]_vars PROVE Ledger'
  OBVIOUS
<1>1. ASSUME NEW o \in Orders, CallerStep(o) PROVE Ledger'
  BY <1>1, CallReserveLedger, GiveUpLedger, PublishAcceptedLedger, RejectLedger, TradeLedger,
     CancelLedger DEF CallerStep
<1> QED
  BY <1>1, SessionStepLedger, CrashLedger, LedgerStutters DEF Next

LEMMA AlwaysLedger == Spec => [](Sound /\ Ledger)
<1>1. Init => Sound /\ Ledger
  BY SoundInit, LedgerInit
<1>2. (Sound /\ Ledger) /\ [Next]_vars => (Sound /\ Ledger)'
  BY SoundNext, LedgerNext
<1> QED
  BY <1>1, <1>2, PTL DEF Spec

-----------------------------------------------------------------------------
(* The books, the sales and the leaks *)

\* reserved_quantity is what the reservations of the user still hold, and no reservation is
\* consumed and released for more than its size, in whatever order and however overlapping
\* reserves, fills, releases and cancellations come: for any users, orders and holdings.
THEOREM BooksAlwaysBalance == Spec => []BooksBalance
<1>1. Sound /\ Ledger => BooksBalance
  <2> SUFFICES ASSUME Sound, Ledger PROVE BooksBalance
    OBVIOUS
  <2>1. ReservedMatches
    BY DEF Ledger, HoldingSound, ReservedMatches, DueTo
  <2>2. NeverOverdrawn
    BY DEF Ledger, OrderSound, RowKept, NeverOverdrawn
  <2> QED
    BY <2>1, <2>2 DEF BooksBalance, Sound
<1> QED
  BY <1>1, AlwaysLedger, PTL

\* What is due of the orders that were not given back covers what is to be delivered.
LEMMA DueCovers ==
  ASSUME Sound, Ledger, NEW u
  PROVE  SumFunctionOnSet(ToDeliver, OrdersOf(u) \ returned) <= DueTo(u)
<1> DEFINE S == OrdersOf(u)
           T == OrdersOf(u) \ returned
           f == Due
           g == ToDeliver
<1>1. IsFiniteSet(S) /\ T \subseteq S /\ IsFiniteSet(T) /\ IsFiniteSet(S \ T)
  BY OrdersOfFinite, FS_Subset
<1>2. /\ \A o \in S : f[o] \in Nat /\ g[o] \in Nat
      /\ \A o \in T : g[o] <= f[o]
  <2>1. \A o \in Orders : EngineSound(o) /\ RowSound(o)
    BY DEF Ledger, OrderSound
  <2> QED
    BY <2>1, OrdersOfFinite, DueTyped
<1>3. DueTo(u) = SumFunctionOnSet(f, S)
  BY DEF DueTo
<1> HIDE DEF S, T, f, g
<1>4. SumFunctionOnSet(g, T) <= SumFunctionOnSet(f, T)
  BY <1>1, <1>2, SumMonotone
<1>5. SumFunctionOnSet(f, S) = SumFunctionOnSet(f, T) + SumFunctionOnSet(f, S \ T)
  BY <1>1, <1>2, SumSplit
<1>6. /\ SumFunctionOnSet(f, T) \in Nat /\ SumFunctionOnSet(f, S \ T) \in Nat
      /\ SumFunctionOnSet(g, T) \in Nat
  BY <1>1, <1>2, SumNat
<1>7. SumFunctionOnSet(g, T) <= SumFunctionOnSet(f, S)
  BY <1>4, <1>5, <1>6
<1> QED
  BY <1>3, <1>7 DEF T, g

\* A sale can be settled: what is in the book and on the bus is reserved, what is reserved
\* is there, and a fill is refused only where shares were given back too early.
THEOREM SalesAlwaysSettle == Spec => []SalesSettle
<1>1. Sound /\ Ledger => SalesSettle
  <2> SUFFICES ASSUME Sound, Ledger PROVE SalesSettle
    OBVIOUS
  <2>1. ASSUME NEW u \in Users \ (torn \cup late)
        PROVE  /\ SumFunctionOnSet(ToDeliver, OrdersOf(u) \ returned) <= reserved[u]
               /\ reserved[u] <= quantity[u]
    <3>1. reserved[u] = DueTo(u) /\ reserved[u] <= quantity[u]
      BY DEF Ledger, HoldingSound
    <3> QED
      BY <3>1, DueCovers
  <2>2. \A o \in refused : Owner[o] \in torn \cup late \/ o \in returned
    BY DEF Sound, TypeOK, Ledger, OrderSound, RowKept
  <2> QED
    BY <2>1, <2>2 DEF SalesSettle, SalesCovered, RefusedOnlyAfterReturn
<1> QED
  BY <1>1, AlwaysLedger, PTL

\* Nothing is due of an order that is over and was not forgotten.
LEMMA FinishedOwesNothing ==
  ASSUME Sound, Ledger, NEW o \in Orders, Owner[o] \notin torn, Finished(o), o \notin forgotten
  PROVE  Due[o] = 0
<1>1. EngineSound(o) /\ RowSound(o) /\ RowKept(o)
  BY DEF Ledger, OrderSound
<1>2. /\ phase[o] \in {"idle", "live", "rejected"} /\ live[o] = 0 /\ settled[o] = DOMAIN stream[o]
  BY DEF Finished
<1>3. /\ Due[o] = IF o \in returned THEN 0 ELSE row[o].quantity - Sold(o, settled[o])
      /\ row[o] = NoRow => Due[o] = 0
      /\ SoldSoFar(o) \in Nat /\ Quantity[o] \in Nat
      /\ row[o] # NoRow => row[o].quantity = Quantity[o] /\ row[o].status \in {"HELD", "RELEASED"}
  BY <1>1, DueTyped, OrderNumbers DEF RowSound
<1>4. Sold(o, settled[o]) = SoldSoFar(o)
  BY <1>2 DEF SoldSoFar
<1> SUFFICES ASSUME row[o] # NoRow, o \notin returned PROVE Due[o] = 0
  BY <1>3
<1>5. SoldSoFar(o) = Quantity[o] => Due[o] = 0
  BY <1>3, <1>4
<1>6. row[o].status = "RELEASED" => SoldSoFar(o) = Quantity[o]
  BY <1>1 DEF RowSound
<1>7. phase[o] \in {"live", "rejected"}
  BY <1>1, <1>2 DEF RowSound
<1>8. CASE live[o] + SoldSoFar(o) = Quantity[o]
  BY <1>2, <1>3, <1>5, <1>8
<1>9. CASE \E i \in DOMAIN stream[o] : ~ IsFill(o, i)
  BY <1>1, <1>2, <1>5, <1>6, <1>9 DEF RowKept
<1> QED
  BY <1>1, <1>7, <1>8, <1>9 DEF EngineSound

\* No share stays reserved when the orders of a user are over and their events handled,
\* unless a reserve call came late, order.rejected was lost, or a fill was refused.
THEOREM SharesNeverLeak == Spec => []NoShareLeak
<1>1. Sound /\ Ledger => NoShareLeak
  <2> SUFFICES ASSUME Sound, Ledger, NEW u \in Users \ torn,
                      \A o \in OrdersOf(u) : Finished(o) /\ o \notin forgotten \cup refused
               PROVE  reserved[u] = 0
    BY DEF NoShareLeak
  <2>1. \A o \in OrdersOf(u) : Due[o] = 0
    BY FinishedOwesNothing DEF OrdersOf
  <2>2. DueTo(u) = 0
    <3> DEFINE f == Due
               S == OrdersOf(u)
    <3>1. IsFiniteSet(S) /\ \A o \in S : f[o] = 0
      BY <2>1, OrdersOfFinite
    <3> HIDE DEF f, S
    <3>2. SumFunctionOnSet(f, S) = 0
      BY <3>1, SumZero
    <3> QED
      BY <3>2 DEF DueTo, f, S
  <2>3. reserved[u] <= DueTo(u)
    BY DEF Ledger, HoldingSound
  <2>4. reserved[u] \in Nat
    BY DEF Sound, TypeOK
  <2> QED
    BY <2>2, <2>3, <2>4
<1> QED
  BY <1>1, AlwaysLedger, PTL
=============================================================================
