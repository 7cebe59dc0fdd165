--------------------------- MODULE Account_proofs ---------------------------
(***************************************************************************)
(* Proofs about Account for any users, orders, prices, numbers of calls    *)
(* and of releases that overlap with each other and with the events: what  *)
(* the account row promises with its CHECK constraints, the handlers keep  *)
(* by themselves wherever ChecksPass is not asked.                         *)
(*                                                                         *)
(* HoldsCovered is not inductive: a release writes back a copy of the      *)
(* reservation that others may have outdated, so CopiesSound bounds what   *)
(* the copy can be wrong by.  On top of that, Ledger relates the balances  *)
(* to the reservations, and each reservation to its caller, to the book    *)
(* and to the events on the bus; it gives the books, the refusals and the  *)
(* absence of leaks.                                                       *)
(***************************************************************************)
EXTENDS Account, SumTheorems

\* What is left of a reservation; nothing when too much was released.
Left(o) == AtLeastZero(Remaining(o))

\* What a release request that has read its reservation is about to release.
ToRelease(r) == view[r].held - view[r].consumed - view[r].released

\* The copy a release request works on: fills may have consumed more since, and other
\* releases given back what it saw, but nothing was added to what it saw left.
CopySound(r) ==
  LET o == releaseOf[r]
  IN /\ o \in Orders
     /\ amountHeld[o] > 0 /\ view[r].held = amountHeld[o]
     /\ 0 <= view[r].consumed /\ view[r].consumed <= consumed[o]
     /\ 0 <= view[r].released
     /\ 0 < ToRelease(r) /\ Left(o) <= ToRelease(r)

CopiesSound == \A r \in Releasers : releasePc[r] = "apply" => CopySound(r)

\* A reservation that was released on a stale copy has nothing left.
TornSpent == \A o \in torn : amountHeld[o] > 0 /\ Remaining(o) <= 0

Sound == TypeOK /\ HoldsCovered /\ CopiesSound /\ TornSpent

LEMMA AtLeastZeroNat == \A x \in Int : AtLeastZero(x) \in Nat /\ AtLeastZero(x) >= x
                                       /\ (x >= 0 => AtLeastZero(x) = x)
  BY DEF AtLeastZero

LEMMA LeastNat == \A x, y \in Nat : Least(x, y) \in Nat /\ Least(x, y) <= x /\ Least(x, y) <= y
  BY DEF Least

LEMMA ProductNat == \A x, y \in Nat : x * y \in Nat
  OBVIOUS

LEMMA HoldNat == \A o \in Orders : Hold(o) \in Nat
  BY AmountAssumption, ProductNat DEF Hold

\* An event of the stream of o.
LEMMA EventTyped ==
  ASSUME TypeOK, NEW o \in Orders, NEW i \in DOMAIN stream[o]
  PROVE  /\ i \in Nat
         /\ stream[o][i].seller \in Users
         /\ stream[o][i].price \in Nat /\ stream[o][i].quantity \in Nat
         /\ stream[o][i].left \in Nat
         /\ Cost(stream[o][i]) \in Nat
<1>1. stream[o] \in Seq(Events)
  BY DEF TypeOK
<1>2. i \in Nat /\ stream[o][i] \in Events
  BY <1>1
<1>3. /\ stream[o][i].price \in Prices \cup {0} /\ stream[o][i].quantity \in Nat
      /\ stream[o][i].seller \in Users /\ stream[o][i].left \in Nat
  <2> DEFINE e == stream[o][i]
  <2>1. e \in Events
    BY <1>2
  <2> HIDE DEF e
  <2>2. /\ e.price \in Prices \cup {0} /\ e.quantity \in Nat
        /\ e.seller \in Users /\ e.left \in Nat
    BY <2>1 DEF Events
  <2> QED
    BY <2>2 DEF e
<1>4. stream[o][i].price \in Nat
  <2> DEFINE price == stream[o][i].price
  <2>1. price \in Prices \cup {0}
    BY <1>3
  <2> HIDE DEF price
  <2>2. price \in Nat
    BY <2>1, AmountAssumption
  <2> QED
    BY <2>2 DEF price
<1> QED
  BY <1>2, <1>3, <1>4, ProductNat DEF Cost

\* Telling the consumers about o keeps the streams typed.
LEMMA TellTyped ==
  ASSUME TypeOK, NEW o \in Orders, NEW e \in Events, Tell(o, e)
  PROVE  stream' \in [Orders -> Seq(Events)]
<1>1. Append(stream[o], e) \in Seq(Events)
  BY DEF TypeOK
<1> QED
  BY <1>1 DEF Tell, TypeOK

LEMMA PlainEventTyped ==
  ASSUME NEW o \in Orders, NEW kind \in {"order.cancelled", "order.rejected"}
  PROVE  Event(kind) \in Events
<1>1. Owner[o] \in Users
  BY OwnerAssumption
<1>2. (CHOOSE u \in Users : TRUE) \in Users
  BY <1>1
<1> QED
  BY <1>2 DEF Event, Events

\* What a fill takes of the hold, and what the last one gives back, are there.
LEMMA FillWithinHold ==
  ASSUME TypeOK, NEW o \in Orders, NEW i \in DOMAIN stream[o]
  PROVE  LET e == stream[o][i]
         IN /\ Consumed(o, e) \in Nat /\ ReleasedByFill(o, e) \in Nat
            /\ ~ IsUnreserved(o) => Consumed(o, e) <= Left(o)
            /\ ~ IsUnreserved(o) =>
                 ReleasedByFill(o, e) = IF e.left = 0 THEN Left(o) - Consumed(o, e) ELSE 0
            /\ IsUnreserved(o) => ReleasedByFill(o, e) = 0
<1> DEFINE e == stream[o][i]
           c == Consumed(o, e)
<1>1. Remaining(o) \in Int /\ Left(o) \in Nat /\ cash[Owner[o]] \in Nat
  <2>1. amountHeld[o] \in Nat /\ consumed[o] \in Nat /\ released[o] \in Nat
    BY DEF TypeOK
  <2>2. Remaining(o) \in Int
    BY <2>1 DEF Remaining
  <2>3. cash[Owner[o]] \in Nat
    BY OwnerAssumption DEF TypeOK
  <2> QED
    BY <2>2, <2>3, AtLeastZeroNat DEF Left
<1>2. Cost(e) \in Nat /\ Limit[o] * e.quantity \in Nat
  BY EventTyped, ProductNat, AmountAssumption
<1>3. c \in Nat /\ (~ IsUnreserved(o) => c <= Left(o))
  BY <1>1, <1>2, LeastNat DEF Consumed, Left
<1>4. ~ IsUnreserved(o) => AtLeastZero(Remaining(o) - c) = Left(o) - c
  <2>1. \A x \in Int, y \in Nat : y <= AtLeastZero(x) => AtLeastZero(x - y) = AtLeastZero(x) - y
    BY DEF AtLeastZero
  <2> HIDE DEF c
  <2> QED
    BY <1>1, <1>3, <2>1 DEF Left
<1> HIDE DEF c
<1>5. /\ ReleasedByFill(o, e) \in Nat
      /\ ~ IsUnreserved(o) => ReleasedByFill(o, e) = IF e.left = 0 THEN Left(o) - c ELSE 0
      /\ IsUnreserved(o) => ReleasedByFill(o, e) = 0
  BY <1>1, <1>3, <1>4 DEF ReleasedByFill, c
<1> QED
  BY <1>3, <1>5 DEF c

\* What the numbers of a reservation and of its owner's balance are.
LEMMA RowTyped ==
  ASSUME TypeOK, HoldsCovered, NEW o \in Orders
  PROVE  /\ amountHeld[o] \in Nat /\ consumed[o] \in Nat /\ released[o] \in Nat
         /\ consumed[o] <= amountHeld[o] /\ released[o] <= amountHeld[o]
         /\ Remaining(o) = amountHeld[o] - consumed[o] - released[o]
         /\ Remaining(o) \in Int /\ Left(o) \in Nat /\ Remaining(o) <= Left(o)
         /\ (Remaining(o) >= 0 => Left(o) = Remaining(o))
         /\ (Remaining(o) <= 0 => Left(o) = 0)
         /\ Owner[o] \in Users /\ held[Owner[o]] \in Nat /\ cash[Owner[o]] \in Nat
         /\ held[Owner[o]] <= cash[Owner[o]]
<1>1. /\ amountHeld[o] \in Nat /\ consumed[o] \in Nat /\ released[o] \in Nat
      /\ consumed[o] <= amountHeld[o] /\ released[o] <= amountHeld[o]
  BY DEF TypeOK, HoldsCovered
<1>2. Remaining(o) = amountHeld[o] - consumed[o] - released[o] /\ Remaining(o) \in Int
  BY <1>1 DEF Remaining
<1>3. /\ Left(o) \in Nat /\ Remaining(o) <= Left(o)
      /\ (Remaining(o) >= 0 => Left(o) = Remaining(o))
      /\ (Remaining(o) <= 0 => Left(o) = 0)
  BY <1>2 DEF Left, AtLeastZero
<1>4. /\ Owner[o] \in Users /\ held[Owner[o]] \in Nat /\ cash[Owner[o]] \in Nat
      /\ held[Owner[o]] <= cash[Owner[o]]
  BY OwnerAssumption DEF TypeOK, HoldsCovered
<1> QED
  BY <1>1, <1>2, <1>3, <1>4

-----------------------------------------------------------------------------
LEMMA SoundInit == Init => Sound
<1> SUFFICES ASSUME Init PROVE Sound
  OBVIOUS
<1>1. <<>> \in Seq(Events)
  OBVIOUS
<1>2. TypeOK
  BY <1>1, AmountAssumption DEF Init, TypeOK, Phases, Amounts, NoView
<1>3. HoldsCovered /\ CopiesSound /\ TornSpent
  BY DEF Init, HoldsCovered, CopiesSound, TornSpent, Remaining
<1> QED
  BY <1>2, <1>3 DEF Sound

\* A step that leaves balances, reservations and release requests alone.
LEMMA FundsUntouched ==
  ASSUME Sound, UNCHANGED <<balances, reservations, releases, torn>>
  PROVE  HoldsCovered' /\ CopiesSound' /\ TornSpent'
<1>1. UNCHANGED <<cash, held, amountHeld, consumed, released, releasePc, releaseOf, view, torn>>
  BY DEF balances, reservations, releases
<1>2. \A o : Remaining(o)' = Remaining(o) /\ Left(o)' = Left(o)
  BY <1>1 DEF Remaining, Left, AtLeastZero
<1>3. \A r : ToRelease(r)' = ToRelease(r)
  BY <1>1 DEF ToRelease
<1>4. HoldsCovered' /\ TornSpent'
  BY <1>1, <1>2 DEF Sound, HoldsCovered, TornSpent
<1>5. ASSUME NEW r \in Releasers, releasePc'[r] = "apply" PROVE CopySound(r)'
  <2>1. CopySound(r)
    BY <1>1, <1>5 DEF Sound, CopiesSound
  <2> QED
    BY <1>1, <1>2, <1>3, <2>1 DEF CopySound
<1> QED
  BY <1>4, <1>5 DEF CopiesSound

\* The copies stay sound, whatever is taken from one reservation beside them.
LEMMA CopiesKept ==
  ASSUME Sound, NEW o \in Orders,
         UNCHANGED <<amountHeld, torn>>,
         \A p \in Orders \ {o} : consumed'[p] = consumed[p] /\ released'[p] = released[p],
         consumed[o] \in Nat, consumed'[o] \in Nat, consumed[o] <= consumed'[o],
         Remaining(o) \in Int, Left(o) \in Nat, Left(o)' \in Nat, Left(o)' <= Left(o),
         Remaining(o)' \in Int, Remaining(o) <= 0 => Remaining(o)' <= 0,
         \A r \in Releasers : releasePc'[r] = "apply" =>
           releasePc[r] = "apply" /\ releaseOf'[r] = releaseOf[r] /\ view'[r] = view[r]
  PROVE  CopiesSound' /\ TornSpent'
<1>1. \A p \in Orders \ {o} : Remaining(p)' = Remaining(p) /\ Left(p)' = Left(p)
  BY DEF Remaining, Left, AtLeastZero
<1>2. TornSpent'
  BY <1>1 DEF Sound, TypeOK, TornSpent
<1>3. ASSUME NEW r \in Releasers, releasePc'[r] = "apply" PROVE CopySound(r)'
  <2>1. CopySound(r) /\ releaseOf'[r] = releaseOf[r] /\ view'[r] = view[r]
    BY <1>3 DEF Sound, CopiesSound
  <2>2. PICK p \in Orders : p = releaseOf[r]
    BY <2>1 DEF CopySound
  <2>3. ToRelease(r)' = ToRelease(r)
    BY <2>1 DEF ToRelease
  <2>4. view[r].consumed \in Int /\ view[r].held \in Int /\ view[r].released \in Int
    <3>1. view[r] \in Amounts
      BY DEF Sound, TypeOK
    <3> QED
      BY <3>1 DEF Amounts
  <2>5. ToRelease(r) \in Int
    BY <2>4 DEF ToRelease
  <2>6. /\ amountHeld[p] > 0 /\ view[r].held = amountHeld[p]
        /\ 0 <= view[r].consumed /\ view[r].consumed <= consumed[p] /\ 0 <= view[r].released
        /\ 0 < ToRelease(r) /\ Left(p) <= ToRelease(r)
    BY <2>1, <2>2 DEF CopySound
  <2>7. view[r].consumed <= consumed'[p]
    <3>1. CASE p = o
      BY <2>4, <2>6, <3>1
    <3>2. CASE p # o
      BY <2>6, <3>2
    <3> QED
      BY <3>1, <3>2
  <2>8. Left(p)' <= ToRelease(r)
    <3>1. CASE p = o
      BY <2>5, <2>6, <3>1
    <3>2. CASE p # o
      BY <1>1, <2>6, <3>2
    <3> QED
      BY <3>1, <3>2
  <2>9. p = releaseOf'[r] /\ amountHeld'[p] = amountHeld[p]
    BY <2>1, <2>2
  <2> QED
    BY <2>1, <2>3, <2>6, <2>7, <2>8, <2>9 DEF CopySound
<1> QED
  BY <1>2, <1>3 DEF CopiesSound

LEMMA DepositSound ==
  ASSUME Sound, NEW u \in Users, NEW amount \in Deposits, Deposit(u, amount)
  PROVE  Sound'
<1>1. amount \in Nat
  BY AmountAssumption
<1>2. UNCHANGED <<held, amountHeld, consumed, released, phase, reserveCalls, callsMade, live,
                  stream, settled, refused, releasePc, releaseOf, view, forgotten, torn>>
  BY DEF Deposit, reservations, calls, events, releases, history
<1>3. TypeOK'
  BY <1>1, <1>2, AmountAssumption DEF Deposit, Sound, TypeOK
<1>4. HoldsCovered'
  BY <1>1, <1>2 DEF Deposit, Sound, TypeOK, HoldsCovered, Remaining
<1>5. \A o : Remaining(o)' = Remaining(o) /\ Left(o)' = Left(o)
  BY <1>2 DEF Remaining, Left, AtLeastZero
<1>6. \A r : ToRelease(r)' = ToRelease(r)
  BY <1>2 DEF ToRelease
<1>7. CopiesSound' /\ TornSpent'
  BY <1>2, <1>5, <1>6 DEF Sound, CopiesSound, CopySound, TornSpent
<1> QED
  BY <1>3, <1>4, <1>7 DEF Sound

\* Without a row there is nothing left, nor was there ever, and nothing to release.
LEMMA NothingUnreserved ==
  ASSUME Sound, NEW o \in Orders, amountHeld[o] = 0
  PROVE  /\ consumed[o] = 0 /\ released[o] = 0 /\ Remaining(o) = 0 /\ Left(o) = 0
         /\ \A r \in Releasers : releasePc[r] = "apply" => releaseOf[r] # o
<1>1. /\ consumed[o] \in Nat /\ released[o] \in Nat
      /\ consumed[o] <= 0 /\ released[o] <= 0
  BY RowTyped DEF Sound
<1>2. consumed[o] = 0 /\ released[o] = 0 /\ Remaining(o) = 0
  BY <1>1 DEF Remaining
<1>3. Left(o) = 0
  BY <1>2 DEF Left, AtLeastZero
<1>4. \A r \in Releasers : releasePc[r] = "apply" => releaseOf[r] # o
  BY DEF Sound, CopiesSound, CopySound
<1> QED
  BY <1>2, <1>3, <1>4

\* Funds are held only when the user has them, and only once for an order.
LEMMA ReserveSound ==
  ASSUME Sound, NEW o \in Orders, ReserveFunds(o)
  PROVE  Sound'
<1> DEFINE u == Owner[o]
           books == IsUnreserved(o) /\ ~ (Available(u) < Hold(o))
<1>1. u \in Users /\ Hold(o) \in Nat /\ reserveCalls[o] \in Nat
  BY OwnerAssumption, HoldNat DEF Sound, TypeOK
<1>2. reserveCalls' \in [Orders -> Nat]
  BY <1>1 DEF ReserveFunds, Sound, TypeOK
<1>3. phase' \in [Orders -> Phases]
  BY DEF ReserveFunds, Sound, TypeOK, Goto, Phases
<1>4. UNCHANGED <<cash, consumed, released, callsMade, live, stream, settled, refused,
                  releasePc, releaseOf, view, deposited, deposits, torn>>
  BY DEF ReserveFunds, events, releases, counters
<1>5. CASE books
  <2>1. /\ held' = [held EXCEPT ![u] = @ + Hold(o)]
        /\ amountHeld' = [amountHeld EXCEPT ![o] = Hold(o)]
        /\ forgotten' \subseteq Orders
    BY <1>5 DEF ReserveFunds, Sound, TypeOK
  <2>2. held[u] + Hold(o) <= cash[u]
    BY <1>1, <1>5 DEF Available, Sound, TypeOK
  <2>3. /\ amountHeld[o] = 0 /\ consumed[o] = 0 /\ released[o] = 0
        /\ \A r \in Releasers : releasePc[r] = "apply" => releaseOf[r] # o
    BY <1>5, NothingUnreserved DEF IsUnreserved
  <2>4. held' \in [Users -> Nat] /\ amountHeld' \in [Orders -> Nat]
    BY <1>1, <2>1 DEF Sound, TypeOK
  <2>5. TypeOK'
    BY <1>2, <1>3, <1>4, <2>1, <2>4 DEF Sound, TypeOK
  <2>6. /\ amountHeld'[o] = Hold(o)
        /\ \A p \in Orders \ {o} : amountHeld'[p] = amountHeld[p]
    BY <2>1 DEF Sound, TypeOK
  <2>7. /\ Remaining(o)' = Hold(o)
        /\ \A p \in Orders \ {o} : Remaining(p)' = Remaining(p) /\ Left(p)' = Left(p)
    BY <1>1, <1>4, <2>3, <2>6 DEF Remaining, Left, AtLeastZero
  <2>8. HoldsCovered'
    <3>1. \A v \in Users : held'[v] <= cash'[v]
      BY <1>1, <1>4, <2>1, <2>2 DEF Sound, TypeOK, HoldsCovered
    <3>2. \A p \in Orders : consumed'[p] <= amountHeld'[p] /\ released'[p] <= amountHeld'[p]
      BY <1>1, <1>4, <2>3, <2>6 DEF Sound, HoldsCovered
    <3>3. \A p \in Orders \ torn' : Remaining(p)' >= 0
      BY <1>1, <1>4, <2>7 DEF Sound, HoldsCovered
    <3> QED
      BY <3>1, <3>2, <3>3 DEF HoldsCovered
  <2>9. ASSUME NEW r \in Releasers, releasePc'[r] = "apply" PROVE CopySound(r)'
    <3>1. CopySound(r) /\ releaseOf[r] # o /\ releaseOf'[r] = releaseOf[r] /\ view'[r] = view[r]
      BY <1>4, <2>3, <2>9 DEF Sound, CopiesSound
    <3>2. releaseOf[r] \in Orders \ {o} /\ ToRelease(r)' = ToRelease(r)
      BY <3>1 DEF CopySound, ToRelease
    <3> QED
      BY <1>4, <2>6, <2>7, <3>1, <3>2 DEF CopySound
  <2>10. TornSpent'
    <3>1. o \notin torn
      BY <2>3 DEF Sound, TornSpent
    <3> QED
      BY <1>4, <2>6, <2>7, <3>1 DEF Sound, TypeOK, TornSpent
  <2> QED
    BY <2>5, <2>8, <2>9, <2>10 DEF Sound, CopiesSound
<1>6. CASE ~ books
  <2>1. UNCHANGED <<held, amountHeld, forgotten>>
    BY <1>6 DEF ReserveFunds
  <2>2. TypeOK'
    BY <1>2, <1>3, <1>4, <2>1 DEF Sound, TypeOK
  <2>3. HoldsCovered' /\ CopiesSound' /\ TornSpent'
    BY <1>4, <2>1, FundsUntouched DEF balances, reservations, releases
  <2> QED
    BY <2>2, <2>3 DEF Sound
<1> QED
  BY <1>5, <1>6

-----------------------------------------------------------------------------
(* The REST release *)

LEMMA ReleaseReadSound ==
  ASSUME Sound, NEW r \in Releasers, NEW o \in Orders, ReleaseRead(r, o)
  PROVE  Sound'
<1>1. UNCHANGED <<cash, held, amountHeld, consumed, released, phase, reserveCalls, callsMade,
                  live, stream, settled, refused, deposited, deposits, forgotten, torn>>
  BY DEF ReleaseRead, balances, reservations, calls, events, counters, history
<1>2. \A p : Remaining(p)' = Remaining(p) /\ Left(p)' = Left(p)
  BY <1>1 DEF Remaining, Left, AtLeastZero
<1>3. HoldsCovered' /\ TornSpent'
  BY <1>1, <1>2 DEF Sound, HoldsCovered, TornSpent
<1>4. CASE amountHeld[o] > 0 /\ Remaining(o) > 0
  <2>1. /\ releasePc' = [releasePc EXCEPT ![r] = "apply"]
        /\ releaseOf' = [releaseOf EXCEPT ![r] = o]
        /\ view' = [view EXCEPT ![r] = Row(o)]
    BY <1>4 DEF ReleaseRead
  <2>2. Row(o) \in Amounts
    BY DEF Sound, TypeOK, Amounts, Row
  <2>3. TypeOK'
    BY <1>1, <2>1, <2>2 DEF Sound, TypeOK
  <2>4. /\ releaseOf'[r] = o /\ view'[r] = Row(o)
        /\ \A s \in Releasers \ {r} : /\ releaseOf'[s] = releaseOf[s] /\ view'[s] = view[s]
                                      /\ releasePc'[s] = releasePc[s]
    BY <2>1 DEF Sound, TypeOK
  <2>5. CopySound(r)'
    <3>1. /\ view'[r].held = amountHeld[o] /\ view'[r].consumed = consumed[o]
          /\ view'[r].released = released[o]
      BY <2>4 DEF Row
    <3>2. ToRelease(r)' = Remaining(o)
      BY <3>1 DEF ToRelease, Remaining
    <3>3. /\ consumed[o] \in Nat /\ released[o] \in Nat /\ Remaining(o) \in Int
          /\ Left(o) = Remaining(o)
      BY <1>4, RowTyped DEF Sound
    <3> QED
      BY <1>1, <1>2, <1>4, <2>4, <3>1, <3>2, <3>3 DEF CopySound
  <2>6. ASSUME NEW s \in Releasers \ {r}, releasePc'[s] = "apply" PROVE CopySound(s)'
    <3>1. CopySound(s) /\ releaseOf'[s] = releaseOf[s] /\ view'[s] = view[s]
      BY <2>4, <2>6 DEF Sound, CopiesSound
    <3>2. ToRelease(s)' = ToRelease(s)
      BY <3>1 DEF ToRelease
    <3> QED
      BY <1>1, <1>2, <3>1, <3>2 DEF CopySound
  <2> QED
    BY <1>3, <2>3, <2>5, <2>6 DEF Sound, CopiesSound
<1>5. CASE ~ (amountHeld[o] > 0 /\ Remaining(o) > 0)
  <2>1. releasePc' = [releasePc EXCEPT ![r] = "done"] /\ UNCHANGED <<releaseOf, view>>
    BY <1>5 DEF ReleaseRead
  <2>2. TypeOK'
    BY <1>1, <2>1 DEF Sound, TypeOK
  <2>3. ASSUME NEW s \in Releasers, releasePc'[s] = "apply" PROVE CopySound(s)'
    <3>1. CopySound(s)
      BY <2>1, <2>3 DEF Sound, TypeOK, CopiesSound
    <3>2. ToRelease(s)' = ToRelease(s)
      BY <2>1 DEF ToRelease
    <3> QED
      BY <1>1, <1>2, <2>1, <3>1, <3>2 DEF CopySound
  <2> QED
    BY <1>3, <2>2, <2>3 DEF Sound, CopiesSound
<1> QED
  BY <1>4, <1>5

\* What applying a release does: at least all that is left is released, and nothing else
\* is only if the copy was current.
LEMMA Releases ==
  ASSUME Sound, NEW r \in Releasers, ReleaseApply(r)
  PROVE  \E o \in Orders :
           /\ o = releaseOf[r] /\ amountHeld[o] > 0
           /\ held' = [held EXCEPT ![Owner[o]] = AtLeastZero(@ - ToRelease(r))]
           /\ released' = [released EXCEPT ![o] = view[r].held - view[r].consumed]
           /\ released'[o] = view[r].held - view[r].consumed
           /\ \A p \in Orders \ {o} : released'[p] = released[p] /\ Remaining(p)' = Remaining(p)
                                      /\ Left(p)' = Left(p)
           /\ ToRelease(r) \in Nat /\ Left(o) <= ToRelease(r)
           /\ released'[o] \in Nat /\ released'[o] > 0 /\ released'[o] <= amountHeld[o]
           /\ Remaining(o)' \in Int /\ Remaining(o)' <= 0 /\ Left(o)' = 0
           /\ torn \subseteq torn' /\ torn' \subseteq torn \cup {o}
           /\ o \notin torn' => ToRelease(r) = Remaining(o) /\ Remaining(o)' = 0
                                /\ Left(o) = Remaining(o)
<1>1. CopySound(r)
  BY DEF ReleaseApply, Sound, CopiesSound
<1>2. PICK o \in Orders : o = releaseOf[r]
  BY <1>1 DEF CopySound
<1>3. /\ amountHeld[o] > 0 /\ view[r].held = amountHeld[o]
      /\ 0 <= view[r].consumed /\ view[r].consumed <= consumed[o] /\ 0 <= view[r].released
      /\ 0 < ToRelease(r) /\ Left(o) <= ToRelease(r)
  BY <1>1, <1>2 DEF CopySound
<1>4. view[r].consumed \in Int /\ view[r].held \in Int /\ view[r].released \in Int
  <2>1. view[r] \in Amounts
    BY DEF Sound, TypeOK
  <2> QED
    BY <2>1 DEF Amounts
<1>5. /\ amountHeld[o] \in Nat /\ consumed[o] \in Nat /\ released[o] \in Nat
      /\ Remaining(o) = amountHeld[o] - consumed[o] - released[o] /\ Remaining(o) \in Int
      /\ (Remaining(o) >= 0 => Left(o) = Remaining(o))
  BY RowTyped DEF Sound
<1>6. ToRelease(r) = view[r].held - view[r].consumed - view[r].released
  BY DEF ToRelease
<1>7. /\ held' = [held EXCEPT ![Owner[o]] = AtLeastZero(@ - ToRelease(r))]
      /\ released' = [released EXCEPT ![o] = view[r].released + ToRelease(r)]
      /\ torn' = IF view[r] = Row(o) THEN torn ELSE torn \cup {o}
      /\ amountHeld' = amountHeld /\ consumed' = consumed
  BY <1>2, <1>6 DEF ReleaseApply, Unhold
<1>8. view[r].released + ToRelease(r) = view[r].held - view[r].consumed
  BY <1>4, <1>6
<1>9. /\ released'[o] = view[r].held - view[r].consumed
      /\ \A p \in Orders \ {o} : released'[p] = released[p]
  BY <1>7, <1>8 DEF Sound, TypeOK
<1>10. \A p \in Orders \ {o} : Remaining(p)' = Remaining(p) /\ Left(p)' = Left(p)
  BY <1>7, <1>9 DEF Remaining, Left, AtLeastZero
<1>11. released'[o] \in Nat /\ released'[o] > 0 /\ released'[o] <= amountHeld[o]
  BY <1>3, <1>4, <1>5, <1>6, <1>9
<1>12. Remaining(o)' = view[r].consumed - consumed[o]
  <2>1. Remaining(o)' = amountHeld[o] - consumed[o] - released'[o]
    BY <1>7 DEF Remaining
  <2> QED
    BY <1>3, <1>4, <1>5, <1>9, <2>1
<1>13. Remaining(o)' \in Int /\ Remaining(o)' <= 0
  BY <1>3, <1>4, <1>5, <1>12
<1>14. Left(o)' = 0
  <2>1. Left(o)' = AtLeastZero(Remaining(o)')
    BY DEF Left, AtLeastZero
  <2> QED
    BY <1>13, <2>1 DEF AtLeastZero
<1>15. o \notin torn' => ToRelease(r) = Remaining(o) /\ Remaining(o)' = 0
                         /\ Left(o) = Remaining(o)
  <2>1. SUFFICES ASSUME o \notin torn'
                 PROVE  ToRelease(r) = Remaining(o) /\ Remaining(o)' = 0 /\ Left(o) = Remaining(o)
    OBVIOUS
  <2>2. view[r] = Row(o)
    BY <1>7, <2>1
  <2>3. view[r].consumed = consumed[o] /\ view[r].released = released[o]
    BY <2>2 DEF Row
  <2>4. ToRelease(r) = Remaining(o)
    BY <1>3, <1>5, <1>6, <2>3
  <2> QED
    BY <1>3, <1>5, <1>12, <2>3, <2>4
<1>16. torn \subseteq torn' /\ torn' \subseteq torn \cup {o}
  BY <1>7
<1>17. ToRelease(r) \in Nat
  BY <1>3, <1>4, <1>6
<1> QED
  BY <1>2, <1>3, <1>7, <1>8, <1>9, <1>10, <1>11, <1>13, <1>14, <1>15, <1>16, <1>17

\* What the copy says is left goes back; of the reservation, nothing is left after it.
LEMMA ReleaseApplySound ==
  ASSUME Sound, NEW r \in Releasers, ReleaseApply(r)
  PROVE  Sound'
<1>1. PICK o \in Orders :
        /\ amountHeld[o] > 0
        /\ held' = [held EXCEPT ![Owner[o]] = AtLeastZero(@ - ToRelease(r))]
        /\ released' = [released EXCEPT ![o] = view[r].held - view[r].consumed]
        /\ released'[o] = view[r].held - view[r].consumed
        /\ \A p \in Orders \ {o} : released'[p] = released[p] /\ Remaining(p)' = Remaining(p)
                                   /\ Left(p)' = Left(p)
        /\ ToRelease(r) \in Nat
        /\ released'[o] \in Nat /\ released'[o] <= amountHeld[o]
        /\ Remaining(o)' \in Int /\ Remaining(o)' <= 0 /\ Left(o)' = 0
        /\ torn \subseteq torn' /\ torn' \subseteq torn \cup {o}
        /\ o \notin torn' => Remaining(o)' = 0
  BY Releases
<1>2. /\ amountHeld[o] \in Nat /\ consumed[o] \in Nat /\ Left(o) \in Nat /\ Remaining(o) \in Int
      /\ Owner[o] \in Users /\ held[Owner[o]] \in Nat
  BY RowTyped DEF Sound
<1>3. UNCHANGED <<cash, amountHeld, consumed, phase, reserveCalls, callsMade, live, stream,
                  settled, refused, deposited, deposits, forgotten>>
  BY DEF ReleaseApply, calls, events, counters
<1>4. /\ releasePc' = [releasePc EXCEPT ![r] = "done"]
      /\ releaseOf' = [releaseOf EXCEPT ![r] = NoOrder]
      /\ view' = [view EXCEPT ![r] = NoView]
  BY DEF ReleaseApply
<1>5. /\ AtLeastZero(held[Owner[o]] - ToRelease(r)) \in Nat
      /\ AtLeastZero(held[Owner[o]] - ToRelease(r)) <= held[Owner[o]]
  BY <1>1, <1>2 DEF AtLeastZero
<1>6. TypeOK'
  <2>1. held' \in [Users -> Nat] /\ released' \in [Orders -> Nat]
    BY <1>1, <1>2, <1>5 DEF Sound, TypeOK
  <2>2. /\ releasePc' \in [Releasers -> {"start", "apply", "done"}]
        /\ releaseOf' \in [Releasers -> Orders \cup {NoOrder}]
        /\ view' \in [Releasers -> Amounts]
    <3>1. NoView \in Amounts
      BY DEF NoView, Amounts
    <3> QED
      BY <1>4, <3>1 DEF Sound, TypeOK
  <2>3. torn' \subseteq Orders
    BY <1>1 DEF Sound, TypeOK
  <2> QED
    BY <1>3, <2>1, <2>2, <2>3 DEF Sound, TypeOK
<1>7. HoldsCovered'
  <2>1. \A p \in Orders \ torn' : Remaining(p)' >= 0
    BY <1>1 DEF Sound, HoldsCovered
  <2>2. \A p \in Orders : consumed'[p] <= amountHeld'[p] /\ released'[p] <= amountHeld'[p]
    BY <1>1, <1>3 DEF Sound, HoldsCovered
  <2>3. ASSUME NEW u \in Users PROVE held'[u] <= cash'[u]
    <3>1. held[u] \in Nat /\ cash[u] \in Nat /\ held[u] <= cash[u] /\ cash'[u] = cash[u]
      BY ONLY Sound, <1>3, <2>3 DEF Sound, TypeOK, HoldsCovered
    <3>2. held'[u] \in Nat /\ held'[u] <= held[u]
      <4>1. CASE u = Owner[o]
        BY ONLY <4>1, <1>1, <1>5, <3>1, Sound DEF Sound, TypeOK
      <4>2. CASE u # Owner[o]
        BY ONLY <4>2, <1>1, <3>1, <2>3, Sound DEF Sound, TypeOK
      <4> QED
        BY ONLY <4>1, <4>2
    <3> QED
      BY ONLY <3>1, <3>2
  <2> QED
    BY <2>1, <2>2, <2>3 DEF HoldsCovered
<1>8. TornSpent'
  BY <1>1, <1>3 DEF Sound, TypeOK, TornSpent
<1>9. ASSUME NEW s \in Releasers, releasePc'[s] = "apply" PROVE CopySound(s)'
  <2>1. CopySound(s) /\ releaseOf'[s] = releaseOf[s] /\ view'[s] = view[s]
    BY <1>4, <1>9 DEF Sound, TypeOK, CopiesSound
  <2>2. PICK p \in Orders : p = releaseOf[s]
    BY <2>1 DEF CopySound
  <2>3. ToRelease(s)' = ToRelease(s)
    BY <2>1 DEF ToRelease
  <2>4. /\ amountHeld[p] > 0 /\ view[s].held = amountHeld[p]
        /\ 0 <= view[s].consumed /\ view[s].consumed <= consumed[p] /\ 0 <= view[s].released
        /\ 0 < ToRelease(s) /\ Left(p) <= ToRelease(s)
    BY <2>1, <2>2 DEF CopySound
  <2>5. Left(p)' <= ToRelease(s)
    <3>1. CASE p = o
      <4>1. Left(p)' = 0
        BY <1>1, <3>1
      <4>2. view[s] \in Amounts
        BY DEF Sound, TypeOK
      <4>3. ToRelease(s) \in Int
        BY <4>2 DEF ToRelease, Amounts
      <4> QED
        BY <2>4, <4>1, <4>3
    <3>2. CASE p # o
      BY <1>1, <2>4, <3>2
    <3> QED
      BY <3>1, <3>2
  <2> QED
    BY <1>3, <2>1, <2>2, <2>3, <2>4, <2>5 DEF CopySound
<1> QED
  BY <1>6, <1>7, <1>8, <1>9 DEF Sound, CopiesSound

-----------------------------------------------------------------------------
(* The event handlers *)

\* Handling an event marks one more position of its stream.
LEMMA SettleTyped ==
  ASSUME TypeOK, NEW o \in Orders, NEW i \in Nat, Settle(o, i)
  PROVE  settled' \in [Orders -> SUBSET Nat]
  BY DEF TypeOK, Settle

\* What taking c and f, no more than is left, makes of a reservation.
LEMMA Takes ==
  ASSUME Sound, NEW o \in Orders, NEW c \in Nat, NEW f \in Nat, c + f <= Left(o),
         amountHeld' = amountHeld,
         consumed'[o] = consumed[o] + c, released'[o] = released[o] + f
  PROVE  /\ consumed'[o] \in Nat /\ released'[o] \in Nat /\ consumed[o] <= consumed'[o]
         /\ consumed'[o] <= amountHeld[o] /\ released'[o] <= amountHeld[o]
         /\ Remaining(o)' = Remaining(o) - c - f /\ Remaining(o)' \in Int
         /\ Left(o)' = Left(o) - c - f /\ Left(o)' \in Nat
         /\ (Remaining(o) >= 0 => Remaining(o)' >= 0)
         /\ (Remaining(o) <= 0 => Remaining(o)' <= 0)
<1>1. /\ amountHeld[o] \in Nat /\ consumed[o] \in Nat /\ released[o] \in Nat
      /\ consumed[o] <= amountHeld[o] /\ released[o] <= amountHeld[o]
      /\ Remaining(o) = amountHeld[o] - consumed[o] - released[o]
      /\ Remaining(o) \in Int /\ Left(o) \in Nat
      /\ (Remaining(o) >= 0 => Left(o) = Remaining(o))
      /\ (Remaining(o) <= 0 => Left(o) = 0)
  BY RowTyped DEF Sound
<1>2. Remaining(o)' = Remaining(o) - c - f
  <2>1. Remaining(o)' = amountHeld[o] - (consumed[o] + c) - (released[o] + f)
    BY DEF Remaining
  <2> QED
    BY <1>1, <2>1
<1>3. Left(o)' = AtLeastZero(Remaining(o) - c - f)
  BY <1>2 DEF Left, AtLeastZero
<1>4. Left(o)' = Left(o) - c - f
  <2>1. CASE Remaining(o) >= 0
    BY <1>1, <1>3, <2>1 DEF AtLeastZero
  <2>2. CASE Remaining(o) < 0
    BY <1>1, <1>3, <2>2 DEF AtLeastZero
  <2> QED
    BY <1>1, <2>1, <2>2
<1> QED
  BY <1>1, <1>2, <1>4

\* A fill: the CHECKs speak for the buyer, the hold for the reservation.
LEMMA SettleFillSound ==
  ASSUME Sound, NEW o \in Orders, NEW i \in DOMAIN stream[o], SettleFill(o, i)
  PROVE  Sound'
<1> DEFINE e == stream[o][i]
           u == Owner[o]
           c == Consumed(o, e)
           f == ReleasedByFill(o, e)
           taken == IF IsUnreserved(o) THEN 0 ELSE c
           paid == [cash EXCEPT ![u] = CashAfter(o, e)]
<1>1. /\ i \in Nat /\ u \in Users /\ e.seller \in Users /\ Cost(e) \in Nat
      /\ c \in Nat /\ f \in Nat /\ Left(o) \in Nat /\ Remaining(o) \in Int
      /\ taken \in Nat /\ taken + f <= Left(o)
      /\ consumed[o] \in Nat /\ released[o] \in Nat
  <2>1. /\ i \in Nat /\ u \in Users /\ e.seller \in Users /\ Cost(e) \in Nat
        /\ Left(o) \in Nat /\ Remaining(o) \in Int
        /\ consumed[o] \in Nat /\ released[o] \in Nat
    BY EventTyped, RowTyped DEF Sound
  <2>2. /\ c \in Nat /\ f \in Nat
        /\ ~ IsUnreserved(o) => c <= Left(o) /\ f = IF e.left = 0 THEN Left(o) - c ELSE 0
        /\ IsUnreserved(o) => f = 0
    BY FillWithinHold DEF Sound
  <2> HIDE DEF c, f
  <2>3. taken \in Nat /\ taken + f <= Left(o)
    BY <2>1, <2>2
  <2> QED
    BY <2>1, <2>2, <2>3
<1>2. /\ cash' = [paid EXCEPT ![e.seller] = @ + Cost(e)]
      /\ held' = [held EXCEPT ![u] = HeldAfter(o, e)]
      /\ consumed' = [consumed EXCEPT ![o] = IF IsUnreserved(o) THEN @ ELSE @ + c]
      /\ released' = [released EXCEPT ![o] = @ + f]
      /\ CashAfter(o, e) >= 0 /\ HeldAfter(o, e) <= CashAfter(o, e)
  BY DEF SettleFill, Proceeds, ChecksPass
<1>3. CashAfter(o, e) \in Nat /\ HeldAfter(o, e) \in Nat
  <2>1. cash[u] \in Nat /\ held[u] \in Nat
    BY <1>1 DEF Sound, TypeOK
  <2>2. CashAfter(o, e) \in Int
    BY <1>1, <2>1 DEF CashAfter
  <2>3. AtLeastZero(held[u] - c) \in Nat
    BY <1>1, <2>1, AtLeastZeroNat
  <2>4. HeldAfter(o, e) \in Nat
    BY <1>1, <2>3, AtLeastZeroNat DEF HeldAfter
  <2> QED
    BY <1>2, <2>2, <2>4
<1> HIDE DEF e, u, c, f
<1>4. paid \in [Users -> Nat] /\ (\A v \in Users \ {u} : paid[v] = cash[v])
      /\ paid[u] = CashAfter(o, e)
  BY <1>1, <1>3 DEF Sound, TypeOK
<1> HIDE DEF paid
<1>5. cash' \in [Users -> Nat] /\ \A v \in Users : cash'[v] >= paid[v]
  BY <1>1, <1>2, <1>4
<1>6. UNCHANGED <<amountHeld, phase, reserveCalls, callsMade, live, stream, refused,
                  releasePc, releaseOf, view, deposited, deposits, forgotten, torn>>
  BY DEF SettleFill, calls, releases, counters, history
<1>7. /\ consumed'[o] = consumed[o] + taken /\ released'[o] = released[o] + f
      /\ \A p \in Orders \ {o} : consumed'[p] = consumed[p] /\ released'[p] = released[p]
  <2>1. consumed \in [Orders -> Nat] /\ released \in [Orders -> Nat]
    BY DEF Sound, TypeOK
  <2> QED
    BY <1>1, <1>2, <2>1
<1> HIDE DEF taken
<1>8. /\ consumed'[o] \in Nat /\ released'[o] \in Nat /\ consumed[o] <= consumed'[o]
      /\ consumed'[o] <= amountHeld[o] /\ released'[o] <= amountHeld[o]
      /\ Remaining(o)' \in Int
      /\ Left(o)' = Left(o) - taken - f /\ Left(o)' \in Nat
      /\ (Remaining(o) >= 0 => Remaining(o)' >= 0)
      /\ (Remaining(o) <= 0 => Remaining(o)' <= 0)
  BY <1>1, <1>6, <1>7, Takes
<1>9. TypeOK'
  <2>1. held' \in [Users -> Nat]
    BY <1>2, <1>3 DEF Sound, TypeOK
  <2>2. consumed' \in [Orders -> Nat] /\ released' \in [Orders -> Nat]
    <3>1. consumed \in [Orders -> Nat] /\ released \in [Orders -> Nat]
      BY DEF Sound, TypeOK
    <3>2. \A p \in Orders : consumed'[p] \in Nat /\ released'[p] \in Nat
      BY <1>7, <1>8, <3>1
    <3> QED
      BY <1>2, <3>1, <3>2
  <2>3. settled' \in [Orders -> SUBSET Nat]
    BY <1>1, SettleTyped DEF SettleFill, Sound
  <2> QED
    BY <1>5, <1>6, <2>1, <2>2, <2>3 DEF Sound, TypeOK
<1>10. HoldsCovered'
  <2>1. \A v \in Users : held'[v] <= paid[v]
    BY <1>1, <1>2, <1>3, <1>4 DEF Sound, TypeOK, HoldsCovered
  <2>2. \A v \in Users : held'[v] <= cash'[v]
    BY <1>4, <1>5, <1>9, <2>1 DEF TypeOK
  <2>3. \A p \in Orders \ {o} : Remaining(p)' = Remaining(p)
    BY <1>6, <1>7 DEF Remaining
  <2> QED
    BY <1>6, <1>7, <1>8, <2>2, <2>3 DEF Sound, HoldsCovered
<1>11. CopiesSound' /\ TornSpent'
  <2>1. Left(o)' <= Left(o)
    BY <1>1, <1>8
  <2> QED
    BY <1>1, <1>6, <1>7, <1>8, <2>1, CopiesKept
<1> QED
  BY <1>9, <1>10, <1>11 DEF Sound

LEMMA RefuseFillSound ==
  ASSUME Sound, NEW o \in Orders, NEW i \in DOMAIN stream[o], RefuseFill(o, i)
  PROVE  Sound'
<1>1. settled' \in [Orders -> SUBSET Nat]
  BY EventTyped, SettleTyped DEF RefuseFill, Sound
<1>2. TypeOK'
  BY <1>1
  DEF RefuseFill, Sound, TypeOK, balances, reservations, calls, releases, counters, history
<1>3. HoldsCovered' /\ CopiesSound' /\ TornSpent'
  BY FundsUntouched DEF RefuseFill, history
<1> QED
  BY <1>2, <1>3 DEF Sound

LEMMA HandleReleaseSound ==
  ASSUME Sound, NEW o \in Orders, NEW i \in DOMAIN stream[o], HandleRelease(o, i)
  PROVE  Sound'
<1>1. settled' \in [Orders -> SUBSET Nat]
  BY EventTyped, SettleTyped DEF HandleRelease, Sound
<1>2. UNCHANGED <<cash, amountHeld, consumed, phase, reserveCalls, callsMade, live, stream,
                  refused, releasePc, releaseOf, view, deposited, deposits, forgotten, torn>>
  BY DEF HandleRelease, calls, releases, counters, history
<1>3. /\ Owner[o] \in Users /\ held[Owner[o]] \in Nat /\ Remaining(o) \in Int /\ Left(o) \in Nat
      /\ (Remaining(o) >= 0 => Left(o) = Remaining(o))
      /\ amountHeld[o] \in Nat /\ consumed[o] \in Nat /\ released[o] \in Nat
  BY RowTyped DEF Sound
<1>4. CASE amountHeld[o] > 0 /\ Remaining(o) > 0
  <2>1. /\ held' = [held EXCEPT ![Owner[o]] = AtLeastZero(@ - Remaining(o))]
        /\ released' = [released EXCEPT ![o] = @ + Remaining(o)]
    BY <1>4 DEF HandleRelease, Unhold
  <2>2. /\ AtLeastZero(held[Owner[o]] - Remaining(o)) \in Nat
        /\ AtLeastZero(held[Owner[o]] - Remaining(o)) <= held[Owner[o]]
    BY <1>3, <1>4 DEF AtLeastZero
  <2>3. held' \in [Users -> Nat] /\ released' \in [Orders -> Nat]
    <3>1. held \in [Users -> Nat] /\ released \in [Orders -> Nat]
      BY DEF Sound, TypeOK
    <3>2. released[o] + Remaining(o) \in Nat
      BY <1>3, <1>4
    <3> QED
      BY <1>3, <2>1, <2>2, <3>1, <3>2
  <2>4. TypeOK'
    BY <1>1, <1>2, <2>3 DEF Sound, TypeOK
  <2>5. /\ consumed'[o] = consumed[o] + 0 /\ released'[o] = released[o] + Remaining(o)
        /\ \A p \in Orders \ {o} : consumed'[p] = consumed[p] /\ released'[p] = released[p]
    BY <1>2, <1>3, <2>1 DEF Sound, TypeOK
  <2>6. 0 \in Nat /\ Remaining(o) \in Nat /\ 0 + Remaining(o) <= Left(o)
    BY <1>3, <1>4
  <2>7. /\ consumed'[o] \in Nat /\ released'[o] \in Nat /\ consumed[o] <= consumed'[o]
        /\ consumed'[o] <= amountHeld[o] /\ released'[o] <= amountHeld[o]
        /\ Remaining(o)' \in Int
        /\ Left(o)' = Left(o) - 0 - Remaining(o) /\ Left(o)' \in Nat
        /\ (Remaining(o) >= 0 => Remaining(o)' >= 0)
        /\ (Remaining(o) <= 0 => Remaining(o)' <= 0)
    BY <1>2, <2>5, <2>6, Takes
  <2>8. HoldsCovered'
    <3>1. /\ held \in [Users -> Nat] /\ cash \in [Users -> Nat]
          /\ \A v \in Users : held[v] <= cash[v]
      BY DEF Sound, TypeOK, HoldsCovered
    <3>2. ASSUME NEW v \in Users
          PROVE  held'[v] <= held[v] /\ held'[v] \in Nat
      BY <1>3, <2>1, <2>2, <3>1
    <3>3. \A v \in Users : held'[v] <= cash'[v]
      BY <1>2, <3>1, <3>2
    <3>4. \A p \in Orders \ {o} : Remaining(p)' = Remaining(p)
      BY <1>2, <2>5 DEF Remaining
    <3> QED
      BY <1>2, <1>4, <2>5, <2>7, <3>3, <3>4 DEF Sound, HoldsCovered
  <2>9. CopiesSound' /\ TornSpent'
    <3>1. Left(o)' <= Left(o)
      BY <1>3, <1>4, <2>7
    <3> QED
      BY <1>2, <1>3, <2>5, <2>7, <3>1, CopiesKept
  <2> QED
    BY <2>4, <2>8, <2>9 DEF Sound
<1>5. CASE ~ (amountHeld[o] > 0 /\ Remaining(o) > 0)
  <2>1. UNCHANGED <<held, released>>
    BY <1>5 DEF HandleRelease
  <2>2. TypeOK'
    BY <1>1, <1>2, <2>1 DEF Sound, TypeOK
  <2>3. HoldsCovered' /\ CopiesSound' /\ TornSpent'
    BY <1>2, <2>1, FundsUntouched DEF balances, reservations, releases
  <2> QED
    BY <2>2, <2>3 DEF Sound
<1> QED
  BY <1>4, <1>5

-----------------------------------------------------------------------------
(* The callers *)

LEMMA CallReserveSound ==
  ASSUME Sound, NEW o \in Orders, CallReserve(o)
  PROVE  Sound'
<1>1. callsMade[o] + 1 \in Nat
  BY DEF Sound, TypeOK
<1>2. callsMade' \in [Orders -> Nat]
  BY <1>1 DEF CallReserve, Sound, TypeOK
<1>3. reserveCalls' \in [Orders -> Nat] /\ phase' \in [Orders -> Phases]
  BY DEF CallReserve, Sound, TypeOK, Phases, Goto
<1>4. TypeOK'
  BY <1>2, <1>3
  DEF CallReserve, Sound, TypeOK, balances, reservations, events, releases, counters, history
<1> QED
  BY <1>4, FundsUntouched DEF CallReserve, Sound, history

LEMMA GiveUpSound ==
  ASSUME Sound, NEW o \in Orders, GiveUp(o)
  PROVE  Sound'
<1>1. TypeOK'
  BY DEF GiveUp, Sound, TypeOK, Phases, Goto, balances, reservations, calls, events, releases,
         counters, history
<1> QED
  BY <1>1, FundsUntouched DEF GiveUp, Sound, history

LEMMA PublishAcceptedSound ==
  ASSUME Sound, NEW o \in Orders, PublishAccepted(o)
  PROVE  Sound'
<1>1. phase' \in [Orders -> Phases]
  BY DEF PublishAccepted, Sound, TypeOK, Phases, Goto
<1>2. live' \in [Orders -> Nat]
  BY AmountAssumption DEF PublishAccepted, Sound, TypeOK, Rest
<1>3. TypeOK'
  BY <1>1, <1>2
  DEF PublishAccepted, Sound, TypeOK, balances, reservations, calls, events, releases, counters, history
<1> QED
  BY <1>3, FundsUntouched DEF PublishAccepted, Sound, history

LEMMA RejectSound ==
  ASSUME Sound, NEW o \in Orders, Reject(o)
  PROVE  Sound'
<1>1. stream' \in [Orders -> Seq(Events)]
  BY TellTyped, PlainEventTyped DEF Reject, Sound, TypeOK
<1>2. phase' \in [Orders -> Phases] /\ forgotten' \subseteq Orders
  BY DEF Reject, Sound, TypeOK, Phases, Goto
<1>3. TypeOK'
  BY <1>1, <1>2 DEF Reject, Sound, TypeOK, balances, reservations, calls, releases, counters, history
<1> QED
  BY <1>3, FundsUntouched DEF Reject, Sound

LEMMA TradeSound ==
  ASSUME Sound, NEW o \in Orders, NEW seller \in Users, NEW price \in Prices,
         NEW q \in 1..Quantity[o], Trade(o, seller, price, q)
  PROVE  Sound'
<1>1. q \in Nat /\ live[o] - q \in Nat
  BY AmountAssumption DEF Trade, Sound, TypeOK
<1>2. [kind |-> "trade.executed", seller |-> seller, price |-> price, quantity |-> q,
       left |-> live[o] - q] \in Events
  BY <1>1 DEF Events
<1>3. stream' \in [Orders -> Seq(Events)]
  BY <1>2, TellTyped DEF Trade, Sound
<1>4. TypeOK'
  BY <1>1, <1>3 DEF Trade, Sound, TypeOK, balances, reservations, calls, releases, counters, history
<1> QED
  BY <1>4, FundsUntouched DEF Trade, Sound, history

LEMMA CancelSound ==
  ASSUME Sound, NEW o \in Orders, Cancel(o)
  PROVE  Sound'
<1>1. stream' \in [Orders -> Seq(Events)]
  BY TellTyped, PlainEventTyped DEF Cancel, Sound
<1>2. TypeOK'
  BY <1>1 DEF Cancel, Sound, TypeOK, balances, reservations, calls, releases, counters, history
<1> QED
  BY <1>2, FundsUntouched DEF Cancel, Sound, history

-----------------------------------------------------------------------------
LEMMA SoundNext == Sound /\ [Next]_vars => Sound'
<1> SUFFICES ASSUME Sound, [Next]_vars PROVE Sound'
  OBVIOUS
<1>1. CASE UNCHANGED vars
  <2>1. UNCHANGED <<balances, reservations, releases, torn>>
    BY <1>1 DEF vars, history
  <2>2. TypeOK'
    BY <1>1 DEF vars, balances, reservations, calls, events, releases, counters, history,
                Sound, TypeOK
  <2> QED
    BY <2>1, <2>2, FundsUntouched DEF Sound
<1>2. ASSUME NEW u \in Users, NEW amount \in Deposits, Deposit(u, amount) PROVE Sound'
  BY <1>2, DepositSound
<1>3. ASSUME NEW o \in Orders, ReserveFunds(o) PROVE Sound'
  BY <1>3, ReserveSound
<1>4. ASSUME NEW o \in Orders, HandlerStep(o) PROVE Sound'
  BY <1>4, SettleFillSound, RefuseFillSound, HandleReleaseSound DEF HandlerStep
<1>5. ASSUME NEW o \in Orders, CallerStep(o) PROVE Sound'
  BY <1>5, CallReserveSound, GiveUpSound, PublishAcceptedSound, RejectSound, TradeSound, CancelSound
  DEF CallerStep
<1>6. ASSUME NEW r \in Releasers, ReleaseApply(r) PROVE Sound'
  BY <1>6, ReleaseApplySound
<1>7. ASSUME NEW r \in Releasers, NEW o \in Orders, ReleaseRead(r, o) PROVE Sound'
  BY <1>7, ReleaseReadSound
<1> QED
  BY <1>1, <1>2, <1>3, <1>4, <1>5, <1>6, <1>7 DEF Next

LEMMA AlwaysSound == Spec => []Sound
<1>1. Sound /\ [Next]_vars => Sound'
  BY SoundNext
<1> QED
  BY <1>1, SoundInit, PTL DEF Spec

\* The state keeps its shape; in particular cash and held balances never go negative,
\* for any prices, quantities and interleaving of reserves, releases and events.
THEOREM TypeCorrect == Spec => []TypeOK
<1>1. Sound => TypeOK
  BY DEF Sound
<1> QED
  BY <1>1, AlwaysSound, PTL

\* No account has more held than cash: the hold of reserve_funds keeps ck_held_le_cash by
\* itself, and fills keep it by the CHECKs.  Neither fills nor releases give up more of a
\* reservation than it holds, and both together do only if a release overlapped.
THEOREM HoldsAlwaysCovered == Spec => []HoldsCovered
<1>1. Sound => HoldsCovered
  BY DEF Sound
<1> QED
  BY <1>1, AlwaysSound, PTL

-----------------------------------------------------------------------------
(* The books *)

\* Where the caller stands, and what it may have told the engine, agree with the row.
CallerSound(o) ==
  /\ amountHeld[o] \in {0, Hold(o)}
  /\ phase[o] \in {"idle", "reserving", "declined", "held"} =>
       /\ stream[o] = <<>> /\ live[o] = 0 /\ consumed[o] = 0 /\ released[o] = 0
       /\ \A r \in Releasers : releaseOf[r] # o
  /\ phase[o] \in {"held", "live"} \/ live[o] > 0 => amountHeld[o] # 0

\* Only what was published is handled, and only held orders trade.
EventsSound(o) ==
  /\ settled[o] \subseteq DOMAIN stream[o]
  /\ \A i \in DOMAIN stream[o] : IsFill(o, i) =>
       amountHeld[o] # 0 /\ (o \in Market \/ stream[o][i].price <= Limit[o])

\* HoldCoversRest, also once nothing is left in the book.
CoversRest(o) ==
  o \notin Market /\ released[o] = 0 => Remaining(o) >= Limit[o] * ToPay(o)

\* The event is the last of its order.
Ends(o, i) == ~ IsFill(o, i) \/ stream[o][i].left = 0

\* What is left of a hold waits for the order to end, or for the event of its end.
EndingSound(o) ==
  amountHeld[o] # 0 /\ Remaining(o) > 0 =>
    \/ o \in forgotten \/ o \in refused
    \/ phase[o] \notin {"live", "rejected"} \/ live[o] > 0
    \/ \E i \in Unsettled(o) : Ends(o, i)

\* No release of the owner's holds worked on a stale copy.
Whole(u) == torn \cap OrdersOf(u) = {}

RefusalSound(o) == o \in refused /\ o \notin Market => released[o] > 0 \/ ~ Whole(Owner[o])

OrderSound(o) ==
  CallerSound(o) /\ EventsSound(o) /\ CoversRest(o) /\ EndingSound(o) /\ RefusalSound(o)

Ledger ==
  /\ CashConserved /\ HeldMatchesReservations
  /\ \A o \in Orders : OrderSound(o)

LEMMA Distributes == \A a, b, c \in Int : a * (b + c) = a * b + a * c /\ a * (b - c) = a * b - a * c
  OBVIOUS

LEMMA ProductGrows == \A a, b, c \in Nat : b <= c => a * b <= a * c /\ b * a <= c * a
  OBVIOUS

\* A hold is something.
LEMMA HoldPositive == \A o \in Orders : Hold(o) \in Nat \ {0}
<1> SUFFICES ASSUME NEW o \in Orders PROVE Hold(o) \in Nat \ {0}
  OBVIOUS
<1>1. Limit[o] \in Nat \ {0} /\ Quantity[o] \in Nat \ {0}
  BY AmountAssumption
<1>2. \A x, y \in Nat \ {0} : x * y \in Nat \ {0}
  OBVIOUS
<1> QED
  BY <1>1, <1>2 DEF Hold

LEMMA OrdersOfFinite == \A u : IsFiniteSet(OrdersOf(u)) /\ OrdersOf(u) \subseteq Orders
  BY FiniteAssumption, FS_Subset DEF OrdersOf

\* What is left of one hold is among what is held, unless a stale release freed of it.
LEMMA HoldWithinHeld ==
  ASSUME Sound, HeldMatchesReservations, NEW o \in Orders, Whole(Owner[o])
  PROVE  Left(o) <= held[Owner[o]]
<1> DEFINE f == LeftOfHolds
           S == OrdersOf(Owner[o])
<1>1. \A p \in S : f[p] \in Nat
  BY OrdersOfFinite, RowTyped DEF LeftOfHolds, Left, Sound
<1>2. IsFiniteSet(S) /\ o \in S /\ f[o] = Left(o)
  BY OrdersOfFinite DEF OrdersOf, LeftOfHolds, Left
<1>3. held[Owner[o]] = SumFunctionOnSet(f, S)
  BY OwnerAssumption DEF HeldMatchesReservations, Whole, Reserved
<1> HIDE DEF f, S
<1>4. f[o] <= SumFunctionOnSet(f, S)
  BY <1>1, <1>2, SumNat
<1> QED
  BY <1>2, <1>3, <1>4

\* The books of holds stay in order when one reservation changes and its owner's balance
\* by as much, or by more if it is the clamp's or a stale release's doing.
LEMMA HoldMoves ==
  ASSUME Sound, Sound', HeldMatchesReservations, NEW o \in Orders, NEW h \in Nat,
         \A p \in Orders \ {o} : Left(p)' = Left(p),
         held' = [held EXCEPT ![Owner[o]] = h],
         h <= AtLeastZero(held[Owner[o]] + Left(o)' - Left(o)),
         torn \subseteq torn', torn' \subseteq torn \cup {o},
         Whole(Owner[o])' => h = held[Owner[o]] + Left(o)' - Left(o)
  PROVE  HeldMatchesReservations'
<1> DEFINE f == LeftOfHolds
           g == LeftOfHolds'
<1>1. \A p \in Orders : f[p] \in Nat /\ g[p] \in Nat /\ f[p] = Left(p) /\ g[p] = Left(p)'
  <2>1. \A p \in Orders : Left(p) \in Nat
    BY RowTyped DEF Sound
  <2>2. \A p \in Orders : Left(p)' \in Nat
    <3>1. /\ amountHeld' \in [Orders -> Nat]
          /\ consumed' \in [Orders -> Nat] /\ released' \in [Orders -> Nat]
      BY DEF Sound, TypeOK
    <3>2. ASSUME NEW p \in Orders PROVE Left(p)' \in Nat
      <4>1. Remaining(p)' \in Int
        BY <3>1 DEF Remaining
      <4> QED
        BY <4>1 DEF Left, AtLeastZero
    <3> QED
      BY <3>2
  <2> QED
    BY <2>1, <2>2 DEF LeftOfHolds, Left
<1>2. \A p \in Orders \ {o} : g[p] = f[p]
  BY <1>1
<1>3. \A u \in Users : /\ held[u] <= SumFunctionOnSet(f, OrdersOf(u))
                       /\ Whole(u) => held[u] = SumFunctionOnSet(f, OrdersOf(u))
  BY DEF HeldMatchesReservations, Whole, Reserved
<1>4. o \in OrdersOf(Owner[o]) /\ \A u \in Users \ {Owner[o]} : o \notin OrdersOf(u)
  BY DEF OrdersOf
<1>5. held \in [Users -> Nat] /\ Owner[o] \in Users
  BY OwnerAssumption DEF Sound, TypeOK
<1>6. \A u \in Users : held'[u] = IF u = Owner[o] THEN h ELSE held[u]
  BY <1>5
<1>7. h <= AtLeastZero(held[Owner[o]] + g[o] - f[o])
      /\ (Whole(Owner[o])' => h = held[Owner[o]] + g[o] - f[o])
  BY <1>1
<1>8. \A u \in Users : Whole(u)' => Whole(u)
  BY DEF Whole, OrdersOf
<1> HIDE DEF f, g
<1>9. ASSUME NEW u \in Users
      PROVE  /\ held'[u] <= SumFunctionOnSet(g, OrdersOf(u))
             /\ Whole(u)' => held'[u] = SumFunctionOnSet(g, OrdersOf(u))
  <2> DEFINE S == OrdersOf(u)
  <2>1. IsFiniteSet(S) /\ S \subseteq Orders
    BY OrdersOfFinite
  <2>2. held[u] <= SumFunctionOnSet(f, S) /\ (Whole(u) => held[u] = SumFunctionOnSet(f, S))
    BY <1>3
  <2>3. o \in S <=> u = Owner[o]
    BY <1>4
  <2>4. SumFunctionOnSet(f, S) \in Nat /\ SumFunctionOnSet(g, S) \in Nat
    BY <1>1, <2>1, SumNat
  <2>5. held[u] \in Nat /\ held[Owner[o]] \in Nat /\ f[o] \in Nat /\ g[o] \in Nat
    BY <1>1, <1>5
  <2> HIDE DEF S
  <2>6. CASE o \in S
    <3>1. SumFunctionOnSet(g, S) = SumFunctionOnSet(f, S) + g[o] - f[o]
      BY <1>1, <1>2, <2>1, <2>6, SumChange
    <3>2. u = Owner[o] /\ held'[u] = h
      BY <1>6, <2>3, <2>6
    <3>3. AtLeastZero(held[u] + g[o] - f[o]) <= SumFunctionOnSet(g, S)
      BY <2>2, <2>4, <2>5, <3>1 DEF AtLeastZero
    <3>4. h <= SumFunctionOnSet(g, S)
      <4>1. AtLeastZero(held[u] + g[o] - f[o]) \in Int
        BY <2>5 DEF AtLeastZero
      <4> QED
        BY <1>7, <2>4, <3>2, <3>3, <4>1
    <3>5. Whole(u)' => h = SumFunctionOnSet(g, S)
      BY <1>7, <1>8, <2>2, <2>4, <2>5, <3>1, <3>2
    <3> QED
      BY <3>2, <3>4, <3>5 DEF S
  <2>7. CASE o \notin S
    <3>1. SumFunctionOnSet(f, S) = SumFunctionOnSet(g, S)
      BY <1>2, <2>1, <2>7, SumEqual
    <3> QED
      BY <1>6, <1>8, <2>2, <2>3, <2>7, <3>1 DEF S
  <2> QED
    BY <2>6, <2>7
<1>10. \A u \in Users : OrdersOf(u)' = OrdersOf(u)
  BY DEF OrdersOf
<1> QED
  BY <1>9, <1>10 DEF HeldMatchesReservations, Reserved, Whole, g

\* A step that touches no hold.
LEMMA HoldsUntouched ==
  ASSUME HeldMatchesReservations, UNCHANGED <<held, amountHeld, consumed, released, torn>>
  PROVE  HeldMatchesReservations'
<1>1. LeftOfHolds' = LeftOfHolds
  BY DEF LeftOfHolds, Remaining, AtLeastZero
<1>2. \A u \in Users : OrdersOf(u)' = OrdersOf(u)
  BY DEF OrdersOf
<1> QED
  BY <1>1, <1>2 DEF HeldMatchesReservations, Reserved

\* Money that one account gets.
LEMMA TotalMoves ==
  ASSUME NEW f \in [Users -> Int], NEW u \in Users, NEW x \in Int
  PROVE  Total([f EXCEPT ![u] = @ + x]) = Total(f) + x /\ Total(f) \in Int
<1> DEFINE g == [f EXCEPT ![u] = @ + x]
<1>1. /\ \A v \in Users : f[v] \in Int /\ g[v] \in Int
      /\ \A v \in Users \ {u} : g[v] = f[v]
      /\ g[u] = f[u] + x
  OBVIOUS
<1> HIDE DEF g
<1>2. SumFunctionOnSet(g, Users) = SumFunctionOnSet(f, Users) + g[u] - f[u]
  BY <1>1, FiniteAssumption, SumChange
<1>3. SumFunctionOnSet(f, Users) \in Int
  BY <1>1, FiniteAssumption, SumInt
<1> QED
  BY <1>1, <1>2, <1>3 DEF Total, g

-----------------------------------------------------------------------------
(* What is still to be paid *)

\* The quantities on the bus are numbers, and each is part of what is to be paid.
LEMMA ToPayTyped ==
  ASSUME Sound, NEW o \in Orders
  PROVE  /\ live[o] \in Nat /\ ToPay(o) \in Nat /\ live[o] <= ToPay(o)
         /\ SumFunctionOnSet(Quantities(stream[o]), Unsettled(o)) \in Nat
         /\ IsFiniteSet(Unsettled(o))
         /\ \A i \in DOMAIN stream[o] : Quantities(stream[o])[i] = stream[o][i].quantity
                                        /\ stream[o][i].quantity \in Nat
         /\ \A i \in Unsettled(o) : stream[o][i].quantity <= ToPay(o) - live[o]
<1> DEFINE f == Quantities(stream[o])
           S == Unsettled(o)
<1>1. IsFiniteSet(S) /\ S \subseteq DOMAIN stream[o]
  <2>1. DOMAIN stream[o] = 1..Len(stream[o]) /\ Len(stream[o]) \in Nat
    BY DEF Sound, TypeOK
  <2>2. IsFiniteSet(DOMAIN stream[o])
    BY <2>1, FS_Interval
  <2> QED
    BY <2>2, FS_Subset DEF Unsettled
<1>2. \A i \in DOMAIN stream[o] : f[i] = stream[o][i].quantity /\ stream[o][i].quantity \in Nat
  BY EventTyped DEF Quantities, Sound
<1>3. live[o] \in Nat
  BY DEF Sound, TypeOK
<1> HIDE DEF f, S
<1>4. /\ SumFunctionOnSet(f, S) \in Nat
      /\ \A i \in S : f[i] <= SumFunctionOnSet(f, S)
  BY <1>1, <1>2, SumNat
<1>5. ToPay(o) = live[o] + SumFunctionOnSet(f, S)
  BY DEF ToPay, f, S
<1>6. \A i \in S : stream[o][i].quantity <= ToPay(o) - live[o]
  BY <1>1, <1>2, <1>3, <1>4, <1>5
<1>7. ToPay(o) \in Nat /\ live[o] <= ToPay(o)
  BY <1>3, <1>4, <1>5
<1> QED
  BY <1>1, <1>2, <1>3, <1>4, <1>6, <1>7 DEF f, S

\* An event that is handled is no longer to be paid.
LEMMA ToPaySettled ==
  ASSUME Sound, NEW o \in Orders, NEW i \in Unsettled(o), Settle(o, i),
         live'[o] = live[o], stream' = stream
  PROVE  /\ ToPay(o)' = ToPay(o) - stream[o][i].quantity
         /\ Unsettled(o)' = Unsettled(o) \ {i}
         /\ settled'[o] = settled[o] \cup {i}
<1> DEFINE f == Quantities(stream[o])
           S == Unsettled(o)
<1>1. settled'[o] = settled[o] \cup {i}
  BY DEF Settle, Sound, TypeOK
<1>2. S' = S \ {i}
  BY <1>1 DEF Unsettled
<1>3. IsFiniteSet(S) /\ \A j \in S : f[j] \in Int
  BY ToPayTyped DEF Unsettled
<1>4. f[i] = stream[o][i].quantity /\ SumFunctionOnSet(f, S) \in Nat /\ live[o] \in Nat
      /\ f[i] \in Int
  <2>1. i \in DOMAIN stream[o]
    BY DEF Unsettled
  <2> QED
    BY <2>1, ToPayTyped
<1>5. ToPay(o) = live[o] + SumFunctionOnSet(f, S)
  BY DEF ToPay
<1>6. ToPay(o)' = live[o] + SumFunctionOnSet(f, S \ {i})
  BY <1>2 DEF ToPay
<1>7. S = Unsettled(o)
  OBVIOUS
<1>8. IsFiniteSet(S \ {i}) /\ \A j \in S \ {i} : f[j] \in Int
  BY <1>3, FS_Subset
<1> HIDE DEF f, S
<1>9. SumFunctionOnSet(f, S) = f[i] + SumFunctionOnSet(f, S \ {i})
  BY <1>3, <1>7, SumRemove
<1>10. SumFunctionOnSet(f, S \ {i}) \in Int
  BY <1>8, SumInt
<1>11. ToPay(o)' = ToPay(o) - stream[o][i].quantity
  BY <1>4, <1>5, <1>6, <1>9, <1>10
<1> QED
  BY <1>1, <1>2, <1>11 DEF S

\* An event that is published is.
LEMMA ToPayTold ==
  ASSUME Sound, NEW o \in Orders, EventsSound(o), NEW e \in Events, Tell(o, e),
         settled' = settled, live'[o] \in Nat
  PROVE  /\ ToPay(o)' = ToPay(o) - live[o] + live'[o] + e.quantity
         /\ Unsettled(o)' = Unsettled(o) \cup {Len(stream[o]) + 1}
         /\ Len(stream[o]) + 1 \notin DOMAIN stream[o]
         /\ DOMAIN stream'[o] = DOMAIN stream[o] \cup {Len(stream[o]) + 1}
         /\ stream'[o][Len(stream[o]) + 1] = e
         /\ \A i \in DOMAIN stream[o] : stream'[o][i] = stream[o][i]
<1> DEFINE n == Len(stream[o]) + 1
           f == Quantities(stream[o])
           g == Quantities(stream'[o])
           S == Unsettled(o)
<1>1. stream[o] \in Seq(Events) /\ stream'[o] = Append(stream[o], e)
  BY DEF Tell, Sound, TypeOK
<1>2. /\ n \notin DOMAIN stream[o] /\ DOMAIN stream'[o] = DOMAIN stream[o] \cup {n}
      /\ stream'[o][n] = e
      /\ \A i \in DOMAIN stream[o] : stream'[o][i] = stream[o][i]
  BY <1>1
<1>3. S' = S \cup {n} /\ n \notin S
  BY <1>2 DEF Unsettled, EventsSound
<1>4. e.quantity \in Nat
  BY DEF Events
<1>5. /\ IsFiniteSet(S) /\ SumFunctionOnSet(f, S) \in Nat /\ live[o] \in Nat
      /\ \A i \in S : f[i] \in Nat
  BY ToPayTyped DEF Unsettled
<1>6. \A i \in S : g[i] = f[i]
  BY <1>2 DEF Quantities, Unsettled
<1>7. g[n] = e.quantity
  BY <1>2 DEF Quantities
<1>8. ToPay(o) = live[o] + SumFunctionOnSet(f, S)
      /\ ToPay(o)' = live'[o] + SumFunctionOnSet(g, S \cup {n})
  BY <1>3 DEF ToPay
<1> HIDE DEF n, f, g, S
<1>9. SumFunctionOnSet(g, S \cup {n}) = g[n] + SumFunctionOnSet(g, S)
  BY <1>3, <1>4, <1>5, <1>6, <1>7, SumAdd
<1>10. SumFunctionOnSet(g, S) = SumFunctionOnSet(f, S)
  BY <1>5, <1>6, SumEqual
<1>11. ToPay(o)' = ToPay(o) - live[o] + live'[o] + e.quantity
  BY <1>4, <1>5, <1>7, <1>8, <1>9, <1>10
<1> QED
  BY <1>2, <1>3, <1>11 DEF n, S

\* A step that leaves an order alone.
LEMMA OrderUntouched ==
  ASSUME NEW o \in Orders, OrderSound(o),
         amountHeld'[o] = amountHeld[o], consumed'[o] = consumed[o], released'[o] = released[o],
         phase'[o] = phase[o], live'[o] = live[o],
         stream'[o] = stream[o], settled'[o] = settled[o],
         o \in refused' <=> o \in refused, o \in forgotten' <=> o \in forgotten,
         torn \subseteq torn',
         \A r \in Releasers : releaseOf'[r] = o => releaseOf[r] = o
  PROVE  OrderSound(o)'
<1>1. Remaining(o)' = Remaining(o) /\ ToPay(o)' = ToPay(o) /\ Unsettled(o)' = Unsettled(o)
      /\ Hold(o)' = Hold(o)
  BY DEF Remaining, ToPay, Unsettled, Hold
<1>2. CallerSound(o)'
  BY <1>1 DEF OrderSound, CallerSound
<1>3. EventsSound(o)'
  BY DEF OrderSound, EventsSound, IsFill
<1>4. CoversRest(o)' /\ RefusalSound(o)'
  BY <1>1 DEF OrderSound, CoversRest, RefusalSound, Whole, OrdersOf
<1>5. EndingSound(o)'
  BY <1>1 DEF OrderSound, EndingSound, Ends, IsFill
<1> QED
  BY <1>2, <1>3, <1>4, <1>5 DEF OrderSound

\* A step that touches one order at most.
Untouched(o) ==
  /\ amountHeld'[o] = amountHeld[o] /\ consumed'[o] = consumed[o] /\ released'[o] = released[o]
  /\ phase'[o] = phase[o] /\ live'[o] = live[o]
  /\ stream'[o] = stream[o] /\ settled'[o] = settled[o]
  /\ o \in refused' <=> o \in refused
  /\ o \in forgotten' <=> o \in forgotten
  /\ \A r \in Releasers : releaseOf'[r] = o => releaseOf[r] = o

LEMMA OthersUntouched ==
  ASSUME Ledger, NEW o \in Orders, \A p \in Orders \ {o} : Untouched(p), torn \subseteq torn',
         CashConserved', HeldMatchesReservations', OrderSound(o)'
  PROVE  Ledger'
<1>1. ASSUME NEW p \in Orders \ {o} PROVE OrderSound(p)'
  BY <1>1, OrderUntouched DEF Ledger, Untouched
<1> QED
  BY <1>1 DEF Ledger

-----------------------------------------------------------------------------
(* The books under each step *)

LEMMA LedgerInit == Init => Ledger
<1> SUFFICES ASSUME Init PROVE Ledger
  OBVIOUS
<1>1. CashConserved
  <2>1. \A u \in Users : cash[u] = 0
    BY DEF Init
  <2>2. SumFunctionOnSet(cash, Users) = 0
    BY <2>1, FiniteAssumption, SumZero
  <2> QED
    BY <2>2 DEF CashConserved, Total, Init
<1>2. ASSUME NEW u \in Users PROVE held[u] = Reserved(u) /\ Reserved(u) = 0
  <2>1. \A o \in OrdersOf(u) : LeftOfHolds[o] = 0
    BY DEF OrdersOf, LeftOfHolds, Remaining, AtLeastZero, Init
  <2>2. SumFunctionOnSet(LeftOfHolds, OrdersOf(u)) = 0
    BY <2>1, OrdersOfFinite, SumZero
  <2> QED
    BY <2>2 DEF Init, Reserved
<1>3. ASSUME NEW o \in Orders PROVE OrderSound(o)
  <2>1. stream[o] = <<>> /\ DOMAIN stream[o] = {} /\ Unsettled(o) = {} /\ Remaining(o) = 0
    BY DEF Init, Unsettled, Remaining
  <2>2. ToPay(o) = 0
    BY <2>1, SumEmpty DEF ToPay, Init
  <2>3. CallerSound(o)
    BY NameAssumption DEF Init, CallerSound
  <2>4. CoversRest(o)
    BY <2>1, <2>2, AmountAssumption DEF CoversRest
  <2>5. EventsSound(o) /\ EndingSound(o) /\ RefusalSound(o)
    BY <2>1 DEF Init, EventsSound, EndingSound, RefusalSound
  <2> QED
    BY <2>3, <2>4, <2>5 DEF OrderSound
<1> QED
  BY <1>1, <1>2, <1>3 DEF Ledger, HeldMatchesReservations

LEMMA DepositLedger ==
  ASSUME Sound, Ledger, NEW u \in Users, NEW amount \in Deposits, Deposit(u, amount)
  PROVE  Ledger'
<1>1. cash \in [Users -> Int] /\ amount \in Int
  BY AmountAssumption DEF Sound, TypeOK
<1>2. Total([cash EXCEPT ![u] = @ + amount]) = Total(cash) + amount
  BY <1>1, TotalMoves
<1>3. CashConserved'
  BY <1>2 DEF Deposit, Ledger, CashConserved, Total
<1>4. HeldMatchesReservations'
  BY HoldsUntouched DEF Deposit, Ledger, reservations, history
<1>5. \A o \in Orders : OrderSound(o)'
  BY OrderUntouched DEF Deposit, Ledger, reservations, calls, events, releases, history
<1> QED
  BY <1>3, <1>4, <1>5 DEF Ledger

LEMMA ReserveLedger ==
  ASSUME Sound, Sound', Ledger, NEW o \in Orders, ReserveFunds(o)
  PROVE  Ledger'
<1> DEFINE book == IsUnreserved(o) /\ ~ (Available(Owner[o]) < Hold(o))
<1>1. UNCHANGED <<cash, consumed, released, live, stream, settled, refused, releaseOf, deposited,
                  torn>>
  BY DEF ReserveFunds, events, releases, counters
<1>2. CashConserved'
  BY <1>1 DEF Ledger, CashConserved, Total
<1>3. /\ \/ phase'[o] = phase[o]
         \/ phase[o] = "reserving" /\ phase'[o] = "declined"
         \/ phase[o] = "reserving" /\ phase'[o] = "held" /\ (book \/ ~ IsUnreserved(o))
      /\ \A p \in Orders \ {o} : phase'[p] = phase[p]
  BY DEF ReserveFunds, Waits, Goto, Sound, TypeOK
<1>4. /\ amountHeld \in [Orders -> Nat] /\ held \in [Users -> Nat]
      /\ Hold(o) \in Nat \ {0} /\ Hold(o)' = Hold(o)
  BY HoldPositive DEF Sound, TypeOK, Hold
<1>5. ToPay(o)' = ToPay(o) /\ Unsettled(o)' = Unsettled(o)
  BY <1>1 DEF ToPay, Unsettled
<1>6. CASE book
  <2>1. /\ held' = [held EXCEPT ![Owner[o]] = @ + Hold(o)]
        /\ amountHeld' = [amountHeld EXCEPT ![o] = Hold(o)]
        /\ forgotten' = IF phase[o] = "reserving" THEN forgotten ELSE forgotten \cup {o}
    BY <1>6 DEF ReserveFunds, Waits
  <2>2. amountHeld[o] = 0 /\ consumed[o] = 0 /\ released[o] = 0 /\ Remaining(o) = 0 /\ Left(o) = 0
    BY <1>6, NothingUnreserved DEF IsUnreserved
  <2>3. /\ Remaining(o)' = Hold(o) /\ amountHeld'[o] = Hold(o) /\ Left(o)' = Hold(o)
        /\ \A p \in Orders \ {o} : Left(p)' = Left(p) /\ amountHeld'[p] = amountHeld[p]
    <3>1. Remaining(o)' = Hold(o) /\ amountHeld'[o] = Hold(o)
          /\ \A p \in Orders \ {o} : Remaining(p)' = Remaining(p) /\ amountHeld'[p] = amountHeld[p]
      BY <1>1, <1>4, <2>1, <2>2 DEF Remaining
    <3> QED
      BY <1>4, <3>1 DEF Left, AtLeastZero
  <2>4. HeldMatchesReservations'
    <3>1. held[Owner[o]] \in Nat /\ held[Owner[o]] + Hold(o) \in Nat
      BY <1>4, RowTyped DEF Sound
    <3>2. held[Owner[o]] + Hold(o) = held[Owner[o]] + Left(o)' - Left(o)
      BY <1>4, <2>2, <2>3, <3>1
    <3>3. held[Owner[o]] + Hold(o) <= AtLeastZero(held[Owner[o]] + Left(o)' - Left(o))
      BY <3>1, <3>2 DEF AtLeastZero
    <3> QED
      BY <1>1, <2>1, <2>3, <3>1, <3>2, <3>3, HoldMoves DEF Ledger
  <2>5. CallerSound(o)'
    BY <1>1, <1>3, <1>4, <2>3 DEF Ledger, OrderSound, CallerSound
  <2>6. EventsSound(o)'
    BY <1>1, <1>4, <2>3 DEF Ledger, OrderSound, EventsSound, IsFill
  <2>7. CoversRest(o)'
    <3>1. o \notin Market => 0 >= Limit[o] * ToPay(o)
      BY <2>2 DEF Ledger, OrderSound, CoversRest
    <3>2. Limit[o] * ToPay(o) \in Nat
      BY ToPayTyped, ProductNat, AmountAssumption
    <3> QED
      BY <1>4, <1>5, <2>3, <3>1, <3>2 DEF CoversRest
  <2>8. EndingSound(o)'
    <3>1. CASE phase[o] = "reserving"
      BY <1>3, <3>1 DEF EndingSound
    <3>2. CASE phase[o] # "reserving"
      BY <2>1, <3>2 DEF EndingSound
    <3> QED
      BY <3>1, <3>2
  <2>9. RefusalSound(o)'
    BY <1>1 DEF Ledger, OrderSound, RefusalSound, Whole, OrdersOf
  <2>10. \A p \in Orders \ {o} : Untouched(p)
    BY <1>1, <1>3, <2>1, <2>3 DEF Untouched
  <2> QED
    BY <1>1, <1>2, <2>4, <2>5, <2>6, <2>7, <2>8, <2>9, <2>10, OthersUntouched DEF OrderSound
<1>7. CASE ~ book
  <2>1. UNCHANGED <<held, amountHeld, forgotten>>
    BY <1>7 DEF ReserveFunds
  <2>2. HeldMatchesReservations'
    BY <1>1, <2>1, HoldsUntouched DEF Ledger
  <2>3. Remaining(o)' = Remaining(o)
    BY <1>1, <2>1 DEF Remaining
  <2>4. CallerSound(o)'
    BY <1>1, <1>3, <1>4, <1>7, <2>1 DEF Ledger, OrderSound, CallerSound, IsUnreserved
  <2>5. EventsSound(o)' /\ CoversRest(o)' /\ RefusalSound(o)'
    BY <1>1, <1>5, <2>1, <2>3
    DEF Ledger, OrderSound, EventsSound, CoversRest, RefusalSound, Whole, OrdersOf, IsFill
  <2>6. EndingSound(o)'
    BY <1>1, <1>3, <1>5, <2>1, <2>3 DEF Ledger, OrderSound, EndingSound, Ends, IsFill
  <2>7. \A p \in Orders \ {o} : Untouched(p)
    BY <1>1, <1>3, <2>1 DEF Untouched
  <2> QED
    BY <1>1, <1>2, <2>2, <2>4, <2>5, <2>6, <2>7, OthersUntouched DEF OrderSound
<1> QED
  BY <1>6, <1>7

LEMMA ReleaseReadLedger ==
  ASSUME Sound, Ledger, NEW r \in Releasers, NEW o \in Orders, ReleaseRead(r, o)
  PROVE  Ledger'
<1>1. UNCHANGED <<cash, held, amountHeld, consumed, released, phase, live, stream, settled,
                  refused, deposited, forgotten, torn>>
  BY DEF ReleaseRead, balances, reservations, events, counters, history
<1>2. CashConserved' /\ HeldMatchesReservations'
  BY <1>1, HoldsUntouched DEF Ledger, CashConserved, Total
<1>3. \A p \in Orders \ {o} : Untouched(p)
  BY <1>1 DEF ReleaseRead, Untouched, Sound, TypeOK
<1>4. Remaining(o)' = Remaining(o) /\ ToPay(o)' = ToPay(o) /\ Unsettled(o)' = Unsettled(o)
      /\ Hold(o)' = Hold(o) /\ phase[o] = "unwinding"
  BY <1>1 DEF ReleaseRead, Remaining, ToPay, Unsettled, Hold
<1>5. OrderSound(o)'
  BY <1>1, <1>4 DEF Ledger, OrderSound, CallerSound, EventsSound, CoversRest, EndingSound,
                    RefusalSound, Whole, OrdersOf, Ends, IsFill
<1> QED
  BY <1>1, <1>2, <1>3, <1>5, OthersUntouched

LEMMA ReleaseApplyLedger ==
  ASSUME Sound, Sound', Ledger, NEW r \in Releasers, ReleaseApply(r)
  PROVE  Ledger'
<1>1. PICK o \in Orders :
        /\ o = releaseOf[r]
        /\ held' = [held EXCEPT ![Owner[o]] = AtLeastZero(@ - ToRelease(r))]
        /\ \A p \in Orders \ {o} : released'[p] = released[p] /\ Left(p)' = Left(p)
        /\ ToRelease(r) \in Nat /\ Left(o) <= ToRelease(r)
        /\ released'[o] \in Nat /\ released'[o] > 0
        /\ Remaining(o)' \in Int /\ Remaining(o)' <= 0 /\ Left(o)' = 0
        /\ torn \subseteq torn' /\ torn' \subseteq torn \cup {o}
        /\ o \notin torn' => ToRelease(r) = Left(o)
  BY Releases
<1>2. UNCHANGED <<cash, amountHeld, consumed, phase, live, stream, settled, refused, deposited,
                  forgotten>>
  BY DEF ReleaseApply, events, counters
<1>3. releaseOf' = [releaseOf EXCEPT ![r] = NoOrder] /\ releaseOf \in [Releasers -> Orders \cup {NoOrder}]
  BY DEF ReleaseApply, Sound, TypeOK
<1>4. HeldMatchesReservations'
  <2> DEFINE h == AtLeastZero(held[Owner[o]] - ToRelease(r))
  <2>1. held[Owner[o]] \in Nat /\ Left(o) \in Nat
    BY RowTyped DEF Sound
  <2>2. h \in Nat /\ h <= AtLeastZero(held[Owner[o]] + Left(o)' - Left(o))
    BY <1>1, <2>1 DEF AtLeastZero
  <2>3. ASSUME Whole(Owner[o])'
        PROVE  h = held[Owner[o]] + Left(o)' - Left(o)
    <3>1. Whole(Owner[o]) /\ o \notin torn'
      BY <1>1, <2>3 DEF Whole, OrdersOf
    <3>2. Left(o) <= held[Owner[o]]
      BY <3>1, HoldWithinHeld DEF Ledger
    <3> QED
      BY <1>1, <2>1, <3>1, <3>2 DEF AtLeastZero
  <2> HIDE DEF h
  <2>4. held' = [held EXCEPT ![Owner[o]] = h]
    BY <1>1 DEF h
  <2> QED
    BY <1>1, <2>2, <2>3, <2>4, HoldMoves DEF Ledger
<1>5. CashConserved'
  BY <1>2 DEF Ledger, CashConserved, Total
<1>6. ToPay(o)' = ToPay(o) /\ Unsettled(o)' = Unsettled(o) /\ Hold(o)' = Hold(o)
  BY <1>2 DEF ToPay, Unsettled, Hold
<1>7. CallerSound(o)'
  <2>1. phase[o] \notin {"idle", "reserving", "declined", "held"}
    BY <1>1 DEF Ledger, OrderSound, CallerSound
  <2> QED
    BY <1>1, <1>2, <1>6, <2>1 DEF Ledger, OrderSound, CallerSound
<1>8. EventsSound(o)' /\ EndingSound(o)' /\ RefusalSound(o)' /\ CoversRest(o)'
  <2>1. EventsSound(o)' /\ EndingSound(o)'
    BY <1>1, <1>2 DEF Ledger, OrderSound, EventsSound, EndingSound, IsFill
  <2>2. RefusalSound(o)' /\ CoversRest(o)'
    BY <1>1 DEF RefusalSound, CoversRest
  <2> QED
    BY <2>1, <2>2
<1>9. \A p \in Orders \ {o} : Untouched(p)
  BY <1>1, <1>2, <1>3, NameAssumption DEF Untouched
<1> QED
  BY <1>1, <1>4, <1>5, <1>7, <1>8, <1>9, OthersUntouched DEF OrderSound

\* A handler touches the order of its event alone.
LEMMA HandledAlone ==
  ASSUME Sound, NEW o \in Orders, NEW i \in DOMAIN stream[o], i \notin settled[o], Settle(o, i),
         UNCHANGED <<live, stream>>
  PROVE  /\ i \in Unsettled(o)
         /\ ToPay(o)' = ToPay(o) - stream[o][i].quantity
         /\ ToPay(o)' \in Nat /\ ToPay(o)' <= ToPay(o)
         /\ Unsettled(o)' = Unsettled(o) \ {i}
         /\ settled'[o] = settled[o] \cup {i}
         /\ \A p \in Orders \ {o} : settled'[p] = settled[p]
<1>1. i \in Unsettled(o)
  BY DEF Unsettled
<1>2. /\ ToPay(o)' = ToPay(o) - stream[o][i].quantity
      /\ Unsettled(o)' = Unsettled(o) \ {i} /\ settled'[o] = settled[o] \cup {i}
  BY <1>1, ToPaySettled
<1>3. /\ stream[o][i].quantity \in Nat /\ ToPay(o) \in Nat /\ live[o] \in Nat
      /\ stream[o][i].quantity <= ToPay(o) - live[o]
  BY <1>1, ToPayTyped
<1>4. \A p \in Orders \ {o} : settled'[p] = settled[p]
  BY DEF Settle, Sound, TypeOK
<1> QED
  BY <1>1, <1>2, <1>3, <1>4

\* With events to handle, the caller is past its hold.
LEMMA HandledCaller ==
  ASSUME Ledger, NEW o \in Orders, NEW i \in DOMAIN stream[o],
         UNCHANGED <<amountHeld, phase, live>>
  PROVE  CallerSound(o)'
<1>1. phase[o] \notin {"idle", "reserving", "declined", "held"}
  BY DEF Ledger, OrderSound, CallerSound
<1>2. Hold(o)' = Hold(o)
  BY DEF Hold
<1> QED
  BY <1>1, <1>2 DEF Ledger, OrderSound, CallerSound

\* One event fewer to handle.
LEMMA HandledEvents ==
  ASSUME Ledger, NEW o \in Orders, NEW i \in DOMAIN stream[o],
         settled'[o] = settled[o] \cup {i}, UNCHANGED <<amountHeld, stream>>
  PROVE  EventsSound(o)'
  BY DEF Ledger, OrderSound, EventsSound, IsFill

LEMMA HandleReleaseLedger ==
  ASSUME Sound, Sound', Ledger, NEW o \in Orders, NEW i \in DOMAIN stream[o], HandleRelease(o, i)
  PROVE  Ledger'
<1>1. UNCHANGED <<cash, amountHeld, consumed, phase, live, stream, refused, releaseOf, deposited,
                  forgotten, torn>>
  BY DEF HandleRelease, releases, counters, history
<1>2. i \notin settled[o] /\ Settle(o, i)
  BY DEF HandleRelease, Arrives
<1>3. /\ ToPay(o)' \in Nat /\ ToPay(o)' <= ToPay(o) /\ ToPay(o) \in Nat
      /\ settled'[o] = settled[o] \cup {i}
      /\ \A p \in Orders \ {o} : settled'[p] = settled[p]
  BY <1>1, <1>2, HandledAlone, ToPayTyped
<1>4. CallerSound(o)' /\ EventsSound(o)'
  BY <1>1, <1>3, HandledCaller, HandledEvents
<1>5. /\ amountHeld[o] \in Nat /\ consumed[o] \in Nat /\ released[o] \in Nat
      /\ Remaining(o) \in Int /\ Left(o) \in Nat /\ held[Owner[o]] \in Nat
      /\ (Remaining(o) >= 0 => Left(o) = Remaining(o))
      /\ (amountHeld[o] = 0 => Remaining(o) = 0)
  BY RowTyped, NothingUnreserved DEF Sound
<1>6. /\ HeldMatchesReservations'
      /\ Remaining(o)' \in Int /\ Remaining(o)' <= 0
      /\ \/ Remaining(o)' = Remaining(o) /\ released'[o] = released[o]
         \/ released'[o] \in Nat /\ released'[o] > 0
      /\ \A p \in Orders \ {o} : released'[p] = released[p]
  <2>1. CASE amountHeld[o] > 0 /\ Remaining(o) > 0
    <3>1. /\ held' = [held EXCEPT ![Owner[o]] = AtLeastZero(@ - Remaining(o))]
          /\ released' = [released EXCEPT ![o] = @ + Remaining(o)]
      BY <2>1 DEF HandleRelease, Unhold
    <3>2. released'[o] = released[o] + Remaining(o)
          /\ \A p \in Orders \ {o} : released'[p] = released[p]
      BY <3>1 DEF Sound, TypeOK
    <3>3. Remaining(o) = amountHeld[o] - consumed[o] - released[o]
          /\ Remaining(o)' = amountHeld[o] - consumed[o] - released'[o]
      BY <1>1 DEF Remaining
    <3>4. Remaining(o)' = 0
      BY <1>5, <3>2, <3>3
    <3>5. /\ Left(o)' = 0 /\ Left(o) = Remaining(o)
          /\ \A p \in Orders \ {o} : Left(p)' = Left(p)
      BY <1>1, <1>5, <2>1, <3>2, <3>4 DEF Left, Remaining, AtLeastZero
    <3> DEFINE h == AtLeastZero(held[Owner[o]] - Remaining(o))
    <3>6. h \in Nat /\ h <= AtLeastZero(held[Owner[o]] + Left(o)' - Left(o))
      BY <1>5, <3>5 DEF AtLeastZero
    <3>7. ASSUME Whole(Owner[o])'
          PROVE  h = held[Owner[o]] + Left(o)' - Left(o)
      <4>1. Whole(Owner[o])
        BY <1>1, <3>7 DEF Whole, OrdersOf
      <4>2. Left(o) <= held[Owner[o]]
        BY <4>1, HoldWithinHeld DEF Ledger
      <4> QED
        BY <1>5, <3>5, <4>2 DEF AtLeastZero
    <3> HIDE DEF h
    <3>8. held' = [held EXCEPT ![Owner[o]] = h]
      BY <3>1 DEF h
    <3>9. HeldMatchesReservations'
      BY <1>1, <3>5, <3>6, <3>7, <3>8, HoldMoves DEF Ledger
    <3> QED
      BY <1>5, <2>1, <3>2, <3>4, <3>9
  <2>2. CASE ~ (amountHeld[o] > 0 /\ Remaining(o) > 0)
    <3>1. UNCHANGED <<held, released>> /\ Remaining(o) <= 0
      BY <1>5, <2>2 DEF HandleRelease
    <3>2. Remaining(o)' = Remaining(o)
      BY <1>1, <3>1 DEF Remaining
    <3>3. HeldMatchesReservations'
      BY <1>1, <3>1, HoldsUntouched DEF Ledger
    <3> QED
      BY <1>5, <3>1, <3>2, <3>3
  <2> QED
    BY <2>1, <2>2
<1>7. CashConserved'
  BY <1>1 DEF Ledger, CashConserved, Total
<1>8. CoversRest(o)'
  <2>1. SUFFICES ASSUME o \notin Market, released'[o] = 0
                 PROVE  Remaining(o)' >= Limit[o] * ToPay(o)'
    BY DEF CoversRest
  <2>2. released[o] = 0 /\ Remaining(o)' = Remaining(o)
    BY <1>6, <2>1
  <2>3. Remaining(o) >= Limit[o] * ToPay(o)
    BY <2>1, <2>2 DEF Ledger, OrderSound, CoversRest
  <2>4. Limit[o] * ToPay(o)' \in Nat /\ Limit[o] * ToPay(o)' <= Limit[o] * ToPay(o)
        /\ Limit[o] * ToPay(o) \in Nat
    <3>1. Limit[o] \in Nat
      BY AmountAssumption
    <3> QED
      BY <1>3, <3>1, ProductNat, ProductGrows
  <2> QED
    BY <1>5, <2>2, <2>3, <2>4
<1>9. EndingSound(o)' /\ RefusalSound(o)'
  BY <1>1, <1>5, <1>6 DEF Ledger, OrderSound, EndingSound, RefusalSound, Whole, OrdersOf
<1>10. \A p \in Orders \ {o} : Untouched(p)
  BY <1>1, <1>3, <1>6 DEF Untouched
<1> QED
  BY <1>1, <1>4, <1>6, <1>7, <1>8, <1>9, <1>10, OthersUntouched DEF OrderSound

\* A fill that the hold still covers passes the CHECKs: the hold is worth its cost, and
\* what is held is covered by cash.
LEMMA CoveredFillPasses ==
  ASSUME Sound, Ledger, NEW o \in Orders \ Market, released[o] = 0, Whole(Owner[o]),
         NEW i \in Unsettled(o), IsFill(o, i)
  PROVE  ChecksPass(o, stream[o][i])
<1> DEFINE e == stream[o][i]
           q == e.quantity
           c == Consumed(o, e)
           f == ReleasedByFill(o, e)
           h == held[Owner[o]]
<1>1. i \in DOMAIN stream[o]
  BY DEF Unsettled
<1>2. /\ Remaining(o) \in Nat /\ h \in Nat /\ cash[Owner[o]] \in Nat /\ h <= cash[Owner[o]]
      /\ Left(o) = Remaining(o) /\ Remaining(o) <= h
  <2>1. o \notin torn
    BY DEF Whole, OrdersOf
  <2>2. Remaining(o) >= 0
    BY <2>1 DEF Sound, HoldsCovered
  <2> QED
    BY <2>2, RowTyped, HoldWithinHeld DEF Ledger, Sound
<1>3. /\ ~ IsUnreserved(o) /\ e.price <= Limit[o]
      /\ Remaining(o) >= Limit[o] * ToPay(o)
  BY <1>1 DEF Ledger, OrderSound, EventsSound, CoversRest, IsUnreserved
<1>4. q \in Nat /\ ToPay(o) \in Nat /\ q <= ToPay(o) /\ e.price \in Nat /\ Limit[o] \in Nat
  <2>1. q \in Nat /\ ToPay(o) \in Nat /\ live[o] \in Nat /\ q <= ToPay(o) - live[o]
    BY <1>1, ToPayTyped
  <2>2. e.price \in Nat /\ Limit[o] \in Nat
    BY <1>1, EventTyped, AmountAssumption DEF Sound
  <2> QED
    BY <2>1, <2>2
<1>5. c \in Nat /\ f \in Nat /\ c + f <= Remaining(o)
  <2>1. /\ c \in Nat /\ f \in Nat /\ c <= Left(o)
        /\ f = IF e.left = 0 THEN Left(o) - c ELSE 0
    BY <1>1, <1>3, FillWithinHold DEF Sound
  <2> HIDE DEF c, f
  <2> QED
    BY <1>2, <2>1
<1>6. Limit[o] * q <= Remaining(o) /\ Limit[o] * q \in Nat
  <2>1. Limit[o] * q \in Nat /\ Limit[o] * ToPay(o) \in Nat /\ Limit[o] * q <= Limit[o] * ToPay(o)
    BY <1>4, ProductNat, ProductGrows
  <2> QED
    BY <1>2, <1>3, <2>1
<1>7. c = Limit[o] * q
  <2>1. AtLeastZero(Remaining(o)) = Remaining(o)
    BY <1>2 DEF AtLeastZero
  <2>2. c = Least(Limit[o] * q, Remaining(o))
    BY <1>3, <2>1 DEF Consumed
  <2>3. \A x, y \in Nat : x <= y => Least(x, y) = x
    BY DEF Least
  <2> HIDE DEF c, q
  <2> QED
    BY <1>2, <1>6, <2>2, <2>3, Zenon
<1>8. Cost(e) \in Nat /\ Cost(e) <= c
  BY <1>3, <1>4, <1>7, ProductNat, ProductGrows DEF Cost
<1> HIDE DEF e, c, f, h
<1>9. HeldAfter(o, e) = h - c - f
  BY <1>2, <1>5 DEF HeldAfter, AtLeastZero, h, c, f
<1>10. CashAfter(o, e) = cash[Owner[o]] - Cost(e)
  BY DEF CashAfter
<1> QED
  BY <1>2, <1>5, <1>8, <1>9, <1>10 DEF ChecksPass, e

LEMMA RefuseFillLedger ==
  ASSUME Sound, Sound', Ledger, NEW o \in Orders, NEW i \in DOMAIN stream[o], RefuseFill(o, i)
  PROVE  Ledger'
<1>1. UNCHANGED <<cash, held, amountHeld, consumed, released, phase, live, stream, releaseOf,
                  deposited, forgotten, torn>> /\ refused' = refused \cup {o}
  BY DEF RefuseFill, balances, reservations, releases, counters, history
<1>2. i \notin settled[o] /\ Settle(o, i) /\ IsFill(o, i) /\ ~ ChecksPass(o, stream[o][i])
  BY DEF RefuseFill, Arrives
<1>3. /\ i \in Unsettled(o)
      /\ ToPay(o)' \in Nat /\ ToPay(o)' <= ToPay(o) /\ ToPay(o) \in Nat
      /\ settled'[o] = settled[o] \cup {i}
      /\ \A p \in Orders \ {o} : settled'[p] = settled[p]
  BY <1>1, <1>2, HandledAlone, ToPayTyped
<1>4. CallerSound(o)' /\ EventsSound(o)'
  BY <1>1, <1>3, HandledCaller, HandledEvents
<1>5. CashConserved' /\ HeldMatchesReservations'
  BY <1>1, HoldsUntouched DEF Ledger, CashConserved, Total
<1>6. Remaining(o)' = Remaining(o) /\ Remaining(o) \in Int /\ released[o] \in Nat
  BY <1>1, RowTyped DEF Remaining, Sound
<1>7. o \notin Market => released[o] > 0 \/ ~ Whole(Owner[o])
  BY <1>2, <1>3, <1>6, CoveredFillPasses
<1>8. CoversRest(o)' /\ EndingSound(o)' /\ RefusalSound(o)'
  <2>1. CoversRest(o)'
    <3>1. SUFFICES ASSUME o \notin Market, released[o] = 0
                   PROVE  Remaining(o) >= Limit[o] * ToPay(o)'
      BY <1>1, <1>6 DEF CoversRest
    <3>2. Remaining(o) >= Limit[o] * ToPay(o)
      BY <3>1 DEF Ledger, OrderSound, CoversRest
    <3>3. /\ Limit[o] * ToPay(o)' \in Nat /\ Limit[o] * ToPay(o) \in Nat
          /\ Limit[o] * ToPay(o)' <= Limit[o] * ToPay(o)
      BY <1>3, AmountAssumption, ProductNat, ProductGrows
    <3> QED
      BY <1>6, <3>2, <3>3
  <2>2. EndingSound(o)' /\ RefusalSound(o)'
    BY <1>1, <1>6, <1>7 DEF EndingSound, RefusalSound, Whole, OrdersOf
  <2> QED
    BY <2>1, <2>2
<1>9. \A p \in Orders \ {o} : Untouched(p)
  BY <1>1, <1>3 DEF Untouched
<1> QED
  BY <1>1, <1>4, <1>5, <1>8, <1>9, OthersUntouched DEF OrderSound

\* The buyer pays what the seller gets, the hold shrinks by what is consumed and released,
\* and what the fill no longer costs is no longer covered.
LEMMA SettleFillLedger ==
  ASSUME Sound, Sound', Ledger, NEW o \in Orders, NEW i \in DOMAIN stream[o], SettleFill(o, i)
  PROVE  Ledger'
<1> DEFINE e == stream[o][i]
           u == Owner[o]
           c == Consumed(o, e)
           f == ReleasedByFill(o, e)
           cost == Cost(e)
           paid == [cash EXCEPT ![u] = @ + (0 - cost)]
<1>1. UNCHANGED <<amountHeld, phase, live, stream, refused, releaseOf, deposited, forgotten, torn>>
  BY DEF SettleFill, releases, counters, history
<1>2. i \notin settled[o] /\ Settle(o, i) /\ IsFill(o, i)
  BY DEF SettleFill, Arrives
<1>3. /\ i \in Unsettled(o)
      /\ ToPay(o)' = ToPay(o) - e.quantity /\ ToPay(o)' \in Nat /\ ToPay(o) \in Nat
      /\ Unsettled(o)' = Unsettled(o) \ {i}
      /\ settled'[o] = settled[o] \cup {i}
      /\ \A p \in Orders \ {o} : settled'[p] = settled[p]
  BY <1>1, <1>2, HandledAlone, ToPayTyped
<1>4. ~ IsUnreserved(o)
  BY <1>2 DEF Ledger, OrderSound, EventsSound, IsUnreserved
<1>5. /\ Remaining(o) \in Int /\ Left(o) \in Nat /\ Remaining(o) <= Left(o)
      /\ (Remaining(o) >= 0 => Left(o) = Remaining(o)) /\ (Remaining(o) <= 0 => Left(o) = 0)
      /\ held[u] \in Nat /\ cash[u] \in Nat /\ u \in Users
      /\ amountHeld[o] \in Nat /\ consumed[o] \in Nat /\ released[o] \in Nat
  BY RowTyped DEF Sound
<1>6. /\ c \in Nat /\ f \in Nat /\ c + f <= Left(o)
      /\ f = IF e.left = 0 THEN Left(o) - c ELSE 0
  <2>1. /\ c \in Nat /\ f \in Nat /\ c <= Left(o)
        /\ f = IF e.left = 0 THEN Left(o) - c ELSE 0
    BY <1>4, FillWithinHold DEF Sound
  <2> HIDE DEF c, f
  <2> QED
    BY <1>5, <2>1
<1>7. /\ cost \in Nat /\ e.seller \in Users /\ e.quantity \in Nat
      /\ Limit[o] \in Nat
  BY EventTyped, AmountAssumption DEF Sound
<1>8. /\ held' = [held EXCEPT ![u] = HeldAfter(o, e)]
      /\ consumed' = [consumed EXCEPT ![o] = @ + c]
      /\ released' = [released EXCEPT ![o] = @ + f]
  BY <1>4 DEF SettleFill
<1>9. cash' = [paid EXCEPT ![e.seller] = @ + cost]
  <2>1. CashAfter(o, e) = cash[u] + (0 - cost)
    BY <1>5, <1>7 DEF CashAfter
  <2>2. cash' = [[cash EXCEPT ![u] = CashAfter(o, e)] EXCEPT ![e.seller] = @ + cost]
    BY DEF SettleFill, Proceeds
  <2> QED
    BY <2>1, <2>2
<1>11. o \notin Market => c <= Limit[o] * e.quantity
  <2>1. Limit[o] * e.quantity \in Nat
    BY <1>7, ProductNat
  <2>3. o \notin Market => c = Least(Limit[o] * e.quantity, Left(o))
    BY <1>4 DEF Consumed, Left
  <2> HIDE DEF c, e
  <2> QED
    BY <1>5, <2>1, <2>3 DEF Least
<1>12. HeldAfter(o, e) = AtLeastZero(held[u] - c - f)
  <2>1. HeldAfter(o, e) = AtLeastZero(AtLeastZero(held[u] - c) - f)
    BY DEF HeldAfter
  <2> HIDE DEF c, f
  <2> QED
    BY <1>5, <1>6, <2>1 DEF AtLeastZero
<1>13. CashConserved'
  <2>1. cash \in [Users -> Int]
    BY DEF Sound, TypeOK
  <2>2. paid \in [Users -> Int] /\ 0 - cost \in Int /\ cost \in Int
    BY <1>5, <1>7, <2>1
  <2>3. Total(paid) = Total(cash) + (0 - cost) /\ Total(cash) \in Int
    BY <1>5, <2>1, <2>2, TotalMoves
  <2> HIDE DEF paid, cost, e
  <2>4. Total([paid EXCEPT ![e.seller] = @ + cost]) = Total(paid) + cost
    BY <1>7, <2>2, TotalMoves
  <2>5. Total(cash') = Total(cash)
    BY <1>7, <1>9, <2>3, <2>4
  <2> QED
    BY <1>1, <2>5 DEF Ledger, CashConserved, Total
<1> HIDE DEF c, f, cost, paid
<1>14. /\ Remaining(o)' = Remaining(o) - c - f /\ Remaining(o)' \in Int
       /\ Left(o)' = Left(o) - c - f /\ Left(o)' \in Nat
       /\ (Remaining(o) <= 0 => Remaining(o)' <= 0)
       /\ \A p \in Orders \ {o} : Left(p)' = Left(p)
       /\ released'[o] = released[o] + f
       /\ \A p \in Orders \ {o} : consumed'[p] = consumed[p] /\ released'[p] = released[p]
  <2>1. consumed'[o] = consumed[o] + c /\ released'[o] = released[o] + f
    BY <1>8 DEF Sound, TypeOK
  <2>2. \A p \in Orders \ {o} : consumed'[p] = consumed[p] /\ released'[p] = released[p]
    BY <1>8 DEF Sound, TypeOK
  <2>3. \A p \in Orders \ {o} : Left(p)' = Left(p)
    BY <1>1, <2>2 DEF Left, Remaining, AtLeastZero
  <2> QED
    BY <1>1, <1>6, <2>1, <2>2, <2>3, Takes
<1>15. HeldMatchesReservations'
  <2> DEFINE h == AtLeastZero(held[u] - c - f)
  <2>1. h \in Nat /\ h <= AtLeastZero(held[u] + Left(o)' - Left(o))
    <3>1. held[u] + Left(o)' - Left(o) = held[u] - c - f
      BY <1>5, <1>6, <1>14
    <3>2. h \in Nat
      BY <1>5, <1>6 DEF AtLeastZero
    <3> QED
      BY <3>1, <3>2
  <2>2. ASSUME Whole(Owner[o])'
        PROVE  h = held[u] + Left(o)' - Left(o)
    <3>1. Whole(Owner[o])
      BY <1>1, <2>2 DEF Whole, OrdersOf
    <3>2. Left(o) <= held[u]
      BY <3>1, HoldWithinHeld DEF Ledger
    <3> QED
      BY <1>5, <1>6, <1>14, <3>2 DEF AtLeastZero
  <2> HIDE DEF h
  <2>3. held' = [held EXCEPT ![Owner[o]] = h]
    BY <1>8, <1>12 DEF h
  <2> QED
    BY <1>1, <1>14, <2>1, <2>2, <2>3, HoldMoves DEF Ledger
<1>16. CallerSound(o)' /\ EventsSound(o)'
  BY <1>1, <1>3, HandledCaller, HandledEvents
<1>17. CoversRest(o)'
  <2>1. SUFFICES ASSUME o \notin Market, released'[o] = 0
                 PROVE  Remaining(o)' >= Limit[o] * ToPay(o)'
    BY DEF CoversRest
  <2>2. released[o] = 0 /\ f = 0
    BY <1>5, <1>6, <1>14, <2>1
  <2>3. Remaining(o) >= Limit[o] * ToPay(o)
    BY <2>1, <2>2 DEF Ledger, OrderSound, CoversRest
  <2>4. Limit[o] * ToPay(o)' = Limit[o] * ToPay(o) - Limit[o] * e.quantity
    <3>1. ToPay(o) \in Int /\ e.quantity \in Int /\ Limit[o] \in Int
      BY <1>3, <1>7
    <3>2. Limit[o] * (ToPay(o) - e.quantity) = Limit[o] * ToPay(o) - Limit[o] * e.quantity
      BY <3>1, Distributes
    <3> QED
      BY <1>3, <3>2
  <2>5. Limit[o] * e.quantity \in Nat /\ Limit[o] * ToPay(o) \in Nat
    BY <1>3, <1>7, ProductNat
  <2> QED
    BY <1>5, <1>6, <1>11, <1>14, <2>1, <2>2, <2>3, <2>4, <2>5
<1>18. EndingSound(o)'
  <2>1. SUFFICES ASSUME Remaining(o)' > 0, o \notin forgotten, o \notin refused,
                        phase[o] \in {"live", "rejected"}, ~ (live[o] > 0)
                 PROVE  \E j \in Unsettled(o)' : Ends(o, j)'
    BY <1>1 DEF EndingSound
  <2>2. e.left # 0 /\ ~ Ends(o, i)
    <3>1. Left(o)' # 0
      BY <1>14, <2>1 DEF Left, AtLeastZero
    <3>2. e.left # 0
      BY <1>5, <1>6, <1>14, <3>1
    <3> QED
      BY <1>2, <3>2 DEF Ends
  <2>3. amountHeld[o] # 0 /\ Remaining(o) > 0
    BY <1>4, <1>5, <1>6, <1>14, <2>1 DEF IsUnreserved
  <2>4. PICK j \in Unsettled(o) : Ends(o, j)
    BY <2>1, <2>3 DEF Ledger, OrderSound, EndingSound
  <2>5. j \in Unsettled(o)' /\ Ends(o, j)'
    BY <1>1, <1>3, <2>2, <2>4 DEF Ends, IsFill
  <2> QED
    BY <2>5
<1>19. RefusalSound(o)'
  BY <1>1, <1>5, <1>6, <1>14 DEF Ledger, OrderSound, RefusalSound, Whole, OrdersOf
<1>20. \A p \in Orders \ {o} : Untouched(p)
  BY <1>1, <1>3, <1>14 DEF Untouched
<1> QED
  BY <1>1, <1>13, <1>15, <1>16, <1>17, <1>18, <1>19, <1>20, OthersUntouched DEF OrderSound

\* A step that touches no hold and adds nothing to be paid.
LEMMA CoversKept ==
  ASSUME Sound, Ledger, NEW o \in Orders, UNCHANGED reservations,
         ToPay(o)' <= ToPay(o), ToPay(o)' \in Nat
  PROVE  CoversRest(o)'
<1>1. Remaining(o)' = Remaining(o) /\ Remaining(o) \in Int
  BY RowTyped DEF Remaining, reservations, Sound
<1>2. Limit[o] \in Nat /\ ToPay(o) \in Nat
  BY AmountAssumption, ToPayTyped
<1>3. /\ Limit[o] * ToPay(o)' \in Nat /\ Limit[o] * ToPay(o) \in Nat
      /\ Limit[o] * ToPay(o)' <= Limit[o] * ToPay(o)
  BY <1>2, ProductNat, ProductGrows
<1> QED
  BY <1>1, <1>3 DEF Ledger, OrderSound, CoversRest, reservations

\* A step of the caller moves no money.
LEMMA CallerTouches ==
  ASSUME Sound, Ledger, NEW o \in Orders,
         UNCHANGED <<balances, reservations, settled, refused, releases, counters, torn>>,
         \A p \in Orders \ {o} : /\ phase'[p] = phase[p] /\ live'[p] = live[p]
                                 /\ stream'[p] = stream[p]
                                 /\ p \in forgotten' <=> p \in forgotten,
         CallerSound(o)', EventsSound(o)', EndingSound(o)', CoversRest(o)'
  PROVE  Ledger'
<1>1. UNCHANGED <<cash, held, amountHeld, consumed, released, settled, refused, releaseOf, deposited,
                  torn>>
  BY DEF balances, reservations, releases, counters
<1>2. CashConserved' /\ HeldMatchesReservations'
  BY <1>1, HoldsUntouched DEF Ledger, CashConserved, Total
<1>3. RefusalSound(o)'
  BY <1>1 DEF Ledger, OrderSound, RefusalSound, Whole, OrdersOf
<1>4. \A p \in Orders \ {o} : Untouched(p)
  BY <1>1 DEF Untouched
<1> QED
  BY <1>1, <1>2, <1>3, <1>4, OthersUntouched DEF OrderSound

LEMMA CallReserveLedger ==
  ASSUME Sound, Ledger, NEW o \in Orders, CallReserve(o)
  PROVE  Ledger'
<1>1. UNCHANGED <<balances, reservations, live, stream, settled, refused, releases, counters, forgotten,
                  torn>>
  BY DEF CallReserve, events, history
<1>2. phase[o] \in {"idle", "reserving"} /\ phase'[o] = "reserving"
      /\ \A p \in Orders \ {o} : phase'[p] = phase[p]
  BY DEF CallReserve, Goto, Sound, TypeOK
<1>3. Hold(o)' = Hold(o) /\ ToPay(o)' = ToPay(o) /\ ToPay(o) \in Nat
  BY <1>1, ToPayTyped DEF Hold, ToPay, Unsettled
<1>4. CallerSound(o)' /\ EventsSound(o)'
  BY <1>1, <1>2, <1>3
  DEF Ledger, OrderSound, CallerSound, EventsSound, IsFill, reservations, releases
<1>5. EndingSound(o)'
  BY <1>2 DEF EndingSound
<1>6. CoversRest(o)'
  BY <1>1, <1>3, CoversKept
<1> QED
  BY <1>1, <1>2, <1>4, <1>5, <1>6, CallerTouches

LEMMA GiveUpLedger ==
  ASSUME Sound, Ledger, NEW o \in Orders, GiveUp(o)
  PROVE  Ledger'
<1>1. UNCHANGED <<balances, reservations, live, stream, settled, refused, releases, counters, forgotten,
                  torn>>
  BY DEF GiveUp, events, history
<1>2. phase[o] = "reserving" /\ phase'[o] = "unwinding"
      /\ \A p \in Orders \ {o} : phase'[p] = phase[p]
  BY DEF GiveUp, Waits, Goto, Sound, TypeOK
<1>3. Hold(o)' = Hold(o) /\ ToPay(o)' = ToPay(o) /\ ToPay(o) \in Nat
  BY <1>1, ToPayTyped DEF Hold, ToPay, Unsettled
<1>4. CallerSound(o)' /\ EventsSound(o)'
  BY <1>1, <1>2, <1>3
  DEF Ledger, OrderSound, CallerSound, EventsSound, IsFill, reservations, releases
<1>5. EndingSound(o)'
  BY <1>2 DEF EndingSound
<1>6. CoversRest(o)'
  BY <1>1, <1>3, CoversKept
<1> QED
  BY <1>1, <1>2, <1>4, <1>5, <1>6, CallerTouches

\* A whole hold covers a whole order.
LEMMA PublishAcceptedLedger ==
  ASSUME Sound, Ledger, NEW o \in Orders, PublishAccepted(o)
  PROVE  Ledger'
<1>1. UNCHANGED <<balances, reservations, stream, settled, refused, releases, counters, forgotten, torn>>
  BY DEF PublishAccepted, events, history
<1>2. /\ phase[o] = "held"
      /\ \/ phase'[o] = "live" /\ live'[o] = Quantity[o]
         \/ phase'[o] = "unwinding" /\ live'[o] \in {Quantity[o], live[o]}
      /\ \A p \in Orders \ {o} : phase'[p] = phase[p] /\ live'[p] = live[p]
  BY DEF PublishAccepted, Rest, Goto, Sound, TypeOK
<1>3. /\ stream[o] = <<>> /\ live[o] = 0 /\ consumed[o] = 0 /\ released[o] = 0
      /\ amountHeld[o] # 0 /\ amountHeld[o] \in {0, Hold(o)}
  BY <1>2 DEF Ledger, OrderSound, CallerSound
<1>4. Limit[o] \in Nat /\ Quantity[o] \in Nat \ {0} /\ Hold(o) \in Nat
  BY AmountAssumption, HoldNat
<1>5. CallerSound(o)' /\ EventsSound(o)'
  <2>1. Hold(o)' = Hold(o)
    BY DEF Hold
  <2>2. CallerSound(o)'
    BY <1>1, <1>2, <1>3, <2>1 DEF CallerSound, reservations
  <2>3. EventsSound(o)'
    BY <1>1 DEF Ledger, OrderSound, EventsSound, IsFill, reservations
  <2> QED
    BY <2>2, <2>3
<1>6. EndingSound(o)'
  BY <1>2, <1>4 DEF EndingSound
<1>7. CoversRest(o)'
  <2>1. Unsettled(o)' = {}
    BY <1>1, <1>3 DEF Unsettled
  <2>2. ToPay(o)' = live'[o] + 0
    BY <2>1, SumEmpty DEF ToPay
  <2>3. ToPay(o)' = 0 \/ ToPay(o)' = Quantity[o]
    BY <1>2, <1>3, <1>4, <2>2
  <2>4. Remaining(o)' = Hold(o)
    BY <1>1, <1>3, <1>4 DEF Remaining, reservations
  <2>5. Hold(o) = Limit[o] * Quantity[o]
    BY DEF Hold
  <2>6. Limit[o] * 0 = 0
    BY <1>4
  <2> QED
    BY <1>4, <2>3, <2>4, <2>5, <2>6 DEF CoversRest
<1> QED
  BY <1>1, <1>2, <1>5, <1>6, <1>7, CallerTouches

LEMMA RejectLedger ==
  ASSUME Sound, Ledger, NEW o \in Orders, Reject(o)
  PROVE  Ledger'
<1> DEFINE e == Event("order.rejected")
           n == Len(stream[o]) + 1
<1>1. UNCHANGED <<balances, reservations, live, settled, refused, releases, counters, torn>>
  BY DEF Reject
<1>2. phase[o] \in {"declined", "unwinding"} /\ phase'[o] = "rejected"
      /\ \A p \in Orders \ {o} : phase'[p] = phase[p]
  BY DEF Reject, Goto, Sound, TypeOK
<1>3. Hold(o)' = Hold(o) /\ live[o] \in Nat /\ live'[o] \in Nat /\ EventsSound(o) /\ ToPay(o) \in Nat
  BY <1>1, ToPayTyped DEF Hold, Ledger, OrderSound
<1>4. CallerSound(o)'
  BY <1>1, <1>2, <1>3 DEF Ledger, OrderSound, CallerSound, reservations
<1>5. CASE Tell(o, e) /\ UNCHANGED forgotten
  <2>1. e \in Events /\ e.quantity = 0 /\ e.kind = "order.rejected"
    BY PlainEventTyped DEF Event
  <2> HIDE DEF e
  <2>2. /\ ToPay(o)' = ToPay(o) - live[o] + live'[o] + e.quantity
        /\ Unsettled(o)' = Unsettled(o) \cup {n}
        /\ DOMAIN stream'[o] = DOMAIN stream[o] \cup {n}
        /\ stream'[o][n] = e
        /\ \A i \in DOMAIN stream[o] : stream'[o][i] = stream[o][i]
    BY <1>1, <1>3, <1>5, <2>1, ToPayTold
  <2> HIDE DEF n
  <2>3. ToPay(o)' = ToPay(o)
    BY <1>1, <1>3, <2>1, <2>2
  <2>4. CoversRest(o)'
    BY <1>1, <1>3, <2>3, CoversKept
  <2>5. EventsSound(o)'
    BY <1>1, <1>3, <2>1, <2>2 DEF EventsSound, IsFill, reservations
  <2>6. EndingSound(o)'
    BY <2>1, <2>2 DEF EndingSound, Ends, IsFill
  <2>7. \A p \in Orders \ {o} : stream'[p] = stream[p]
    BY <1>5 DEF Tell, Sound, TypeOK
  <2> QED
    BY <1>1, <1>2, <1>4, <1>5, <2>4, <2>5, <2>6, <2>7, CallerTouches
<1>6. CASE UNCHANGED stream /\ forgotten' = forgotten \cup {o}
  <2>1. ToPay(o)' = ToPay(o)
    BY <1>1, <1>6 DEF ToPay, Unsettled
  <2>2. CoversRest(o)'
    BY <1>1, <1>3, <2>1, CoversKept
  <2>3. EventsSound(o)' /\ EndingSound(o)'
    BY <1>1, <1>3, <1>6 DEF EventsSound, IsFill, EndingSound, reservations
  <2> QED
    BY <1>1, <1>2, <1>4, <1>6, <2>2, <2>3, CallerTouches
<1> QED
  BY <1>5, <1>6 DEF Reject

\* A trade moves a part of the rest from the book to the bus.
LEMMA TradeLedger ==
  ASSUME Sound, Ledger, NEW o \in Orders, NEW seller \in Users, NEW price \in Prices,
         NEW q \in 1..Quantity[o], Trade(o, seller, price, q)
  PROVE  Ledger'
<1> DEFINE e == [kind |-> "trade.executed", seller |-> seller, price |-> price,
                 quantity |-> q, left |-> live[o] - q]
           n == Len(stream[o]) + 1
<1>1. UNCHANGED <<balances, reservations, phase, settled, refused, releases, counters, forgotten,
                  torn>>
  BY DEF Trade, history
<1>2. /\ q \in Nat \ {0} /\ q <= live[o] /\ (o \in Market \/ price <= Limit[o])
      /\ live[o] \in Nat /\ ToPay(o) \in Nat /\ Quantity[o] \in Nat
  BY AmountAssumption, ToPayTyped DEF Trade
<1>3. live'[o] = live[o] - q /\ \A p \in Orders \ {o} : live'[p] = live[p]
  BY DEF Trade, Sound, TypeOK
<1>4. /\ Hold(o)' = Hold(o) /\ live'[o] \in Nat /\ live[o] > 0 /\ EventsSound(o)
      /\ amountHeld[o] # 0
  BY <1>2, <1>3 DEF Hold, Ledger, OrderSound, CallerSound
<1>5. CallerSound(o)'
  <2>1. phase[o] \notin {"idle", "reserving", "declined", "held"}
    BY <1>4 DEF Ledger, OrderSound, CallerSound
  <2> QED
    BY <1>1, <1>4, <2>1 DEF Ledger, OrderSound, CallerSound, reservations
<1>6. /\ e \in Events /\ e.quantity = q /\ e.kind = "trade.executed" /\ e.price = price
      /\ e.left = live[o] - q
  BY <1>2 DEF Events
<1>7. Tell(o, e)
  BY DEF Trade
<1> HIDE DEF e
<1>8. /\ ToPay(o)' = ToPay(o) - live[o] + live'[o] + e.quantity
      /\ Unsettled(o)' = Unsettled(o) \cup {n}
      /\ DOMAIN stream'[o] = DOMAIN stream[o] \cup {n}
      /\ stream'[o][n] = e
      /\ \A i \in DOMAIN stream[o] : stream'[o][i] = stream[o][i]
  BY <1>1, <1>4, <1>6, <1>7, ToPayTold
<1> HIDE DEF n
<1>9. ToPay(o)' = ToPay(o)
  BY <1>2, <1>3, <1>6, <1>8
<1>10. CoversRest(o)'
  BY <1>1, <1>2, <1>9, CoversKept
<1>11. EventsSound(o)'
  BY <1>1, <1>2, <1>4, <1>6, <1>8 DEF EventsSound, IsFill, reservations
<1>12. EndingSound(o)'
  BY <1>2, <1>3, <1>6, <1>8 DEF EndingSound, Ends, IsFill
<1>13. \A p \in Orders \ {o} : stream'[p] = stream[p]
  BY <1>7 DEF Tell, Sound, TypeOK
<1> QED
  BY <1>1, <1>3, <1>5, <1>10, <1>11, <1>12, <1>13, CallerTouches

LEMMA CancelLedger ==
  ASSUME Sound, Ledger, NEW o \in Orders, Cancel(o)
  PROVE  Ledger'
<1> DEFINE e == Event("order.cancelled")
           n == Len(stream[o]) + 1
<1>1. UNCHANGED <<balances, reservations, phase, settled, refused, releases, counters, forgotten,
                  torn>>
  BY DEF Cancel, history
<1>2. live[o] > 0 /\ live'[o] = 0 /\ \A p \in Orders \ {o} : live'[p] = live[p]
  BY DEF Cancel, Sound, TypeOK
<1>3. /\ Hold(o)' = Hold(o) /\ live[o] \in Nat /\ EventsSound(o)
      /\ live[o] <= ToPay(o) /\ ToPay(o) \in Nat
  BY ToPayTyped DEF Hold, Ledger, OrderSound
<1>4. CallerSound(o)'
  <2>1. phase[o] \notin {"idle", "reserving", "declined", "held"}
    BY <1>2 DEF Ledger, OrderSound, CallerSound
  <2> QED
    BY <1>1, <1>2, <1>3, <2>1 DEF Ledger, OrderSound, CallerSound, reservations
<1>5. e \in Events /\ e.quantity = 0 /\ e.kind = "order.cancelled"
  BY PlainEventTyped DEF Event
<1>6. Tell(o, e) /\ live'[o] \in Nat
  BY <1>2 DEF Cancel
<1> HIDE DEF e
<1>7. /\ ToPay(o)' = ToPay(o) - live[o] + live'[o] + e.quantity
      /\ Unsettled(o)' = Unsettled(o) \cup {n}
      /\ DOMAIN stream'[o] = DOMAIN stream[o] \cup {n}
      /\ stream'[o][n] = e
      /\ \A i \in DOMAIN stream[o] : stream'[o][i] = stream[o][i]
  BY <1>1, <1>3, <1>5, <1>6, ToPayTold
<1> HIDE DEF n
<1>8. ToPay(o)' \in Nat /\ ToPay(o)' <= ToPay(o)
  BY <1>2, <1>3, <1>5, <1>7
<1>9. CoversRest(o)'
  BY <1>1, <1>8, CoversKept
<1>10. EventsSound(o)'
  BY <1>1, <1>3, <1>5, <1>7 DEF EventsSound, IsFill, reservations
<1>11. EndingSound(o)'
  BY <1>5, <1>7 DEF EndingSound, Ends, IsFill
<1>12. \A p \in Orders \ {o} : stream'[p] = stream[p]
  BY <1>6 DEF Tell, Sound, TypeOK
<1> QED
  BY <1>1, <1>2, <1>4, <1>9, <1>10, <1>11, <1>12, CallerTouches

-----------------------------------------------------------------------------
LEMMA LedgerNext == Sound /\ Sound' /\ Ledger /\ [Next]_vars => Ledger'
<1> SUFFICES ASSUME Sound, Sound', Ledger, [Next]_vars PROVE Ledger'
  OBVIOUS
<1>1. CASE UNCHANGED vars
  <2>1. UNCHANGED <<cash, held, amountHeld, consumed, released, deposited, torn>>
    BY <1>1 DEF vars, balances, reservations, counters, history
  <2>2. CashConserved' /\ HeldMatchesReservations'
    BY <2>1, HoldsUntouched DEF Ledger, CashConserved, Total
  <2>3. \A o \in Orders : OrderSound(o)'
    BY <1>1, OrderUntouched DEF Ledger, vars, reservations, events, releases, history
  <2> QED
    BY <2>2, <2>3 DEF Ledger
<1>2. ASSUME NEW u \in Users, NEW amount \in Deposits, Deposit(u, amount) PROVE Ledger'
  BY <1>2, DepositLedger
<1>3. ASSUME NEW o \in Orders, ReserveFunds(o) PROVE Ledger'
  BY <1>3, ReserveLedger
<1>4. ASSUME NEW o \in Orders, HandlerStep(o) PROVE Ledger'
  BY <1>4, SettleFillLedger, RefuseFillLedger, HandleReleaseLedger DEF HandlerStep
<1>5. ASSUME NEW o \in Orders, CallerStep(o) PROVE Ledger'
  BY <1>5, CallReserveLedger, GiveUpLedger, PublishAcceptedLedger, RejectLedger, TradeLedger,
     CancelLedger
  DEF CallerStep
<1>6. ASSUME NEW r \in Releasers, ReleaseApply(r) PROVE Ledger'
  BY <1>6, ReleaseApplyLedger
<1>7. ASSUME NEW r \in Releasers, NEW o \in Orders, ReleaseRead(r, o) PROVE Ledger'
  BY <1>7, ReleaseReadLedger
<1> QED
  BY <1>1, <1>2, <1>3, <1>4, <1>5, <1>6, <1>7 DEF Next

LEMMA LedgerBalanced == Spec => [](Sound /\ Ledger)
<1>1. Init => Sound /\ Ledger
  BY SoundInit, LedgerInit
<1>2. (Sound /\ Ledger) /\ [Next]_vars => (Sound /\ Ledger)'
  BY SoundNext, LedgerNext
<1> QED
  BY <1>1, <1>2, PTL DEF Spec

\* The books balance, for any users, orders, prices and order of the events: no money is
\* made or lost, what is held is what is left of the reservations, or less if a release of
\* one of them overlapped with something else, and until something is released of it a
\* hold covers what its order may cost.
THEOREM BooksAlwaysBalance == Spec => []BooksBalance
<1>1. Ledger => BooksBalance
  BY DEF Ledger, BooksBalance, HoldCoversRest, OrderSound, CoversRest
<1> QED
  BY <1>1, LedgerBalanced, PTL

\* The money meant for a limit order is there until something of its hold is released, or
\* a release of the same buyer overlaps with something else: only then can a fill be left
\* that does not settle, and never for what another buyer does.
THEOREM RefusalsAreEarned == Spec => []RefusedOnlyAfterRelease
<1>1. Ledger /\ Sound => RefusedOnlyAfterRelease
  BY DEF Ledger, RefusedOnlyAfterRelease, OrderSound, RefusalSound, Whole, Sound, TypeOK
<1> QED
  BY <1>1, LedgerBalanced, PTL

\* An order that is over keeps no hold, unless its reservation was made too late, its
\* rejection was lost or its last fill refused: no other interleaving of reserves,
\* timeouts, overlapping releases, fills and cancellations leaks cash.
THEOREM HoldsNeverLeak == Spec => []NoHoldLeak
<1>1. ASSUME Sound, Ledger PROVE NoHoldLeak
  <2>1. SUFFICES ASSUME NEW o \in Orders \ (forgotten \cup refused), Finished(o)
                 PROVE  Remaining(o) <= 0 /\ (o \notin torn => Remaining(o) = 0)
    BY DEF NoHoldLeak
  <2>2. Unsettled(o) = {}
    BY <2>1 DEF Finished, Unsettled
  <2>3. Remaining(o) \in Int /\ amountHeld[o] \in Nat
        /\ (amountHeld[o] = 0 => Remaining(o) = 0)
    BY <1>1, RowTyped, NothingUnreserved DEF Sound
  <2>4. amountHeld[o] # 0 => ~ (Remaining(o) > 0)
    BY <1>1, <2>1, <2>2 DEF Ledger, OrderSound, EndingSound, Finished
  <2>5. o \notin torn => Remaining(o) >= 0
    BY <1>1 DEF Sound, HoldsCovered
  <2> QED
    BY <2>3, <2>4, <2>5
<1> QED
  BY <1>1, LedgerBalanced, PTL
=============================================================================
