----------------------- MODULE OrderLifecycle_proofs -----------------------
(***************************************************************************)
(* Proofs about OrderLifecycle for any orders, sizes, cancel requests,     *)
(* trades and faults: every invariant the run checks, and what no consumer *)
(* does to an order that is over.                                          *)
(*                                                                         *)
(* None of them is inductive.  What a request session writes comes from a  *)
(* copy it read earlier, so the copy and the row have to be tied together  *)
(* (SagasSound, CancelsSound); that nothing reaches the engine without a   *)
(* hold rests on what a status says of the hold (HoldsFirst); and a trade  *)
(* fills the rows it names because they are there (TradesSound).           *)
(***************************************************************************)
EXTENDS OrderLifecycle, SumTheorems

\* Where a place request stands says what its row and its copy of the row can be.
SagasSound ==
  \A o \in Orders :
    /\ saga[o] = "start" => status[o] = "ABSENT"
    /\ saga[o] \in {"reserve", "fund"} => status[o] = "PENDING" /\ sagaView[o] = "PENDING"
    /\ saga[o] = "publish" => sagaView[o] = "NEW"
    /\ saga[o] \in {"compensate", "reject"} => sagaView[o] \in {"PENDING", "NEW"}
    /\ status[o] = "ABSENT" => saga[o] \in {"start", "done"}

\* Only an order whose hold was confirmed gets past PENDING, except to be rejected.
HoldsFirst ==
  \A o \in Orders :
    /\ saga[o] \in {"fund", "publish"} => o \in reserved
    /\ o \in reserved => status[o] # "ABSENT"
    /\ status[o] \notin {"ABSENT", "PENDING", "REJECTED"} => o \in reserved
    /\ republish[o] > 0 => o \in reserved

\* A cancel request at work has read an open order whose saga is past its hold.
CancelsSound ==
  \A c \in Cancels :
    cancelPc[c] \in {"commit", "publish", "revert"} =>
      /\ cancelOf[c] \in reserved
      /\ previous[c] \in Cancellable
      /\ saga[cancelOf[c]] \notin {"start", "reserve", "fund"}

\* A trade on the bus has a number of its own and names orders that were held.
TradesSound ==
  /\ IsFiniteSet(trades)
  /\ \A t \in trades : t.id < tradeCount /\ t.legs \subseteq reserved

Rows == SagasSound /\ HoldsFirst /\ CancelsSound
Book == AcceptedOnlyAfterReserve /\ TradesSound

IInv ==
  /\ TypeOK /\ FillBounds /\ FillsAccounted
  /\ Rows /\ Book
  /\ OneOrderPerKey /\ CancelWillBeAnswered

-----------------------------------------------------------------------------
(* Lemmas about the operators of the model *)

\* The edges of transition() that the program asks for.
LEMMA Edges ==
  /\ After("PENDING", "NEW") = "NEW"
  /\ \A s \in {"PENDING", "NEW"} : After(s, "REJECTED") = "REJECTED"
  /\ \A s \in Cancellable : After(s, "CANCEL_PENDING") = "CANCEL_PENDING"
                            /\ After("CANCEL_PENDING", s) = s
  /\ \A to \in {"FILLED", "PARTIALLY_FILLED", "CANCELLED"} :
       /\ \A s \in Cancellable \cup {"CANCEL_PENDING"} : After(s, to) = to
       /\ \A s \in Terminal \cup {"PENDING", "ABSENT"} : After(s, to) = s
  BY DEF After, Allowed, Cancellable, Terminal

\* Every status is one of these.
LEMMA StatusCases ==
  ASSUME TypeOK, NEW o \in Orders
  PROVE  status[o] \in Cancellable \cup {"CANCEL_PENDING"} \cup Terminal \cup {"PENDING", "ABSENT"}
  BY DEF TypeOK, Statuses, Cancellable, Terminal

\* The size of an order.
LEMMA SizeTyped ==
  ASSUME NEW o \in Orders
  PROVE  Quantity[o] \in 1..MaxQuantity /\ MaxQuantity \in Nat
  BY QuantityAssumption

LEMMA RemainingTyped ==
  ASSUME TypeOK, FillBounds, NEW o \in Orders
  PROVE  Remaining(o) \in 0..MaxQuantity /\ (Remaining(o) > 0 => status[o] \in Open)
  BY SizeTyped DEF TypeOK, FillBounds, Remaining

\* The contract's sum is the same sum.
LEMMA EngineSum ==
  ASSUME NEW S, NEW o
  PROVE  Engine!QuantityIn(S, o)
           = SumFunctionOnSet([t \in S |-> t.quantity], {t \in S : o \in t.legs})
  BY DEF Engine!QuantityIn, Engine!SumFunctionOnSet, Engine!FoldFunctionOnSet,
         Engine!MapThenFoldSet, SumFunctionOnSet, FoldFunctionOnSet, MapThenFoldSet

\* The quantities of a finite set of trades are numbers, and one trade is no more
\* than all of them.
LEMMA QuantityInNat ==
  ASSUME NEW S, IsFiniteSet(S), \A t \in S : t.quantity \in Nat, NEW o
  PROVE  /\ Engine!QuantityIn(S, o) \in Nat
         /\ \A t \in S : o \in t.legs => t.quantity <= Engine!QuantityIn(S, o)
<1> DEFINE f == [t \in S |-> t.quantity]
           R == {t \in S : o \in t.legs}
<1>1. IsFiniteSet(R)
  BY FS_Subset
<1>2. \A t \in R : f[t] \in Nat /\ f[t] = t.quantity
  OBVIOUS
<1> HIDE DEF f
<1>3. /\ SumFunctionOnSet(f, R) \in Nat
      /\ \A t \in R : f[t] <= SumFunctionOnSet(f, R)
  BY <1>1, <1>2, SumNat
<1> QED
  BY <1>2, <1>3, EngineSum DEF f

\* The trades of a part and of the rest are the trades of the whole.
LEMMA QuantityInSplit ==
  ASSUME NEW S, IsFiniteSet(S), \A t \in S : t.quantity \in Nat, NEW gone \in SUBSET S, NEW o
  PROVE  Engine!QuantityIn(S, o) = Engine!QuantityIn(gone, o) + Engine!QuantityIn(S \ gone, o)
<1> DEFINE f == [t \in S |-> t.quantity]
           g == [t \in gone |-> t.quantity]
           h == [t \in S \ gone |-> t.quantity]
           Of(T) == {t \in T : o \in t.legs}
<1>1. /\ IsFiniteSet(Of(S)) /\ IsFiniteSet(Of(gone)) /\ IsFiniteSet(Of(S \ gone))
      /\ Of(gone) \in SUBSET Of(S) /\ Of(S) \ Of(gone) = Of(S \ gone)
  BY FS_Subset
<1>2. /\ \A t \in Of(S) : f[t] \in Int
      /\ \A t \in Of(gone) : g[t] = f[t] /\ f[t] \in Int
      /\ \A t \in Of(S \ gone) : h[t] = f[t] /\ f[t] \in Int
  OBVIOUS
<1> HIDE DEF f, g, h, Of
<1>3. SumFunctionOnSet(f, Of(S))
        = SumFunctionOnSet(f, Of(gone)) + SumFunctionOnSet(f, Of(S) \ Of(gone))
  BY <1>1, <1>2, SumSplit
<1>4. /\ SumFunctionOnSet(g, Of(gone)) = SumFunctionOnSet(f, Of(gone))
      /\ SumFunctionOnSet(h, Of(S \ gone)) = SumFunctionOnSet(f, Of(S \ gone))
  <2> DEFINE G == Of(gone)
             R == Of(S \ gone)
  <2>1. IsFiniteSet(G) /\ IsFiniteSet(R)
    BY <1>1
  <2>2. (\A t \in G : g[t] = f[t]) /\ (\A t \in R : h[t] = f[t])
    BY <1>2
  <2> HIDE DEF G, R
  <2>3. SumFunctionOnSet(g, G) = SumFunctionOnSet(f, G)
    BY <2>1, <2>2, SumEqual
  <2>4. SumFunctionOnSet(h, R) = SumFunctionOnSet(f, R)
    BY <2>1, <2>2, SumEqual
  <2> QED
    BY <2>3, <2>4 DEF G, R
<1>5. /\ Engine!QuantityIn(S, o) = SumFunctionOnSet(f, Of(S))
      /\ Engine!QuantityIn(gone, o) = SumFunctionOnSet(g, Of(gone))
      /\ Engine!QuantityIn(S \ gone, o) = SumFunctionOnSet(h, Of(S \ gone))
  BY EngineSum DEF f, g, h, Of
<1> QED
  BY <1>1, <1>3, <1>4, <1>5

\* One trade alone.
LEMMA QuantityInOne ==
  ASSUME NEW t, t.quantity \in Nat, NEW o
  PROVE  Engine!QuantityIn({t}, o) = IF o \in t.legs THEN t.quantity ELSE 0
<1> DEFINE f == [u \in {t} |-> u.quantity]
<1>1. CASE o \in t.legs
  <2>1. {u \in {t} : o \in u.legs} = {} \cup {t} /\ f[t] = t.quantity
    BY <1>1
  <2> HIDE DEF f
  <2>2. SumFunctionOnSet(f, {} \cup {t}) = f[t] + SumFunctionOnSet(f, {})
    BY <2>1, FS_EmptySet, SumAdd
  <2>3. SumFunctionOnSet(f, {} \cup {t}) = t.quantity
    BY <2>1, <2>2, SumEmpty
  <2> QED
    BY <1>1, <2>1, <2>3, EngineSum DEF f
<1>2. CASE o \notin t.legs
  <2>1. {u \in {t} : o \in u.legs} = {}
    BY <1>2
  <2> QED
    BY <1>2, <2>1, SumEmpty, EngineSum
<1> QED
  BY <1>1, <1>2

-----------------------------------------------------------------------------
(* What a step leaves alone *)

LEMMA FillsFrame ==
  ASSUME FillsAccounted, UNCHANGED <<filled, trades, lost, traded>>
  PROVE  FillsAccounted'
  BY DEF FillsAccounted, Waiting

LEMMA BookFrame ==
  ASSUME Book, UNCHANGED engineOwn, UNCHANGED <<accepted, trades>>, reserved \subseteq reserved'
  PROVE  Book'
  BY DEF Book, AcceptedOnlyAfterReserve, KnownToEngine, TradesSound, engineOwn

LEMMA RowsFrame ==
  ASSUME Rows, UNCHANGED <<status, sagas, cancelVars, republish, reserved>>
  PROVE  Rows'
  BY DEF Rows, SagasSound, HoldsFirst, CancelsSound, sagas, cancelVars

\* What the engine does leaves the rows alone.
LEMMA EngineFrame ==
  ASSUME IInv, UNCHANGED orderOwn
  PROVE  FillBounds' /\ Rows' /\ OneOrderPerKey'
  BY DEF IInv, FillBounds, Rows, SagasSound, HoldsFirst, CancelsSound, OneOrderPerKey, orderOwn

-----------------------------------------------------------------------------
LEMMA InitSound == Init => IInv
<1> SUFFICES ASSUME Init PROVE IInv
  OBVIOUS
<1> USE DEF Init, OrderInit, Engine!EngineInit
<1>1. TypeOK
  <2>1. 0 \in 0..MaxQuantity /\ 0 \in 0..MaxFaults /\ 0 \in 0..MaxTrades
    BY BoundsAssumption, QuantityAssumption
  <2> QED
    BY <2>1 DEF TypeOK, SagaPCs, CancelPCs
<1>2. IsFiniteSet(trades)
  BY FS_EmptySet
<1>3. FillBounds /\ Rows /\ OneOrderPerKey /\ CancelWillBeAnswered
  BY SizeTyped DEF FillBounds, Rows, SagasSound, HoldsFirst, CancelsSound, OneOrderPerKey,
                   CancelWillBeAnswered
<1>4. Book
  BY <1>2 DEF Book, AcceptedOnlyAfterReserve, KnownToEngine, TradesSound
<1>5. FillsAccounted
  <2>1. \A o \in Orders : Waiting(o) = 0
    <3> SUFFICES ASSUME NEW o \in Orders PROVE Waiting(o) = 0
      OBVIOUS
    <3>1. {t \in trades : o \in t.legs} = {}
      OBVIOUS
    <3> QED
      BY <3>1, EngineSum, SumEmpty DEF Waiting
  <2> QED
    BY <2>1 DEF FillsAccounted
<1> QED
  BY <1>1, <1>3, <1>4, <1>5 DEF IInv

-----------------------------------------------------------------------------
(* place_order *)

LEMMA PersistSound ==
  ASSUME IInv, NEW o \in Orders, Persist(o), UNCHANGED engineOwn
  PROVE  IInv'
<1> USE DEF IInv, bus, history, cancelVars, engineOwn
<1>1. TypeOK'
  BY DEF Persist, CloseSaga, TypeOK, Statuses, SagaPCs
<1>2. Rows'
  BY DEF Persist, CloseSaga, Rows, SagasSound, HoldsFirst, CancelsSound, TypeOK
<1>3. Book' /\ FillsAccounted'
  BY BookFrame, FillsFrame DEF Persist
<1>4. OneOrderPerKey'
  BY DEF Persist, KeyFree, OneOrderPerKey, TypeOK
<1>5. FillBounds' /\ CancelWillBeAnswered'
  BY DEF Persist, CloseSaga, FillBounds, CancelWillBeAnswered, TypeOK
<1> QED
  BY <1>1, <1>2, <1>3, <1>4, <1>5

LEMMA ReserveSound ==
  ASSUME IInv, NEW o \in Orders, Reserve(o), UNCHANGED engineOwn
  PROVE  IInv'
<1> USE DEF IInv, bus, row, cancelVars, engineOwn
<1>1. TypeOK'
  BY BoundsAssumption DEF Reserve, Fault, TypeOK, SagaPCs
<1>2. Rows'
  BY DEF Reserve, Rows, SagasSound, HoldsFirst, CancelsSound, TypeOK
<1>3. Book' /\ FillsAccounted'
  BY BookFrame, FillsFrame DEF Reserve
<1>4. OneOrderPerKey' /\ FillBounds' /\ CancelWillBeAnswered'
  BY DEF Reserve, OneOrderPerKey, FillBounds, CancelWillBeAnswered
<1> QED
  BY <1>1, <1>2, <1>3, <1>4

LEMMA FundSound ==
  ASSUME IInv, NEW o \in Orders, Fund(o), UNCHANGED engineOwn
  PROVE  IInv'
<1> USE DEF IInv, bus, history, cancelVars, engineOwn
<1>1. /\ sagaView' = [sagaView EXCEPT ![o] = "NEW"]
      /\ status' = [status EXCEPT ![o] = "NEW"]
      /\ status[o] = "PENDING" /\ o \in reserved
  <2>1. status[o] = "PENDING" /\ sagaView[o] = "PENDING" /\ o \in reserved
    BY DEF Fund, Rows, SagasSound, HoldsFirst
  <2>2. sagaView' = [sagaView EXCEPT ![o] = "NEW"]
    BY <2>1, Edges DEF Fund
  <2>3. sagaView'[o] = "NEW"
    BY <2>2 DEF TypeOK
  <2> QED
    BY <2>1, <2>2, <2>3 DEF Fund
<1>2. TypeOK'
  BY <1>1 DEF Fund, TypeOK, Statuses, SagaPCs
<1>3. Rows'
  BY <1>1 DEF Fund, Rows, SagasSound, HoldsFirst, CancelsSound, TypeOK
<1>4. Book' /\ FillsAccounted'
  BY BookFrame, FillsFrame DEF Fund
<1>5. OneOrderPerKey' /\ FillBounds' /\ CancelWillBeAnswered'
  BY <1>1 DEF Fund, OneOrderPerKey, FillBounds, CancelWillBeAnswered, TypeOK
<1> QED
  BY <1>2, <1>3, <1>4, <1>5

LEMMA PublishAcceptedSound ==
  ASSUME IInv, NEW o \in Orders, PublishAccepted(o), UNCHANGED engineOwn
  PROVE  IInv'
<1> USE DEF IInv, history, row, cancelVars, engineOwn
<1>1. /\ accepted' \subseteq accepted \cup {Message(o, Quantity[o])}
      /\ Message(o, Quantity[o]) \in [order : Orders, quantity : 1..MaxQuantity]
      /\ Message(o, Quantity[o]).order = o /\ o \in reserved
  BY SizeTyped DEF PublishAccepted, Message, Rows, HoldsFirst
<1>2. TypeOK'
  BY <1>1, BoundsAssumption DEF PublishAccepted, CloseSaga, Fault, TypeOK, SagaPCs
<1>3. Rows'
  BY DEF PublishAccepted, CloseSaga, Rows, SagasSound, HoldsFirst, CancelsSound, TypeOK
<1>4. Book'
  BY <1>1 DEF PublishAccepted, Book, AcceptedOnlyAfterReserve, KnownToEngine, TradesSound
<1>5. FillsAccounted'
  BY FillsFrame DEF PublishAccepted
<1>6. OneOrderPerKey' /\ FillBounds' /\ CancelWillBeAnswered'
  BY DEF PublishAccepted, OneOrderPerKey, FillBounds, CancelWillBeAnswered
<1> QED
  BY <1>2, <1>3, <1>4, <1>5, <1>6

LEMMA CompensateSound ==
  ASSUME IInv, NEW o \in Orders, Compensate(o), UNCHANGED engineOwn
  PROVE  IInv'
<1> USE DEF IInv, bus, row, cancelVars, engineOwn
<1>1. TypeOK'
  BY DEF Compensate, TypeOK, SagaPCs
<1>2. Rows'
  BY DEF Compensate, Rows, SagasSound, HoldsFirst, CancelsSound, TypeOK
<1>3. Book' /\ FillsAccounted'
  BY BookFrame, FillsFrame DEF Compensate
<1>4. OneOrderPerKey' /\ FillBounds' /\ CancelWillBeAnswered'
  BY DEF Compensate, OneOrderPerKey, FillBounds, CancelWillBeAnswered
<1> QED
  BY <1>1, <1>2, <1>3, <1>4

LEMMA RejectSound ==
  ASSUME IInv, NEW o \in Orders, Reject(o), UNCHANGED engineOwn
  PROVE  IInv'
<1> USE DEF IInv, bus, history, cancelVars, engineOwn
<1>1. status' = [status EXCEPT ![o] = "REJECTED"] /\ status[o] # "ABSENT"
  BY Edges DEF Reject, Rows, SagasSound
<1>2. TypeOK'
  BY <1>1 DEF Reject, CloseSaga, TypeOK, Statuses, SagaPCs
<1>3. Rows'
  BY <1>1 DEF Reject, CloseSaga, Rows, SagasSound, HoldsFirst, CancelsSound, TypeOK
<1>4. Book' /\ FillsAccounted'
  BY BookFrame, FillsFrame DEF Reject
<1>5. OneOrderPerKey' /\ FillBounds' /\ CancelWillBeAnswered'
  BY <1>1 DEF Reject, OneOrderPerKey, FillBounds, CancelWillBeAnswered, TypeOK
<1> QED
  BY <1>2, <1>3, <1>4, <1>5

-----------------------------------------------------------------------------
(* cancel_order *)

LEMMA CancelReadSound ==
  ASSUME IInv, NEW c \in Cancels, NEW o \in Orders, CancelRead(c, o), UNCHANGED engineOwn
  PROVE  IInv'
<1> USE DEF IInv, bus, history, row, sagas, engineOwn
<1>1. /\ status[o] \in Statuses /\ o \in reserved /\ saga[o] \notin {"start", "reserve", "fund"}
  BY DEF CancelRead, Cancellable, Statuses, Rows, SagasSound, HoldsFirst
<1>2. TypeOK'
  BY <1>1 DEF CancelRead, TypeOK, CancelPCs
<1>3. Rows'
  BY <1>1 DEF CancelRead, Rows, SagasSound, HoldsFirst, CancelsSound, TypeOK
<1>4. Book' /\ FillsAccounted'
  BY BookFrame, FillsFrame DEF CancelRead
<1>5. OneOrderPerKey' /\ FillBounds'
  BY DEF CancelRead, OneOrderPerKey, FillBounds
<1>6. CancelWillBeAnswered'
  BY DEF CancelRead, CancelWillBeAnswered, TypeOK
<1> QED
  BY <1>2, <1>3, <1>4, <1>5, <1>6

LEMMA CancelCommitSound ==
  ASSUME IInv, NEW c \in Cancels, CancelCommit(c), UNCHANGED engineOwn
  PROVE  IInv'
<1> USE DEF IInv, bus, history, sagas, engineOwn
<1> DEFINE o == cancelOf[c]
<1>1. /\ o \in Orders /\ o \in reserved
      /\ status[o] # "ABSENT" /\ saga[o] \notin {"start", "reserve", "fund"}
      /\ status' = [status EXCEPT ![o] = "CANCEL_PENDING"]
  BY Edges DEF CancelCommit, Rows, CancelsSound, HoldsFirst, TypeOK
<1> HIDE DEF o
<1>2. TypeOK'
  BY <1>1 DEF CancelCommit, TypeOK, Statuses, CancelPCs
<1>3. Rows'
  BY <1>1 DEF CancelCommit, Rows, SagasSound, HoldsFirst, CancelsSound, TypeOK
<1>4. Book' /\ FillsAccounted'
  BY BookFrame, FillsFrame DEF CancelCommit
<1>5. OneOrderPerKey' /\ FillBounds'
  BY <1>1 DEF CancelCommit, OneOrderPerKey, FillBounds, TypeOK
<1>6. CancelWillBeAnswered'
  BY <1>1 DEF CancelCommit, CancelWillBeAnswered, TypeOK, o
<1> QED
  BY <1>2, <1>3, <1>4, <1>5, <1>6

LEMMA CancelPublishSound ==
  ASSUME IInv, NEW c \in Cancels, CancelPublish(c), UNCHANGED engineOwn
  PROVE  IInv'
<1> USE DEF IInv, history, row, sagas, engineOwn
<1>1. cancelOf[c] \in Orders /\ cancelOf[c] \in reserved
  BY DEF CancelPublish, Rows, CancelsSound, TypeOK
<1>2. TypeOK'
  BY <1>1, BoundsAssumption DEF CancelPublish, AskEngine, CloseCancel, Fault, TypeOK, CancelPCs
<1>3. Rows'
  BY <1>1 DEF CancelPublish, CloseCancel, Rows, SagasSound, HoldsFirst, CancelsSound, TypeOK
<1>4. Book' /\ FillsAccounted'
  BY BookFrame, FillsFrame DEF CancelPublish
<1>5. OneOrderPerKey' /\ FillBounds'
  BY DEF CancelPublish, OneOrderPerKey, FillBounds
<1>6. CancelWillBeAnswered'
  BY <1>1 DEF CancelPublish, AskEngine, CloseCancel, CancelWillBeAnswered, TypeOK
<1> QED
  BY <1>2, <1>3, <1>4, <1>5, <1>6

LEMMA CancelRevertSound ==
  ASSUME IInv, NEW c \in Cancels, CancelRevert(c), UNCHANGED engineOwn
  PROVE  IInv'
<1> USE DEF IInv, bus, history, sagas, engineOwn
<1> DEFINE o == cancelOf[c]
<1>1. /\ o \in Orders /\ o \in reserved
      /\ status[o] # "ABSENT" /\ saga[o] \notin {"start", "reserve", "fund"}
      /\ previous[c] \in Cancellable
      /\ status' = [status EXCEPT ![o] = previous[c]]
  BY Edges DEF CancelRevert, Rows, CancelsSound, HoldsFirst, TypeOK
<1> HIDE DEF o
<1>2. TypeOK'
  BY <1>1 DEF CancelRevert, CloseCancel, TypeOK, Statuses, CancelPCs
<1>3. Rows'
  BY <1>1 DEF CancelRevert, CloseCancel, Rows, SagasSound, HoldsFirst, CancelsSound, TypeOK,
              Cancellable
<1>4. Book' /\ FillsAccounted'
  BY BookFrame, FillsFrame DEF CancelRevert
<1>5. OneOrderPerKey' /\ FillBounds'
  BY <1>1 DEF CancelRevert, OneOrderPerKey, FillBounds, TypeOK, Cancellable
<1>6. CancelWillBeAnswered'
  BY <1>1 DEF CancelRevert, CloseCancel, CancelWillBeAnswered, TypeOK, Cancellable, o
<1> QED
  BY <1>2, <1>3, <1>4, <1>5, <1>6

-----------------------------------------------------------------------------
(* The consumers *)

\* While the book has not traded more than the order's size, a fill fits what is left.
LEMMA FillFits ==
  ASSUME IInv, NEW t \in trades, NEW o \in Orders, o \in t.legs
  PROVE  /\ status[o] # "ABSENT"
         /\ t.quantity \in 1..MaxQuantity
         /\ FilledAfter(o, t.quantity) \in 0..MaxQuantity
         /\ FilledAfter(o, t.quantity) <= Quantity[o]
         /\ status[o] = "FILLED" => FilledAfter(o, t.quantity) = Quantity[o]
         /\ traded[o] <= Quantity[o] => FilledAfter(o, t.quantity) = filled[o] + t.quantity
<1> USE DEF IInv
<1>1. t.quantity \in 1..MaxQuantity /\ t.quantity \in Nat /\ filled[o] \in 0..MaxQuantity
      /\ traded[o] \in Nat /\ lost[o] \in Nat
  BY QuantityAssumption DEF TypeOK
<1>2. /\ Quantity[o] \in 1..MaxQuantity /\ MaxQuantity \in Nat
      /\ filled[o] <= Quantity[o] /\ (status[o] = "FILLED" => filled[o] = Quantity[o])
  BY SizeTyped DEF FillBounds
<1>3. status[o] # "ABSENT"
  BY DEF Book, TradesSound, Rows, HoldsFirst
<1>4. Waiting(o) \in Nat /\ t.quantity <= Waiting(o)
  <2>1. \A u \in trades : u.quantity \in Nat
    BY QuantityAssumption DEF TypeOK
  <2> QED
    BY <2>1, QuantityInNat DEF Book, TradesSound, Waiting
<1>5. traded[o] <= Quantity[o] => filled[o] + Waiting(o) + lost[o] = traded[o]
  BY DEF FillsAccounted
<1>6. traded[o] <= Quantity[o] => filled[o] + t.quantity <= Quantity[o]
  BY <1>1, <1>2, <1>4, <1>5
<1> QED
  BY <1>1, <1>2, <1>3, <1>6 DEF FilledAfter

\* Taking a trade off the bus.
LEMMA WaitingWithout ==
  ASSUME IInv, NEW t \in trades, trades' = trades \ {t}, NEW o \in Orders
  PROVE  /\ Waiting(o) \in Nat /\ Waiting(o)' \in Nat
         /\ Waiting(o) = Waiting(o)' + IF o \in t.legs THEN t.quantity ELSE 0
<1>1. /\ IsFiniteSet(trades) /\ IsFiniteSet(trades \ {t})
      /\ \A u \in trades : u.quantity \in Nat
  BY FS_RemoveElement, QuantityAssumption DEF IInv, Book, TradesSound, TypeOK
<1>2. /\ Engine!QuantityIn(trades, o) \in Nat
      /\ Engine!QuantityIn(trades \ {t}, o) \in Nat
  BY <1>1, QuantityInNat
<1>3. Engine!QuantityIn(trades, o)
        = Engine!QuantityIn({t}, o) + Engine!QuantityIn(trades \ {t}, o)
  BY <1>1, QuantityInSplit
<1>4. Engine!QuantityIn({t}, o) = (IF o \in t.legs THEN t.quantity ELSE 0) /\ t.quantity \in Nat
  BY <1>1, QuantityInOne
<1>5. Waiting(o) = Engine!QuantityIn(trades, o)
      /\ Waiting(o)' = Engine!QuantityIn(trades \ {t}, o)
  BY DEF Waiting
<1> QED
  BY <1>2, <1>3, <1>4, <1>5

LEMMA HandleTradeSound ==
  ASSUME IInv, NEW t \in trades, HandleTrade(t), UNCHANGED engineOwn
  PROVE  IInv'
<1> USE DEF IInv, history, sagas, cancelVars, engineOwn
<1>1. ASSUME NEW o \in Orders
      PROVE  /\ o \notin t.legs => filled'[o] = filled[o] /\ status'[o] = status[o]
             /\ o \in t.legs => /\ filled'[o] = FilledAfter(o, t.quantity)
                               /\ status'[o] = After(status[o],
                                    IF filled'[o] = Quantity[o] THEN "FILLED" ELSE "PARTIALLY_FILLED")
  BY FillFits DEF HandleTrade, KnownLegs
<1>2. ASSUME NEW o \in Orders
      PROVE  /\ status[o] \in Terminal \cup {"PENDING", "ABSENT"} => status'[o] = status[o]
             /\ status[o] \in Cancellable \cup {"CANCEL_PENDING"} /\ status'[o] # status[o] =>
                  status'[o] \in {"FILLED", "PARTIALLY_FILLED"}
             /\ status'[o] \in Statuses \cup {"ABSENT"}
             /\ status'[o] = "CANCEL_PENDING" => status[o] = "CANCEL_PENDING"
             /\ status'[o] = "FILLED" /\ status[o] # "FILLED" => filled'[o] = Quantity[o]
             /\ status'[o] = "ABSENT" <=> status[o] = "ABSENT"
  <2>1. status[o] \in Statuses \cup {"ABSENT"}
    BY DEF TypeOK
  <2> QED
    BY <1>1, <2>1, Edges, StatusCases DEF Statuses, Terminal, Cancellable
<1>3. /\ filled' \in [Orders -> 0..MaxQuantity] /\ status' \in [Orders -> Statuses \cup {"ABSENT"}]
      /\ \A o \in Orders : filled'[o] <= Quantity[o]
  <2>1. \A o \in Orders : filled'[o] \in 0..MaxQuantity /\ filled'[o] <= Quantity[o]
    BY <1>1, FillFits DEF TypeOK, FillBounds
  <2>2. /\ filled' = [o \in Orders |-> filled'[o]] /\ status' = [o \in Orders |-> status'[o]]
    BY DEF HandleTrade
  <2> QED
    BY <1>2, <2>1, <2>2
<1>4. TypeOK'
  BY <1>3 DEF HandleTrade, TypeOK
<1>5. FillBounds'
  <2> SUFFICES ASSUME NEW o \in Orders
               PROVE  status'[o] = "FILLED" => filled'[o] = Quantity[o]
    BY <1>3 DEF FillBounds
  <2>1. CASE status[o] = "FILLED" /\ o \in t.legs
    BY <1>1, <2>1, FillFits
  <2>2. CASE status[o] = "FILLED" /\ o \notin t.legs
    BY <1>1, <2>2 DEF FillBounds
  <2>3. CASE status[o] # "FILLED"
    BY <1>2, <2>3
  <2> QED
    BY <2>1, <2>2, <2>3
<1>6. Rows'
  BY <1>2 DEF HandleTrade, Rows, SagasSound, HoldsFirst, CancelsSound, Terminal, Cancellable,
              TypeOK
<1>7. Book'
  <2>1. IsFiniteSet(trades')
    BY FS_RemoveElement DEF HandleTrade, Book, TradesSound
  <2> QED
    BY <2>1 DEF HandleTrade, Book, AcceptedOnlyAfterReserve, KnownToEngine, TradesSound
<1>8. FillsAccounted'
  <2> SUFFICES ASSUME NEW o \in Orders, traded[o] <= Quantity[o]
               PROVE  filled'[o] + Waiting(o)' + lost[o] = traded[o]
    BY DEF FillsAccounted
  <2>1. filled[o] + Waiting(o) + lost[o] = traded[o]
    BY DEF FillsAccounted
  <2>2. /\ Waiting(o) \in Nat /\ Waiting(o)' \in Nat
        /\ Waiting(o) = Waiting(o)' + IF o \in t.legs THEN t.quantity ELSE 0
    BY WaitingWithout DEF HandleTrade
  <2>3. filled'[o] = IF o \in t.legs THEN filled[o] + t.quantity ELSE filled[o]
    BY <1>1, FillFits
  <2>4. filled[o] \in Nat /\ lost[o] \in Nat /\ t.quantity \in Nat
    BY QuantityAssumption DEF TypeOK
  <2> QED
    BY <2>1, <2>2, <2>3, <2>4
<1>9. OneOrderPerKey' /\ CancelWillBeAnswered'
  BY <1>2 DEF HandleTrade, OneOrderPerKey, CancelWillBeAnswered
<1> QED
  BY <1>4, <1>5, <1>6, <1>7, <1>8, <1>9

LEMMA HandleOrderCancelledSound ==
  ASSUME IInv, NEW o \in Orders, HandleOrderCancelled(o), UNCHANGED engineOwn
  PROVE  IInv'
<1> USE DEF IInv, history, sagas, cancelVars, engineOwn
<1>1. /\ status' = [status EXCEPT ![o] = After(@, "CANCELLED")]
      /\ \/ status[o] \in Cancellable \cup {"CANCEL_PENDING"} /\ status'[o] = "CANCELLED"
         \/ status[o] \in Terminal \cup {"PENDING", "ABSENT"} /\ status'[o] = status[o]
  BY Edges, StatusCases DEF HandleOrderCancelled, TypeOK
<1>2. TypeOK'
  BY <1>1 DEF HandleOrderCancelled, TypeOK, Statuses, Terminal
<1>3. Rows'
  BY <1>1 DEF HandleOrderCancelled, Rows, SagasSound, HoldsFirst, CancelsSound, TypeOK,
              Cancellable, Terminal
<1>4. Book' /\ FillsAccounted'
  BY BookFrame, FillsFrame DEF HandleOrderCancelled
<1>5. OneOrderPerKey' /\ FillBounds'
  BY <1>1 DEF HandleOrderCancelled, OneOrderPerKey, FillBounds, TypeOK, Cancellable
<1>6. CancelWillBeAnswered'
  BY <1>1 DEF HandleOrderCancelled, CancelWillBeAnswered, TypeOK, Terminal
<1> QED
  BY <1>2, <1>3, <1>4, <1>5, <1>6

LEMMA HandleCancelRejectedSound ==
  ASSUME IInv, NEW o \in Orders, HandleCancelRejected(o), UNCHANGED engineOwn
  PROVE  IInv'
<1> USE DEF IInv, history, sagas, cancelVars, engineOwn
<1>1. Restored(o) \in Cancellable \cup {"FILLED"}
      /\ (Restored(o) = "FILLED" => filled[o] = Quantity[o])
  BY SizeTyped DEF Restored, Cancellable, FillBounds, TypeOK
<1>2. /\ status[o] # "CANCEL_PENDING" => status' = status
      /\ status[o] = "CANCEL_PENDING" => status' = [status EXCEPT ![o] = Restored(o)]
  <2>1. After("CANCEL_PENDING", Restored(o)) = Restored(o)
    BY <1>1, Edges
  <2>2. status' = [status EXCEPT ![o] = IF status[o] = "CANCEL_PENDING" THEN After(status[o], Restored(o))
                                        ELSE status[o]]
    BY DEF HandleCancelRejected
  <2>3. status[o] # "CANCEL_PENDING" => status' = status
    BY <2>2 DEF TypeOK
  <2> QED
    BY <2>1, <2>2, <2>3
<1>3. TypeOK'
  BY <1>1, <1>2 DEF HandleCancelRejected, TypeOK, Statuses, Cancellable
<1>4. Rows'
  BY <1>1, <1>2 DEF HandleCancelRejected, Rows, SagasSound, HoldsFirst, CancelsSound, TypeOK,
                    Cancellable
<1>5. Book' /\ FillsAccounted'
  BY BookFrame, FillsFrame DEF HandleCancelRejected
<1>6. OneOrderPerKey' /\ FillBounds'
  BY <1>1, <1>2 DEF HandleCancelRejected, OneOrderPerKey, FillBounds, TypeOK, Cancellable
<1>7. CancelWillBeAnswered'
  BY <1>1, <1>2 DEF HandleCancelRejected, CancelWillBeAnswered, TypeOK, Cancellable
<1> QED
  BY <1>3, <1>4, <1>5, <1>6, <1>7

-----------------------------------------------------------------------------
(* Crash, restart and reconciliation *)

LEMMA CrashAndRestartSound ==
  ASSUME IInv, CrashAndRestart, UNCHANGED engineOwn
  PROVE  IInv'
<1> USE DEF IInv, bus, engineOwn
<1>1. PICK stale \in SUBSET {o \in Orders : status[o] = "PENDING"} :
        /\ released' = released \cup stale
        /\ status' = [o \in Orders |-> IF o \in stale THEN After(status[o], "REJECTED")
                                                     ELSE status[o]]
  BY DEF CrashAndRestart
<1>2. ASSUME NEW o \in Orders
      PROVE  status'[o] = IF o \in stale THEN "REJECTED" ELSE status[o]
  BY <1>1, Edges
<1>3. ASSUME NEW o \in Orders
      PROVE  /\ republish'[o] = Remaining(o)
             /\ republish'[o] \in 0..MaxQuantity
             /\ republish'[o] > 0 => status[o] \in Open
  BY RemainingTyped DEF CrashAndRestart
<1>4. TypeOK'
  <2>1. status' \in [Orders -> Statuses \cup {"ABSENT"}]
    BY <1>1, <1>2 DEF TypeOK, Statuses
  <2>2. republish' \in [Orders -> 0..MaxQuantity]
    BY <1>3 DEF CrashAndRestart
  <2>3. released' \subseteq Orders
    BY <1>1 DEF TypeOK
  <2> QED
    BY <2>1, <2>2, <2>3, BoundsAssumption DEF CrashAndRestart, Fault, TypeOK, SagaPCs, CancelPCs
<1>5. Rows'
  <2>1. SagasSound'
    BY <1>2 DEF CrashAndRestart, Rows, SagasSound, TypeOK
  <2>2. HoldsFirst'
    BY <1>2, <1>3 DEF CrashAndRestart, Rows, HoldsFirst, TypeOK, Open
  <2>3. CancelsSound'
    BY DEF CrashAndRestart, CancelsSound
  <2> QED
    BY <2>1, <2>2, <2>3 DEF Rows
<1>6. Book' /\ FillsAccounted'
  BY BookFrame, FillsFrame DEF CrashAndRestart
<1>7. OneOrderPerKey' /\ FillBounds'
  BY <1>2 DEF CrashAndRestart, OneOrderPerKey, FillBounds
<1>8. CancelWillBeAnswered'
  BY DEF CrashAndRestart, CancelWillBeAnswered
<1> QED
  BY <1>4, <1>5, <1>6, <1>7, <1>8

LEMMA RepublishSound ==
  ASSUME IInv, NEW o \in Orders, Republish(o), UNCHANGED engineOwn
  PROVE  IInv'
<1> USE DEF IInv, history, row, sagas, cancelVars, engineOwn
<1>1. /\ Message(o, republish[o]) \in [order : Orders, quantity : 1..MaxQuantity]
      /\ Message(o, republish[o]).order = o /\ o \in reserved
  BY QuantityAssumption DEF Republish, Message, Rows, HoldsFirst, TypeOK
<1>2. TypeOK'
  BY <1>1, QuantityAssumption DEF Republish, TypeOK
<1>3. Rows'
  BY DEF Republish, Rows, SagasSound, HoldsFirst, CancelsSound, TypeOK
<1>4. Book'
  BY <1>1 DEF Republish, Book, AcceptedOnlyAfterReserve, KnownToEngine, TradesSound
<1>5. FillsAccounted'
  BY FillsFrame DEF Republish
<1>6. OneOrderPerKey' /\ FillBounds' /\ CancelWillBeAnswered'
  BY DEF Republish, OneOrderPerKey, FillBounds, CancelWillBeAnswered
<1> QED
  BY <1>2, <1>3, <1>4, <1>5, <1>6

LEMMA RepublishFailsSound ==
  ASSUME IInv, RepublishFails, UNCHANGED engineOwn
  PROVE  IInv'
<1> USE DEF IInv, bus, history, row, sagas, cancelVars, engineOwn
<1>1. TypeOK'
  BY QuantityAssumption DEF RepublishFails, TypeOK
<1>2. Rows'
  BY DEF RepublishFails, Rows, SagasSound, HoldsFirst, CancelsSound
<1>3. Book' /\ FillsAccounted'
  BY BookFrame, FillsFrame DEF RepublishFails
<1>4. OneOrderPerKey' /\ FillBounds' /\ CancelWillBeAnswered'
  BY DEF RepublishFails, OneOrderPerKey, FillBounds, CancelWillBeAnswered
<1> QED
  BY <1>1, <1>2, <1>3, <1>4

-----------------------------------------------------------------------------
(* The engine *)

LEMMA AcceptOrderSound ==
  ASSUME IInv, NEW m \in accepted, Engine!AcceptOrder(m), UNCHANGED orderOwn
  PROVE  IInv'
<1> USE DEF IInv, Engine!AcceptOrder, Engine!engineHistory, Engine!book, Engine!EngineFault
<1>1. m.order \in Orders /\ m.quantity \in 1..MaxQuantity /\ m.order \in reserved
  BY DEF TypeOK, Book, AcceptedOnlyAfterReserve, KnownToEngine
<1>2. TypeOK'
  BY <1>1, QuantityAssumption, BoundsAssumption DEF TypeOK, orderOwn
<1>3. Book'
  BY <1>1 DEF Book, AcceptedOnlyAfterReserve, KnownToEngine, TradesSound, orderOwn, TypeOK
<1>4. FillsAccounted'
  BY FillsFrame DEF orderOwn
<1>5. CancelWillBeAnswered'
  BY DEF CancelWillBeAnswered, orderOwn
<1> QED
  BY <1>2, <1>3, <1>4, <1>5, EngineFrame

LEMMA CancelRemainderSound ==
  ASSUME IInv, NEW o \in Orders, Engine!CancelRemainder(o), UNCHANGED orderOwn
  PROVE  IInv'
<1> USE DEF IInv, Engine!CancelRemainder, Engine!engineHistory, Engine!Put
<1>1. TypeOK'
  BY QuantityAssumption DEF TypeOK, orderOwn
<1>2. Book'
  BY DEF Book, AcceptedOnlyAfterReserve, KnownToEngine, TradesSound, orderOwn, TypeOK
<1>3. FillsAccounted'
  BY FillsFrame DEF orderOwn
<1>4. CancelWillBeAnswered'
  BY DEF CancelWillBeAnswered, orderOwn, TypeOK
<1> QED
  BY <1>1, <1>2, <1>3, <1>4, EngineFrame

LEMMA CancelOrderSound ==
  ASSUME IInv, NEW o \in Orders, Engine!CancelOrder(o), UNCHANGED orderOwn
  PROVE  IInv'
<1> USE DEF IInv, Engine!CancelOrder, Engine!Answer, Engine!engineHistory, Engine!Put,
            Engine!Take, Engine!EngineFault
<1>1. TypeOK'
  BY QuantityAssumption, BoundsAssumption DEF TypeOK, orderOwn
<1>2. Book'
  BY DEF Book, AcceptedOnlyAfterReserve, KnownToEngine, TradesSound, orderOwn, TypeOK
<1>3. FillsAccounted'
  BY FillsFrame DEF orderOwn
<1>4. CancelWillBeAnswered'
  BY DEF CancelWillBeAnswered, orderOwn, TypeOK
<1> QED
  BY <1>1, <1>2, <1>3, <1>4, EngineFrame

LEMMA LoseAnswerSound ==
  ASSUME IInv, NEW o \in Orders, Engine!LoseAnswer(o), UNCHANGED orderOwn
  PROVE  IInv'
<1> USE DEF IInv, Engine!LoseAnswer, Engine!book, Engine!Take, Engine!EngineFault
<1>1. TypeOK'
  BY BoundsAssumption DEF TypeOK, orderOwn
<1>2. Book'
  BY DEF Book, AcceptedOnlyAfterReserve, KnownToEngine, TradesSound, orderOwn
<1>3. FillsAccounted'
  BY FillsFrame DEF orderOwn
<1>4. CancelWillBeAnswered'
  BY DEF CancelWillBeAnswered, orderOwn, TypeOK
<1> QED
  BY <1>1, <1>2, <1>3, <1>4, EngineFrame

LEMMA TradeSound ==
  ASSUME IInv, NEW legs \in Engine!Legs, NEW q \in 1..MaxQuantity, Engine!Trade(legs, q),
         tradeCount' <= MaxTrades, UNCHANGED orderOwn
  PROVE  IInv'
<1> USE DEF IInv, Engine!Trade
<1> DEFINE t == [id |-> tradeCount, legs |-> legs, quantity |-> q]
<1>1. legs \subseteq Orders /\ \A o \in legs : live[o] > 0 /\ o \in reserved
  BY DEF Engine!Legs, Book, AcceptedOnlyAfterReserve, KnownToEngine
<1>2. q \in Nat /\ q > 0 /\ tradeCount \in Nat /\ tradeCount + 1 \in 0..MaxTrades
      /\ MaxQuantity \in Nat
  BY QuantityAssumption, BoundsAssumption DEF TypeOK
<1>3. t \in [id : Nat, legs : SUBSET Orders, quantity : 1..MaxQuantity] /\ t \notin trades
      /\ t.legs = legs /\ t.quantity = q /\ t.id = tradeCount /\ trades' = trades \cup {t}
  BY <1>1, <1>2 DEF Book, TradesSound
<1> HIDE DEF t
<1>4. TypeOK'
  <2>1. live' \in [Orders -> 0..MaxQuantity]
    BY <1>1, <1>2 DEF TypeOK
  <2>2. traded' \in [Orders -> Nat]
    BY <1>2 DEF TypeOK
  <2> QED
    BY <1>2, <1>3, <2>1, <2>2 DEF TypeOK, orderOwn
<1>5. Book'
  <2>1. AcceptedOnlyAfterReserve'
    <3> SUFFICES ASSUME NEW o \in Orders, KnownToEngine(o)' PROVE o \in reserved
      BY DEF AcceptedOnlyAfterReserve, orderOwn
    <3>1. CASE o \in legs
      BY <1>1, <3>1
    <3>2. CASE o \notin legs
      <4>1. KnownToEngine(o)
        BY <3>2 DEF KnownToEngine
      <4> QED
        BY <4>1 DEF Book, AcceptedOnlyAfterReserve
    <3> QED
      BY <3>1, <3>2
  <2>2. IsFiniteSet(trades')
    BY <1>3, FS_AddElement DEF Book, TradesSound
  <2>3. ASSUME NEW u \in trades' PROVE u.id < tradeCount' /\ u.legs \subseteq reserved'
    <3>1. CASE u = t
      BY <1>1, <1>2, <1>3, <3>1 DEF orderOwn
    <3>2. CASE u \in trades
      BY <1>2, <3>2 DEF Book, TradesSound, TypeOK, orderOwn
    <3> QED
      BY <1>3, <3>1, <3>2
  <2> QED
    BY <2>1, <2>2, <2>3 DEF Book, TradesSound
<1>6. FillsAccounted'
  <2> SUFFICES ASSUME NEW o \in Orders, traded'[o] <= Quantity[o]
               PROVE  filled[o] + Waiting(o)' + lost[o] = traded'[o]
    BY DEF FillsAccounted, orderOwn
  <2>1. /\ traded[o] \in Nat /\ filled[o] \in Nat /\ lost[o] \in Nat
        /\ Quantity[o] \in Nat
        /\ traded'[o] = IF o \in legs THEN traded[o] + q ELSE traded[o]
    BY SizeTyped DEF TypeOK
  <2>2. filled[o] + Waiting(o) + lost[o] = traded[o]
    BY <1>2, <2>1 DEF FillsAccounted
  <2>3. IsFiniteSet(trades') /\ (\A u \in trades' : u.quantity \in Nat)
        /\ {t} \in SUBSET trades' /\ trades' \ {t} = trades
    <3>1. IsFiniteSet(trades')
      BY <1>3, FS_AddElement DEF Book, TradesSound
    <3>2. \A u \in trades' : u.quantity \in Nat
      BY <1>2, <1>3 DEF TypeOK
    <3> QED
      BY <1>3, <3>1, <3>2
  <2>4. Engine!QuantityIn(trades', o)
          = Engine!QuantityIn({t}, o) + Engine!QuantityIn(trades' \ {t}, o)
    BY <2>3, QuantityInSplit
  <2>5. Engine!QuantityIn({t}, o) = IF o \in legs THEN q ELSE 0
    BY <1>2, <1>3, QuantityInOne
  <2>6. Engine!QuantityIn(trades, o) \in Nat
    BY <2>3, QuantityInNat DEF Book, TradesSound
  <2>7. Waiting(o)' = Engine!QuantityIn(trades', o) /\ Waiting(o) = Engine!QuantityIn(trades, o)
    BY DEF Waiting
  <2>8. PICK w \in Nat : w = Waiting(o)
    BY <2>6, <2>7
  <2>9. Waiting(o)' = w + (IF o \in legs THEN q ELSE 0)
    <3>1. Engine!QuantityIn(trades' \ {t}, o) = Engine!QuantityIn(trades, o)
      BY <2>3, Zenon
    <3> QED
      BY <1>2, <2>4, <2>5, <2>7, <2>8, <3>1
  <2>10. CASE o \in legs
    BY <1>2, <2>1, <2>2, <2>8, <2>9, <2>10
  <2>11. CASE o \notin legs
    BY <2>1, <2>2, <2>8, <2>9, <2>11
  <2> QED
    BY <2>10, <2>11
<1>7. CancelWillBeAnswered'
  BY DEF CancelWillBeAnswered, orderOwn
<1> QED
  BY <1>4, <1>5, <1>6, <1>7, EngineFrame

\* Trades that are never published move from the bus to the lost ones.
LEMMA LossAccounted ==
  ASSUME IInv, NEW gone \in SUBSET trades, trades' = trades \ gone,
         lost' = [o \in Orders |-> lost[o] + Engine!QuantityIn(gone, o)],
         UNCHANGED <<filled, traded>>
  PROVE  /\ lost' \in [Orders -> Nat]
         /\ FillsAccounted'
<1>1. /\ IsFiniteSet(trades) /\ IsFiniteSet(gone) /\ IsFiniteSet(trades \ gone)
      /\ \A u \in trades : u.quantity \in Nat
  BY FS_Subset, FS_Difference, QuantityAssumption DEF IInv, Book, TradesSound, TypeOK
<1>2. ASSUME NEW o \in Orders
      PROVE  /\ Engine!QuantityIn(gone, o) \in Nat
             /\ Engine!QuantityIn(trades \ gone, o) \in Nat
             /\ Engine!QuantityIn(trades, o)
                  = Engine!QuantityIn(gone, o) + Engine!QuantityIn(trades \ gone, o)
             /\ lost[o] \in Nat /\ filled[o] \in Nat
             /\ lost'[o] = lost[o] + Engine!QuantityIn(gone, o)
  BY <1>1, QuantityInNat, QuantityInSplit, QuantityAssumption DEF IInv, TypeOK
<1>3. lost' \in [Orders -> Nat]
  BY <1>2
<1>4. ASSUME NEW o \in Orders, traded'[o] <= Quantity[o]
      PROVE  filled'[o] + Waiting(o)' + lost'[o] = traded'[o]
  <2>1. filled[o] + Waiting(o) + lost[o] = traded[o]
    BY <1>4 DEF IInv, FillsAccounted
  <2>2. /\ Waiting(o) = Engine!QuantityIn(trades, o)
        /\ Waiting(o)' = Engine!QuantityIn(trades \ gone, o)
    BY DEF Waiting
  <2> DEFINE all == Engine!QuantityIn(trades, o)
             part == Engine!QuantityIn(gone, o)
             rest == Engine!QuantityIn(trades \ gone, o)
  <2>3. /\ part \in Nat /\ rest \in Nat /\ all = part + rest
        /\ lost[o] \in Nat /\ filled[o] \in Nat /\ lost'[o] = lost[o] + part
    BY <1>2
  <2>4. Waiting(o) = all /\ Waiting(o)' = rest
    BY <2>2
  <2> HIDE DEF all, part, rest
  <2>5. filled[o] + all + lost[o] = traded[o]
    BY <2>1, <2>4
  <2>6. filled[o] + rest + lost'[o] = traded[o]
    BY <2>3, <2>5
  <2> QED
    BY <2>4, <2>6
<1> QED
  BY <1>3, <1>4 DEF FillsAccounted

LEMMA LoseTradeSound ==
  ASSUME IInv, NEW t \in trades, Engine!LoseTrade(t), UNCHANGED orderOwn
  PROVE  IInv'
<1> USE DEF IInv, Engine!LoseTrade, Engine!book, Engine!EngineFault
<1>1. lost' = [o \in Orders |-> lost[o] + Engine!QuantityIn({t}, o)]
  <2>1. t.quantity \in Nat
    BY QuantityAssumption DEF TypeOK
  <2>2. ASSUME NEW o \in Orders
        PROVE  (IF o \in t.legs THEN lost[o] + t.quantity ELSE lost[o])
                 = lost[o] + Engine!QuantityIn({t}, o)
    BY <2>1, QuantityInOne DEF TypeOK
  <2> QED
    BY <2>2
<1>2. lost' \in [Orders -> Nat] /\ FillsAccounted'
  BY <1>1, LossAccounted DEF orderOwn
<1>3. TypeOK'
  BY <1>2, BoundsAssumption DEF TypeOK, orderOwn
<1>4. Book'
  <2>1. IsFiniteSet(trades')
    BY FS_RemoveElement DEF Book, TradesSound
  <2> QED
    BY <2>1 DEF Book, AcceptedOnlyAfterReserve, KnownToEngine, TradesSound, orderOwn
<1>5. CancelWillBeAnswered'
  BY DEF CancelWillBeAnswered, orderOwn
<1> QED
  BY <1>2, <1>3, <1>4, <1>5, EngineFrame

LEMMA EngineRestartSound ==
  ASSUME IInv, EngineRestart
  PROVE  IInv'
<1> USE DEF IInv
<1>0. UNCHANGED orderOwn
  BY DEF EngineRestart
<1>1. PICK open \in [Orders -> 0..MaxQuantity] :
        Engine!Restart(open) /\ \A o \in Orders : open[o] > 0 => o \in reserved
  <2> DEFINE reported == [o \in Orders |-> IF Type[o] = "LIMIT" THEN Remaining(o) ELSE 0]
             none == [o \in Orders |-> 0]
  <2>1. reported \in [Orders -> 0..MaxQuantity] /\ none \in [Orders -> 0..MaxQuantity]
    BY RemainingTyped, QuantityAssumption
  <2>2. \A o \in Orders : reported[o] > 0 => o \in reserved
    BY RemainingTyped DEF Rows, HoldsFirst, Open
  <2>3. \A o \in Orders : ~ (none[o] > 0)
    OBVIOUS
  <2> HIDE DEF reported, none
  <2>4. Engine!Restart(reported) \/ Engine!Restart(none)
    BY DEF EngineRestart, reported, none
  <2> QED
    BY <2>1, <2>2, <2>3, <2>4
<1> USE DEF Engine!Restart, Engine!EngineFault, Engine!Put
<1>2. PICK gone \in SUBSET trades :
        /\ trades' = trades \ gone
        /\ lost' = [o \in Orders |-> lost[o] + Engine!QuantityIn(gone, o)]
  BY <1>1
<1>3. lost' \in [Orders -> Nat] /\ FillsAccounted'
  BY <1>0, <1>1, <1>2, LossAccounted DEF orderOwn
<1>4. /\ accepted' \subseteq [order : Orders, quantity : 1..MaxQuantity]
      /\ \A m \in accepted' : m \in accepted \/ m.order \in seen
  BY <1>1 DEF TypeOK
<1>5. cancelled' \in [Orders -> Nat] /\ cancelRejected' \in [Orders -> Nat]
      /\ cancelRequests' \in [Orders -> Nat]
  BY <1>1 DEF TypeOK
<1>6. TypeOK'
  BY <1>0, <1>1, <1>2, <1>3, <1>4, <1>5, BoundsAssumption DEF TypeOK, orderOwn
<1>7. Book'
  <2>1. IsFiniteSet(trades')
    BY <1>2, FS_Difference DEF Book, TradesSound
  <2>2. AcceptedOnlyAfterReserve'
    BY <1>0, <1>1, <1>4 DEF Book, AcceptedOnlyAfterReserve, KnownToEngine, orderOwn
  <2> QED
    BY <1>0, <1>1, <1>2, <2>1, <2>2 DEF Book, TradesSound, orderOwn
<1>8. CancelWillBeAnswered'
  BY <1>1 DEF CancelWillBeAnswered
<1> QED
  BY <1>0, <1>3, <1>6, <1>7, <1>8, EngineFrame

-----------------------------------------------------------------------------
LEMMA OrderStepSound ==
  ASSUME IInv, OrderNext, UNCHANGED engineOwn
  PROVE  IInv'
<1>1. CASE \E o \in Orders : SagaStep(o)
  BY <1>1, PersistSound, ReserveSound, FundSound, PublishAcceptedSound, CompensateSound,
     RejectSound DEF SagaStep
<1>2. CASE \E o \in Orders : Republish(o) \/ HandleOrderCancelled(o) \/ HandleCancelRejected(o)
  BY <1>2, RepublishSound, HandleOrderCancelledSound, HandleCancelRejectedSound
<1>3. CASE \E c \in Cancels : CancelStep(c) \/ \E o \in Orders : CancelRead(c, o)
  BY <1>3, CancelCommitSound, CancelPublishSound, CancelRevertSound, CancelReadSound
     DEF CancelStep
<1>4. CASE \E t \in trades : HandleTrade(t)
  BY <1>4, HandleTradeSound
<1>5. CASE RepublishFails \/ CrashAndRestart
  BY <1>5, RepublishFailsSound, CrashAndRestartSound
<1> QED
  BY <1>1, <1>2, <1>3, <1>4, <1>5 DEF OrderNext

LEMMA EngineStepSound ==
  ASSUME IInv, Engine!EngineNext, tradeCount' <= MaxTrades, UNCHANGED orderOwn
  PROVE  IInv'
<1>1. CASE \E m \in accepted : Engine!AcceptOrder(m)
  BY <1>1, AcceptOrderSound
<1>2. CASE \E legs \in Engine!Legs, q \in 1..MaxQuantity : Engine!Trade(legs, q)
  BY <1>2, TradeSound
<1>3. CASE \E o \in Orders : Engine!CancelRemainder(o) \/ Engine!CancelOrder(o)
  BY <1>3, CancelRemainderSound, CancelOrderSound
<1>4. CASE Engine!LoseEvent
  BY <1>4, LoseTradeSound, LoseAnswerSound DEF Engine!LoseEvent
<1> QED
  BY <1>1, <1>2, <1>3, <1>4 DEF Engine!EngineNext

LEMMA StepSound == IInv /\ [Next]_vars => IInv'
<1> SUFFICES ASSUME IInv, [Next]_vars PROVE IInv'
  OBVIOUS
<1>1. CASE OrderNext /\ UNCHANGED engineOwn
  BY <1>1, OrderStepSound
<1>2. CASE Engine!EngineNext /\ tradeCount' <= MaxTrades /\ UNCHANGED orderOwn
  BY <1>2, EngineStepSound
<1>3. CASE EngineRestart
  BY <1>3, EngineRestartSound
<1>4. CASE UNCHANGED vars
  <2> USE <1>4 DEF vars, orderOwn, engineOwn, bus, IInv
  <2>1. TypeOK' /\ FillBounds' /\ OneOrderPerKey' /\ CancelWillBeAnswered'
    BY DEF TypeOK, FillBounds, OneOrderPerKey, CancelWillBeAnswered
  <2>2. Rows' /\ Book' /\ FillsAccounted'
    BY RowsFrame, BookFrame, FillsFrame DEF sagas, cancelVars
  <2> QED
    BY <2>1, <2>2
<1> QED
  BY <1>1, <1>2, <1>3, <1>4 DEF Next

\* IInv is an inductive invariant of the composition.
LEMMA Invariant == Spec => []IInv
  BY InitSound, StepSound, PTL DEF Spec

-----------------------------------------------------------------------------
(* The theorems *)

\* The quantities of a row stay within the bounds the database checks, FILLED means full,
\* and the row accounts for what the book traded (handlers.py:97-142), for any number of
\* orders, trades, faults and restarts.
THEOREM QuantitiesAreSound == Spec => []QuantitiesSound
  BY Invariant, PTL DEF IInv, QuantitiesSound

\* One order per client id, and no order in the engine before its hold was confirmed
\* (service.py:251-267), whatever crashes, retries and republishes happen on the way.
THEOREM PlacementIsSound == Spec => []PlacementSound
  BY Invariant, PTL DEF IInv, PlacementSound, Book

\* An order in CANCEL_PENDING has its request, its answer or a request session on the way,
\* unless the service crashed or the engine lost the answer (routes.py:98-141).
THEOREM CancelsAreAnswered == Spec => []CancelWillBeAnswered
  BY Invariant, PTL DEF IInv

\* No event moves an order out of a terminal status; only a request session that writes
\* from the copy it read earlier can (state_machine.py, handlers.py).
THEOREM TerminalForConsumers == Spec => ConsumersKeepTerminal
<1> DEFINE Kept == \A o \in Orders :
                     status[o] \in Terminal /\ status'[o] # status[o] => SessionWrites(o)
<1>1. ASSUME IInv, [Next]_vars PROVE [Kept]_vars
  <2> SUFFICES ASSUME Next, NEW o \in Orders, status[o] \in Terminal, status'[o] # status[o]
               PROVE  SessionWrites(o)
    BY <1>1 DEF Kept
  <2> USE <1>1
  <2>1. CASE \E p \in Orders : SagaStep(p)
    <3>1. PICK p \in Orders : SagaStep(p)
      BY <2>1
    <3>2. ~ Reserve(p) /\ ~ PublishAccepted(p) /\ ~ Compensate(p)
      BY DEF Reserve, PublishAccepted, Compensate, row
    <3>3. ~ Persist(p)
      BY DEF Persist, IInv, Rows, SagasSound, TypeOK, Terminal
    <3>4. ~ Fund(p)
      BY DEF Fund, IInv, Rows, SagasSound, TypeOK, Terminal
    <3>5. CASE Reject(p)
      BY <3>5 DEF Reject, CloseSaga, SessionWrites, IInv, TypeOK
    <3> QED
      BY <3>1, <3>2, <3>3, <3>4, <3>5 DEF SagaStep
  <2>2. CASE \E c \in Cancels : CancelStep(c)
    <3>1. PICK c \in Cancels : CancelStep(c)
      BY <2>2
    <3>2. ~ CancelPublish(c)
      BY DEF CancelPublish, row
    <3>3. CASE CancelCommit(c)
      BY <3>3 DEF CancelCommit, SessionWrites, IInv, TypeOK
    <3>4. CASE CancelRevert(c)
      BY <3>4 DEF CancelRevert, CloseCancel, SessionWrites, IInv, TypeOK
    <3> QED
      BY <3>1, <3>2, <3>3, <3>4 DEF CancelStep
  <2>3. ~ (\E p \in Orders : Republish(p)) /\ ~ RepublishFails
        /\ ~ (\E c \in Cancels, p \in Orders : CancelRead(c, p))
    BY DEF Republish, RepublishFails, CancelRead, row
  <2>4. ~ \E t \in trades : HandleTrade(t)
    BY Edges DEF HandleTrade, Terminal
  <2>5. ~ \E p \in Orders : HandleOrderCancelled(p)
    BY Edges DEF HandleOrderCancelled, IInv, TypeOK, Terminal
  <2>6. ~ \E p \in Orders : HandleCancelRejected(p)
    BY DEF HandleCancelRejected, IInv, TypeOK, Terminal
  <2>7. ~ CrashAndRestart
    BY DEF CrashAndRestart, Terminal
  <2>8. ~ UNCHANGED orderOwn
    BY DEF orderOwn
  <2>9. OrderNext
    BY <2>8 DEF Next, EngineRestart
  <2> QED
    BY <2>1, <2>2, <2>3, <2>4, <2>5, <2>6, <2>7, <2>9 DEF OrderNext
<1> QED
  BY Invariant, <1>1, PTL DEF Spec, ConsumersKeepTerminal, Kept
=============================================================================
