------------------------ MODULE EventDelivery_proofs ------------------------
(***************************************************************************)
(* Proofs about EventDelivery, for any sets of events and tasks and any    *)
(* number of attempts.  The fault bound plays no part in them: it only     *)
(* keeps the model finite.                                                 *)
(*                                                                         *)
(* The invariants are proved in layers, each using the ones before it:     *)
(*   WellFormed   types, and a busy task handles a proper message          *)
(*   Committed    what has been applied, processed and marked agree        *)
(*   Sourced      every copy of an event comes from a publish              *)
(*   Counted      headers never run ahead of the failed attempts           *)
(*   NothingLost  the last one                                             *)
(***************************************************************************)
EXTENDS EventDelivery, TLAPS

BusyHasMessage ==
  \A t \in Tasks : pc[t] # "idle" =>
    msg[t] \in Msgs /\ msg[t].attempts < MaxAttempts

CurrentIsBusy == current # NoTask => pc[current] # "idle"

WellFormed == TypeOK /\ BusyHasMessage /\ CurrentIsBusy

\* A message is a record of an event and a count; what the proofs need of Msgs.
LEMMA MsgsFacts ==
  /\ \A m \in Msgs : m.event \in Events /\ m.attempts \in Nat /\ m.attempts <= MaxAttempts
  /\ \A e \in Events : [event |-> e, attempts |-> 0] \in Msgs
  /\ \A m \in Msgs : m.attempts < MaxAttempts =>
       /\ [m EXCEPT !.attempts = @ + 1] \in Msgs
       /\ [m EXCEPT !.attempts = @ + 1].event = m.event
       /\ [m EXCEPT !.attempts = @ + 1].attempts = m.attempts + 1
  BY MaxAttemptsAssumption DEF Msgs

LEMMA WellFormedInit == Init => WellFormed
  BY MaxAttemptsAssumption, MaxFaultsAssumption, NoTaskAssumption, MsgsFacts
  DEF Init, WellFormed, TypeOK, BusyHasMessage, CurrentIsBusy, PCs

\* A copy waiting in the queue has an attempt left.
LEMMA OldCopiesGone ==
  ASSUME TypeOK, NEW m \in Msgs, ready[m] > 0
  PROVE  m.attempts < MaxAttempts
<1>1. m.attempts # MaxAttempts
  BY DEF TypeOK
<1>2. m.attempts \in Nat /\ m.attempts <= MaxAttempts
  BY MsgsFacts
<1> QED
  BY <1>1, <1>2, MaxAttemptsAssumption

\* Taking a copy that is there leaves a bag of copies, none of them new.
LEMMA TakeTyped ==
  ASSUME NEW bag \in [Msgs -> Nat], NEW m \in Msgs, bag[m] > 0
  PROVE  /\ Take(bag, m) \in [Msgs -> Nat]
         /\ \A n \in Msgs : Take(bag, m)[n] <= bag[n]
<1> HIDE DEF Msgs
<1> QED
  BY DEF Take

\* Publishing a retry copy keeps the retry queue in its domain.
RetryQueueTyped ==
  /\ retrying \in [Msgs -> Nat]
  /\ \A m \in Msgs : m.attempts = MaxAttempts => retrying[m] = 0

LEMMA CopyLandsTyped ==
  ASSUME WellFormed, NEW t \in Tasks, pc[t] # "idle", CopyLands(msg[t])
  PROVE  RetryQueueTyped'
<1> DEFINE n == [msg[t] EXCEPT !.attempts = @ + 1]
<1>1. msg[t] \in Msgs /\ msg[t].attempts < MaxAttempts
  BY DEF WellFormed, BusyHasMessage
<1>2. n \in Msgs /\ n.attempts = msg[t].attempts + 1
  BY <1>1, MsgsFacts
<1>3. CASE Exhausted(msg[t])
  BY <1>3 DEF CopyLands, RetryQueueTyped, WellFormed, TypeOK
<1>4. CASE ~ Exhausted(msg[t])
  <2>1. n.attempts < MaxAttempts
    BY <1>1, <1>2, <1>4, MsgsFacts, MaxAttemptsAssumption DEF Exhausted
  <2>2. retrying' = [retrying EXCEPT ![n] = @ + 1]
    BY <1>4 DEF CopyLands, Put
  <2> HIDE DEF n
  <2> QED
    BY <1>2, <2>1, <2>2, MaxAttemptsAssumption DEF RetryQueueTyped, WellFormed, TypeOK
<1> QED
  BY <1>3, <1>4

LEMMA WellFormedNext == WellFormed /\ [Next]_vars => WellFormed'
<1> SUFFICES ASSUME WellFormed, [Next]_vars PROVE WellFormed'
  OBVIOUS
<1> USE MaxAttemptsAssumption, MaxFaultsAssumption, NoTaskAssumption, MsgsFacts
        DEF WellFormed, TypeOK, BusyHasMessage, CurrentIsBusy, PCs,
            busVars, taskVars, dbVars, Event, Goto, Raise, Finish
<1>1. CASE UNCHANGED vars
  BY <1>1 DEF vars
<1>2. ASSUME NEW e \in Events, Publish(e) PROVE WellFormed'
  BY <1>2 DEF Publish, Put
<1>3. ASSUME NEW e \in Events, ForgetMarker(e) PROVE WellFormed'
  BY <1>3 DEF ForgetMarker
<1>4. ASSUME NEW t \in Tasks, NEW m \in Msgs, Deliver(t, m) PROVE WellFormed'
  <2>1. m.attempts < MaxAttempts
    BY <1>4, OldCopiesGone DEF Deliver
  <2>2. ready' \in [Msgs -> Nat] /\ \A n \in Msgs : ready'[n] <= ready[n]
    BY <1>4, TakeTyped DEF Deliver
  <2>3. TypeOK'
    BY <1>4, <2>2 DEF Deliver
  <2>4. BusyHasMessage' /\ CurrentIsBusy'
    BY <1>4, <2>1 DEF Deliver
  <2> QED
    BY <2>3, <2>4
<1>5. ASSUME NEW m \in Msgs, RetryExpires(m) PROVE WellFormed'
  BY <1>5 DEF RetryExpires, Take, Put
<1>6. ASSUME NEW t \in Tasks, SeenEvent(t) PROVE WellFormed'
  BY <1>6 DEF SeenEvent
<1>7. ASSUME NEW t \in Tasks, Commit(t) PROVE WellFormed'
  BY <1>7 DEF Commit, CommitRow
<1>8. ASSUME NEW t \in Tasks, Duplicate(t) \/ WorkFails(t) PROVE WellFormed'
  BY <1>8 DEF Duplicate, WorkFails
<1>9. ASSUME NEW t \in Tasks, MarkProcessed(t) PROVE WellFormed'
  BY <1>9 DEF MarkProcessed
<1>10. ASSUME NEW t \in Tasks, Ack(t) PROVE WellFormed'
  BY <1>10 DEF Ack
<1>11. ASSUME NEW t \in Tasks, Requeue(t) PROVE WellFormed'
  <2>1. pc[t] # "idle" /\ CopyLands(msg[t])
    BY <1>11 DEF Requeue
  <2>2. RetryQueueTyped'
    BY <2>1, CopyLandsTyped
  <2>3. dead' \subseteq Events
    BY <2>1 DEF CopyLands
  <2>4. TypeOK'
    BY <1>11, <2>2, <2>3 DEF Requeue, RetryQueueTyped
  <2>5. BusyHasMessage' /\ CurrentIsBusy'
    BY <1>11 DEF Requeue
  <2> QED
    BY <2>4, <2>5
<1>12. ASSUME NEW t \in Tasks, RequeueFails(t) PROVE WellFormed'
  <2>1. pc[t] # "idle" /\ (CopyLands(msg[t]) \/ UNCHANGED <<retrying, dead>>)
    BY <1>12 DEF RequeueFails
  <2>2. RetryQueueTyped'
    BY <2>1, CopyLandsTyped DEF RetryQueueTyped
  <2>3. dead' \subseteq Events
    BY <2>1 DEF CopyLands
  <2>4. TypeOK'
    BY <1>12, <2>2, <2>3 DEF RequeueFails, RetryQueueTyped
  <2>5. BusyHasMessage' /\ CurrentIsBusy'
    BY <1>12 DEF RequeueFails
  <2> QED
    BY <2>4, <2>5
<1>13. ASSUME NEW t \in Tasks, AckCopied(t) PROVE WellFormed'
  BY <1>13 DEF AckCopied
<1>14. CASE ConnectionDrops \/ ParkedTimesOut
  BY <1>14 DEF ConnectionDrops, ParkedTimesOut, Redeliver, Put
<1>15. CASE Crash
  BY <1>15 DEF Crash, Redeliver, Put
<1> QED
  BY <1>1, <1>2, <1>3, <1>4, <1>5, <1>6, <1>7, <1>8, <1>9, <1>10, <1>11, <1>12,
     <1>13, <1>14, <1>15 DEF Next, TaskStep

\* Every variable stays in its domain, and no queue holds a copy that has used
\* all its attempts (the bound MAX_DELIVERY_ATTEMPTS on x-attempts).
THEOREM TypeCorrect == Spec => []TypeOK
<1>1. Spec => []WellFormed
  BY WellFormedInit, WellFormedNext, PTL DEF Spec
<1>2. WellFormed => TypeOK
  BY DEF WellFormed
<1> QED
  BY <1>1, <1>2, PTL
-----------------------------------------------------------------------------
(* Committed: the database row, the effect and the marker agree. *)

\* A task that wants to write the marker or ack has its event in the database.
DoneIsProcessed ==
  \A t \in Tasks : pc[t] \in {"mark", "ack"} => Event(t) \in processed

AppliedIsProcessed ==
  applied = [e \in Events |-> IF e \in processed THEN 1 ELSE 0]

Committed == DoneIsProcessed /\ AppliedIsProcessed /\ MarkerImpliesProcessed

LEMMA CommittedInit == Init => Committed
  BY DEF Init, Committed, DoneIsProcessed, AppliedIsProcessed, MarkerImpliesProcessed

LEMMA CommittedNext == WellFormed /\ Committed /\ [Next]_vars => Committed'
<1> SUFFICES ASSUME WellFormed, Committed, [Next]_vars PROVE Committed'
  OBVIOUS
<1> USE NoTaskAssumption, MsgsFacts
    DEF Committed, DoneIsProcessed, AppliedIsProcessed, MarkerImpliesProcessed,
        busVars, taskVars, dbVars, Event, Goto, Raise, Finish
<1>0. /\ pc \in [Tasks -> PCs] /\ msg \in [Tasks -> Msgs \cup {NoMsg}]
      /\ processed \subseteq Events /\ marker \subseteq Events
      /\ \A t \in Tasks : pc[t] # "idle" => msg[t].event \in Events
  BY DEF WellFormed, TypeOK, BusyHasMessage
<1>1. CASE UNCHANGED vars
  BY <1>1 DEF vars
<1>2. ASSUME NEW e \in Events, Publish(e) \/ ForgetMarker(e) PROVE Committed'
  BY <1>2 DEF Publish, ForgetMarker
<1>3. ASSUME NEW t \in Tasks, NEW m \in Msgs, Deliver(t, m) PROVE Committed'
  BY <1>0, <1>3 DEF Deliver
<1>4. ASSUME NEW m \in Msgs, RetryExpires(m) PROVE Committed'
  BY <1>4 DEF RetryExpires
<1>5. ASSUME NEW t \in Tasks, SeenEvent(t) PROVE Committed'
  BY <1>0, <1>5 DEF SeenEvent
<1>6. ASSUME NEW t \in Tasks, Commit(t) PROVE Committed'
  BY <1>0, <1>6 DEF Commit, CommitRow, KeyIsFree
<1>7. ASSUME NEW t \in Tasks, Duplicate(t) \/ WorkFails(t) PROVE Committed'
  BY <1>0, <1>7 DEF Duplicate, WorkFails, KeyIsFree
<1>8. ASSUME NEW t \in Tasks, MarkProcessed(t) PROVE Committed'
  BY <1>0, <1>8 DEF MarkProcessed
<1>9. ASSUME NEW t \in Tasks, Ack(t) PROVE Committed'
  BY <1>0, <1>9 DEF Ack
<1>10. ASSUME NEW t \in Tasks, Requeue(t) \/ RequeueFails(t) \/ AckCopied(t)
       PROVE  Committed'
  BY <1>0, <1>10 DEF Requeue, RequeueFails, AckCopied
<1>11. CASE ConnectionDrops
  BY <1>11 DEF ConnectionDrops
<1>12. CASE ParkedTimesOut
  BY <1>0, <1>12 DEF ParkedTimesOut
<1>13. CASE Crash
  BY <1>0, <1>13 DEF Crash
<1> QED
  BY <1>1, <1>2, <1>3, <1>4, <1>5, <1>6, <1>7, <1>8, <1>9, <1>10, <1>11, <1>12,
     <1>13 DEF Next, TaskStep

LEMMA CommittedAlways == Spec => [](WellFormed /\ Committed)
  BY WellFormedInit, WellFormedNext, CommittedInit, CommittedNext, PTL DEF Spec

\* The work of an event commits at most once, whatever is redelivered, retried
\* or handled by two tasks at the same time (the processed_events primary key).
THEOREM AtMostOnce == Spec => []AppliedAtMostOnce
<1>1. WellFormed /\ Committed => AppliedAtMostOnce
  <2> SUFFICES ASSUME Committed, NEW e \in Events PROVE applied[e] <= 1
    BY DEF AppliedAtMostOnce
  <2>1. applied[e] = 0 \/ applied[e] = 1
    BY DEF Committed, AppliedIsProcessed
  <2> QED
    BY <2>1
<1> QED
  BY <1>1, CommittedAlways, PTL

\* The Redis marker is written only after the commit (seen_event is read-only).
THEOREM MarkerSafe == Spec => []MarkerImpliesProcessed
<1>1. WellFormed /\ Committed => MarkerImpliesProcessed
  BY DEF Committed
<1> QED
  BY <1>1, CommittedAlways, PTL

-----------------------------------------------------------------------------
(* Sourced: no event is handled that nobody published. *)

Sourced ==
  /\ \A m \in Msgs : ready[m] > 0 \/ retrying[m] > 0 => m.event \in published
  /\ \A t \in Tasks : pc[t] # "idle" => Event(t) \in published

LEMMA SourcedInit == Init => Sourced
  BY DEF Init, Sourced, Msgs

\* Where a copy can come from when a copy is put into a bag.
LEMMA PutCopies ==
  ASSUME NEW bag \in [Msgs -> Nat], NEW m \in Msgs
  PROVE  /\ Put(bag, m) \in [Msgs -> Nat]
         /\ \A n \in Msgs : Put(bag, m)[n] > 0 <=> bag[n] > 0 \/ n = m
<1> HIDE DEF Msgs
<1> QED
  BY DEF Put

LEMMA TakeCopies ==
  ASSUME NEW bag \in [Msgs -> Nat], NEW m \in Msgs, bag[m] > 0
  PROVE  /\ Take(bag, m) \in [Msgs -> Nat]
         /\ \A n \in Msgs : Take(bag, m)[n] > 0 => bag[n] > 0
         /\ \A n \in Msgs : bag[n] > 0 /\ n # m => Take(bag, m)[n] > 0
<1> HIDE DEF Msgs
<1> QED
  BY DEF Take

\* What a retry publish of the message of task t adds.
LEMMA CopyLandsFacts ==
  ASSUME WellFormed, NEW t \in Tasks, pc[t] # "idle", CopyLands(msg[t])
  PROVE  \/ /\ msg[t].attempts + 1 = MaxAttempts
            /\ dead' = dead \cup {msg[t].event}
            /\ retrying' = retrying
         \/ \E n \in Msgs :
              /\ n.event = msg[t].event
              /\ n.attempts = msg[t].attempts + 1
              /\ retrying' = Put(retrying, n)
              /\ dead' = dead
<1>1. msg[t] \in Msgs /\ msg[t].attempts < MaxAttempts
  BY DEF WellFormed, BusyHasMessage
<1>2. CASE Exhausted(msg[t])
  <2>1. msg[t].attempts + 1 = MaxAttempts
    BY <1>1, <1>2, MsgsFacts, MaxAttemptsAssumption DEF Exhausted
  <2> QED
    BY <1>2, <2>1 DEF CopyLands
<1>3. CASE ~ Exhausted(msg[t])
  <2> DEFINE n == [msg[t] EXCEPT !.attempts = @ + 1]
  <2>1. n \in Msgs /\ n.event = msg[t].event /\ n.attempts = msg[t].attempts + 1
    BY <1>1, MsgsFacts
  <2>2. retrying' = Put(retrying, n) /\ dead' = dead
    BY <1>3 DEF CopyLands
  <2> QED
    BY <2>1, <2>2
<1> QED
  BY <1>2, <1>3

LEMMA SourcedNext == WellFormed /\ Sourced /\ [Next]_vars => Sourced'
<1> SUFFICES ASSUME WellFormed, Sourced, [Next]_vars PROVE Sourced'
  OBVIOUS
<1> USE NoTaskAssumption, MsgsFacts
    DEF Sourced, busVars, taskVars, dbVars, Event, Goto, Raise, Finish
<1>0. /\ ready \in [Msgs -> Nat] /\ retrying \in [Msgs -> Nat]
      /\ pc \in [Tasks -> PCs] /\ msg \in [Tasks -> Msgs \cup {NoMsg}]
      /\ current \in Tasks \cup {NoTask}
      /\ \A t \in Tasks : pc[t] # "idle" => msg[t] \in Msgs
      /\ CurrentIsBusy
  BY DEF WellFormed, TypeOK, BusyHasMessage
<1>1. CASE UNCHANGED vars
  BY <1>1 DEF vars
<1>2. ASSUME NEW e \in Events, Publish(e) PROVE Sourced'
  BY <1>0, <1>2, PutCopies DEF Publish
<1>3. ASSUME NEW e \in Events, ForgetMarker(e) PROVE Sourced'
  BY <1>3 DEF ForgetMarker
<1>4. ASSUME NEW t \in Tasks, NEW m \in Msgs, Deliver(t, m) PROVE Sourced'
  BY <1>0, <1>4, TakeCopies DEF Deliver
<1>5. ASSUME NEW m \in Msgs, RetryExpires(m) PROVE Sourced'
  BY <1>0, <1>5, TakeCopies, PutCopies DEF RetryExpires
<1>6. ASSUME NEW t \in Tasks,
             SeenEvent(t) \/ Commit(t) \/ Duplicate(t) \/ WorkFails(t)
               \/ MarkProcessed(t) \/ Ack(t) \/ AckCopied(t)
      PROVE  Sourced'
  BY <1>0, <1>6 DEF SeenEvent, Commit, Duplicate, WorkFails, MarkProcessed, Ack, AckCopied
<1>7. ASSUME NEW t \in Tasks, Requeue(t) \/ RequeueFails(t) PROVE Sourced'
  <2>1. CASE CopyLands(msg[t])
    <3>1. pc[t] # "idle"
      BY <1>7 DEF Requeue, RequeueFails
    <3>2. Event(t) \in published /\ published' = published /\ ready' = ready
      BY <1>7, <3>1 DEF Requeue, RequeueFails
    <3>3. \A m \in Msgs : retrying'[m] > 0 => retrying[m] > 0 \/ m.event = Event(t)
      <4>1. PICK n \in Msgs : \/ retrying' = retrying
                              \/ n.event = msg[t].event /\ retrying' = Put(retrying, n)
        BY <1>0, <2>1, <3>1, CopyLandsFacts
      <4> QED
        BY <1>0, <4>1, PutCopies
    <3>4. \A u \in Tasks : pc'[u] # "idle" => pc[u] # "idle" /\ msg'[u] = msg[u]
      BY <1>0, <1>7 DEF Requeue, RequeueFails
    <3> QED
      BY <3>2, <3>3, <3>4
  <2>2. CASE UNCHANGED <<retrying, dead>>
    BY <1>0, <1>7, <2>2 DEF Requeue, RequeueFails
  <2> QED
    BY <1>7, <2>1, <2>2 DEF Requeue, RequeueFails
<1>8. CASE ConnectionDrops
  BY <1>0, <1>8, PutCopies DEF ConnectionDrops, Redeliver, CurrentIsBusy
<1>9. CASE ParkedTimesOut
  BY <1>0, <1>9, PutCopies DEF ParkedTimesOut, Redeliver, CurrentIsBusy
<1>10. CASE Crash
  BY <1>0, <1>10, PutCopies DEF Crash, Redeliver, CurrentIsBusy
<1> QED
  BY <1>1, <1>2, <1>3, <1>4, <1>5, <1>6, <1>7, <1>8, <1>9, <1>10 DEF Next, TaskStep

-----------------------------------------------------------------------------
(* Refinement: every step maps to a step of OnceEffect or to a stutter. *)

LEMMA RefinementStep ==
  WellFormed /\ Committed /\ Sourced /\ [Next]_vars
    => [OnceSpec!Next]_<<published, applied>>
<1> SUFFICES ASSUME WellFormed, Committed, Sourced, [Next]_vars,
                    <<published, applied>>' # <<published, applied>>
             PROVE  OnceSpec!Next
  OBVIOUS
<1> USE DEF busVars, taskVars, dbVars
<1>1. ASSUME NEW e \in Events, Publish(e) PROVE OnceSpec!Send(e)
  BY <1>1 DEF Publish, OnceSpec!Send
<1>2. ASSUME NEW t \in Tasks, Commit(t) PROVE OnceSpec!Apply(Event(t)) /\ Event(t) \in Events
  <2>1. Event(t) \in published /\ Event(t) \in Events
    BY <1>2, MsgsFacts DEF Commit, Sourced, WellFormed, BusyHasMessage, Event
  <2>2. applied[Event(t)] = 0
    BY <1>2, <2>1 DEF Commit, KeyIsFree, Committed, AppliedIsProcessed
  <2>3. applied' = [applied EXCEPT ![Event(t)] = 1] /\ published' = published
    <3>1. applied' = [applied EXCEPT ![Event(t)] = @ + 1] /\ published' = published
      BY <1>2 DEF Commit, CommitRow
    <3> QED
      BY <2>2, <3>1
  <2> QED
    BY <2>1, <2>2, <2>3 DEF OnceSpec!Apply
<1>3. \/ \E e \in Events : Publish(e)
      \/ \E t \in Tasks : Commit(t)
  BY DEF Next, TaskStep, vars, ForgetMarker, Deliver, RetryExpires, SeenEvent, Duplicate,
     WorkFails, MarkProcessed, Ack, Requeue, RequeueFails, AckCopied, ConnectionDrops,
     ParkedTimesOut, Crash
<1> QED
  BY <1>1, <1>2, <1>3 DEF OnceSpec!Next

\* The consumer, with its queues, retries, crashes and overlapping tasks,
\* implements the at-most-once effect the bus promises its handlers.
THEOREM Refinement == Spec => ImplementsOnceEffect
<1>1. Init => OnceSpec!Init
  BY DEF Init, OnceSpec!Init
<1>2. Spec => [](WellFormed /\ Committed /\ Sourced)
  BY WellFormedInit, WellFormedNext, CommittedInit, CommittedNext, SourcedInit,
     SourcedNext, PTL DEF Spec
<1> QED
  BY <1>1, <1>2, RefinementStep, PTL DEF Spec, ImplementsOnceEffect, OnceSpec!Spec, OnceSpec!vars

-----------------------------------------------------------------------------
(* Counted: the x-attempts header never runs ahead of the failed attempts. *)

\* Failed attempts a task's event has on record: the header, plus the failure
\* the task is about to write into the next header.
Failures(t) ==
  IF pc[t] = "requeue" THEN msg[t].attempts + 1 ELSE msg[t].attempts

Counted ==
  /\ \A m \in Msgs : ready[m] > 0 \/ retrying[m] > 0 => raised[m.event] >= m.attempts
  /\ \A t \in Tasks : pc[t] # "idle" => raised[Event(t)] >= Failures(t)
  /\ DeadOnlyAfterAllAttempts

LEMMA CountedInit == Init => Counted
  BY DEF Init, Counted, DeadOnlyAfterAllAttempts, Msgs

\* The failed attempts on record only grow, and up to MaxAttempts.
LEMMA RaiseFacts ==
  ASSUME WellFormed, NEW t \in Tasks, pc[t] # "idle", Raise(t)
  PROVE  /\ raised' \in [Events -> 0..MaxAttempts]
         /\ \A e \in Events : raised'[e] >= raised[e]
         /\ raised[Event(t)] >= msg[t].attempts => raised'[Event(t)] >= msg[t].attempts + 1
<1>1. /\ raised \in [Events -> 0..MaxAttempts] /\ Event(t) \in Events
      /\ msg[t].attempts \in Nat /\ msg[t].attempts < MaxAttempts
  BY MsgsFacts DEF WellFormed, TypeOK, BusyHasMessage, Event
<1>2. raised' = [raised EXCEPT ![Event(t)] = IF @ < MaxAttempts THEN @ + 1 ELSE @]
  BY DEF Raise
<1> QED
  BY <1>1, <1>2, MaxAttemptsAssumption

LEMMA CountedNext == WellFormed /\ Counted /\ [Next]_vars => Counted'
<1> SUFFICES ASSUME WellFormed, Counted, [Next]_vars PROVE Counted'
  OBVIOUS
<1> USE MaxAttemptsAssumption, NoTaskAssumption
    DEF Counted, DeadOnlyAfterAllAttempts, Failures, busVars, taskVars, dbVars, Event
<1>0. /\ ready \in [Msgs -> Nat] /\ retrying \in [Msgs -> Nat] /\ dead \subseteq Events
      /\ pc \in [Tasks -> PCs] /\ msg \in [Tasks -> Msgs \cup {NoMsg}]
      /\ current \in Tasks \cup {NoTask} /\ raised \in [Events -> 0..MaxAttempts]
      /\ \A t \in Tasks : pc[t] # "idle" => msg[t] \in Msgs /\ msg[t].attempts < MaxAttempts
      /\ CurrentIsBusy
      /\ \A m \in Msgs : m.event \in Events /\ m.attempts \in Nat
  BY MsgsFacts DEF WellFormed, TypeOK, BusyHasMessage
<1>1. CASE UNCHANGED vars
  BY <1>1 DEF vars
<1>2. ASSUME NEW e \in Events, Publish(e) PROVE Counted'
  BY <1>0, <1>2, MsgsFacts, PutCopies DEF Publish
<1>3. ASSUME NEW e \in Events, ForgetMarker(e) PROVE Counted'
  BY <1>3 DEF ForgetMarker
<1>4. ASSUME NEW t \in Tasks, NEW m \in Msgs, Deliver(t, m) PROVE Counted'
  BY <1>0, <1>4, TakeCopies DEF Deliver, Goto
<1>5. ASSUME NEW m \in Msgs, RetryExpires(m) PROVE Counted'
  BY <1>0, <1>5, TakeCopies, PutCopies DEF RetryExpires
<1>6. ASSUME NEW t \in Tasks, pc[t] # "idle", pc[t] # "requeue", Raise(t),
             UNCHANGED <<ready, retrying, dead, msg>>
      PROVE  Counted'
  <2>1. /\ \A e \in Events : raised'[e] >= raised[e] /\ raised'[e] <= MaxAttempts
        /\ raised' \in [Events -> Nat]
        /\ raised'[Event(t)] >= msg[t].attempts + 1
    BY <1>0, <1>6, RaiseFacts
  <2>2. \A u \in Tasks : pc'[u] = IF u = t THEN "requeue" ELSE pc[u]
    BY <1>0, <1>6 DEF Raise, Goto
  <2>3. \A m \in Msgs : ready'[m] > 0 \/ retrying'[m] > 0 => raised'[m.event] >= m.attempts
    BY <1>0, <1>6, <2>1
  <2>4. \A u \in Tasks : pc'[u] # "idle" =>
          raised'[msg[u].event] >= IF pc'[u] = "requeue" THEN msg[u].attempts + 1
                                                         ELSE msg[u].attempts
    BY <1>0, <2>1, <2>2
  <2>5. \A e \in dead : raised'[e] = MaxAttempts
    <3> SUFFICES ASSUME NEW e \in dead PROVE raised'[e] = MaxAttempts
      OBVIOUS
    <3>1. e \in Events /\ raised[e] = MaxAttempts
      BY <1>0
    <3>2. raised'[e] >= MaxAttempts /\ raised'[e] <= MaxAttempts /\ raised'[e] \in Nat
      BY <2>1, <3>1
    <3> QED
      BY <3>2
  <2> QED
    BY <1>6, <2>3, <2>4, <2>5
<1>7. ASSUME NEW t \in Tasks, pc[t] # "requeue",
             NEW label, label # "requeue", Goto(t, label), msg'[t] = msg[t] \/ label = "idle",
             \A u \in Tasks \ {t} : msg'[u] = msg[u],
             pc[t] # "idle", UNCHANGED <<ready, retrying, dead, raised>>
      PROVE  Counted'
  BY <1>0, <1>7 DEF Goto
<1>8. ASSUME NEW t \in Tasks,
             SeenEvent(t) \/ Commit(t) \/ Duplicate(t) \/ WorkFails(t)
               \/ MarkProcessed(t) \/ Ack(t) \/ AckCopied(t)
      PROVE  Counted'
  <2>1. /\ pc[t] \notin {"idle", "requeue"} /\ UNCHANGED <<ready, retrying, dead>>
        /\ \/ Raise(t) /\ UNCHANGED msg
           \/ \E label \in PCs :
                /\ label # "requeue" /\ Goto(t, label) /\ UNCHANGED raised
                /\ UNCHANGED msg \/ (Finish(t) /\ label = "idle")
    <3>1. CASE SeenEvent(t) \/ MarkProcessed(t)
      BY <3>1 DEF SeenEvent, MarkProcessed, PCs
    <3>2. CASE Commit(t) \/ Duplicate(t) \/ WorkFails(t)
      BY <3>2 DEF Commit, Duplicate, WorkFails, PCs
    <3>3. CASE Ack(t) \/ AckCopied(t)
      BY <3>3 DEF Ack, AckCopied, PCs, Finish
    <3> QED
      BY <1>8, <3>1, <3>2, <3>3
  <2>2. CASE Raise(t) /\ UNCHANGED msg
    BY <1>6, <2>1, <2>2
  <2>3. ASSUME NEW label \in PCs, label # "requeue", Goto(t, label), UNCHANGED raised,
               UNCHANGED msg \/ (Finish(t) /\ label = "idle")
        PROVE  Counted'
    <3>1. (msg'[t] = msg[t] \/ label = "idle") /\ \A u \in Tasks \ {t} : msg'[u] = msg[u]
      BY <1>0, <2>3 DEF Finish
    <3> QED
      BY <1>7, <2>1, <2>3, <3>1
  <2> QED
    BY <2>1, <2>2, <2>3
<1>9. ASSUME NEW t \in Tasks, Requeue(t) \/ RequeueFails(t) PROVE Counted'
  <2>1. /\ pc[t] = "requeue" /\ ready' = ready /\ raised' = raised
        /\ CopyLands(msg[t]) \/ UNCHANGED <<retrying, dead>>
        /\ \A u \in Tasks : pc'[u] # "idle" => pc[u] # "idle" /\ msg'[u] = msg[u]
        /\ \A u \in Tasks : pc'[u] = "requeue" => pc[u] = "requeue"
    BY <1>0, <1>9 DEF Requeue, RequeueFails, Goto, Finish
  <2>2. raised[Event(t)] >= msg[t].attempts + 1 /\ Event(t) \in Events
    BY <1>0, <2>1
  <2>3. \/ retrying' = retrying /\ dead' = dead
        \/ /\ msg[t].attempts + 1 = MaxAttempts
           /\ dead' = dead \cup {Event(t)}
           /\ retrying' = retrying
        \/ \E n \in Msgs :
             /\ n.event = Event(t)
             /\ n.attempts = msg[t].attempts + 1
             /\ retrying' = Put(retrying, n)
             /\ dead' = dead
    <3>1. CASE CopyLands(msg[t])
      <4>1. pc[t] # "idle"
        BY <2>1
      <4> QED
        BY <3>1, <4>1, CopyLandsFacts
    <3> QED
      BY <2>1, <3>1
  <2>4. \A m \in Msgs : retrying'[m] > 0 => retrying[m] > 0
                          \/ (m.event = Event(t) /\ m.attempts = msg[t].attempts + 1)
    <3>1. CASE retrying' = retrying
      BY <3>1
    <3>2. ASSUME NEW n \in Msgs, n.event = Event(t), n.attempts = msg[t].attempts + 1,
                 retrying' = Put(retrying, n)
          PROVE  \A m \in Msgs : retrying'[m] > 0 => retrying[m] > 0 \/ m = n
      BY <1>0, <3>2, PutCopies
    <3> QED
      BY <2>3, <3>1, <3>2
  <2>5. \A e \in dead' : raised'[e] = MaxAttempts
    BY <1>0, <2>1, <2>2, <2>3
  <2>6. \A m \in Msgs : ready'[m] > 0 \/ retrying'[m] > 0 => raised'[m.event] >= m.attempts
    BY <1>0, <2>1, <2>2, <2>4
  <2>7. \A u \in Tasks : pc'[u] # "idle" => raised'[Event(u)'] >= Failures(u)'
    BY <1>0, <2>1
  <2> QED
    BY <2>5, <2>6, <2>7
<1>10. CASE ConnectionDrops
  BY <1>0, <1>10, PutCopies DEF ConnectionDrops, Redeliver, CurrentIsBusy
<1>11. CASE ParkedTimesOut
  BY <1>0, <1>11, PutCopies DEF ParkedTimesOut, Redeliver, CurrentIsBusy, Finish, Goto
<1>12. CASE Crash
  <2>1. \A m \in Msgs : ready'[m] > 0 =>
          ready[m] > 0 \/ (current # NoTask /\ m = msg[current])
    BY <1>0, <1>12, PutCopies DEF Crash, Redeliver, CurrentIsBusy
  <2>2. current # NoTask => raised[msg[current].event] >= msg[current].attempts
    BY <1>0 DEF CurrentIsBusy
  <2>3. \A u \in Tasks : pc'[u] = "idle"
    BY <1>12 DEF Crash
  <2>4. UNCHANGED <<retrying, dead, raised>>
    BY <1>12 DEF Crash
  <2> QED
    BY <2>1, <2>2, <2>3, <2>4
<1> QED
  BY <1>1, <1>2, <1>3, <1>4, <1>5, <1>8, <1>9, <1>10, <1>11, <1>12 DEF Next, TaskStep

\* A copy reaches the dead-letter exchange only when its event failed
\* MAX_DELIVERY_ATTEMPTS times.
THEOREM DeadLetterEarned == Spec => []DeadOnlyAfterAllAttempts
<1>1. WellFormed /\ Counted => DeadOnlyAfterAllAttempts
  BY DEF Counted
<1> QED
  BY <1>1, WellFormedInit, WellFormedNext, CountedInit, CountedNext, PTL DEF Spec

-----------------------------------------------------------------------------
(* NothingLost: on its own it is not inductive, since the step that acks must *)
(* know the event is processed; Committed supplies that.                      *)

Queued(e) == \E m \in Msgs : m.event = e /\ (ready[m] > 0 \/ retrying[m] > 0)

LEMMA NothingLostInit == Init => NothingLost
  BY DEF Init, NothingLost

LEMMA NothingLostNext ==
  WellFormed /\ Committed /\ NothingLost /\ [Next]_vars => NothingLost'
<1> SUFFICES ASSUME WellFormed, Committed, NothingLost, [Next]_vars,
                    NEW e \in published', e \notin processed', e \notin dead'
             PROVE  Underway(e)'
  BY DEF NothingLost
<1> USE DEF busVars, taskVars, dbVars
<1>0. /\ ready \in [Msgs -> Nat] /\ retrying \in [Msgs -> Nat]
      /\ pc \in [Tasks -> PCs] /\ msg \in [Tasks -> Msgs \cup {NoMsg}]
      /\ current \in Tasks \cup {NoTask} /\ NoTask \notin Tasks
      /\ \A t \in Tasks : pc[t] # "idle" => msg[t] \in Msgs /\ msg[t].attempts < MaxAttempts
      /\ CurrentIsBusy
  BY NoTaskAssumption DEF WellFormed, TypeOK, BusyHasMessage
<1>a. Underway(e) <=> Queued(e) \/ (current \in Tasks /\ Holds(current, e))
  BY DEF Underway, Queued, Holds
<1>b. Underway(e)' <=> Queued(e)' \/ (current' \in Tasks /\ Holds(current, e)')
  BY DEF Underway, Queued, Holds
<1>c. e \in published /\ e \notin processed /\ e \notin dead => Underway(e)
  BY DEF NothingLost
<1>1. CASE UNCHANGED vars
  BY <1>1, <1>a, <1>b, <1>c DEF vars, Queued, Holds
<1>2. ASSUME NEW d \in Events, Publish(d) PROVE Underway(e)'
  <2>1. e = d \/ e \in published
    BY <1>2 DEF Publish
  <2>2. CASE e = d
    <3>1. [event |-> d, attempts |-> 0] \in Msgs
      BY MsgsFacts
    <3> QED
      BY <1>0, <1>2, <1>b, <2>2, <3>1, PutCopies DEF Publish, Queued
  <2>3. CASE e \in published
    <3>1. Underway(e)
      BY <1>2, <1>c, <2>3 DEF Publish
    <3>2. \A m \in Msgs : ready[m] > 0 => ready'[m] > 0
      BY <1>0, <1>2, MsgsFacts, PutCopies DEF Publish
    <3> QED
      BY <1>2, <1>a, <1>b, <3>1, <3>2 DEF Publish, Queued, Holds
  <2> QED
    BY <2>1, <2>2, <2>3
<1>3. ASSUME NEW d \in Events, ForgetMarker(d) PROVE Underway(e)'
  BY <1>3, <1>a, <1>b, <1>c DEF ForgetMarker, Queued, Holds
<1>4. ASSUME NEW t \in Tasks, NEW m \in Msgs, Deliver(t, m) PROVE Underway(e)'
  <2>1. Queued(e)
    BY <1>0, <1>4, <1>a, <1>c DEF Deliver
  <2>2. CASE m.event = e
    BY <1>0, <1>4, <1>b, <2>2 DEF Deliver, Holds, PCs
  <2>3. CASE m.event # e
    BY <1>0, <1>4, <1>b, <2>1, <2>3, TakeCopies DEF Deliver, Queued
  <2> QED
    BY <2>2, <2>3
<1>5. ASSUME NEW m \in Msgs, RetryExpires(m) PROVE Underway(e)'
  <2>1. Underway(e) /\ UNCHANGED <<current, pc, msg>>
    BY <1>5, <1>c DEF RetryExpires
  <2>2. Queued(e) => Queued(e)'
    BY <1>0, <1>5, TakeCopies, PutCopies DEF RetryExpires, Queued
  <2> QED
    BY <1>a, <1>b, <2>1, <2>2 DEF Holds
\* A step that leaves the queues alone and keeps the task busy keeps its hold.
<1>6. ASSUME NEW t \in Tasks, NEW label, Goto(t, label), pc[t] # "idle",
             label \notin {"idle", "ack_copied"} \/ current # t,
             Underway(e), UNCHANGED <<ready, retrying, current, msg>>
      PROVE  Underway(e)'
  <2>1. Queued(e) => Queued(e)'
    BY <1>6 DEF Queued
  <2>2. current \in Tasks /\ Holds(current, e) => current' \in Tasks /\ Holds(current, e)'
    BY <1>0, <1>6 DEF Holds, Goto
  <2> QED
    BY <1>6, <1>a, <1>b, <2>1, <2>2
<1>7. ASSUME NEW t \in Tasks,
             SeenEvent(t) \/ Commit(t) \/ Duplicate(t) \/ WorkFails(t) \/ MarkProcessed(t)
      PROVE  Underway(e)'
  <2>1. Underway(e)
    BY <1>7, <1>c DEF SeenEvent, Commit, CommitRow, Duplicate, WorkFails, MarkProcessed
  <2>2. /\ pc[t] # "idle" /\ UNCHANGED <<ready, retrying, current, msg>>
        /\ Goto(t, "ack") \/ Goto(t, "work") \/ Goto(t, "mark") \/ Goto(t, "requeue")
    BY <1>7 DEF SeenEvent, Commit, Duplicate, WorkFails, MarkProcessed, Raise
  <2> QED
    BY <1>6, <2>1, <2>2
<1>8. ASSUME NEW t \in Tasks, Ack(t) PROVE Underway(e)'
  <2>1. Underway(e) /\ Event(t) \in processed /\ e \notin processed
    BY <1>8, <1>c DEF Ack, Committed, DoneIsProcessed
  <2>2. CASE current = t
    BY <1>8, <1>a, <1>b, <2>1, <2>2 DEF Ack, Holds, Queued, Event
  <2>3. CASE current # t
    BY <1>6, <1>8, <2>1, <2>3 DEF Ack, Raise
  <2> QED
    BY <2>2, <2>3
<1>9. ASSUME NEW t \in Tasks, Requeue(t) \/ RequeueFails(t) PROVE Underway(e)'
  <2>1. /\ pc[t] = "requeue" /\ UNCHANGED <<published, processed, ready, current>>
        /\ CopyLands(msg[t]) \/ UNCHANGED <<retrying, dead>>
    BY <1>9 DEF Requeue, RequeueFails
  <2>2. /\ dead \subseteq dead'
        /\ \A m \in Msgs : retrying[m] > 0 => retrying'[m] > 0
        /\ CopyLands(msg[t]) /\ msg[t].event = e => Queued(e)'
    <3>1. CASE CopyLands(msg[t])
      <4>1. pc[t] # "idle"
        BY <2>1
      <4>2. CASE dead' = dead \cup {msg[t].event} /\ retrying' = retrying
        BY <4>2
      <4>3. ASSUME NEW n \in Msgs, n.event = msg[t].event, retrying' = Put(retrying, n),
                   dead' = dead
            PROVE  <2>2!1 /\ <2>2!2 /\ <2>2!3
        BY <1>0, <4>3, PutCopies DEF Queued
      <4> QED
        BY <3>1, <4>1, <4>2, <4>3, CopyLandsFacts
    <3> QED
      BY <2>1, <3>1
  <2>3. Underway(e)
    BY <1>c, <2>1, <2>2
  <2>4. Queued(e) => Queued(e)'
    BY <2>1, <2>2 DEF Queued
  <2>5. ASSUME current \in Tasks, Holds(current, e) PROVE Underway(e)'
    <3>1. CASE Requeue(t) /\ current = t
      BY <1>b, <2>2, <2>5, <3>1 DEF Requeue, Holds
    <3>2. CASE RequeueFails(t) /\ current = t
      BY <1>0, <1>b, <2>5, <3>2 DEF RequeueFails, Goto, Holds
    <3>3. CASE current # t
      BY <1>0, <1>9, <1>b, <2>1, <2>5, <3>3
      DEF Requeue, RequeueFails, Goto, Finish, Holds
    <3> QED
      BY <1>9, <3>1, <3>2, <3>3
  <2> QED
    BY <1>a, <1>b, <2>3, <2>4, <2>5
<1>10. ASSUME NEW t \in Tasks, AckCopied(t) PROVE Underway(e)'
  BY <1>0, <1>10, <1>a, <1>b, <1>c DEF AckCopied, Finish, Goto, Queued, Holds
<1>11. CASE ConnectionDrops \/ ParkedTimesOut \/ Crash
  <2>1. Redeliver /\ UNCHANGED <<published, processed, dead, retrying>>
    BY <1>11 DEF ConnectionDrops, ParkedTimesOut, Crash
  <2>2. Queued(e) => Queued(e)'
    BY <1>0, <2>1, PutCopies DEF Redeliver, Queued, CurrentIsBusy
  <2>3. current \in Tasks /\ Holds(current, e) => Queued(e)'
    BY <1>0, <2>1, PutCopies DEF Redeliver, Queued, Holds
  <2> QED
    BY <1>a, <1>b, <1>c, <2>1, <2>2, <2>3
<1> QED
  BY <1>1, <1>2, <1>3, <1>4, <1>5, <1>7, <1>8, <1>9, <1>10, <1>11 DEF Next, TaskStep

\* No crash, drop or failed publish makes the consumer lose a published event: it
\* is processed, dead-lettered, or a copy of it will be handled again.
THEOREM NoEventLost == Spec => []NothingLost
  BY WellFormedInit, WellFormedNext, CommittedInit, CommittedNext, NothingLostInit,
     NothingLostNext, PTL DEF Spec

=============================================================================
