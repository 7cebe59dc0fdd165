--------------------------- MODULE EventDelivery ---------------------------
(***************************************************************************)
(* One durable queue, its `.retry` queue and its consumer:                 *)
(* Broker.consume of libs/common/events.py, together with the idempotency  *)
(* protocol every database-backed handler follows (_once of the Order      *)
(* Service, and the same steps spelled out in the Account and Portfolio    *)
(* handlers): look for the Redis marker, do the work and insert the        *)
(* processed_events row in one transaction, write the marker, ack.         *)
(*                                                                         *)
(* A handler runs as an asyncio task.  When the connection drops, the      *)
(* broker gives its message to a fresh task while the old one keeps        *)
(* running; only its ack fails, since the channel is closed.               *)
(***************************************************************************)
EXTENDS Naturals

CONSTANTS Events,        \* the events producers may publish to this queue
          Tasks,         \* the handler tasks that may run at once
          MaxAttempts,   \* MAX_DELIVERY_ATTEMPTS
          MaxFaults,     \* bound: connection drops, crashes and failed retry publishes
          NoTask,        \* no delivery is outstanding
          NoMsg          \* the task handles no message

\* The x-attempts header counts the attempts already made.
Msgs == [event : Events, attempts : 0..MaxAttempts]

ASSUME MaxAttemptsAssumption == MaxAttempts \in Nat \ {0}
ASSUME MaxFaultsAssumption == MaxFaults \in Nat
ASSUME NoTaskAssumption == NoTask \notin Tasks
ASSUME NoMsgAssumption == NoMsg \notin Msgs

VARIABLES
  published,   \* events whose publish was confirmed
  ready,       \* ready[m]: copies of m in the queue, waiting for the consumer
  retrying,    \* retrying[m]: copies of m waiting in `<queue>.retry`
  dead,        \* events with a copy sent to the dead-letter exchange
  current,     \* the task with the one unacked delivery (prefetch_count = 1)
  pc, msg,     \* each task's next step, and the message it handles
  processed,   \* primary keys of the table processed_events
  marker,      \* the idem:<service>:<event> keys in Redis
  applied,     \* history: committed transactions per event
  raised,      \* history: failed attempts per event, up to MaxAttempts
  faults       \* faults so far, see MaxFaults

busVars == <<published, ready, retrying, dead, current>>
taskVars == <<pc, msg>>
dbVars == <<processed, applied>>
vars == <<published, ready, retrying, dead, current, pc, msg, processed,
          marker, applied, raised, faults>>

\* The steps of _on_message and the handler it awaits.
PCs == {"idle", "check", "work", "mark", "ack", "requeue", "ack_copied", "parked"}

Put(bag, m) == [bag EXCEPT ![m] = @ + 1]
Take(bag, m) == [bag EXCEPT ![m] = @ - 1]

Init ==
  /\ published = {}
  /\ ready = [m \in Msgs |-> 0]
  /\ retrying = [m \in Msgs |-> 0]
  /\ dead = {}
  /\ current = NoTask
  /\ pc = [t \in Tasks |-> "idle"]
  /\ msg = [t \in Tasks |-> NoMsg]
  /\ processed = {}
  /\ marker = {}
  /\ applied = [e \in Events |-> 0]
  /\ raised = [e \in Events |-> 0]
  /\ faults = 0

-----------------------------------------------------------------------------
(* The broker *)

\* A producer publishes an event; the exchange routes it to this queue.
Publish(e) ==
  /\ e \notin published
  /\ published' = published \cup {e}
  /\ ready' = Put(ready, [event |-> e, attempts |-> 0])
  /\ UNCHANGED <<retrying, dead, current, taskVars, dbVars, marker, raised, faults>>

\* The consumer has no unacked delivery, so the broker pushes the next one.
Deliver(t, m) ==
  /\ current = NoTask
  /\ pc[t] = "idle"
  /\ ready[m] > 0
  /\ ready' = Take(ready, m)
  /\ current' = t
  /\ pc' = [pc EXCEPT ![t] = "check"]
  /\ msg' = [msg EXCEPT ![t] = m]
  /\ UNCHANGED <<published, retrying, dead, dbVars, marker, raised, faults>>

\* Mutant: the retry queue is declared without its dead-letter routing key.
RetryExpiresToNowhere(m) ==
  /\ retrying[m] > 0
  /\ retrying' = Take(retrying, m)
  /\ UNCHANGED <<published, ready, dead, current, taskVars, dbVars, marker, raised, faults>>

\* RETRY_DELAY_MS pass: the copy is dead-lettered back to the source queue.
RetryExpires(m) ==
  /\ retrying[m] > 0
  /\ retrying' = Take(retrying, m)
  /\ ready' = Put(ready, m)
  /\ UNCHANGED <<published, dead, current, taskVars, dbVars, marker, raised, faults>>

-----------------------------------------------------------------------------
(* The handler task *)

Event(t) == msg[t].event

Goto(t, label) == pc' = [pc EXCEPT ![t] = label]

\* The handler (or the ack in the same try block) raises.
Raise(t) ==
  /\ Goto(t, "requeue")
  /\ raised' = [raised EXCEPT ![Event(t)] = IF @ < MaxAttempts THEN @ + 1 ELSE @]

\* Mutant: SET NX claims the event before the work commits.
SeenEventClaims(t) ==
  /\ pc[t] = "check"
  /\ \/ Event(t) \in marker /\ Goto(t, "ack")
     \/ Event(t) \notin marker /\ Goto(t, "work")
  /\ marker' = marker \cup {Event(t)}
  /\ UNCHANGED <<busVars, msg, dbVars, raised, faults>>

\* seen_event: a read-only look at Redis.  A hit skips the work; Redis may be down.
SeenEvent(t) ==
  /\ pc[t] = "check"
  /\ \/ Event(t) \in marker /\ Goto(t, "ack") /\ UNCHANGED raised
     \/ Event(t) \notin marker /\ Goto(t, "work") /\ UNCHANGED raised
     \/ Raise(t)
  /\ UNCHANGED <<busVars, msg, dbVars, marker, faults>>

\* Mutant: processed_events has no primary key on event_id.
InsertsAnyway(e) == TRUE

\* The INSERT of the processed_events row finds no row with that key.
KeyIsFree(e) == e \notin processed

CommitRow(e) == /\ processed' = processed \cup {e}
                /\ applied' = [applied EXCEPT ![e] = @ + 1]

\* The work and the processed_events row commit together; the commit's answer
\* may be lost, which raises in the handler after the fact.
Commit(t) ==
  /\ pc[t] = "work"
  /\ KeyIsFree(Event(t))
  /\ CommitRow(Event(t))
  /\ \/ Goto(t, "mark") /\ UNCHANGED raised
     \/ Raise(t)
  /\ UNCHANGED <<busVars, msg, marker, faults>>

\* IntegrityError: another delivery won the race.  Roll back, return normally.
Duplicate(t) ==
  /\ pc[t] = "work"
  /\ ~ KeyIsFree(Event(t))
  /\ Goto(t, "ack")
  /\ UNCHANGED <<busVars, msg, dbVars, marker, raised, faults>>

\* The work raises, or the database is gone: nothing is committed.
WorkFails(t) ==
  /\ pc[t] = "work"
  /\ Raise(t)
  /\ UNCHANGED <<busVars, msg, dbVars, marker, faults>>

\* mark_event_processed, after the commit; Redis may be down.
MarkProcessed(t) ==
  /\ pc[t] = "mark"
  /\ \/ marker' = marker \cup {Event(t)} /\ Goto(t, "ack") /\ UNCHANGED raised
     \/ Raise(t) /\ UNCHANGED marker
  /\ UNCHANGED <<busVars, msg, dbVars, faults>>

Finish(t) ==
  /\ Goto(t, "idle")
  /\ msg' = [msg EXCEPT ![t] = NoMsg]

\* The ack after the handler returned.  On a closed channel it raises inside the try.
Ack(t) ==
  /\ pc[t] = "ack"
  /\ \/ current = t /\ current' = NoTask /\ Finish(t) /\ UNCHANGED raised
     \/ current # t /\ Raise(t) /\ UNCHANGED <<current, msg>>
  /\ UNCHANGED <<published, ready, retrying, dead, dbVars, marker, faults>>

\* Mutant: one attempt too few.
ExhaustedEarly(m) == m.attempts + 2 >= MaxAttempts

Exhausted(m) == m.attempts + 1 >= MaxAttempts

\* The publish of _requeue_for_retry: a copy with one more attempt on the retry
\* queue, or after the last attempt a copy on the dead-letter exchange, which no
\* queue is bound to.
CopyLands(m) ==
  IF Exhausted(m)
  THEN /\ dead' = dead \cup {m.event}
       /\ UNCHANGED retrying
  ELSE /\ retrying' = Put(retrying, [m EXCEPT !.attempts = @ + 1])
       /\ UNCHANGED dead

Requeue(t) ==
  /\ pc[t] = "requeue"
  /\ CopyLands(msg[t])
  /\ Goto(t, "ack_copied")
  /\ UNCHANGED <<published, ready, current, msg, dbVars, marker, raised, faults>>

\* Mutant: the message is acked although it could not be re-injected.
RequeueFailsAndAcks(t) ==
  /\ pc[t] = "requeue"
  /\ faults < MaxFaults
  /\ faults' = faults + 1
  /\ Finish(t)
  /\ current' = IF current = t THEN NoTask ELSE current
  /\ UNCHANGED <<published, ready, retrying, dead, dbVars, marker, raised>>

\* The publish raises, though its copy may have landed.  The message stays
\* unacked: with prefetch 1 the consumer gets nothing until the channel closes.
RequeueFails(t) ==
  /\ pc[t] = "requeue"
  /\ faults < MaxFaults
  /\ faults' = faults + 1
  /\ \/ CopyLands(msg[t])
     \/ UNCHANGED <<retrying, dead>>
  /\ \/ current = t /\ Goto(t, "parked") /\ UNCHANGED msg
     \/ current # t /\ Finish(t)
  /\ UNCHANGED <<published, ready, current, dbVars, marker, raised>>

\* The ack after the copy was published; on a closed channel it raises and the
\* task ends all the same.
AckCopied(t) ==
  /\ pc[t] = "ack_copied"
  /\ current' = IF current = t THEN NoTask ELSE current
  /\ Finish(t)
  /\ UNCHANGED <<published, ready, retrying, dead, dbVars, marker, raised, faults>>

-----------------------------------------------------------------------------
(* Faults *)

\* The channel closes: the broker takes the unacked message back as it was.
Redeliver ==
  /\ current' = NoTask
  /\ ready' = IF current = NoTask THEN ready ELSE Put(ready, msg[current])

\* The connection drops and is restored (connect_robust).  Running tasks go on.
ConnectionDrops ==
  /\ faults < MaxFaults
  /\ faults' = faults + 1
  /\ current # NoTask
  /\ pc[current] # "parked"
  /\ Redeliver
  /\ UNCHANGED <<published, retrying, dead, taskVars, dbVars, marker, raised>>

\* A delivery nobody will ack times out and the broker closes the channel.
ParkedTimesOut ==
  /\ current # NoTask
  /\ pc[current] = "parked"
  /\ Redeliver
  /\ Finish(current)
  /\ UNCHANGED <<published, retrying, dead, dbVars, marker, raised, faults>>

\* The service dies with all its tasks and starts again.
Crash ==
  /\ faults < MaxFaults
  /\ faults' = faults + 1
  /\ \E t \in Tasks : pc[t] # "idle"
  /\ Redeliver
  /\ pc' = [t \in Tasks |-> "idle"]
  /\ msg' = [t \in Tasks |-> NoMsg]
  /\ UNCHANGED <<published, retrying, dead, dbVars, marker, raised>>

\* A marker's TTL runs out, or Redis loses it.
ForgetMarker(e) ==
  /\ e \in marker
  /\ marker' = marker \ {e}
  /\ UNCHANGED <<busVars, taskVars, dbVars, raised, faults>>

-----------------------------------------------------------------------------
TaskStep(t) ==
  \/ SeenEvent(t)
  \/ Commit(t)
  \/ Duplicate(t)
  \/ WorkFails(t)
  \/ MarkProcessed(t)
  \/ Ack(t)
  \/ Requeue(t)
  \/ RequeueFails(t)
  \/ AckCopied(t)

Next ==
  \/ \E e \in Events : Publish(e) \/ ForgetMarker(e)
  \/ \E t \in Tasks, m \in Msgs : Deliver(t, m)
  \/ \E m \in Msgs : RetryExpires(m)
  \/ \E t \in Tasks : TaskStep(t)
  \/ ConnectionDrops
  \/ ParkedTimesOut
  \/ Crash

Spec == Init /\ [][Next]_vars

\* The event loop runs every task, the broker delivers while the consumer is
\* free, retry TTLs run out, and an unacked delivery does not stay out for ever.
Fairness ==
  /\ \A t \in Tasks : WF_vars(TaskStep(t))
  /\ WF_vars(\E t \in Tasks, m \in Msgs : Deliver(t, m))
  /\ \A m \in Msgs : WF_vars(RetryExpires(m))
  /\ WF_vars(ParkedTimesOut)

FairSpec == Spec /\ Fairness

-----------------------------------------------------------------------------
(* Properties *)

\* Every variable stays in its domain; no copy in a queue has used all its attempts.
TypeOK ==
  /\ published \subseteq Events
  /\ ready \in [Msgs -> Nat]
  /\ retrying \in [Msgs -> Nat]
  /\ \A m \in Msgs : m.attempts = MaxAttempts => ready[m] = 0 /\ retrying[m] = 0
  /\ dead \subseteq Events
  /\ current \in Tasks \cup {NoTask}
  /\ pc \in [Tasks -> PCs]
  /\ msg \in [Tasks -> Msgs \cup {NoMsg}]
  /\ processed \subseteq Events
  /\ marker \subseteq Events
  /\ applied \in [Events -> Nat]
  /\ raised \in [Events -> 0..MaxAttempts]
  /\ faults \in 0..MaxFaults

\* However often an event is delivered, and however many tasks handle copies of
\* it at once, its work commits at most once.
AppliedAtMostOnce == \A e \in Events : applied[e] <= 1

\* A Redis marker never makes an event look handled before its work is durable:
\* a crash between claim and commit must not drop the event on redelivery.
MarkerImpliesProcessed == marker \subseteq processed

\* Copies of e that the broker still holds, or that a task handles and has
\* neither acked nor replaced by a retry copy.
Holds(t, e) ==
  /\ current = t
  /\ pc[t] \notin {"idle", "ack_copied"}
  /\ msg[t].event = e

Underway(e) ==
  \/ \E m \in Msgs : m.event = e /\ (ready[m] > 0 \/ retrying[m] > 0)
  \/ \E t \in Tasks : Holds(t, e)

\* A published event whose work has not committed still has a copy somewhere, or
\* was dead-lettered after its last attempt: no crash, drop or failed retry
\* publish between two steps of _on_message loses it.
NothingLost ==
  \A e \in published : e \in processed \/ e \in dead \/ Underway(e)

\* A copy reaches the dead-letter exchange only after MaxAttempts failed
\* attempts; redeliveries after a crash or a drop do not count as attempts.
DeadOnlyAfterAllAttempts == \A e \in dead : raised[e] = MaxAttempts

\* Every published event is processed or dead-lettered in the end.
EventuallySettled ==
  \A e \in Events : e \in published ~> e \in processed \cup dead

\* The consumer keeps the bus's promise.
OnceSpec == INSTANCE OnceEffect WITH sent <- published, effect <- applied
ImplementsOnceEffect == OnceSpec!Spec
=============================================================================
