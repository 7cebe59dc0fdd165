----------------------------- MODULE OnceEffect -----------------------------
(***************************************************************************)
(* What the event bus promises a database-backed handler, with every queue,*)
(* retry and redelivery hidden: an event that was published has its effect *)
(* at most once.  docs/events.md and common/redis_client.py put it as      *)
(* "every event handler is idempotent"; EventDelivery implements it.       *)
(***************************************************************************)
EXTENDS Naturals

CONSTANT Events

VARIABLES sent,     \* the events some producer has published
          effect    \* effect[e]: how often the handler's transaction for e committed

vars == <<sent, effect>>

Init == /\ sent = {}
        /\ effect = [e \in Events |-> 0]

Send(e) == /\ e \notin sent
           /\ sent' = sent \cup {e}
           /\ UNCHANGED effect

Apply(e) == /\ e \in sent
            /\ effect[e] = 0
            /\ effect' = [effect EXCEPT ![e] = 1]
            /\ UNCHANGED sent

Next == \E e \in Events : Send(e) \/ Apply(e)

Spec == Init /\ [][Next]_vars
=============================================================================
