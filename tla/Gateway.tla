------------------------------ MODULE Gateway ------------------------------
(***************************************************************************)
(* The path of one HTTP request through services/gateway: routes that do   *)
(* not exist outside, authentication, the quota of the caller (a fixed     *)
(* window counter in Redis), the circuit breaker of the upstream, its      *)
(* bulkhead, the call and what the call's end tells the breaker.           *)
(*                                                                         *)
(* The handlers are coroutines of one event loop: what lies between two    *)
(* awaits is one step.  The upstreams answer, refuse, or stay silent as    *)
(* they like.                                                              *)
(***************************************************************************)
EXTENDS Integers, BagsExt, FiniteSetsExt, SequencesExt

CONSTANTS
  Reqs,            \* the requests of clients
  RequestOf,       \* [path, method, upstream, token, user, bot, ip]
  Upstreams, NoRoute,
  DefaultLimit, OrderLimit, BotLimit,   \* ratelimit.py
  MaxInflight,     \* MAX_INFLIGHT_PER_UPSTREAM
  HardThreshold, SoftThreshold,         \* of the circuit breaker
  OpenTicks,       \* BREAKER_OPEN_SECONDS
  MinuteTicks,     \* a window of the quota
  MaxTime,         \* bound: ticks of the clock
  MaxRedisFaults   \* bound: failures of Redis

VARIABLES
  pc,              \* where the handler of a request is
  answer,          \* what the client got
  window,          \* enforce: the minute the request came in
  counters,        \* Redis: ratelimit:identity:bucket:window
  uncounted,       \* history: requests let through because Redis failed
  permits,         \* _bulkheads: the free permits of a semaphore
  failures,        \* _failures, 0 where absent
  openUntil,       \* _open_until, 0 where absent
  now

quota == <<window, counters, uncounted>>
breaker == <<failures, openUntil>>
vars == <<pc, answer, quota, permits, breaker, now>>

ASSUME RequestAssumption ==
  /\ IsFiniteSet(Reqs)
  /\ \A r \in Reqs : RequestOf[r].upstream \in Upstreams \cup {NoRoute}
  /\ NoRoute \notin Upstreams

ASSUME LimitAssumption ==
  /\ DefaultLimit \in Nat /\ OrderLimit \in Nat /\ BotLimit \in Nat
  /\ MaxInflight \in Nat /\ OpenTicks \in Nat \ {0} /\ MinuteTicks \in Nat \ {0}
  /\ HardThreshold \in Nat /\ SoftThreshold \in Nat \ {0} /\ HardThreshold <= SoftThreshold
  /\ MaxTime \in Nat /\ MaxRedisFaults \in Nat

-----------------------------------------------------------------------------
(* What a request is *)

IsOrder(r) == RequestOf[r].method = "POST" /\ RequestOf[r].path = "orders"
IsPublic(r) == RequestOf[r].path = "public"

\* authenticate: the claims of a valid token, on a public path too; a bad one is
\* ignored there.
HasClaims(r) == RequestOf[r].token = "valid"
Identity(r) == IF HasClaims(r) THEN RequestOf[r].user ELSE RequestOf[r].ip

LimitFor(r) ==
  IF HasClaims(r) /\ RequestOf[r].bot THEN BotLimit
  ELSE IF IsOrder(r) THEN OrderLimit ELSE DefaultLimit

\* Mutant: one counter for all paths.
OneBucket(r) == "default"

BucketFor(r) == IF IsOrder(r) THEN "orders" ELSE "default"

\* All requests of one identity are those of a bot, or none.
ASSUME IdentityAssumption ==
  \A r, s \in Reqs :
    Identity(r) = Identity(s) /\ IsOrder(r) = IsOrder(s) => LimitFor(r) = LimitFor(s)

Windows == 0..(MaxTime \div MinuteTicks)
Buckets == {"orders", "default"}
Identities == {Identity(r) : r \in Reqs}

Key(r) == <<Identity(r), BucketFor(r), window[r]>>

\* Mutant: the breaker takes all upstreams for one.
AnyUpstream(r) == CHOOSE u \in Upstreams : TRUE

\* urlparse(...).hostname: the routes lead to URLs with a host of their own each
\* (docker-compose.yml:18-24), so a host stands for its URL.  Two URLs on one host would
\* share a breaker and a bulkhead.
UpstreamName(r) == RequestOf[r].upstream

Init ==
  /\ pc = [r \in Reqs |-> "new"] /\ answer = [r \in Reqs |-> "none"]
  /\ window = [r \in Reqs |-> 0]
  /\ counters = [k \in Identities \X Buckets \X Windows |-> 0]
  /\ uncounted = {}
  /\ permits = [u \in Upstreams |-> MaxInflight]
  /\ failures = [u \in Upstreams |-> 0] /\ openUntil = [u \in Upstreams |-> 0]
  /\ now = 0

Tick ==
  /\ now < MaxTime /\ now' = now + 1
  /\ UNCHANGED <<pc, answer, quota, permits, breaker>>

Done(r, a) ==
  /\ pc' = [pc EXCEPT ![r] = "done"] /\ answer' = [answer EXCEPT ![r] = a]

GoesTo(r, where) == pc' = [pc EXCEPT ![r] = where] /\ UNCHANGED answer

-----------------------------------------------------------------------------
(* Before the upstream *)

\* proxy, 1 to 4: no answer yet, or the one a request gets that costs no quota.
Turned(r) ==
  IF RequestOf[r].path = "internal" THEN "404"
  ELSE IF RequestOf[r].method = "OPTIONS" THEN "200"
  ELSE IF ~ IsPublic(r) /\ ~ HasClaims(r) THEN "401"
  ELSE IF RequestOf[r].upstream = NoRoute THEN "404" ELSE "none"

TurnedAway(r) ==
  /\ pc[r] = "new" /\ Turned(r) # "none"
  /\ Done(r, Turned(r))
  /\ UNCHANGED <<quota, permits, breaker, now>>

Arrive(r) ==
  /\ pc[r] = "new" /\ Turned(r) = "none"
  /\ window' = [window EXCEPT ![r] = now \div MinuteTicks]
  /\ GoesTo(r, "counting")
  /\ UNCHANGED <<counters, uncounted, permits, breaker, now>>

\* enforce: INCR, in the window the request came in.  EXPIRE is left out: the key is of
\* one window, and lives longer than it.
Count(r) ==
  /\ pc[r] = "counting"
  /\ counters' = [counters EXCEPT ![Key(r)] = @ + 1]
  /\ IF counters[Key(r)] + 1 > LimitFor(r) THEN Done(r, "429") ELSE GoesTo(r, "admitted")
  /\ UNCHANGED <<window, uncounted, permits, breaker, now>>

\* Redis fails, before or after it has counted: fail open.
RedisFails(r) ==
  /\ pc[r] = "counting" /\ Cardinality(uncounted) < MaxRedisFaults
  /\ \/ UNCHANGED counters
     \/ counters' = [counters EXCEPT ![Key(r)] = @ + 1]
  /\ uncounted' = uncounted \cup {r}
  /\ GoesTo(r, "admitted")
  /\ UNCHANGED <<window, permits, breaker, now>>

IsOpen(u) == openUntil[u] # 0 /\ now < openUntil[u]

\* _circuit_open, when it is not: an elapsed window is forgotten with its failures.
HalfOpen(u) ==
  IF openUntil[u] = 0 THEN UNCHANGED breaker
  ELSE /\ openUntil' = [openUntil EXCEPT ![u] = 0]
       /\ failures' = [failures EXCEPT ![u] = 0]

FailsFast(r) ==
  /\ pc[r] = "admitted" /\ IsOpen(UpstreamName(r))
  /\ Done(r, "open")
  /\ UNCHANGED <<quota, permits, breaker, now>>

PassesBreaker(r) ==
  /\ pc[r] = "admitted" /\ ~ IsOpen(UpstreamName(r))
  /\ HalfOpen(UpstreamName(r))
  /\ GoesTo(r, "waiting")
  /\ UNCHANGED <<quota, permits, now>>

\* asyncio.Semaphore: a waiter gets a free permit, which one is left open.
Granted(r) ==
  LET u == RequestOf[r].upstream IN
  /\ pc[r] = "waiting" /\ permits[u] > 0
  /\ permits' = [permits EXCEPT ![u] = @ - 1]
  /\ GoesTo(r, "granted")
  /\ UNCHANGED <<quota, breaker, now>>

Release(r) ==
  permits' = [permits EXCEPT ![RequestOf[r].upstream] = @ + 1]

\* Mutant: a request that times out with the permit in its hand drops it.
DropsPermit(r) ==
  /\ pc[r] \in {"waiting", "granted"}
  /\ Done(r, "busy")
  /\ UNCHANGED <<quota, permits, breaker, now>>

\* wait_for: a permit granted in the same turn of the loop goes back.
TimesOut(r) ==
  /\ pc[r] \in {"waiting", "granted"}
  /\ Done(r, "busy")
  /\ IF pc[r] = "granted" THEN Release(r) ELSE UNCHANGED permits
  /\ UNCHANGED <<quota, breaker, now>>

-----------------------------------------------------------------------------
(* The call *)

Dial(r) ==
  /\ pc[r] = "granted" /\ GoesTo(r, "dialing")
  /\ UNCHANGED <<quota, permits, breaker, now>>

\* Mutant: a threshold is reached only exactly.
RecordExactly(u, hard) ==
  LET threshold == IF hard THEN HardThreshold ELSE SoftThreshold IN
  /\ failures' = [failures EXCEPT ![u] = @ + 1]
  /\ openUntil' = IF failures[u] + 1 = threshold /\ openUntil[u] = 0
                  THEN [openUntil EXCEPT ![u] = now + OpenTicks] ELSE openUntil

\* _record_failure
RecordFailure(u, hard) ==
  LET threshold == IF hard THEN HardThreshold ELSE SoftThreshold IN
  /\ failures' = [failures EXCEPT ![u] = @ + 1]
  /\ openUntil' = IF failures[u] + 1 >= threshold /\ openUntil[u] = 0
                  THEN [openUntil EXCEPT ![u] = now + OpenTicks] ELSE openUntil

\* _record_success
RecordSuccess(u) ==
  /\ failures' = [failures EXCEPT ![u] = 0]
  /\ openUntil' = [openUntil EXCEPT ![u] = 0]

\* Any status the upstream gives.
Served(r) ==
  /\ pc[r] = "dialing"
  /\ Done(r, "served") /\ Release(r)
  /\ RecordSuccess(UpstreamName(r))
  /\ UNCHANGED <<quota, now>>

\* ConnectError
Unreachable(r) ==
  /\ pc[r] = "dialing"
  /\ Done(r, "failed") /\ Release(r)
  /\ RecordFailure(UpstreamName(r), TRUE)
  /\ UNCHANGED <<quota, now>>

\* No connection (503) or no reply (504) in time.
Silent(r) ==
  /\ pc[r] = "dialing"
  /\ Done(r, "failed") /\ Release(r)
  /\ RecordFailure(UpstreamName(r), FALSE)
  /\ UNCHANGED <<quota, now>>

\* Any other error of the call is a 500, and the breaker does not hear of it.
Breaks(r) ==
  /\ pc[r] = "dialing"
  /\ Done(r, "500") /\ Release(r)
  /\ UNCHANGED <<quota, breaker, now>>

Step(r) ==
  \/ TurnedAway(r)
  \/ Arrive(r)
  \/ Count(r)
  \/ RedisFails(r)
  \/ FailsFast(r)
  \/ PassesBreaker(r)
  \/ Granted(r)
  \/ TimesOut(r)
  \/ Dial(r)
  \/ Served(r)
  \/ Unreachable(r)
  \/ Silent(r)
  \/ Breaks(r)

Next == Tick \/ \E r \in Reqs : Step(r)

Spec == Init /\ [][Next]_vars

-----------------------------------------------------------------------------
(* Properties *)

\* The types of the variables; a request that is on its way has an upstream.
TypeOK ==
  /\ pc \in [Reqs -> {"new", "counting", "admitted", "waiting", "granted", "dialing", "done"}]
  /\ answer \in [Reqs -> {"none", "200", "401", "404", "429", "500", "open", "busy",
                        "served", "failed"}]
  /\ window \in [Reqs -> Windows] /\ uncounted \subseteq Reqs
  /\ counters \in [Identities \X Buckets \X Windows -> Nat]
  /\ permits \in [Upstreams -> Nat]
  /\ failures \in [Upstreams -> Nat] /\ openUntil \in [Upstreams -> Nat]
  /\ now \in 0..MaxTime
  /\ \A r \in Reqs : pc[r] \notin {"new", "done"} => RequestOf[r].upstream \in Upstreams

Holders(u) == {r \in Reqs : pc[r] \in {"granted", "dialing"} /\ RequestOf[r].upstream = u}

\* No path through a request loses or forges a permit ("Must run on every path, or each
\* upstream permanently wedges", proxy.py:200): those that are free and those the requests
\* of an upstream hold are always MAX_INFLIGHT_PER_UPSTREAM together.
BulkheadExact == \A u \in Upstreams : permits[u] + Cardinality(Holders(u)) = MaxInflight

\* The breaker has no state it cannot leave or enter again: enough failures are counted
\* only while a window is set, whatever order late answers, failures and the window's end
\* come in, so that a later blip is judged from zero.
FailuresOpenCircuit == \A u \in Upstreams : failures[u] >= SoftThreshold => openUntil[u] # 0

\* The breaker fails a request fast only after a call to that same upstream failed: the
\* failures of one service never open the circuit of another.  It says nothing of what all
\* calls share besides, the connection pool and the resolver.
OutageContained ==
  \A r \in Reqs : answer[r] = "open" =>
    \E s \in Reqs : /\ answer[s] = "failed"
                    /\ RequestOf[s].upstream = RequestOf[r].upstream

\* The requests that share the quota of r.
Rivals(r) ==
  {s \in Reqs : /\ pc[s] \notin {"new", "counting"} /\ Turned(s) = "none"
                /\ Identity(s) = Identity(r) /\ IsOrder(s) = IsOrder(r)
                /\ window[s] = window[r]}

\* The quota is exact: a request is refused only when its caller made more of that kind in
\* that minute than allowed (polling does not use up the orders), and of those Redis
\* counted no more than the limit are let through.
QuotaExact ==
  \A r \in Reqs :
    /\ answer[r] = "429" => Cardinality(Rivals(r)) > LimitFor(r)
    /\ Turned(r) = "none" =>
         Cardinality({s \in Rivals(r) \ uncounted : answer[s] # "429"}) <= LimitFor(r)
=============================================================================
