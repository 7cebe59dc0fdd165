----------------------------- MODULE Edge_proofs -----------------------------
(***************************************************************************)
(* Proofs about the edge of the exchange, the gateway, what it bridges and *)
(* what a browser is shown, for any number of requests, upstreams, views,  *)
(* sockets, trades, handler tasks, limits, ticks, alerts and answers.      *)
(*                                                                         *)
(* Gateway.  BulkheadExact and FailuresOpenCircuit are inductive with      *)
(* TypeOK.  OutageContained needs OpenedByFailure, and that an answer is   *)
(* final.  QuotaExact needs the counters themselves to be exact            *)
(* (CountersExact), and its bounds for a key instead of for a request      *)
(* (QuotaKept).                                                            *)
(*                                                                         *)
(* LiveFeed.  What is drawn needs that one chart is mounted at a time.     *)
(* The sockets need OneEach, and the counters that every client's slots    *)
(* are its busy bridges (SlotsExact), each of which has a view.            *)
(*                                                                         *)
(* MarketData.  A task shows only what it has committed (AtWork).  Each    *)
(* candle fits the trades of its bucket (CandlesKept).  As long as nothing *)
(* was given up, work is outstanding or the last commit is shown (Fresh).  *)
(* What the fill has drawn of the candles so far is Draws.                 *)
(*                                                                         *)
(* Notifications.  A list of the page and of every request and answer on   *)
(* its way stays newest first and without a hole while alerts come         *)
(* (ListsKept).  That an answer joins the list it was asked for is a       *)
(* count of the alerts above and below the offset (PageJoins).             *)
(***************************************************************************)
EXTENDS FiniteSets, Gateway, LiveFeed, MarketData, Notifications, SumTheorems

USE RequestAssumption, LimitAssumption

LEMMA DivMonotone ==
  \A a, b, m \in Nat : m # 0 /\ a <= b => a \div m \in 0..(b \div m)
  BY SMTT(20)

LEMMA KeyTyped ==
  ASSUME TypeOK, NEW r \in Reqs
  PROVE  Key(r) \in Identities \X Buckets \X Windows
  BY DEF TypeOK, Key, Identities, Buckets, BucketFor

-----------------------------------------------------------------------------
(* Types *)

LEMMA TypeInit == Init => TypeOK
<1> SUFFICES ASSUME Init PROVE TypeOK
  OBVIOUS
<1>1. 0 \in Windows
  BY DivMonotone DEF Windows
<1> QED
  BY <1>1 DEF Init, TypeOK

LEMMA TypeNext == TypeOK /\ [Next]_vars => TypeOK'
<1> SUFFICES ASSUME TypeOK, [Next]_vars PROVE TypeOK'
  OBVIOUS
<1> USE DEF TypeOK, Done, GoesTo, quota, breaker
<1>1. CASE Tick
  BY <1>1 DEF Tick
<1>2. ASSUME NEW r \in Reqs, Step(r) PROVE TypeOK'
  <2>1. CASE TurnedAway(r)
    BY <2>1 DEF TurnedAway, Turned
  <2>2. CASE Arrive(r)
    <3>1. now \div MinuteTicks \in Windows
      <4>1. now \in Nat /\ MaxTime \in Nat /\ now <= MaxTime /\ MinuteTicks \in Nat /\ MinuteTicks # 0
        OBVIOUS
      <4> HIDE DEF TypeOK, Done, GoesTo, quota, breaker
      <4> QED
        BY ONLY <4>1, DivMonotone DEF Windows
    <3>2. RequestOf[r].upstream \in Upstreams
      BY <2>2 DEF Arrive, Turned
    <3> QED
      BY <2>2, <3>1, <3>2 DEF Arrive
  <2>3. CASE Count(r)
    <3>1. counters' \in [Identities \X Buckets \X Windows -> Nat]
      BY <2>3, KeyTyped DEF Count
    <3>2. CASE counters[Key(r)] + 1 > LimitFor(r)
      <4>1. /\ pc' = [pc EXCEPT ![r] = "done"] /\ answer' = [answer EXCEPT ![r] = "429"]
            /\ UNCHANGED <<window, uncounted, permits, breaker, now>>
        BY <2>3, <3>2 DEF Count
      <4> QED
        BY <4>1, <3>1
    <3>3. CASE ~ (counters[Key(r)] + 1 > LimitFor(r))
      BY <2>3, <3>1, <3>3 DEF Count
    <3> QED
      BY <3>2, <3>3
  <2>4. CASE RedisFails(r)
    <3>1. counters' \in [Identities \X Buckets \X Windows -> Nat]
      BY <2>4, KeyTyped DEF RedisFails
    <3>2. uncounted' = uncounted \cup {r} /\ pc' = [pc EXCEPT ![r] = "admitted"]
      BY <2>4 DEF RedisFails
    <3> QED
      BY <2>4, <3>1, <3>2 DEF RedisFails
  <2>5. CASE FailsFast(r)
    BY <2>5 DEF FailsFast
  <2>6. CASE PassesBreaker(r)
    BY <2>6 DEF PassesBreaker, HalfOpen, UpstreamName
  <2>7. CASE Granted(r)
    BY <2>7 DEF Granted
  <2>8. CASE TimesOut(r)
    BY <2>8 DEF TimesOut, Release
  <2>9. CASE Dial(r)
    BY <2>9 DEF Dial
  <2>10. CASE Served(r)
    BY <2>10 DEF Served, Release, RecordSuccess, UpstreamName
  <2>11. CASE Unreachable(r)
    BY <2>11 DEF Unreachable, Release, RecordFailure, UpstreamName
  <2>12. CASE Silent(r)
    BY <2>12 DEF Silent, Release, RecordFailure, UpstreamName
  <2>13. CASE Breaks(r)
    BY <2>13 DEF Breaks, Release
  <2> QED
    BY <1>2, <2>1, <2>2, <2>3, <2>4, <2>5, <2>6, <2>7, <2>8, <2>9, <2>10, <2>11, <2>12, <2>13
       DEF Step
<1>3. CASE UNCHANGED vars
  BY <1>3 DEF vars
<1> QED
  BY <1>1, <1>2, <1>3 DEF Next

\* Every variable keeps its type, and a request on its way has an upstream.
THEOREM Typing == Spec => []TypeOK
  BY TypeInit, TypeNext, PTL DEF Spec

-----------------------------------------------------------------------------
(* The bulkhead *)

Holding == {"granted", "dialing"}

\* What one request's move does to the holders of an upstream's permits.
LEMMA HoldersChange ==
  ASSUME TypeOK, NEW r \in Reqs, NEW w, pc' = [pc EXCEPT ![r] = w], NEW u \in Upstreams
  PROVE  /\ Cardinality(Holders(u)) \in Nat
         /\ RequestOf[r].upstream # u \/ (pc[r] \in Holding <=> w \in Holding)
              => Holders(u)' = Holders(u)
         /\ RequestOf[r].upstream = u /\ pc[r] \notin Holding /\ w \in Holding
              => Cardinality(Holders(u)') = Cardinality(Holders(u)) + 1
         /\ RequestOf[r].upstream = u /\ pc[r] \in Holding /\ w \notin Holding
              => Cardinality(Holders(u)') = Cardinality(Holders(u)) - 1
<1>1. IsFiniteSet(Holders(u))
  BY FS_Subset DEF Holders
<1>2. Cardinality(Holders(u)) \in Nat
  BY <1>1, FS_CardinalityType
<1>3. pc'[r] = w /\ \A s \in Reqs : s # r => pc'[s] = pc[s]
  BY DEF TypeOK
<1>4. ASSUME RequestOf[r].upstream # u \/ (pc[r] \in Holding <=> w \in Holding)
      PROVE  Holders(u)' = Holders(u)
  BY <1>3, <1>4 DEF Holders, Holding
<1>5. ASSUME RequestOf[r].upstream = u, pc[r] \notin Holding, w \in Holding
      PROVE  Cardinality(Holders(u)') = Cardinality(Holders(u)) + 1
  <2>1. r \notin Holders(u) /\ Holders(u)' = Holders(u) \cup {r}
    BY <1>3, <1>5 DEF Holders, Holding
  <2> QED
    BY <1>1, <2>1, FS_AddElement
<1>6. ASSUME RequestOf[r].upstream = u, pc[r] \in Holding, w \notin Holding
      PROVE  Cardinality(Holders(u)') = Cardinality(Holders(u)) - 1
  <2>1. r \in Holders(u) /\ Holders(u)' = Holders(u) \ {r}
    BY <1>3, <1>6 DEF Holders, Holding
  <2> QED
    BY <1>1, <2>1, FS_RemoveElement
<1> QED
  BY <1>2, <1>4, <1>5, <1>6

LEMMA BulkheadNext == TypeOK /\ BulkheadExact /\ [Next]_vars => BulkheadExact'
<1> SUFFICES ASSUME TypeOK, BulkheadExact, [Next]_vars, NEW u \in Upstreams
             PROVE  (permits[u] + Cardinality(Holders(u)) = MaxInflight)'
  BY DEF BulkheadExact
<1>0. permits[u] \in Nat /\ permits[u] + Cardinality(Holders(u)) = MaxInflight
  BY DEF TypeOK, BulkheadExact
<1>1. CASE UNCHANGED <<pc, permits>>
  BY <1>0, <1>1 DEF Holders
<1>2. ASSUME NEW r \in Reqs, NEW w, pc' = [pc EXCEPT ![r] = w], UNCHANGED permits,
             pc[r] \in Holding <=> w \in Holding
      PROVE  (permits[u] + Cardinality(Holders(u)) = MaxInflight)'
  BY <1>0, <1>2, HoldersChange
<1>3. ASSUME NEW r \in Reqs, pc[r] \in Holding, pc' = [pc EXCEPT ![r] = "done"], Release(r)
      PROVE  (permits[u] + Cardinality(Holders(u)) = MaxInflight)'
  <2>0. "done" \notin Holding
    BY DEF Holding
  <2>1. permits'[u] = IF RequestOf[r].upstream = u THEN permits[u] + 1 ELSE permits[u]
    BY <1>3 DEF Release, TypeOK
  <2>2. CASE RequestOf[r].upstream = u
    <3>1. /\ Cardinality(Holders(u)') = Cardinality(Holders(u)) - 1
          /\ Cardinality(Holders(u)) \in Nat
      BY <1>3, <2>0, <2>2, HoldersChange
    <3> QED
      BY <1>0, <2>1, <2>2, <3>1
  <2>3. CASE RequestOf[r].upstream # u
    <3>1. Holders(u)' = Holders(u)
      BY <1>3, <2>3, HoldersChange
    <3> QED
      BY <1>0, <2>1, <2>3, <3>1
  <2> QED
    BY <2>2, <2>3
<1>4. ASSUME NEW r \in Reqs, Step(r)
      PROVE  (permits[u] + Cardinality(Holders(u)) = MaxInflight)'
  <2> USE DEF Done, GoesTo, Holding
  <2>1. CASE TurnedAway(r)
    BY <2>1, <1>2 DEF TurnedAway
  <2>2. CASE Arrive(r)
    BY <2>2, <1>2 DEF Arrive
  <2>3. CASE Count(r)
    <3>1. PICK w \in {"done", "admitted"} : pc' = [pc EXCEPT ![r] = w]
      BY <2>3 DEF Count
    <3> QED
      BY <2>3, <3>1, <1>2 DEF Count
  <2>4. CASE RedisFails(r)
    BY <2>4, <1>2 DEF RedisFails
  <2>5. CASE FailsFast(r)
    BY <2>5, <1>2 DEF FailsFast
  <2>6. CASE PassesBreaker(r)
    BY <2>6, <1>2 DEF PassesBreaker
  <2>7. CASE Granted(r)
    <3>1. permits'[u] = IF RequestOf[r].upstream = u THEN permits[u] - 1 ELSE permits[u]
      BY <2>7 DEF Granted, TypeOK
    <3>2. pc' = [pc EXCEPT ![r] = "granted"] /\ pc[r] \notin Holding /\ "granted" \in Holding
      BY <2>7 DEF Granted
    <3>3. CASE RequestOf[r].upstream = u
      <4>1. /\ Cardinality(Holders(u)') = Cardinality(Holders(u)) + 1
            /\ Cardinality(Holders(u)) \in Nat
        BY <3>2, <3>3, HoldersChange
      <4> QED
        BY <1>0, <3>1, <3>3, <4>1
    <3>4. CASE RequestOf[r].upstream # u
      <4>1. Holders(u)' = Holders(u)
        BY <3>2, <3>4, HoldersChange
      <4> QED
        BY <1>0, <3>1, <3>4, <4>1
    <3> QED
      BY <3>3, <3>4
  <2>8. CASE TimesOut(r)
    BY <2>8, <1>2, <1>3 DEF TimesOut
  <2>9. CASE Dial(r)
    BY <2>9, <1>2 DEF Dial
  <2>10. CASE Served(r)
    BY <2>10, <1>3 DEF Served
  <2>11. CASE Unreachable(r)
    BY <2>11, <1>3 DEF Unreachable
  <2>12. CASE Silent(r)
    BY <2>12, <1>3 DEF Silent
  <2>13. CASE Breaks(r)
    BY <2>13, <1>3 DEF Breaks
  <2> QED
    BY <1>4, <2>1, <2>2, <2>3, <2>4, <2>5, <2>6, <2>7, <2>8, <2>9, <2>10, <2>11, <2>12, <2>13
       DEF Step
<1> QED
  BY <1>1, <1>4 DEF Next, Tick, vars

\* No path through a request loses or forges a permit of its upstream.
THEOREM BulkheadHolds == Spec => []BulkheadExact
<1>1. Init => BulkheadExact
  <2> SUFFICES ASSUME Init, NEW u \in Upstreams
               PROVE  permits[u] + Cardinality(Holders(u)) = MaxInflight
    BY DEF BulkheadExact
  <2>1. Holders(u) = {}
    BY DEF Init, Holders
  <2> QED
    BY <2>1, FS_EmptySet DEF Init
<1> QED
  BY <1>1, BulkheadNext, Typing, PTL DEF Spec

-----------------------------------------------------------------------------
(* The circuit breaker *)

LEMMA CircuitNext == TypeOK /\ FailuresOpenCircuit /\ [Next]_vars => FailuresOpenCircuit'
<1> SUFFICES ASSUME TypeOK, FailuresOpenCircuit, [Next]_vars, NEW u \in Upstreams
             PROVE  (failures[u] >= SoftThreshold => openUntil[u] # 0)'
  BY DEF FailuresOpenCircuit
<1>0. /\ failures[u] \in Nat /\ openUntil[u] \in Nat
      /\ failures[u] >= SoftThreshold => openUntil[u] # 0
  BY DEF TypeOK, FailuresOpenCircuit
<1>1. CASE UNCHANGED breaker
  BY <1>0, <1>1 DEF breaker
<1>2. ASSUME NEW n \in Upstreams, HalfOpen(n)
      PROVE  (failures[u] >= SoftThreshold => openUntil[u] # 0)'
  BY <1>0, <1>2 DEF HalfOpen, breaker, TypeOK
<1>3. ASSUME NEW n \in Upstreams, NEW hard \in BOOLEAN, RecordFailure(n, hard)
      PROVE  (failures[u] >= SoftThreshold => openUntil[u] # 0)'
  <2>1. CASE n # u
    BY <1>0, <1>3, <2>1 DEF RecordFailure, TypeOK
  <2>2. CASE n = u /\ openUntil[u] # 0
    BY <1>0, <1>3, <2>2 DEF RecordFailure, TypeOK
  <2>3. CASE n = u /\ openUntil[u] = 0
    <3> DEFINE threshold == IF hard THEN HardThreshold ELSE SoftThreshold
    <3>1. threshold \in Nat /\ threshold <= SoftThreshold
      OBVIOUS
    <3>2. failures'[u] = failures[u] + 1
      BY <1>3, <2>3 DEF RecordFailure, TypeOK
    <3>3. CASE failures[u] + 1 >= threshold
      <4>1. openUntil'[u] = now + OpenTicks
        BY <1>3, <2>3, <3>3 DEF RecordFailure, TypeOK
      <4> QED
        BY <4>1 DEF TypeOK
    <3>4. CASE ~ (failures[u] + 1 >= threshold)
      BY <1>0, <3>1, <3>2, <3>4
    <3> QED
      BY <3>3, <3>4
  <2> QED
    BY <2>1, <2>2, <2>3
<1>4. ASSUME NEW n \in Upstreams, RecordSuccess(n)
      PROVE  (failures[u] >= SoftThreshold => openUntil[u] # 0)'
  BY <1>0, <1>4 DEF RecordSuccess, TypeOK
<1>5. ASSUME NEW r \in Reqs, Step(r)
      PROVE  (failures[u] >= SoftThreshold => openUntil[u] # 0)'
  <2>1. pc[r] \notin {"new", "done"} => UpstreamName(r) \in Upstreams
    BY DEF TypeOK, UpstreamName
  <2>2. CASE PassesBreaker(r)
    BY <2>1, <2>2, <1>2 DEF PassesBreaker
  <2>3. CASE Served(r)
    BY <2>1, <2>3, <1>4 DEF Served
  <2>4. CASE Unreachable(r)
    BY <2>1, <2>4, <1>3 DEF Unreachable
  <2>5. CASE Silent(r)
    BY <2>1, <2>5, <1>3 DEF Silent
  <2>6. CASE TurnedAway(r) \/ Arrive(r) \/ Count(r) \/ RedisFails(r) \/ FailsFast(r)
    BY <2>6, <1>1 DEF TurnedAway, Arrive, Count, RedisFails, FailsFast
  <2>7. CASE Granted(r) \/ TimesOut(r) \/ Dial(r) \/ Breaks(r)
    BY <2>7, <1>1 DEF Granted, TimesOut, Dial, Breaks
  <2> QED
    BY <1>5, <2>2, <2>3, <2>4, <2>5, <2>6, <2>7 DEF Step
<1> QED
  BY <1>1, <1>5 DEF Next, Tick, vars

\* However late answers, failures and the end of a window interleave, the breaker never
\* counts enough failures without being open.
THEOREM CircuitHolds == Spec => []FailuresOpenCircuit
<1>1. Init => FailuresOpenCircuit
  BY DEF Init, FailuresOpenCircuit
<1> QED
  BY <1>1, CircuitNext, Typing, PTL DEF Spec

\* An answer is given once.
AnswersFinal == \A r \in Reqs : answer[r] # "none" => pc[r] = "done"

\* Whatever window is set, elapsed or not, a failed call to that upstream has set.
OpenedByFailure ==
  \A u \in Upstreams : openUntil[u] # 0 =>
    \E s \in Reqs : answer[s] = "failed" /\ RequestOf[s].upstream = u

Contained == AnswersFinal /\ OpenedByFailure /\ OutageContained

LEMMA ContainedNext == TypeOK /\ Contained /\ [Next]_vars => Contained'
<1> SUFFICES ASSUME TypeOK, Contained, [Next]_vars PROVE Contained'
  OBVIOUS
<1>1. CASE UNCHANGED <<pc, answer, openUntil>>
  BY <1>1 DEF Contained, AnswersFinal, OpenedByFailure, OutageContained
\* A step of one request that answers nobody twice, opens no window but by failing, and
\* fails fast only at a window.
<1>2. ASSUME NEW r \in Reqs, NEW w, NEW a,
             pc[r] # "done", pc' = [pc EXCEPT ![r] = w],
             answer' = [answer EXCEPT ![r] = a], a # "none" => w = "done",
             RequestOf[r].upstream \in Upstreams \/ UNCHANGED openUntil,
             \A u \in Upstreams :
               openUntil'[u] # 0 =>
                 openUntil[u] # 0 \/ (a = "failed" /\ RequestOf[r].upstream = u),
             a = "open" => /\ RequestOf[r].upstream \in Upstreams
                           /\ openUntil[RequestOf[r].upstream] # 0
      PROVE  Contained'
  <2>1. answer[r] = "none"
    BY <1>2 DEF Contained, AnswersFinal
  <2>2. /\ pc'[r] = w /\ answer'[r] = a
        /\ \A s \in Reqs : s # r => pc'[s] = pc[s] /\ answer'[s] = answer[s]
    BY <1>2 DEF TypeOK
  <2>3. \A s \in Reqs : answer[s] = "failed" => answer'[s] = "failed"
    BY <2>1, <2>2
  <2>4. AnswersFinal'
    BY <1>2, <2>2 DEF Contained, AnswersFinal
  <2>5. OpenedByFailure'
    BY <1>2, <2>2, <2>3 DEF Contained, OpenedByFailure
  <2>6. OutageContained'
    BY <1>2, <2>2, <2>3 DEF Contained, OpenedByFailure, OutageContained
  <2> QED
    BY <2>4, <2>5, <2>6 DEF Contained
<1>3. ASSUME NEW r \in Reqs, Step(r) PROVE Contained'
  <2> USE DEF Done, GoesTo
  <2>0. /\ \A s \in Reqs : pc[s] \notin {"new", "done"} => RequestOf[s].upstream \in Upstreams
        /\ answer = [answer EXCEPT ![r] = answer[r]]
        /\ pc[r] # "done" => answer[r] = "none"
    BY DEF TypeOK, Contained, AnswersFinal
  <2>1. CASE TurnedAway(r)
    BY <2>0, <2>1, <1>2 DEF TurnedAway, Turned, breaker
  <2>2. CASE Arrive(r) \/ RedisFails(r) \/ Granted(r) \/ Dial(r)
    <3>1. PICK w : pc' = [pc EXCEPT ![r] = w] /\ pc[r] # "done"
      BY <2>2 DEF Arrive, RedisFails, Granted, Dial
    <3>2. UNCHANGED <<answer, openUntil>>
      BY <2>2 DEF Arrive, RedisFails, Granted, Dial, breaker
    <3> QED
      BY <2>0, <3>1, <3>2, <1>2
  <2>3. CASE Count(r)
    <3>1. CASE counters[Key(r)] + 1 > LimitFor(r)
      BY <2>0, <2>3, <3>1, <1>2 DEF Count, breaker
    <3>2. CASE ~ (counters[Key(r)] + 1 > LimitFor(r))
      BY <2>0, <2>3, <3>2, <1>2 DEF Count, breaker
    <3> QED
      BY <3>1, <3>2
  <2>4. CASE FailsFast(r)
    BY <2>0, <2>4, <1>2 DEF FailsFast, IsOpen, UpstreamName, breaker
  <2>5. CASE PassesBreaker(r)
    <3>1. \A u \in Upstreams : openUntil'[u] # 0 => openUntil[u] # 0
      BY <2>5 DEF PassesBreaker, HalfOpen, UpstreamName, breaker, TypeOK
    <3> QED
      BY <2>0, <2>5, <3>1, <1>2 DEF PassesBreaker
  <2>6. CASE TimesOut(r) \/ Breaks(r)
    <3>1. PICK a \in {"busy", "500"} :
            answer' = [answer EXCEPT ![r] = a] /\ pc' = [pc EXCEPT ![r] = "done"]
      BY <2>6 DEF TimesOut, Breaks
    <3> QED
      BY <2>0, <2>6, <3>1, <1>2 DEF TimesOut, Breaks, breaker
  <2>7. CASE Served(r)
    <3>1. \A u \in Upstreams : openUntil'[u] # 0 => openUntil[u] # 0
      BY <2>7 DEF Served, RecordSuccess, UpstreamName, TypeOK
    <3> QED
      BY <2>0, <2>7, <3>1, <1>2 DEF Served
  <2>8. CASE Unreachable(r) \/ Silent(r)
    <3>1. PICK hard \in BOOLEAN : RecordFailure(UpstreamName(r), hard)
      BY <2>8 DEF Unreachable, Silent
    <3>2. \A u \in Upstreams :
            openUntil'[u] # 0 => openUntil[u] # 0 \/ RequestOf[r].upstream = u
      BY <3>1 DEF RecordFailure, UpstreamName, TypeOK
    <3>3. /\ pc[r] = "dialing" /\ pc' = [pc EXCEPT ![r] = "done"]
          /\ answer' = [answer EXCEPT ![r] = "failed"]
      BY <2>8 DEF Unreachable, Silent
    <3> QED
      BY <2>0, <3>2, <3>3, <1>2
  <2> QED
    BY <1>3, <2>1, <2>2, <2>3, <2>4, <2>5, <2>6, <2>7, <2>8 DEF Step
<1> QED
  BY <1>1, <1>3 DEF Next, Tick, vars, breaker

\* A dead upstream makes requests to no other fail fast.
THEOREM OutageHolds == Spec => []OutageContained
<1>1. Init => Contained
  BY DEF Init, Contained, AnswersFinal, OpenedByFailure, OutageContained
<1>2. Contained => OutageContained
  BY DEF Contained
<1> QED
  BY <1>1, <1>2, ContainedNext, Typing, PTL DEF Spec

-----------------------------------------------------------------------------
(* The quota *)

IsPast(r) == pc[r] \notin {"new", "counting"} /\ Turned(r) = "none"

\* The requests that went through enforce under a key.
Past(k) == {s \in Reqs : IsPast(s) /\ Key(s) = k}
Counted(k) == Past(k) \ uncounted
Passed(k) == {s \in Counted(k) : answer[s] # "429"}

Keys == Identities \X Buckets \X Windows
KeyOf(r, w) == <<Identity(r), BucketFor(r), w>>

\* A counter is exact but for the requests Redis failed on.
CountersExact ==
  \A k \in Keys : /\ Cardinality(Counted(k)) <= counters[k]
                  /\ counters[k] <= Cardinality(Past(k))

\* QuotaExact, key by key.
QuotaKept ==
  /\ \A r \in Reqs : answer[r] = "429" => Cardinality(Past(Key(r))) > LimitFor(r)
  /\ \A r \in Reqs, w \in Windows : Cardinality(Passed(KeyOf(r, w))) <= LimitFor(r)

UncountedPast == \A r \in uncounted : IsPast(r)

OnTheirWay == \A r \in Reqs : pc[r] \notin {"new", "done"} => Turned(r) = "none"

Quota == AnswersFinal /\ OnTheirWay /\ UncountedPast /\ CountersExact /\ QuotaKept

LEMMA LimitNat == \A r \in Reqs : LimitFor(r) \in Nat
  BY DEF LimitFor

LEMMA PastFinite ==
  ASSUME NEW k
  PROVE  /\ IsFiniteSet(Past(k)) /\ IsFiniteSet(Counted(k)) /\ IsFiniteSet(Passed(k))
         /\ Cardinality(Past(k)) \in Nat /\ Cardinality(Counted(k)) \in Nat
         /\ Cardinality(Passed(k)) \in Nat
<1>1. Past(k) \in SUBSET Reqs /\ Counted(k) \in SUBSET Reqs /\ Passed(k) \in SUBSET Reqs
  BY DEF Past, Counted, Passed
<1> QED
  BY <1>1, FS_Subset, FS_CardinalityType

\* A step that leaves who is past, and under which key, as it is.
LEMMA QuotaSame ==
  ASSUME TypeOK, Quota, UNCHANGED <<counters, uncounted>>,
         AnswersFinal', OnTheirWay',
         \A s \in Reqs : IsPast(s)' <=> IsPast(s),
         \A s \in Reqs : IsPast(s) => Key(s)' = Key(s),
         \A s \in Reqs : IsPast(s) => ((answer'[s] = "429") <=> (answer[s] = "429")),
         \A s \in Reqs : answer'[s] = "429" => answer[s] = "429" /\ Key(s)' = Key(s)
  PROVE  Quota'
<1>1. \A k : Past(k)' = Past(k)
  BY DEF Past
<1>2. \A k : Counted(k)' = Counted(k) /\ Passed(k)' = Passed(k)
  BY <1>1 DEF Counted, Passed, Past
<1>3. UncountedPast'
  BY DEF Quota, UncountedPast, TypeOK
<1>4. CountersExact'
  BY <1>1, <1>2 DEF Quota, CountersExact
<1>5. QuotaKept'
  <2>1. \A r \in Reqs : answer'[r] = "429" => Cardinality(Past(Key(r)))' > LimitFor(r)
    BY <1>1 DEF Quota, QuotaKept
  <2>2. \A r \in Reqs, w \in Windows : Cardinality(Passed(KeyOf(r, w)))' <= LimitFor(r)
    BY <1>2 DEF Quota, QuotaKept, KeyOf
  <2> QED
    BY <2>1, <2>2 DEF QuotaKept
<1> QED
  BY <1>3, <1>4, <1>5 DEF Quota

\* What it does to the counted that a request goes through enforce.
LEMMA OnePasses ==
  ASSUME TypeOK, Quota, NEW r \in Reqs, NEW k, k = Key(r), pc[r] = "counting",
         NEW w \in {"done", "admitted"}, pc' = [pc EXCEPT ![r] = w], UNCHANGED window
  PROVE  /\ Past(k)' = Past(k) \cup {r}
         /\ Cardinality(Past(k)') = Cardinality(Past(k)) + 1
         /\ \A j : j # k => Past(j)' = Past(j)
         /\ \A s \in Reqs : Key(s)' = Key(s)
         /\ r \notin uncounted /\ answer[r] = "none"
         /\ \A j : r \notin Past(j)
<1>1. Turned(r) = "none" /\ answer[r] = "none" /\ ~ IsPast(r)
  BY DEF Quota, OnTheirWay, AnswersFinal, IsPast
<1>2. \A s \in Reqs : Key(s)' = Key(s)
  BY DEF Key
<1>3. pc'[r] = w /\ \A s \in Reqs : s # r => pc'[s] = pc[s]
  BY DEF TypeOK
<1>4. IsPast(r)' /\ \A s \in Reqs : s # r => (IsPast(s)' <=> IsPast(s))
  BY <1>1, <1>3 DEF IsPast
<1>5. Past(k)' = Past(k) \cup {r}
  BY <1>2, <1>4 DEF Past
<1>6. \A j : j # k => Past(j)' = Past(j)
  BY <1>1, <1>2, <1>4 DEF Past
<1>7. \A j : r \notin Past(j)
  BY <1>1 DEF Past
<1>8. r \notin uncounted
  BY <1>1 DEF Quota, UncountedPast
<1>9. Cardinality(Past(k)') = Cardinality(Past(k)) + 1
  BY <1>5, <1>7, PastFinite, FS_AddElement
<1> QED
  BY <1>1, <1>2, <1>5, <1>6, <1>7, <1>8, <1>9

LEMMA CountKeepsQuota ==
  ASSUME TypeOK, Quota, NEW r \in Reqs, NEW k, k = Key(r), Count(r), AnswersFinal', OnTheirWay'
  PROVE  Quota'
<1>1. PICK w \in {"done", "admitted"} : pc' = [pc EXCEPT ![r] = w]
  BY DEF Count, Done, GoesTo
<1>2. pc[r] = "counting" /\ UNCHANGED <<window, uncounted>>
  BY DEF Count
<1>3. k \in Keys /\ \A j \in Keys : counters'[j] = IF j = k THEN counters[k] + 1 ELSE counters[j]
  BY KeyTyped DEF Count, TypeOK, Keys
<1>4. \A j \in Keys : counters[j] \in Nat
  BY DEF TypeOK, Keys
<1>5. /\ Past(k)' = Past(k) \cup {r}
      /\ Cardinality(Past(k)') = Cardinality(Past(k)) + 1
      /\ \A j : j # k => Past(j)' = Past(j)
      /\ \A s \in Reqs : Key(s)' = Key(s)
      /\ r \notin uncounted /\ answer[r] = "none"
      /\ \A j : r \notin Past(j)
  BY <1>1, <1>2, OnePasses
<1>6. Counted(k)' = Counted(k) \cup {r} /\ r \notin Counted(k)
  BY <1>2, <1>5 DEF Counted
<1>7. Cardinality(Counted(k)') = Cardinality(Counted(k)) + 1
  BY <1>6, PastFinite, FS_AddElement
<1>8. \A j : j # k => Counted(j)' = Counted(j)
  BY <1>2, <1>5 DEF Counted
<1>9. CountersExact'
  <2>1. ASSUME NEW j \in Keys
        PROVE  (Cardinality(Counted(j)) <= counters[j] /\ counters[j] <= Cardinality(Past(j)))'
    <3>1. Cardinality(Counted(j)) <= counters[j] /\ counters[j] <= Cardinality(Past(j))
      BY DEF Quota, CountersExact
    <3>2. CASE j = k
      BY <1>3, <1>4, <1>5, <1>7, <3>1, <3>2, PastFinite
    <3>3. CASE j # k
      BY <1>3, <1>5, <1>8, <3>1, <3>3
    <3> QED
      BY <3>2, <3>3
  <2> QED
    BY <2>1 DEF CountersExact
<1>10. UncountedPast'
  <2>1. \A s \in Reqs : IsPast(s) => IsPast(s)'
    BY <1>1, <1>2 DEF IsPast, TypeOK
  <2> QED
    BY <1>2, <2>1 DEF Quota, UncountedPast, TypeOK
<1>11. \A s \in Reqs : s # r => answer'[s] = answer[s]
  BY DEF Count, Done, GoesTo, TypeOK
<1>12. answer'[r] = IF counters[k] + 1 > LimitFor(r) THEN "429" ELSE "none"
  BY <1>5 DEF Count, Done, GoesTo, TypeOK
<1>13. \A j : j # k => Passed(j)' = Passed(j)
  BY <1>5, <1>8, <1>11 DEF Passed, Counted, Past
<1>14. ASSUME NEW s \in Reqs, answer'[s] = "429"
       PROVE  Cardinality(Past(Key(s)))' > LimitFor(s)
  <2>1. CASE s = r
    <3>1. counters[k] + 1 > LimitFor(r)
      BY <1>12, <1>14, <2>1
    <3>2. counters'[k] = counters[k] + 1 /\ counters'[k] <= Cardinality(Past(k))'
      BY <1>3, <1>9 DEF CountersExact
    <3>3. Key(r)' = k
      BY <1>5
    <3>4. Cardinality(Past(k))' \in Nat /\ counters[k] \in Nat
      BY <1>3, <1>4, <1>5, PastFinite
    <3> QED
      BY <2>1, <3>1, <3>2, <3>3, <3>4, LimitNat
  <2>2. CASE s # r
    <3>1. Cardinality(Past(Key(s))) > LimitFor(s)
      BY <1>11, <1>14, <2>2 DEF Quota, QuotaKept
    <3>2. PICK j : j = Key(s) /\ Key(s)' = j
      BY <1>5
    <3>3. Cardinality(Past(j)') \in {Cardinality(Past(j)), Cardinality(Past(j)) + 1}
      BY <1>5
    <3>4. Cardinality(Past(j)) \in Nat /\ LimitFor(s) \in Nat
      BY PastFinite, LimitNat
    <3>5. Cardinality(Past(Key(s)))' = Cardinality(Past(j)')
      BY <3>2
    <3>6. Cardinality(Past(j)) > LimitFor(s)
      BY <3>1, <3>2
    <3>7. Cardinality(Past(j)') > LimitFor(s)
      BY <3>3, <3>4, <3>6
    <3> QED
      BY <3>5, <3>7
  <2> QED
    BY <2>1, <2>2
<1>15. ASSUME NEW s \in Reqs, NEW m \in Windows
       PROVE  Cardinality(Passed(KeyOf(s, m)))' <= LimitFor(s)
  <2>1. Cardinality(Passed(KeyOf(s, m))) <= LimitFor(s)
    BY DEF Quota, QuotaKept
  <2>2. CASE KeyOf(s, m) # k
    BY <1>13, <2>1, <2>2
  <2>3. CASE KeyOf(s, m) = k /\ answer'[r] = "429"
    <3>1. Passed(k)' = Passed(k)
      BY <1>5, <1>6, <1>11, <2>3 DEF Passed, Counted, Past
    <3> QED
      BY <2>1, <2>3, <3>1
  <2>4. CASE KeyOf(s, m) = k /\ answer'[r] # "429"
    <3>1. counters'[k] <= LimitFor(r)
      BY <1>3, <1>4, <1>12, <2>4, LimitNat
    <3>2. LimitFor(r) = LimitFor(s)
      <4>1. Identity(s) = Identity(r) /\ BucketFor(s) = BucketFor(r)
        BY <2>4 DEF KeyOf, Key
      <4>2. IsOrder(s) = IsOrder(r)
        BY <4>1 DEF BucketFor, IsOrder
      <4> QED
        BY <4>1, <4>2, IdentityAssumption
    <3>3. Passed(k)' \in SUBSET (Counted(k)')
      BY DEF Passed
    <3>4. IsFiniteSet(Counted(k)')
      BY <1>6, PastFinite, FS_AddElement
    <3>5. /\ Cardinality(Passed(k)') <= Cardinality(Counted(k)')
          /\ Cardinality(Passed(k)') \in Nat /\ Cardinality(Counted(k)') \in Nat
      BY <3>3, <3>4, FS_Subset, FS_CardinalityType
    <3>6. Cardinality(Counted(k)') <= counters'[k]
      BY <1>3, <1>9 DEF CountersExact
    <3> QED
      BY <1>3, <1>4, <2>4, <3>1, <3>2, <3>5, <3>6, LimitNat
  <2> QED
    BY <2>2, <2>3, <2>4
<1>16. QuotaKept'
  BY <1>14, <1>15 DEF QuotaKept
<1> QED
  BY <1>9, <1>10, <1>16 DEF Quota

LEMMA FailureKeepsQuota ==
  ASSUME TypeOK, Quota, NEW r \in Reqs, NEW k, k = Key(r), RedisFails(r), AnswersFinal',
         OnTheirWay'
  PROVE  Quota'
<1>1. pc' = [pc EXCEPT ![r] = "admitted"] /\ UNCHANGED <<answer, window>>
  BY DEF RedisFails, GoesTo
<1>2. pc[r] = "counting" /\ uncounted' = uncounted \cup {r}
  BY DEF RedisFails
<1>3. /\ k \in Keys
      /\ \A j \in Keys : counters[j] \in Nat /\ counters'[j] \in Nat /\ counters'[j] >= counters[j]
      /\ \A j \in Keys : j # k => counters'[j] = counters[j]
      /\ counters'[k] <= counters[k] + 1
  BY KeyTyped DEF RedisFails, TypeOK, Keys
<1>4. /\ Past(k)' = Past(k) \cup {r}
      /\ Cardinality(Past(k)') = Cardinality(Past(k)) + 1
      /\ \A j : j # k => Past(j)' = Past(j)
      /\ \A s \in Reqs : Key(s)' = Key(s)
      /\ r \notin uncounted /\ answer[r] = "none"
      /\ \A j : r \notin Past(j)
  BY <1>1, <1>2, OnePasses
<1>5. \A j : Counted(j)' = Counted(j)
  <2>1. Counted(k)' = Counted(k)
    BY <1>2, <1>4 DEF Counted
  <2>2. \A j : j # k => Counted(j)' = Counted(j)
    BY <1>2, <1>4 DEF Counted
  <2> QED
    BY <2>1, <2>2
<1>6. \A j : Passed(j)' = Passed(j)
  BY <1>1, <1>5 DEF Passed
<1>7. CountersExact'
  <2>1. ASSUME NEW j \in Keys
        PROVE  (Cardinality(Counted(j)) <= counters[j] /\ counters[j] <= Cardinality(Past(j)))'
    <3>1. Cardinality(Counted(j)) <= counters[j] /\ counters[j] <= Cardinality(Past(j))
      BY DEF Quota, CountersExact
    <3>2. /\ counters[j] \in Nat /\ counters'[j] \in Nat /\ counters'[j] >= counters[j]
          /\ Cardinality(Counted(j)) \in Nat /\ Cardinality(Past(j)) \in Nat
          /\ Cardinality(Counted(j)') = Cardinality(Counted(j))
      BY <1>3, <1>5, PastFinite
    <3>3. \/ counters'[j] = counters[j] /\ Cardinality(Past(j)') = Cardinality(Past(j))
          \/ /\ counters'[j] <= counters[j] + 1
             /\ Cardinality(Past(j)') = Cardinality(Past(j)) + 1
      BY <1>3, <1>4
    <3> QED
      BY <3>1, <3>2, <3>3
  <2> QED
    BY <2>1 DEF CountersExact
<1>8. UncountedPast'
  <2>1. \A s \in Reqs : IsPast(s) => IsPast(s)'
    BY <1>1, <1>2 DEF IsPast, TypeOK
  <2>2. IsPast(r)'
    BY <1>1, <1>2 DEF IsPast, TypeOK, Quota, OnTheirWay
  <2> QED
    BY <1>2, <2>1, <2>2 DEF Quota, UncountedPast, TypeOK
<1>9. ASSUME NEW s \in Reqs, answer'[s] = "429"
      PROVE  Cardinality(Past(Key(s)))' > LimitFor(s)
  <2>1. Cardinality(Past(Key(s))) > LimitFor(s)
    BY <1>1, <1>9 DEF Quota, QuotaKept
  <2>2. PICK j : j = Key(s)
    OBVIOUS
  <2>3. Cardinality(Past(j)) \in Nat /\ Cardinality(Past(j)) > LimitFor(s)
    BY <2>1, <2>2, PastFinite
  <2>4. \/ Cardinality(Past(j)') = Cardinality(Past(j))
        \/ Cardinality(Past(j)') = Cardinality(Past(j)) + 1
    BY <1>4
  <2>5. Key(s)' = j
    BY <1>4, <2>2
  <2> QED
    BY <2>3, <2>4, <2>5, LimitNat
<1>10. ASSUME NEW s \in Reqs, NEW m \in Windows
       PROVE  Cardinality(Passed(KeyOf(s, m)))' <= LimitFor(s)
  <2>1. Cardinality(Passed(KeyOf(s, m))) <= LimitFor(s)
    BY DEF Quota, QuotaKept
  <2> QED
    BY <1>6, <2>1
<1>11. QuotaKept'
  BY <1>9, <1>10 DEF QuotaKept
<1> QED
  BY <1>7, <1>8, <1>11 DEF Quota

LEMMA QuotaNext == TypeOK /\ Quota /\ Contained /\ [Next]_vars => Quota'
<1> SUFFICES ASSUME TypeOK, Quota, Contained, [Next]_vars PROVE Quota'
  OBVIOUS
<1>1. AnswersFinal'
  BY ContainedNext DEF Contained
<1>2. OnTheirWay'
  <2>1. CASE UNCHANGED pc
    BY <2>1 DEF Quota, OnTheirWay
  <2>2. ASSUME NEW r \in Reqs, Step(r) PROVE OnTheirWay'
    <3>1. PICK w : pc' = [pc EXCEPT ![r] = w]
      BY <2>2 DEF Step, Done, GoesTo, TurnedAway, Arrive, Count, RedisFails, FailsFast,
                  PassesBreaker, Granted, TimesOut, Dial, Served, Unreachable, Silent, Breaks
    <3>2. pc'[r] # "done" => Turned(r) = "none"
      BY <2>2 DEF Quota, OnTheirWay, Step, Done, GoesTo, TurnedAway, Arrive, Count, RedisFails,
                  FailsFast, PassesBreaker, Granted, TimesOut, Dial, Served, Unreachable,
                  Silent, Breaks, TypeOK
    <3> QED
      BY <3>1, <3>2 DEF Quota, OnTheirWay, TypeOK
  <2> QED
    BY <2>1, <2>2 DEF Next, Tick, vars
<1>3. CASE UNCHANGED <<pc, answer, window, counters, uncounted>>
  <2>1. \A s \in Reqs : (IsPast(s)' <=> IsPast(s)) /\ Key(s)' = Key(s)
    BY <1>3 DEF IsPast, Key
  <2> QED
    BY <1>1, <1>2, <1>3, <2>1, QuotaSame
\* The step of a request before or after enforce.
<1>4. ASSUME NEW r \in Reqs, NEW w, NEW a, pc' = [pc EXCEPT ![r] = w],
             answer' = [answer EXCEPT ![r] = a], a # "429", answer[r] # "429",
             UNCHANGED <<counters, uncounted>>,
             \/ pc[r] \notin {"new", "counting"} /\ w \notin {"new", "counting"}
             \/ pc[r] = "new" /\ (w = "counting" \/ Turned(r) # "none"),
             \A s \in Reqs : s # r \/ pc[r] # "new" => window'[s] = window[s]
      PROVE  Quota'
  <2>1. /\ pc'[r] = w /\ answer'[r] = a
        /\ \A s \in Reqs : s # r => pc'[s] = pc[s] /\ answer'[s] = answer[s]
    BY <1>4 DEF TypeOK
  <2>2. \A s \in Reqs : IsPast(s)' <=> IsPast(s)
    BY <1>4, <2>1 DEF IsPast
  <2>3. \A s \in Reqs : s # r \/ IsPast(s) => Key(s)' = Key(s)
    BY <1>4 DEF IsPast, Key
  <2>4. \A s \in Reqs : answer'[s] = "429" <=> answer[s] = "429"
    BY <1>4, <2>1
  <2>5. \A s \in Reqs : answer'[s] = "429" => s # r
    BY <1>4, <2>1
  <2> QED
    BY <1>1, <1>2, <1>4, <2>2, <2>3, <2>4, <2>5, QuotaSame
<1>5. ASSUME NEW r \in Reqs, Step(r) PROVE Quota'
  <2>1. CASE Count(r)
    BY <1>1, <1>2, <2>1, CountKeepsQuota
  <2>2. CASE RedisFails(r)
    BY <1>1, <1>2, <2>2, FailureKeepsQuota
  <2> USE DEF Done, GoesTo
  <2>0. /\ answer = [answer EXCEPT ![r] = answer[r]]
        /\ pc[r] # "done" => answer[r] = "none"
    BY DEF TypeOK, Contained, AnswersFinal
  <2>3. CASE TurnedAway(r)
    <3>1. Turned(r) # "429"
      BY DEF Turned
    <3> QED
      BY <2>0, <2>3, <3>1, <1>4 DEF TurnedAway, quota
  <2>4. CASE Arrive(r)
    BY <2>0, <2>4, <1>4 DEF Arrive, TypeOK
  <2>5. CASE PassesBreaker(r) \/ Granted(r) \/ Dial(r)
    <3>1. PICK w \in {"waiting", "granted", "dialing"} :
            pc' = [pc EXCEPT ![r] = w] /\ UNCHANGED answer
      BY <2>5 DEF PassesBreaker, Granted, Dial
    <3>2. pc[r] \in {"admitted", "waiting", "granted"} /\ UNCHANGED quota
      BY <2>5 DEF PassesBreaker, Granted, Dial
    <3> QED
      BY <2>0, <3>1, <3>2, <1>4 DEF quota
  <2>6. CASE \/ FailsFast(r) \/ TimesOut(r) \/ Served(r) \/ Unreachable(r) \/ Silent(r)
             \/ Breaks(r)
    <3>1. PICK a \in {"open", "busy", "served", "failed", "500"} :
            pc' = [pc EXCEPT ![r] = "done"] /\ answer' = [answer EXCEPT ![r] = a]
      BY <2>6 DEF FailsFast, TimesOut, Served, Unreachable, Silent, Breaks
    <3>2. pc[r] \in {"admitted", "waiting", "granted", "dialing"} /\ UNCHANGED quota
      BY <2>6 DEF FailsFast, TimesOut, Served, Unreachable, Silent, Breaks
    <3> QED
      BY <2>0, <3>1, <3>2, <1>4 DEF quota
  <2> QED
    BY <1>5, <2>1, <2>2, <2>3, <2>4, <2>5, <2>6 DEF Step
<1> QED
  BY <1>3, <1>5 DEF Next, Tick, vars, quota

LEMMA QuotaInit == Init => Quota
<1> SUFFICES ASSUME Init PROVE Quota
  OBVIOUS
<1>0. Cardinality({}) = 0
  BY FS_EmptySet
<1>1. \A k : Past(k) = {} /\ Counted(k) = {} /\ Passed(k) = {}
  BY DEF Init, Past, IsPast, Counted, Passed
<1>2. CountersExact
  <2>1. \A k \in Keys : counters[k] = 0
    BY DEF Init, Keys
  <2> QED
    BY <1>0, <1>1, <2>1 DEF CountersExact
<1>3. QuotaKept
  <2>1. \A r \in Reqs : answer[r] # "429"
    BY DEF Init
  <2>2. \A r \in Reqs : 0 <= LimitFor(r)
    BY LimitNat
  <2> QED
    BY <1>0, <1>1, <2>1, <2>2 DEF QuotaKept
<1> QED
  BY <1>2, <1>3 DEF Init, Quota, AnswersFinal, OnTheirWay, UncountedPast

LEMMA QuotaImplies == TypeOK /\ Quota => QuotaExact
<1> SUFFICES ASSUME TypeOK, Quota, NEW r \in Reqs
             PROVE  /\ answer[r] = "429" => Cardinality(Rivals(r)) > LimitFor(r)
                    /\ Turned(r) = "none" =>
                         Cardinality({s \in Rivals(r) \ uncounted : answer[s] # "429"})
                           <= LimitFor(r)
  BY DEF QuotaExact
<1>1. Rivals(r) = Past(Key(r))
  <2>1. ASSUME NEW s \in Reqs
        PROVE  (/\ Identity(s) = Identity(r)
                /\ IsOrder(s) = IsOrder(r)
                /\ window[s] = window[r])
               <=> Key(s) = Key(r)
    <3>1. IsOrder(s) = IsOrder(r) <=> BucketFor(s) = BucketFor(r)
      BY DEF BucketFor, IsOrder
    <3> QED
      BY <3>1 DEF Key
  <2> QED
    BY <2>1 DEF Rivals, Past, IsPast
<1>2. {s \in Rivals(r) \ uncounted : answer[s] # "429"} = Passed(KeyOf(r, window[r]))
  BY <1>1 DEF Passed, Counted, KeyOf, Key
<1>3. window[r] \in Windows
  BY DEF TypeOK
<1> QED
  BY <1>1, <1>2, <1>3 DEF Quota, QuotaKept

\* A caller is refused only beyond its limit of that kind of request and minute, and but
\* for the failures of Redis never more than the limit are let through.
THEOREM QuotaHolds == Spec => []QuotaExact
<1>1. Init => Contained
  BY DEF Init, Contained, AnswersFinal, OpenedByFailure, OutageContained
<1> QED
  BY <1>1, QuotaInit, QuotaNext, QuotaImplies, ContainedNext, Typing, PTL DEF Spec

-----------------------------------------------------------------------------
(* The gateway's other path, the bridge of live prices: LiveFeed *)

\* Only a chart that has been mounted has asked for candles, and one is mounted at a time.
OneChart ==
  /\ life \in [Views -> {"new", "mounted", "gone"}]
  /\ load \in [Views -> {"no", "asked", "done", "failed"}]
  /\ \A v \in Views : load[v] # "no" => v \in Charts /\ life[v] # "new"
  /\ \A u, v \in Charts : life[u] = "mounted" /\ life[v] = "mounted" => u = v

DrawnInv == OneChart /\ DrawnIsOfTheView

LEMMA DrawnNext ==
  ASSUME DrawnInv, [FeedNext]_feedVars
  PROVE  DrawnInv'
<1> USE FeedAssumption DEF FeedParameters, DrawnInv, OneChart, DrawnIsOfTheView
<1>1. ASSUME UNCHANGED <<life, load, empty, drawn>> PROVE DrawnInv'
  BY <1>1
<1>2. ASSUME NEW v \in Views, ViewStep(v) PROVE DrawnInv'
  <2>1. CASE Mount(v)
    <3>1. life[v] = "new" /\ life' = [life EXCEPT ![v] = "mounted"]
      BY <2>1 DEF Mount
    <3>2. CASE v \in Charts
      <4>1. /\ load' = [load EXCEPT ![v] = "asked"] /\ UNCHANGED <<empty, drawn>>
            /\ \A u \in Charts : life[u] # "mounted"
        BY <2>1, <3>2 DEF Mount
      <4> QED
        BY <3>1, <3>2, <4>1
    <3>3. CASE v \notin Charts
      <4>1. UNCHANGED <<load, empty, drawn>>
        BY <2>1, <3>3 DEF Mount, chart
      <4> QED
        BY <3>1, <3>3, <4>1
    <3> QED
      BY <3>2, <3>3
  <2>2. CASE Unmount(v)
    BY <2>2 DEF Unmount, chart
  <2>3. CASE TimerFires(v)
    BY <1>1, <2>3 DEF TimerFires, chart
  <2>4. CASE LoadAnswered(v)
    <3>1. /\ load[v] = "asked" /\ life[v] = "mounted" /\ UNCHANGED life
          /\ load' = [load EXCEPT ![v] = "done"]
          /\ \/ empty' = TRUE /\ drawn' = drawn
             \/ empty' = FALSE /\ drawn' = v
      BY <2>4 DEF LoadAnswered
    <3> QED
      BY <3>1
  <2>5. CASE LoadFails(v)
    <3>1. /\ load[v] = "asked" /\ UNCHANGED <<life, empty, drawn>>
          /\ load' = [load EXCEPT ![v] = "failed"]
      BY <2>5 DEF LoadFails
    <3> QED
      BY <3>1
  <2> QED
    BY <1>2, <2>1, <2>2, <2>3, <2>4, <2>5 DEF ViewStep
<1>3. ASSUME NEW c \in Conns, Progress(c) PROVE UNCHANGED <<life, load, empty, drawn>>
  BY <1>3 DEF Progress, HearsClose, PingTimeout, Refuse, Accept,
     DialSucceeds, BridgeEnds, ReadSnapshot, SendSnapshot, HubLeaves,
     PumpSends, SocketCloses, browser, chart
<1>4. ASSUME NEW c \in Conns, ConnFault(c) PROVE UNCHANGED <<life, load, empty, drawn>>
  BY <1>4 DEF ConnFault, NetworkDrops, Stalls, DialFails,
     SocketCloses, browser, chart
<1>5. ASSUME \/ FeedStep \/ SetPrice \/ PumpDies \/ HubCrashes
             \/ GatewayRestarts
      PROVE  UNCHANGED <<life, load, empty, drawn>>
  BY <1>5 DEF FeedStep, Publish, PumpTakes, PumpSubscribes, HubStarts,
     SetPrice, PumpDies, HubCrashes, GatewayRestarts, browser,
     chart
<1>6. CASE UNCHANGED feedVars
  BY <1>1, <1>6 DEF feedVars, browser, chart
<1> QED
  BY <1>1, <1>2, <1>3, <1>4, <1>5, <1>6 DEF FeedNext

\* The chart draws the candles of the view that is mounted and of no earlier one.
THEOREM ChartDrawsItsView == FeedSpec => []DrawnIsOfTheView
<1>1. FeedInit => DrawnInv
  BY FeedAssumption DEF FeedInit, FeedParameters, DrawnInv, OneChart, DrawnIsOfTheView
<1>2. DrawnInv => DrawnIsOfTheView
  BY DEF DrawnInv
<1> QED
  BY <1>1, <1>2, DrawnNext, PTL DEF FeedSpec

\* The records of the connections, and the state of one whose ends are all gone.
Connections ==
  [of : Views \cup {NoView}, browser : {"connecting", "open", "stalled", "closed"},
   bridge : {"arriving", "dialing", "pumping", "gone"},
   hub : {"added", "sending", "listed", "out"}, snap : 0..MaxPrice]

LEMMA KeptTyped ==
  ASSUME NEW r \in Connections
  PROVE  /\ Kept(r) \in Connections
         /\ Kept(r).browser = r.browser /\ Kept(r).bridge = r.bridge /\ Kept(r).hub = r.hub
         /\ Kept(r).of = r.of \/ (r.browser = "closed" /\ r.bridge = "gone" /\ Kept(r).of = NoView)
<1>1. Idle \in Connections
  BY FeedAssumption DEF FeedParameters, Idle, Connections
<1>2. CASE r.browser = "closed" /\ r.bridge = "gone" /\ r.hub = "out"
  BY <1>1, <1>2 DEF Kept, Idle
<1>3. CASE ~ (r.browser = "closed" /\ r.bridge = "gone" /\ r.hub = "out")
  BY <1>3 DEF Kept
<1> QED
  BY <1>2, <1>3

\* What Put does to the connection c and to the others.
LEMMA PutIs ==
  ASSUME conn \in [Conns -> Connections], NEW c \in Conns, NEW r \in Connections, Put(c, r)
  PROVE  /\ conn' \in [Conns -> Connections]
         /\ \A d \in Conns \ {c} : conn'[d] = conn[d]
         /\ conn'[c].browser = r.browser /\ conn'[c].bridge = r.bridge
         /\ conn'[c].of = r.of \/ (r.browser = "closed" /\ r.bridge = "gone" /\ conn'[c].of = NoView)
<1>1. PICK k : k = Kept(r)
  OBVIOUS
<1>2. conn' = [conn EXCEPT ![c] = k]
  BY <1>1 DEF Put
<1>3. /\ k \in Connections /\ k.browser = r.browser /\ k.bridge = r.bridge
      /\ k.of = r.of \/ (r.browser = "closed" /\ r.bridge = "gone" /\ k.of = NoView)
  BY <1>1, KeptTyped
<1> QED
  BY <1>2, <1>3

\* A step that changes an end of the connection c, and may change its view to none when
\* nothing of it is left.
Moves(c, browserEnd, bridgeEnd) ==
  /\ conn' \in [Conns -> Connections]
  /\ \A d \in Conns \ {c} : conn'[d] = conn[d]
  /\ conn'[c].browser = browserEnd /\ conn'[c].bridge = bridgeEnd
  /\ conn'[c].of = conn[c].of
       \/ (browserEnd = "closed" /\ bridgeEnd = "gone" /\ conn'[c].of = NoView)

LEMMA PutMoves ==
  ASSUME conn \in [Conns -> Connections], NEW c \in Conns, NEW r \in Connections, Put(c, r),
         r.of = conn[c].of
  PROVE  Moves(c, r.browser, r.bridge)
  BY PutIs DEF Moves

LEMMA ActionsMove ==
  ASSUME conn \in [Conns -> Connections], price \in 1..MaxPrice, NEW c \in Conns
  PROVE  /\ SocketCloses(c) => Moves(c, "closed", conn[c].bridge)
         /\ Stalls(c) => Moves(c, "stalled", conn[c].bridge)
         /\ Refuse(c) \/ DialFails(c) \/ BridgeEnds(c) => Moves(c, conn[c].browser, "gone")
         /\ Accept(c) => Moves(c, IF conn[c].browser = "closed" THEN "closed" ELSE "open", "dialing")
         /\ DialSucceeds(c) => Moves(c, conn[c].browser, "pumping")
         /\ ReadSnapshot(c) \/ SendSnapshot(c) \/ HubLeaves(c)
              => Moves(c, conn[c].browser, conn[c].bridge)
<1>1. PICK r : r = conn[c]
  OBVIOUS
<1>2. r \in Connections
  BY <1>1
<1>n. MaxPrice \in Nat /\ price \in 0..MaxPrice /\ 0 \in 0..MaxPrice
  BY FeedAssumption DEF FeedParameters
<1>3. ASSUME SocketCloses(c) PROVE Moves(c, "closed", conn[c].bridge)
  <2>1. PICK s : s = [r EXCEPT !.browser = "closed"]
    OBVIOUS
  <2>2. s \in Connections /\ s.of = r.of /\ s.browser = "closed" /\ s.bridge = r.bridge
    BY <1>2, <2>1 DEF Connections
  <2>3. Put(c, s)
    BY <1>3, <1>1, <2>1 DEF SocketCloses
  <2> QED
    BY <1>1, <2>2, <2>3, PutMoves
<1>4. ASSUME Stalls(c) PROVE Moves(c, "stalled", conn[c].bridge)
  <2>1. PICK s : s = [r EXCEPT !.browser = "stalled"]
    OBVIOUS
  <2>2. s \in Connections /\ s.of = r.of /\ s.browser = "stalled" /\ s.bridge = r.bridge
    BY <1>2, <2>1 DEF Connections
  <2>3. Put(c, s)
    BY <1>4, <1>1, <2>1 DEF Stalls
  <2> QED
    BY <1>1, <2>2, <2>3, PutMoves
<1>5. ASSUME Refuse(c) \/ DialFails(c) \/ BridgeEnds(c) PROVE Moves(c, conn[c].browser, "gone")
  <2>1. PICK s : s = [r EXCEPT !.bridge = "gone"]
    OBVIOUS
  <2>2. s \in Connections /\ s.of = r.of /\ s.browser = r.browser /\ s.bridge = "gone"
    BY <1>2, <2>1 DEF Connections
  <2>3. Put(c, s)
    BY <1>5, <1>1, <2>1 DEF Refuse, DialFails, BridgeEnds
  <2> QED
    BY <1>1, <2>2, <2>3, PutMoves
<1>6. ASSUME Accept(c)
      PROVE  Moves(c, IF conn[c].browser = "closed" THEN "closed" ELSE "open", "dialing")
  <2>1. PICK e : e = IF r.browser = "closed" THEN "closed" ELSE "open"
    OBVIOUS
  <2>2. PICK s : s = [r EXCEPT !.bridge = "dialing", !.browser = e]
    OBVIOUS
  <2>3. s.of = r.of /\ s.browser = e /\ s.bridge = "dialing"
    BY <1>2, <2>2 DEF Connections
  <2>4. s \in Connections
    <3>1. e \in {"connecting", "open", "stalled", "closed"}
      BY <2>1
    <3>2. "dialing" \in {"arriving", "dialing", "pumping", "gone"}
      OBVIOUS
    <3> QED
      BY <1>2, <2>2, <3>1, <3>2, Zenon DEF Connections
  <2>5. Put(c, s)
    BY <1>6, <1>1, <1>2, <2>1, <2>2 DEF Accept
  <2> QED
    BY <1>1, <2>1, <2>3, <2>4, <2>5, PutMoves
<1>7. ASSUME DialSucceeds(c) PROVE Moves(c, conn[c].browser, "pumping")
  <2>2. PICK s : s = [r EXCEPT !.bridge = "pumping", !.hub = "added"]
    OBVIOUS
  <2>3. s.of = r.of /\ s.browser = r.browser /\ s.bridge = "pumping"
    BY <1>2, <2>2 DEF Connections
  <2>4. s \in Connections
    <3>1. "added" \in {"added", "sending", "listed", "out"}
          /\ "pumping" \in {"arriving", "dialing", "pumping", "gone"}
      OBVIOUS
    <3> QED
      BY <1>2, <2>2, <3>1, Zenon DEF Connections
  <2>5. Put(c, s)
    BY <1>7, <1>1, <2>2 DEF DialSucceeds
  <2> QED
    BY <1>1, <2>3, <2>4, <2>5, PutMoves
<1>8. ASSUME ReadSnapshot(c) \/ SendSnapshot(c) \/ HubLeaves(c)
      PROVE  Moves(c, conn[c].browser, conn[c].bridge)
  <2>1. PICK h \in {"added", "sending", "listed", "out"}, n \in 0..MaxPrice :
          Put(c, [conn[c] EXCEPT !.hub = h, !.snap = n])
    BY <1>8, <1>n, Zenon DEF ReadSnapshot, SendSnapshot, HubLeaves
  <2>2. PICK s : s = [r EXCEPT !.hub = h, !.snap = n]
    OBVIOUS
  <2>3. s.of = r.of /\ s.browser = r.browser /\ s.bridge = r.bridge
    BY <1>2, <2>2 DEF Connections
  <2>4. s \in Connections
    BY <1>2, <2>2, Zenon DEF Connections
  <2>5. Put(c, s)
    BY <1>1, <2>1, <2>2
  <2> QED
    BY <1>1, <2>3, <2>4, <2>5, PutMoves
<1> QED
  BY <1>3, <1>4, <1>5, <1>6, <1>7, <1>8

LEMMA OpenIs ==
  ASSUME conn \in [Conns -> Connections], NEW v \in Views, Open(v)
  PROVE  /\ conn' \in [Conns -> Connections]
         /\ \E c \in Conns :
              /\ conn[c] = Idle /\ \A d \in Conns \ {c} : conn'[d] = conn[d]
              /\ conn'[c].of = v /\ conn'[c].browser = "connecting" /\ conn'[c].bridge = "arriving"
<1>1. PICK c \in Conns : /\ Free(c)
                         /\ conn' = [conn EXCEPT ![c] =
                              [of |-> v, browser |-> "connecting", bridge |-> "arriving", hub |-> "out",
                               snap |-> 0]]
  BY DEF Open
<1>2. PICK r : r = [of |-> v, browser |-> "connecting", bridge |-> "arriving", hub |-> "out", snap |-> 0]
  OBVIOUS
<1>3. r \in Connections /\ r.of = v /\ r.browser = "connecting" /\ r.bridge = "arriving"
  BY <1>2, FeedAssumption DEF FeedParameters, Connections
<1>4. conn' = [conn EXCEPT ![c] = r]
  BY <1>1, <1>2
<1>5. conn[c] = Idle
  BY <1>1 DEF Free
<1> QED
  BY <1>3, <1>4, <1>5

\* Some of the ends of many connections close in one step.
Closes(c, browserEnd, bridgeEnd) ==
  /\ conn'[c].browser = browserEnd /\ conn'[c].bridge = bridgeEnd
  /\ conn'[c].of = conn[c].of
       \/ (browserEnd = "closed" /\ bridgeEnd = "gone" /\ conn'[c].of = NoView)

LEMMA UnsubscribeIs ==
  ASSUME conn \in [Conns -> Connections], NEW v \in Views, Unsubscribe(v)
  PROVE  /\ conn' \in [Conns -> Connections]
         /\ \A c \in Conns :
              /\ conn[c].of = v => Closes(c, "closed", conn[c].bridge)
              /\ conn[c].of # v => conn'[c] = conn[c]
<1>1. conn' = [c \in Conns |->
        IF conn[c].of = v THEN Kept([conn[c] EXCEPT !.browser = "closed"]) ELSE conn[c]]
  BY DEF Unsubscribe
<1>2. ASSUME NEW c \in Conns, conn[c].of = v
      PROVE  conn'[c] \in Connections /\ Closes(c, "closed", conn[c].bridge)
  <2>1. PICK s : s = [conn[c] EXCEPT !.browser = "closed"]
    OBVIOUS
  <2>2. s \in Connections /\ s.of = conn[c].of /\ s.browser = "closed" /\ s.bridge = conn[c].bridge
    <3>1. PICK r : r = conn[c]
      OBVIOUS
    <3>2. r \in Connections
      BY <3>1
    <3> QED
      BY <2>1, <3>1, <3>2 DEF Connections
  <2>3. conn'[c] = Kept(s)
    BY <1>1, <1>2, <2>1
  <2> QED
    BY <2>2, <2>3, KeptTyped DEF Closes
<1>3. \A c \in Conns : conn[c].of # v => conn'[c] = conn[c] /\ conn'[c] \in Connections
  BY <1>1
<1> QED
  BY <1>1, <1>2, <1>3

LEMMA RestartIs ==
  ASSUME conn \in [Conns -> Connections], GatewayRestarts
  PROVE  /\ conn' \in [Conns -> Connections]
         /\ \A c \in Conns : Closes(c, conn[c].browser, "gone")
<1>1. conn' = [c \in Conns |-> Kept([conn[c] EXCEPT !.bridge = "gone"])]
  BY DEF GatewayRestarts
<1>2. ASSUME NEW c \in Conns
      PROVE  conn'[c] \in Connections /\ Closes(c, conn[c].browser, "gone")
  <2>1. PICK s : s = [conn[c] EXCEPT !.bridge = "gone"]
    OBVIOUS
  <2>2. s \in Connections /\ s.of = conn[c].of /\ s.browser = conn[c].browser /\ s.bridge = "gone"
    <3>1. PICK r : r = conn[c]
      OBVIOUS
    <3>2. r \in Connections
      BY <3>1
    <3> QED
      BY <2>1, <3>1, <3>2 DEF Connections
  <2>3. conn'[c] = Kept(s)
    BY <1>1, <2>1
  <2> QED
    BY <2>2, <2>3, KeptTyped DEF Closes
<1> QED
  BY <1>1, <1>2

LEMMA CrashIs ==
  ASSUME conn \in [Conns -> Connections], HubCrashes
  PROVE  /\ conn' \in [Conns -> Connections]
         /\ \A c \in Conns : Closes(c, conn[c].browser, conn[c].bridge)
<1>1. conn' = [c \in Conns |-> Kept([conn[c] EXCEPT !.hub = "out", !.snap = 0])]
  BY DEF HubCrashes
<1>2. ASSUME NEW c \in Conns
      PROVE  conn'[c] \in Connections /\ Closes(c, conn[c].browser, conn[c].bridge)
  <2>1. PICK s : s = [conn[c] EXCEPT !.hub = "out", !.snap = 0]
    OBVIOUS
  <2>2. PICK r : r = conn[c]
    OBVIOUS
  <2>3. r \in Connections
    BY <2>2
  <2>4. s = [r EXCEPT !.hub = "out", !.snap = 0]
    BY <2>1, <2>2
  <2>5. s.of = r.of /\ s.browser = r.browser /\ s.bridge = r.bridge
    BY <2>3, <2>4 DEF Connections
  <2>6. s \in Connections
    <3>1. "out" \in {"added", "sending", "listed", "out"} /\ 0 \in 0..MaxPrice
      BY FeedAssumption DEF FeedParameters
    <3> QED
      BY <2>3, <2>4, <3>1, Zenon DEF Connections
  <2>7. conn'[c] = Kept(s)
    BY <1>1, <2>1
  <2> QED
    BY <2>2, <2>5, <2>6, <2>7, KeptTyped DEF Closes
<1> QED
  BY <1>1, <1>2

-----------------------------------------------------------------------------
\* An end that is there has a view; a subscription is of a mounted view and has one
\* socket or timer, and nothing else has one.
InBrowser(c) == conn[c].browser # "closed"
OneEach ==
  /\ conn \in [Conns -> Connections]
  /\ on \in [Views -> BOOLEAN] /\ timer \in [Views -> BOOLEAN]
  /\ \A c \in Conns : InBrowser(c) \/ conn[c].bridge # "gone" => conn[c].of \in Views
  /\ \A v \in Views : on[v] => life[v] = "mounted"
  /\ \A c, d \in Conns : InBrowser(c) /\ InBrowser(d) /\ conn[c].of = conn[d].of => c = d
  /\ \A c \in Conns : InBrowser(c) => on[conn[c].of] /\ ~ timer[conn[c].of]
  /\ \A v \in Views : timer[v] => on[v]
  /\ \A v \in Views : on[v] => timer[v] \/ \E c \in Conns : InBrowser(c) /\ conn[c].of = v

LEMMA MovesKeepEach ==
  ASSUME OneEach, NEW c \in Conns, NEW e, NEW b, Moves(c, e, b),
         e = "closed" <=> conn[c].browser = "closed",
         b # "gone" => conn[c].bridge # "gone",
         UNCHANGED <<life, on, timer>>
  PROVE  OneEach'
<1>1. \A d \in Conns : /\ InBrowser(d)' <=> InBrowser(d)
                       /\ conn'[d].bridge # "gone" => conn[d].bridge # "gone"
                       /\ conn'[d].of = conn[d].of \/ ~ (InBrowser(d)' \/ conn'[d].bridge # "gone")
  BY DEF Moves, InBrowser
<1> QED
  BY <1>1 DEF OneEach, InBrowser, Moves

LEMMA SubscribeKeepsEach ==
  ASSUME OneEach, NEW v \in Views, Open(v), life \in [Views -> {"new", "mounted", "gone"}],
         \/ timer[v] /\ timer' = [timer EXCEPT ![v] = FALSE] /\ UNCHANGED <<on, life>>
         \/ /\ ~ on[v] /\ on' = [on EXCEPT ![v] = TRUE] /\ UNCHANGED timer
            /\ life' = [life EXCEPT ![v] = "mounted"]
  PROVE  OneEach'
<1>1. conn' \in [Conns -> Connections]
  BY OpenIs DEF OneEach
<1>2. PICK c \in Conns :
        /\ conn[c] = Idle /\ \A d \in Conns \ {c} : conn'[d] = conn[d]
        /\ conn'[c].of = v /\ conn'[c].browser = "connecting" /\ conn'[c].bridge = "arriving"
  BY OpenIs DEF OneEach
<1>3. ~ InBrowser(c)
  BY <1>2 DEF InBrowser, Idle
<1>4. \A d \in Conns : InBrowser(d) => conn[d].of # v
  BY DEF OneEach
<1>5. on' \in [Views -> BOOLEAN] /\ timer' \in [Views -> BOOLEAN] /\ on'[v] /\ ~ timer'[v]
      /\ \A u \in Views \ {v} : on'[u] = on[u] /\ timer'[u] = timer[u] /\ life'[u] = life[u]
  <2>1. CASE timer[v] /\ timer' = [timer EXCEPT ![v] = FALSE] /\ UNCHANGED <<on, life>>
    BY <2>1 DEF OneEach
  <2>2. CASE /\ ~ on[v] /\ on' = [on EXCEPT ![v] = TRUE] /\ UNCHANGED timer
             /\ life' = [life EXCEPT ![v] = "mounted"]
    BY <2>2 DEF OneEach
  <2> QED
    BY <2>1, <2>2
<1>6. life'[v] = "mounted"
  BY DEF OneEach
<1>7. InBrowser(c)' /\ \A d \in Conns \ {c} : (InBrowser(d)' <=> InBrowser(d)) /\ conn'[d] = conn[d]
  BY <1>2 DEF InBrowser
<1> HIDE DEF InBrowser
<1>8. /\ \A d \in Conns : InBrowser(d)' \/ conn'[d].bridge # "gone" => conn'[d].of \in Views
      /\ \A d, f \in Conns : InBrowser(d)' /\ InBrowser(f)' /\ conn'[d].of = conn'[f].of => d = f
      /\ \A d \in Conns : InBrowser(d)' => on'[conn'[d].of] /\ ~ timer'[conn'[d].of]
  BY <1>2, <1>4, <1>5, <1>7 DEF OneEach
<1>9. /\ \A u \in Views : on'[u] => life'[u] = "mounted"
      /\ \A u \in Views : timer'[u] => on'[u]
  BY <1>5, <1>6 DEF OneEach
<1>10. ASSUME NEW u \in Views, on'[u] PROVE timer'[u] \/ \E d \in Conns : InBrowser(d)' /\ conn'[d].of = u
  <2>1. CASE u = v
    BY <2>1, <1>2, <1>7
  <2>2. CASE u # v
    BY <2>2, <1>3, <1>5, <1>7, <1>10 DEF OneEach
  <2> QED
    BY <2>1, <2>2
<1> QED
  BY <1>1, <1>5, <1>8, <1>9, <1>10 DEF OneEach

LEMMA UnsubscribeKeepsEach ==
  ASSUME OneEach, NEW v \in Views, Unsubscribe(v),
         \A u \in Views \ {v} : life'[u] = life[u]
  PROVE  OneEach'
<1>1. conn' \in [Conns -> Connections] /\ \A c \in Conns :
              /\ conn[c].of = v => Closes(c, "closed", conn[c].bridge)
              /\ conn[c].of # v => conn'[c] = conn[c]
  BY UnsubscribeIs DEF OneEach
<1>2. on' = [on EXCEPT ![v] = FALSE] /\ timer' = [timer EXCEPT ![v] = FALSE]
  BY DEF Unsubscribe
<1>3. \A c \in Conns : /\ InBrowser(c)' <=> InBrowser(c) /\ conn[c].of # v
                       /\ InBrowser(c)' => conn'[c] = conn[c]
                       /\ conn'[c].bridge # "gone" => conn[c].bridge # "gone" /\ conn'[c].of = conn[c].of
  BY <1>1 DEF Closes, InBrowser
<1> HIDE DEF InBrowser
<1> QED
  BY <1>1, <1>2, <1>3 DEF OneEach

LEMMA CloseKeepsEach ==
  ASSUME OneEach, NEW c \in Conns, InBrowser(c), SocketCloses(c), price \in 1..MaxPrice
  PROVE  OneEach'
<1>1. Moves(c, "closed", conn[c].bridge)
  BY ActionsMove DEF OneEach
<1>2. PICK v \in Views : v = conn[c].of
  BY DEF OneEach
<1>3. timer' = [timer EXCEPT ![v] = TRUE] /\ UNCHANGED <<life, on>>
  BY <1>2 DEF SocketCloses
<1>4. /\ conn' \in [Conns -> Connections] /\ ~ InBrowser(c)'
      /\ \A d \in Conns \ {c} : conn'[d] = conn[d] /\ (InBrowser(d)' <=> InBrowser(d))
      /\ conn'[c].bridge # "gone" => conn[c].bridge # "gone" /\ conn'[c].of = v
  BY <1>1, <1>2 DEF Moves, InBrowser
<1> HIDE DEF InBrowser
<1>5. on[v] /\ \A d \in Conns \ {c} : InBrowser(d) => conn[d].of # v
  BY <1>2 DEF OneEach
<1> QED
  BY <1>2, <1>3, <1>4, <1>5 DEF OneEach

LEMMA EachNext ==
  ASSUME FeedTypeOK, OneChart, OneEach, [FeedNext]_feedVars
  PROVE  OneEach'
<1> USE DEF browser, feed, chart
<1>0. /\ price \in 1..MaxPrice /\ conn \in [Conns -> Connections]
      /\ life \in [Views -> {"new", "mounted", "gone"}]
  BY DEF FeedTypeOK, Connections
<1>1. ASSUME UNCHANGED <<life, on, timer, conn>> PROVE OneEach'
  BY <1>1 DEF OneEach, InBrowser
<1>2. ASSUME NEW c \in Conns, SocketCloses(c), conn[c].browser # "closed" PROVE OneEach'
  BY <1>0, <1>2, CloseKeepsEach DEF InBrowser
<1>3. ASSUME NEW c \in Conns, Progress(c) PROVE OneEach'
  <2>1. CASE HearsClose(c)
    BY <1>2, <2>1 DEF HearsClose
  <2>2. CASE PingTimeout(c)
    BY <1>2, <2>2 DEF PingTimeout
  <2>3. CASE Refuse(c)
    <3>1. conn[c].bridge = "arriving" /\ UNCHANGED <<life, on, timer>> /\ Moves(c, conn[c].browser, "gone")
      BY <1>0, <2>3, ActionsMove DEF Refuse
    <3> QED
      BY <3>1, MovesKeepEach
  <2>4. CASE Accept(c)
    <3>1. /\ conn[c].bridge = "arriving" /\ UNCHANGED <<life, on, timer>>
          /\ Moves(c, IF conn[c].browser = "closed" THEN "closed" ELSE "open", "dialing")
      BY <1>0, <2>4, ActionsMove DEF Accept
    <3> QED
      BY <3>1, MovesKeepEach
  <2>5. CASE DialSucceeds(c)
    <3>1. conn[c].bridge = "dialing" /\ UNCHANGED <<life, on, timer>> /\ Moves(c, conn[c].browser, "pumping")
      BY <1>0, <2>5, ActionsMove DEF DialSucceeds
    <3> QED
      BY <3>1, MovesKeepEach
  <2>6. CASE BridgeEnds(c)
    <3>1. UNCHANGED <<life, on, timer>> /\ Moves(c, conn[c].browser, "gone")
      BY <1>0, <2>6, ActionsMove DEF BridgeEnds
    <3> QED
      BY <3>1, MovesKeepEach
  <2>7. CASE ReadSnapshot(c) \/ SendSnapshot(c) \/ HubLeaves(c)
    <3>1. UNCHANGED <<life, on, timer>> /\ Moves(c, conn[c].browser, conn[c].bridge)
      BY <1>0, <2>7, ActionsMove DEF ReadSnapshot, SendSnapshot, HubLeaves
    <3> QED
      BY <3>1, MovesKeepEach
  <2>8. CASE PumpSends(c)
    BY <1>1, <2>8 DEF PumpSends
  <2> QED
    BY <1>3, <2>1, <2>2, <2>3, <2>4, <2>5, <2>6, <2>7, <2>8 DEF Progress
<1>4. ASSUME NEW c \in Conns, ConnFault(c) PROVE OneEach'
  <2>1. CASE NetworkDrops(c)
    BY <1>2, <2>1 DEF NetworkDrops
  <2>2. CASE Stalls(c)
    <3>1. /\ conn[c].browser = "open" /\ UNCHANGED <<life, on, timer>>
          /\ Moves(c, "stalled", conn[c].bridge)
      BY <1>0, <2>2, ActionsMove DEF Stalls
    <3> QED
      BY <3>1, MovesKeepEach
  <2>3. CASE DialFails(c)
    <3>1. UNCHANGED <<life, on, timer>> /\ Moves(c, conn[c].browser, "gone")
      BY <1>0, <2>3, ActionsMove DEF DialFails
    <3> QED
      BY <3>1, MovesKeepEach
  <2> QED
    BY <1>4, <2>1, <2>2, <2>3 DEF ConnFault
<1>5. ASSUME NEW v \in Views, ViewStep(v) PROVE OneEach'
  <2>1. CASE Mount(v)
    <3>1. /\ life[v] = "new" /\ ~ on[v] /\ life' = [life EXCEPT ![v] = "mounted"]
          /\ Subscribe(v) \/ UNCHANGED <<on, timer, conn>>
      BY <2>1 DEF Mount, OneEach
    <3>2. CASE Subscribe(v)
      <4>1. Open(v) /\ on' = [on EXCEPT ![v] = TRUE] /\ UNCHANGED timer
        BY <3>2 DEF Subscribe
      <4> QED
        BY <1>0, <3>1, <4>1, SubscribeKeepsEach
    <3>3. CASE UNCHANGED <<on, timer, conn>>
      BY <1>0, <3>1, <3>3 DEF OneEach, InBrowser
    <3> QED
      BY <3>1, <3>2, <3>3
  <2>2. CASE Unmount(v)
    <3>1. Unsubscribe(v) /\ \A u \in Views \ {v} : life'[u] = life[u]
      BY <1>0, <2>2 DEF Unmount
    <3> QED
      BY <3>1, UnsubscribeKeepsEach
  <2>3. CASE TimerFires(v)
    <3>1. timer[v] /\ timer' = [timer EXCEPT ![v] = FALSE] /\ Open(v) /\ UNCHANGED <<on, life>>
      BY <2>3 DEF TimerFires
    <3> QED
      BY <1>0, <3>1, SubscribeKeepsEach
  <2>4. CASE LoadAnswered(v) \/ LoadFails(v)
    <3>1. life[v] = "mounted" /\ UNCHANGED life /\ Resubscribe(v)
      BY <2>4 DEF LoadAnswered, LoadFails
    <3>2. CASE Unsubscribe(v)
      BY <3>1, <3>2, UnsubscribeKeepsEach
    <3>3. CASE UNCHANGED <<on, timer, conn>>
      BY <1>1, <3>1, <3>3
    <3>4. CASE ~ on[v] /\ Subscribe(v)
      <4>1. Open(v) /\ on' = [on EXCEPT ![v] = TRUE] /\ UNCHANGED timer
        BY <3>4 DEF Subscribe
      <4>2. life' = [life EXCEPT ![v] = "mounted"]
        BY <1>0, <3>1
      <4> QED
        BY <1>0, <3>4, <4>1, <4>2, SubscribeKeepsEach
    <3> QED
      BY <3>1, <3>2, <3>3, <3>4 DEF Resubscribe
  <2> QED
    BY <1>5, <2>1, <2>2, <2>3, <2>4 DEF ViewStep
<1>6. ASSUME \/ FeedStep \/ SetPrice \/ PumpDies PROVE OneEach'
  BY <1>1, <1>6 DEF FeedStep, Publish, PumpTakes, PumpSubscribes, HubStarts, SetPrice, PumpDies
<1>7. ASSUME HubCrashes \/ GatewayRestarts PROVE OneEach'
  <2>1. /\ conn' \in [Conns -> Connections] /\ UNCHANGED <<life, on, timer>>
        /\ \A c \in Conns : /\ conn'[c].browser = conn[c].browser
                            /\ conn'[c].bridge # "gone" => conn[c].bridge # "gone"
                            /\ \/ conn'[c].of = conn[c].of
                               \/ conn'[c].browser = "closed" /\ conn'[c].bridge = "gone"
    BY <1>0, <1>7, CrashIs, RestartIs DEF HubCrashes, GatewayRestarts, Closes
  <2> QED
    BY <2>1 DEF OneEach, InBrowser
<1>8. CASE UNCHANGED feedVars
  BY <1>1, <1>8 DEF feedVars
<1> QED
  BY <1>3, <1>4, <1>5, <1>6, <1>7, <1>8 DEF FeedNext

-----------------------------------------------------------------------------
\* The types of all but the connections.
OthersTyped ==
  /\ on \in [Views -> BOOLEAN] /\ timer \in [Views -> BOOLEAN]
  /\ price \in 1..MaxPrice /\ unsent \in {0, price} /\ sending \in 0..MaxPrice
  /\ channel \in Seq(1..MaxPrice) /\ left \subseteq Conns
  /\ shown \in [Views -> 0..MaxPrice]
  /\ drawn \in Charts \cup {NoView} /\ faults \in 0..MaxFaults

LEMMA TypedParts == FeedTypeOK <=> /\ OthersTyped /\ conn \in [Conns -> Connections]
                                   /\ life \in [Views -> {"new", "mounted", "gone"}]
                                   /\ load \in [Views -> {"no", "asked", "done", "failed"}]
  BY DEF FeedTypeOK, OthersTyped, Connections

LEMMA SubscribeTyped ==
  ASSUME OthersTyped, NEW v \in Views,
         \/ UNCHANGED <<on, timer>>
         \/ on' = [on EXCEPT ![v] = TRUE] /\ UNCHANGED timer
         \/ on' = [on EXCEPT ![v] = FALSE] /\ timer' = [timer EXCEPT ![v] = FALSE]
         \/ UNCHANGED on /\ timer' = [timer EXCEPT ![v] = FALSE]
         \/ UNCHANGED on /\ timer' = [timer EXCEPT ![v] = TRUE]
  PROVE  on' \in [Views -> BOOLEAN] /\ timer' \in [Views -> BOOLEAN]
  BY DEF OthersTyped

LEMMA ShowTyped ==
  ASSUME OthersTyped, NEW c \in Conns, NEW n \in 0..MaxPrice, Show(c, n)
  PROVE  shown' \in [Views -> 0..MaxPrice]
  BY DEF OthersTyped, Show

LEMMA OthersNext ==
  ASSUME FeedTypeOK, OneChart, [FeedNext]_feedVars
  PROVE  OthersTyped'
<1> USE DEF browser, feed, chart
<1>0. /\ OthersTyped /\ conn \in [Conns -> Connections]
      /\ MaxPrice \in Nat \ {0} /\ Charts \subseteq Views
  BY TypedParts, FeedAssumption DEF FeedParameters
<1>f. Fault => faults' \in 0..MaxFaults
  BY <1>0, MaxFaultsAssumption DEF Fault, OthersTyped
<1>1. ASSUME UNCHANGED <<price, channel, unsent, sending, left, shown, drawn, faults, on, timer>>
      PROVE  OthersTyped'
  BY <1>0, <1>1 DEF OthersTyped
<1>2. ASSUME UNCHANGED <<price, channel, unsent, sending, left, shown, drawn, on, timer>>,
             faults' \in 0..MaxFaults
      PROVE  OthersTyped'
  BY <1>0, <1>2 DEF OthersTyped
<1>3. ASSUME NEW c \in Conns, SocketCloses(c)
      PROVE  on' \in [Views -> BOOLEAN] /\ timer' \in [Views -> BOOLEAN] /\ UNCHANGED shown
  BY <1>0, <1>3 DEF SocketCloses, OthersTyped
<1>4. ASSUME NEW c \in Conns, Progress(c) PROVE OthersTyped'
  <2>1. CASE HearsClose(c)
    BY <1>0, <1>3, <2>1 DEF HearsClose, OthersTyped
  <2>2. CASE PingTimeout(c)
    BY <1>0, <1>3, <2>2 DEF PingTimeout, OthersTyped
  <2>3. CASE Refuse(c) \/ Accept(c) \/ DialSucceeds(c) \/ BridgeEnds(c) \/ ReadSnapshot(c) \/ HubLeaves(c)
    <3>1. UNCHANGED <<browser, feed, chart, faults>>
      BY <2>3 DEF Refuse, Accept, DialSucceeds, BridgeEnds, ReadSnapshot, HubLeaves
    <3> QED
      BY <1>1, <3>1
  <2>4. CASE SendSnapshot(c)
    <3>1. PICK n \in 0..MaxPrice : n = conn[c].snap
      BY <1>0 DEF Connections
    <3>2. Show(c, n) /\ UNCHANGED <<on, timer, feed, chart, faults>>
      BY <2>4, <3>1 DEF SendSnapshot
    <3> QED
      BY <1>0, <3>2, ShowTyped DEF OthersTyped
  <2>5. CASE PumpSends(c)
    <3>1. /\ left' = left \ {c}
          /\ Show(c, sending) \/ UNCHANGED shown
          /\ UNCHANGED <<on, timer, price, channel, unsent, sending, chart, faults>>
      BY <2>5 DEF PumpSends
    <3>2. shown' \in [Views -> 0..MaxPrice]
      BY <1>0, <3>1, ShowTyped DEF OthersTyped
    <3>3. left' \subseteq Conns
      BY <1>0, <3>1 DEF OthersTyped
    <3> QED
      BY <1>0, <3>1, <3>2, <3>3 DEF OthersTyped
  <2> QED
    BY <1>4, <2>1, <2>2, <2>3, <2>4, <2>5 DEF Progress
<1>5. ASSUME NEW c \in Conns, ConnFault(c) PROVE OthersTyped'
  <2>1. CASE NetworkDrops(c)
    BY <1>0, <1>3, <1>f, <2>1 DEF NetworkDrops, OthersTyped
  <2>2. CASE Stalls(c)
    BY <1>2, <1>f, <2>2 DEF Stalls
  <2>3. CASE DialFails(c)
    <3>1. faults' \in 0..MaxFaults
      BY <1>0, <1>f, <2>3 DEF DialFails, OthersTyped
    <3> QED
      BY <1>2, <2>3, <3>1 DEF DialFails
  <2> QED
    BY <1>5, <2>1, <2>2, <2>3 DEF ConnFault
<1>6. ASSUME NEW v \in Views, ViewStep(v) PROVE OthersTyped'
  <2>1. CASE Mount(v)
    <3>1. on' \in [Views -> BOOLEAN] /\ timer' \in [Views -> BOOLEAN]
      BY <1>0, <2>1, SubscribeTyped DEF Mount, Subscribe
    <3>2. UNCHANGED <<shown, feed, faults, drawn>>
      BY <2>1 DEF Mount
    <3> QED
      BY <1>0, <3>1, <3>2 DEF OthersTyped
  <2>2. CASE Unmount(v)
    <3>1. on' \in [Views -> BOOLEAN] /\ timer' \in [Views -> BOOLEAN]
      BY <1>0, <2>2, SubscribeTyped DEF Unmount, Unsubscribe
    <3> QED
      BY <1>0, <2>2, <3>1 DEF OthersTyped, Unmount
  <2>3. CASE TimerFires(v)
    <3>1. on' \in [Views -> BOOLEAN] /\ timer' \in [Views -> BOOLEAN]
      BY <1>0, <2>3, SubscribeTyped DEF TimerFires
    <3> QED
      BY <1>0, <2>3, <3>1 DEF OthersTyped, TimerFires
  <2>4. CASE LoadAnswered(v) \/ LoadFails(v)
    <3>1. on' \in [Views -> BOOLEAN] /\ timer' \in [Views -> BOOLEAN]
      <4>1. Resubscribe(v)
        BY <2>4 DEF LoadAnswered, LoadFails
      <4> QED
        BY <1>0, <4>1, SubscribeTyped DEF Resubscribe, Subscribe, Unsubscribe
    <3>2. load[v] = "asked" /\ v \in Charts
      BY <2>4 DEF LoadAnswered, LoadFails, OneChart
    <3>3. CASE LoadAnswered(v)
      <4>1. /\ \/ UNCHANGED <<drawn, shown>>
               \/ drawn' = v /\ \E n \in 1..price : shown' = [shown EXCEPT ![v] = n]
            /\ UNCHANGED <<feed, faults>>
        BY <3>3 DEF LoadAnswered
      <4>2. \A n \in 1..price : n \in 0..MaxPrice
        BY <1>0 DEF OthersTyped
      <4> QED
        BY <1>0, <3>1, <3>2, <4>1, <4>2 DEF OthersTyped
    <3>4. CASE LoadFails(v)
      BY <1>0, <1>f, <3>1, <3>4 DEF LoadFails, OthersTyped
    <3> QED
      BY <2>4, <3>3, <3>4
  <2> QED
    BY <1>6, <2>1, <2>2, <2>3, <2>4 DEF ViewStep
<1>7. ASSUME FeedStep PROVE OthersTyped'
  <2>1. CASE Publish
    <3>1. channel' \in Seq(1..MaxPrice)
      <4>1. unsent \in 1..MaxPrice /\ channel \in Seq(1..MaxPrice)
        BY <1>0, <2>1 DEF Publish, OthersTyped
      <4>2. Append(channel, unsent) \in Seq(1..MaxPrice)
        BY <4>1
      <4> QED
        BY <2>1, <4>1, <4>2 DEF Publish
    <3>2. unsent' = 0 /\ UNCHANGED <<price, sending, left, on, timer, shown, drawn, faults>>
      BY <2>1 DEF Publish
    <3> QED
      BY <1>0, <3>1, <3>2 DEF OthersTyped
  <2>2. CASE PumpTakes
    BY <1>0, <2>2 DEF PumpTakes, OthersTyped
  <2>3. CASE PumpSubscribes \/ HubStarts
    BY <1>1, <2>3 DEF PumpSubscribes, HubStarts
  <2> QED
    BY <1>7, <2>1, <2>2, <2>3 DEF FeedStep
<1>8. CASE SetPrice
  BY <1>0, <1>8 DEF SetPrice, OthersTyped
<1>9. CASE PumpDies \/ HubCrashes
  <2>1. /\ channel' = <<>> /\ left' = {} /\ sending' = 0 /\ faults' \in 0..MaxFaults
        /\ UNCHANGED <<price, unsent, on, timer, shown, drawn>>
    BY <1>f, <1>9 DEF PumpDies, HubCrashes
  <2>2. <<>> \in Seq(1..MaxPrice) /\ 0 \in 0..MaxPrice
    BY <1>0
  <2>3. channel' \in Seq(1..MaxPrice) /\ left' \subseteq Conns /\ sending' \in 0..MaxPrice
    BY ONLY <2>1, <2>2
  <2> QED
    BY <1>0, <2>1, <2>3 DEF OthersTyped
<1>10. CASE GatewayRestarts
  BY <1>2, <1>f, <1>10 DEF GatewayRestarts
<1>11. CASE UNCHANGED feedVars
  BY <1>1, <1>11 DEF feedVars
<1> QED
  BY <1>4, <1>5, <1>6, <1>7, <1>8, <1>9, <1>10, <1>11 DEF FeedNext

-----------------------------------------------------------------------------
\* The slots: a client has as many as bridges of its own are dialling or pumping.
Busy(c) == conn[c].bridge \in {"dialing", "pumping"}
Held(k) == {c \in Conns : Busy(c) /\ Client[conn[c].of] = k}
SlotsExact ==
  /\ IsFiniteSet(DOMAIN perClient) /\ DOMAIN perClient \subseteq Clients
  /\ perClient \in [DOMAIN perClient -> 1..MaxPerClient]
  /\ \A k \in Clients : CountOf(k) = Cardinality(Held(k))
  /\ Total <= MaxTotal

LEMMA SlotsSame ==
  ASSUME SlotsExact, UNCHANGED perClient,
         \A c \in Conns : (Busy(c)' <=> Busy(c)) /\ (Busy(c) => conn'[c].of = conn[c].of)
  PROVE  SlotsExact'
<1>1. \A k : Held(k)' = Held(k)
  BY DEF Held
<1>2. \A k : CountOf(k)' = CountOf(k)
  BY DEF CountOf
<1> QED
  BY <1>1, <1>2 DEF SlotsExact, Total

LEMMA HeldFinite ==
  ASSUME NEW k
  PROVE  /\ Held(k) \subseteq Conns /\ IsFiniteSet(Held(k))
         /\ Cardinality(Held(k)) \in Nat /\ (Cardinality(Held(k)) = 0 <=> Held(k) = {})
<1>1. Held(k) \subseteq Conns /\ IsFiniteSet(Conns)
  BY FeedAssumption DEF FeedParameters, Held
<1> QED
  BY <1>1, FS_Subset, FS_CardinalityType, FS_EmptySet

LEMMA TotalTyped ==
  ASSUME SlotsExact
  PROVE  /\ Total \in Int /\ Total = SumFunctionOnSet(perClient, DOMAIN perClient)
         /\ MaxPerClient \in Nat /\ MaxTotal \in Nat
         /\ IsFiniteSet(DOMAIN perClient) /\ perClient \in [DOMAIN perClient -> Nat \ {0}]
         /\ \A k : CountOf(k) \in Nat
<1>1. MaxPerClient \in Nat /\ MaxTotal \in Nat
  BY FeedAssumption DEF FeedParameters
<1>2. IsFiniteSet(DOMAIN perClient) /\ \A j \in DOMAIN perClient : perClient[j] \in Nat \ {0}
  BY <1>1 DEF SlotsExact
<1>3. perClient \in [DOMAIN perClient -> Nat \ {0}]
  BY <1>1 DEF SlotsExact
<1>4. SumFunctionOnSet(perClient, DOMAIN perClient) \in Int
  BY <1>2, SumInt
<1> QED
  BY <1>1, <1>2, <1>3, <1>4 DEF Total, CountOf

\* The sum of what is at least 1 everywhere changes by one with one entry.
LEMMA OneSlotMore ==
  ASSUME NEW f, IsFiniteSet(DOMAIN f), f \in [DOMAIN f -> Nat \ {0}], NEW k, NEW g,
         g = [j \in DOMAIN f \cup {k} |->
                (IF j \in DOMAIN f THEN f[j] ELSE 0) + (IF j = k THEN 1 ELSE 0)]
  PROVE  /\ IsFiniteSet(DOMAIN g)
         /\ SumFunctionOnSet(g, DOMAIN g) = SumFunctionOnSet(f, DOMAIN f) + 1
<1> DEFINE D == DOMAIN f
<1>1. DOMAIN g = D \cup {k} /\ IsFiniteSet(D \cup {k}) /\ \A j \in D : f[j] \in Nat
  BY FS_AddElement
<1>2. CASE k \in D
  <2>1. D \cup {k} = D /\ g[k] = f[k] + 1 /\ \A j \in D \ {k} : g[j] = f[j]
    BY <1>2
  <2>2. \A j \in D : f[j] \in Int /\ g[j] \in Int
    BY <1>1, <1>2
  <2>3. SumFunctionOnSet(f, D) \in Int
    BY <2>2, SumInt
  <2> HIDE DEF D
  <2>4. SumFunctionOnSet(g, D) = SumFunctionOnSet(f, D) + g[k] - f[k]
    BY ONLY <1>1, <1>2, <2>1, <2>2, SumChange
  <2> QED
    BY <1>1, <1>2, <2>1, <2>2, <2>3, <2>4 DEF D
<1>3. CASE k \notin D
  <2>1. g[k] = 1 /\ \A j \in D : g[j] = f[j] /\ g[j] \in Int
    BY <1>1, <1>3
  <2>2. IsFiniteSet(D) /\ \A j \in D : f[j] \in Int
    BY <1>1
  <2>3. SumFunctionOnSet(f, D) \in Int
    BY <2>2, SumInt
  <2> HIDE DEF D
  <2>4. SumFunctionOnSet(f, D) = SumFunctionOnSet(g, D)
    <3>1. \A j \in D : f[j] = g[j]
      BY <2>1
    <3> QED
      BY ONLY <3>1, <2>2, SumEqual
  <2>5. \A j \in D \cup {k} : g[j] \in Int
    BY <2>1
  <2>6. SumFunctionOnSet(g, D \cup {k}) = g[k] + SumFunctionOnSet(g, D)
    BY ONLY <1>3, <2>2, <2>5, SumAdd
  <2> QED
    BY <1>1, <2>1, <2>3, <2>4, <2>6 DEF D
<1> QED
  BY <1>2, <1>3

LEMMA OneSlotLess ==
  ASSUME NEW f, IsFiniteSet(DOMAIN f), f \in [DOMAIN f -> Nat \ {0}], NEW k \in DOMAIN f, NEW g,
         g = IF f[k] > 1 THEN [f EXCEPT ![k] = @ - 1] ELSE Restrict(f, DOMAIN f \ {k})
  PROVE  /\ IsFiniteSet(DOMAIN g)
         /\ SumFunctionOnSet(g, DOMAIN g) = SumFunctionOnSet(f, DOMAIN f) - 1
<1> DEFINE D == DOMAIN f
<1>1. \A j \in D : f[j] \in Nat \ {0}
  OBVIOUS
<1>i. SumFunctionOnSet(f, D) \in Int
  BY <1>1, SumInt
<1>2. CASE f[k] > 1
  <2>1. DOMAIN g = D /\ g[k] = f[k] - 1 /\ \A j \in D \ {k} : g[j] = f[j]
    BY <1>2
  <2>2. \A j \in D : f[j] \in Int /\ g[j] \in Int
    BY <1>1, <2>1
  <2> HIDE DEF D
  <2>3. SumFunctionOnSet(g, D) = SumFunctionOnSet(f, D) + g[k] - f[k]
    <3>1. IsFiniteSet(D) /\ k \in D
      BY DEF D
    <3> QED
      BY ONLY <2>1, <2>2, <3>1, SumChange
  <2> QED
    BY <1>1, <1>i, <2>1, <2>3 DEF D
<1>3. CASE ~ (f[k] > 1)
  <2>1. DOMAIN g = D \ {k} /\ f[k] = 1 /\ \A j \in D \ {k} : g[j] = f[j]
    BY <1>1, <1>3 DEF Restrict
  <2>2. IsFiniteSet(D \ {k}) /\ \A j \in D : f[j] \in Int
    BY <1>1, FS_RemoveElement
  <2>3. SumFunctionOnSet(f, D) = f[k] + SumFunctionOnSet(f, D \ {k})
    BY <2>2, SumRemove
  <2>4. SumFunctionOnSet(f, D \ {k}) \in Int
    BY <2>2, SumInt
  <2> HIDE DEF D
  <2>5. SumFunctionOnSet(g, D \ {k}) = SumFunctionOnSet(f, D \ {k})
    BY <2>1, <2>2, SumEqual
  <2> QED
    BY <2>1, <2>2, <2>3, <2>4, <2>5 DEF D
<1> QED
  BY <1>2, <1>3

LEMMA AcceptKeepsSlots ==
  ASSUME FeedTypeOK, OneEach, SlotsExact, NEW c \in Conns, Accept(c)
  PROVE  SlotsExact'
<1>1. PICK v \in Views : v = conn[c].of
  BY DEF OneEach, Accept
<1>2. PICK k \in Clients : k = Client[v]
  BY DEF Clients
<1>3. /\ conn[c].bridge = "arriving" /\ Total < MaxTotal /\ CountOf(k) < MaxPerClient
      /\ perClient' = [j \in DOMAIN perClient \cup {k} |-> CountOf(j) + (IF j = k THEN 1 ELSE 0)]
  BY <1>1, <1>2, TotalTyped DEF Accept, AtCapacity
<1>4. /\ IsFiniteSet(DOMAIN perClient) /\ perClient \in [DOMAIN perClient -> Nat \ {0}]
      /\ MaxPerClient \in Nat /\ MaxTotal \in Nat
  BY FeedAssumption DEF FeedParameters, SlotsExact
<1>5. perClient' = [j \in DOMAIN perClient \cup {k} |->
                      (IF j \in DOMAIN perClient THEN perClient[j] ELSE 0) + (IF j = k THEN 1 ELSE 0)]
  BY <1>3 DEF CountOf
<1>6. IsFiniteSet(DOMAIN perClient') /\ Total' = Total + 1
  <2>1. PICK g : g = perClient'
    OBVIOUS
  <2>2. /\ IsFiniteSet(DOMAIN g)
        /\ SumFunctionOnSet(g, DOMAIN g) = SumFunctionOnSet(perClient, DOMAIN perClient) + 1
    BY ONLY <1>4, <1>5, <2>1, OneSlotMore
  <2> QED
    BY <2>1, <2>2 DEF Total
<1>7. /\ DOMAIN perClient' \subseteq Clients
      /\ perClient' \in [DOMAIN perClient' -> 1..MaxPerClient]
      /\ \A j : CountOf(j)' = CountOf(j) + (IF j = k THEN 1 ELSE 0)
  <2>1. \A j \in DOMAIN perClient : perClient[j] \in 1..MaxPerClient
    BY DEF SlotsExact
  <2>2. \A j : CountOf(j)' = IF j \in DOMAIN perClient \cup {k}
                             THEN CountOf(j) + (IF j = k THEN 1 ELSE 0) ELSE 0
    BY <1>3 DEF CountOf
  <2>3. \A j : j \notin DOMAIN perClient => CountOf(j) = 0
    BY DEF CountOf
  <2>4. \A j \in DOMAIN perClient : CountOf(j) = perClient[j]
    BY DEF CountOf
  <2>5. ASSUME NEW j \in DOMAIN perClient'
        PROVE  perClient'[j] \in 1..MaxPerClient
    <3>1. CASE j = k
      <4>1. perClient'[j] = CountOf(k) + 1 /\ CountOf(k) \in Nat
        BY <3>1, <1>3, <1>4, <2>3, <2>4
      <4> QED
        BY <4>1, <1>3, <1>4
    <3>2. CASE j # k
      <4>1. j \in DOMAIN perClient /\ perClient'[j] = perClient[j] + 0
        BY <3>2, <1>5
      <4> QED
        BY <4>1, <2>1, <1>4
    <3> QED
      BY <3>1, <3>2
  <2>6. DOMAIN perClient' \subseteq Clients /\ perClient' = [j \in DOMAIN perClient' |-> perClient'[j]]
    BY <1>3 DEF SlotsExact
  <2>7. \A j : CountOf(j)' = CountOf(j) + (IF j = k THEN 1 ELSE 0)
    BY <2>2, <2>3
  <2> QED
    BY <2>5, <2>6, <2>7
<1>8. Moves(c, IF conn[c].browser = "closed" THEN "closed" ELSE "open", "dialing")
  BY ActionsMove DEF FeedTypeOK, Connections
<1>9. /\ ~ Busy(c) /\ Busy(c)' /\ conn'[c].of = v
      /\ \A d \in Conns \ {c} : (Busy(d)' <=> Busy(d)) /\ conn'[d].of = conn[d].of
  BY <1>1, <1>3, <1>8 DEF Busy, Moves
<1>10. /\ Held(k)' = Held(k) \cup {c} /\ c \notin Held(k)
       /\ \A j \in Clients \ {k} : Held(j)' = Held(j)
  BY <1>2, <1>9 DEF Held
<1>11. \A j \in Clients : IsFiniteSet(Held(j)) /\ Cardinality(Held(j)) \in Nat
  BY HeldFinite
<1>12. Cardinality(Held(k)') = Cardinality(Held(k)) + 1
  BY <1>10, <1>11, FS_AddElement
<1>13. \A j \in Clients : CountOf(j)' = Cardinality(Held(j)')
  <2>1. \A j \in Clients : CountOf(j) = Cardinality(Held(j))
    BY DEF SlotsExact
  <2>2. CountOf(k)' = Cardinality(Held(k)')
    BY <2>1, <1>7, <1>12
  <2>3. \A j \in Clients \ {k} : CountOf(j)' = Cardinality(Held(j)')
    BY <2>1, <1>7, <1>10, TotalTyped
  <2> QED
    BY <2>2, <2>3
<1>14. Total' <= MaxTotal
  BY TotalTyped, <1>3, <1>4, <1>6
<1> QED
  BY <1>6, <1>7, <1>13, <1>14 DEF SlotsExact

LEMMA ReleaseKeepsSlots ==
  ASSUME FeedTypeOK, OneEach, SlotsExact, NEW c \in Conns, Busy(c), GiveBack(c),
         Moves(c, conn[c].browser, "gone")
  PROVE  SlotsExact'
<1>1. PICK v \in Views : v = conn[c].of
  BY DEF OneEach, Busy
<1>2. PICK k \in Clients : k = Client[v]
  BY DEF Clients
<1>3. \A j \in Clients : IsFiniteSet(Held(j)) /\ Cardinality(Held(j)) \in Nat
  BY HeldFinite
<1>4. c \in Held(k)
  BY <1>1, <1>2 DEF Held
<1>5. Cardinality(Held(k)) \in Nat /\ Cardinality(Held(k)) # 0
  BY <1>4, HeldFinite
<1>6. k \in DOMAIN perClient /\ CountOf(k) = perClient[k]
  BY <1>5 DEF SlotsExact, CountOf
<1>7. perClient' = IF perClient[k] > 1 THEN [perClient EXCEPT ![k] = @ - 1]
                   ELSE Restrict(perClient, DOMAIN perClient \ {k})
  BY <1>1, <1>2 DEF GiveBack, Restrict
<1>8. /\ IsFiniteSet(DOMAIN perClient) /\ perClient \in [DOMAIN perClient -> Nat \ {0}]
      /\ MaxPerClient \in Nat /\ MaxTotal \in Nat
  BY FeedAssumption DEF FeedParameters, SlotsExact
<1>9. IsFiniteSet(DOMAIN perClient') /\ Total' = Total - 1
  <2>1. PICK g : g = perClient'
    OBVIOUS
  <2>2. /\ IsFiniteSet(DOMAIN g)
        /\ SumFunctionOnSet(g, DOMAIN g) = SumFunctionOnSet(perClient, DOMAIN perClient) - 1
    BY ONLY <1>6, <1>7, <1>8, <2>1, OneSlotLess
  <2> QED
    BY <2>1, <2>2 DEF Total
<1>10. /\ DOMAIN perClient' \subseteq Clients
       /\ perClient' \in [DOMAIN perClient' -> 1..MaxPerClient]
       /\ \A j : CountOf(j)' = CountOf(j) - (IF j = k THEN 1 ELSE 0)
  <2>1. perClient \in [DOMAIN perClient -> 1..MaxPerClient] /\ DOMAIN perClient \subseteq Clients
    BY DEF SlotsExact
  <2>2. CASE perClient[k] > 1
    <3>1. perClient' = [perClient EXCEPT ![k] = perClient[k] - 1]
      BY <1>7, <2>2
    <3> QED
      BY <3>1, <1>6, <1>8, <2>1, <2>2 DEF CountOf
  <2>3. CASE ~ (perClient[k] > 1)
    <3>1. perClient' = [j \in DOMAIN perClient \ {k} |-> perClient[j]] /\ perClient[k] = 1
      BY <1>6, <1>7, <1>8, <2>1, <2>3 DEF Restrict
    <3> QED
      BY <3>1, <1>6, <1>8, <2>1, <2>3 DEF CountOf
  <2> QED
    BY <2>2, <2>3
<1>11. /\ ~ Busy(c)' /\ \A d \in Conns \ {c} : (Busy(d)' <=> Busy(d)) /\ conn'[d].of = conn[d].of
  BY DEF Busy, Moves
<1>12. /\ Held(k)' = Held(k) \ {c}
       /\ \A j \in Clients \ {k} : Held(j)' = Held(j)
  BY <1>1, <1>2, <1>11 DEF Held
<1>13. Cardinality(Held(k)') = Cardinality(Held(k)) - 1
  BY <1>3, <1>4, <1>12, FS_RemoveElement
<1>14. \A j \in Clients : CountOf(j)' = Cardinality(Held(j)')
  <2>1. \A j \in Clients : CountOf(j) = Cardinality(Held(j))
    BY DEF SlotsExact
  <2>2. CountOf(k)' = Cardinality(Held(k)')
    BY <2>1, <1>10, <1>13
  <2>3. \A j \in Clients \ {k} : CountOf(j)' = Cardinality(Held(j)')
    BY <2>1, <1>10, <1>12, TotalTyped
  <2> QED
    BY <2>2, <2>3
<1>15. Total' <= MaxTotal
  BY TotalTyped, <1>8, <1>9 DEF SlotsExact
<1> QED
  BY <1>9, <1>10, <1>14, <1>15 DEF SlotsExact

LEMMA RestartKeepsSlots ==
  ASSUME FeedTypeOK, SlotsExact, GatewayRestarts
  PROVE  SlotsExact'
<1>1. perClient' = <<>> /\ \A c \in Conns : ~ Busy(c)'
  <2>1. \A c \in Conns : Closes(c, conn[c].browser, "gone")
    BY RestartIs DEF FeedTypeOK, Connections
  <2> QED
    BY <2>1 DEF GatewayRestarts, Closes, Busy
<1>2. DOMAIN perClient' = {}
  BY <1>1
<1>3. \A k : CountOf(k)' = 0 /\ Held(k)' = {}
  BY <1>1, <1>2 DEF CountOf, Held
<1>4. \A k : CountOf(k)' = Cardinality(Held(k)')
  BY <1>3, FS_EmptySet
<1>5. Total' = 0
  <2>1. PICK g : g = perClient'
    OBVIOUS
  <2>2. SumFunctionOnSet(g, {}) = 0
    BY SumEmpty
  <2> QED
    BY <1>2, <2>1, <2>2 DEF Total
<1>6. IsFiniteSet(DOMAIN perClient')
  BY <1>2, FS_EmptySet
<1>7. perClient' \in [DOMAIN perClient' -> 1..MaxPerClient]
  BY <1>1, <1>2
<1> QED
  BY <1>2, <1>4, <1>5, <1>6, <1>7, FeedAssumption DEF FeedParameters, SlotsExact

LEMMA SlotsNext ==
  ASSUME FeedTypeOK, OneEach, SlotsExact, [FeedNext]_feedVars
  PROVE  SlotsExact'
<1> USE DEF browser, feed, chart
<1>0. conn \in [Conns -> Connections] /\ price \in 1..MaxPrice
  BY TypedParts DEF OthersTyped
<1>1. ASSUME UNCHANGED <<conn, perClient>> PROVE SlotsExact'
  BY <1>1, SlotsSame DEF Busy
<1>2. ASSUME NEW c \in Conns, NEW e, NEW b, Moves(c, e, b), UNCHANGED perClient,
             b \in {"dialing", "pumping"} <=> conn[c].bridge \in {"dialing", "pumping"}
      PROVE  SlotsExact'
  <2>1. \A d \in Conns : (Busy(d)' <=> Busy(d)) /\ (Busy(d) => conn'[d].of = conn[d].of)
    BY <1>2 DEF Moves, Busy
  <2> QED
    BY <1>2, <2>1, SlotsSame
<1>3. ASSUME NEW c \in Conns, SocketCloses(c), UNCHANGED perClient PROVE SlotsExact'
  BY <1>0, <1>2, <1>3, ActionsMove
<1>4. ASSUME NEW c \in Conns, Progress(c) PROVE SlotsExact'
  <2>1. CASE HearsClose(c) \/ PingTimeout(c)
    BY <1>3, <2>1 DEF HearsClose, PingTimeout
  <2>2. CASE Refuse(c)
    <3>1. conn[c].bridge = "arriving" /\ UNCHANGED perClient /\ Moves(c, conn[c].browser, "gone")
      BY <1>0, <2>2, ActionsMove DEF Refuse
    <3> QED
      BY <1>2, <3>1
  <2>3. CASE Accept(c)
    BY <2>3, AcceptKeepsSlots
  <2>4. CASE DialSucceeds(c)
    <3>1. conn[c].bridge = "dialing" /\ UNCHANGED perClient /\ Moves(c, conn[c].browser, "pumping")
      BY <1>0, <2>4, ActionsMove DEF DialSucceeds
    <3> QED
      BY <1>2, <3>1
  <2>5. CASE BridgeEnds(c)
    <3>1. Busy(c) /\ GiveBack(c) /\ Moves(c, conn[c].browser, "gone")
      BY <1>0, <2>5, ActionsMove DEF BridgeEnds, Busy
    <3> QED
      BY <3>1, ReleaseKeepsSlots
  <2>6. CASE ReadSnapshot(c) \/ SendSnapshot(c) \/ HubLeaves(c)
    <3>1. UNCHANGED perClient /\ Moves(c, conn[c].browser, conn[c].bridge)
      BY <1>0, <2>6, ActionsMove DEF ReadSnapshot, SendSnapshot, HubLeaves
    <3> QED
      BY <1>2, <3>1
  <2>7. CASE PumpSends(c)
    BY <1>1, <2>7 DEF PumpSends
  <2> QED
    BY <1>4, <2>1, <2>2, <2>3, <2>4, <2>5, <2>6, <2>7 DEF Progress
<1>5. ASSUME NEW c \in Conns, ConnFault(c) PROVE SlotsExact'
  <2>1. CASE NetworkDrops(c)
    BY <1>3, <2>1 DEF NetworkDrops
  <2>2. CASE Stalls(c)
    <3>1. UNCHANGED perClient /\ Moves(c, "stalled", conn[c].bridge)
      BY <1>0, <2>2, ActionsMove DEF Stalls
    <3> QED
      BY <1>2, <3>1
  <2>3. CASE DialFails(c)
    <3>1. Busy(c) /\ GiveBack(c) /\ Moves(c, conn[c].browser, "gone")
      BY <1>0, <2>3, ActionsMove DEF DialFails, Busy
    <3> QED
      BY <3>1, ReleaseKeepsSlots
  <2> QED
    BY <1>5, <2>1, <2>2, <2>3 DEF ConnFault
<1>6. ASSUME NEW v \in Views, Open(v), UNCHANGED perClient PROVE SlotsExact'
  <2>1. PICK c \in Conns :
          /\ conn[c] = Idle /\ \A d \in Conns \ {c} : conn'[d] = conn[d]
          /\ conn'[c].of = v /\ conn'[c].browser = "connecting" /\ conn'[c].bridge = "arriving"
    BY <1>0, <1>6, OpenIs
  <2>2. \A d \in Conns : (Busy(d)' <=> Busy(d)) /\ (Busy(d) => conn'[d].of = conn[d].of)
    BY <2>1 DEF Busy, Idle
  <2> QED
    BY <1>6, <2>2, SlotsSame
<1>7. ASSUME NEW v \in Views, Unsubscribe(v), UNCHANGED perClient PROVE SlotsExact'
  <2>1. \A c \in Conns : /\ conn[c].of = v => Closes(c, "closed", conn[c].bridge)
                         /\ conn[c].of # v => conn'[c] = conn[c]
    BY <1>0, <1>7, UnsubscribeIs
  <2>2. \A d \in Conns : (Busy(d)' <=> Busy(d)) /\ (Busy(d) => conn'[d].of = conn[d].of)
    BY <2>1 DEF Busy, Closes
  <2> QED
    BY <1>7, <2>2, SlotsSame
<1>8. ASSUME NEW v \in Views, ViewStep(v) PROVE SlotsExact'
  <2>1. UNCHANGED perClient /\ (UNCHANGED conn \/ Open(v) \/ Unsubscribe(v))
    BY <1>8 DEF ViewStep, Mount, Unmount, TimerFires, LoadAnswered, LoadFails, Subscribe, Resubscribe
  <2> QED
    BY <1>1, <1>6, <1>7, <2>1
<1>9. ASSUME \/ FeedStep \/ SetPrice \/ PumpDies PROVE SlotsExact'
  BY <1>1, <1>9 DEF FeedStep, Publish, PumpTakes, PumpSubscribes, HubStarts, SetPrice, PumpDies
<1>10. CASE HubCrashes
  <2>1. \A c \in Conns : Closes(c, conn[c].browser, conn[c].bridge)
    BY <1>0, <1>10, CrashIs
  <2>2. UNCHANGED perClient /\ \A d \in Conns :
          (Busy(d)' <=> Busy(d)) /\ (Busy(d) => conn'[d].of = conn[d].of)
    BY <1>10, <2>1 DEF HubCrashes, Busy, Closes
  <2> QED
    BY <2>2, SlotsSame
<1>11. CASE GatewayRestarts
  BY <1>11, RestartKeepsSlots
<1>12. CASE UNCHANGED feedVars
  BY <1>1, <1>12 DEF feedVars
<1> QED
  BY <1>4, <1>5, <1>8, <1>9, <1>10, <1>11, <1>12 DEF FeedNext

-----------------------------------------------------------------------------
LEMMA SlotsImply == SlotsExact => CountsBridges
<1> SUFFICES ASSUME SlotsExact PROVE CountsBridges
  OBVIOUS
<1>1. ASSUME NEW k \in Clients
      PROVE  LET n == Cardinality({c \in Conns : /\ conn[c].bridge \in {"dialing", "pumping"}
                                                 /\ Client[conn[c].of] = k})
             IN CountOf(k) = n /\ (k \in DOMAIN perClient <=> n > 0) /\ n <= MaxPerClient
  <2>1. Held(k) = {c \in Conns : conn[c].bridge \in {"dialing", "pumping"} /\ Client[conn[c].of] = k}
    BY DEF Held, Busy
  <2>2. CountOf(k) = Cardinality(Held(k))
    BY DEF SlotsExact
  <2>3. k \in DOMAIN perClient => CountOf(k) \in 1..MaxPerClient
    BY DEF SlotsExact, CountOf
  <2>4. k \notin DOMAIN perClient => CountOf(k) = 0
    BY DEF CountOf
  <2>5. (k \in DOMAIN perClient <=> CountOf(k) > 0) /\ CountOf(k) <= MaxPerClient
    BY <2>3, <2>4, TotalTyped
  <2> QED
    BY <2>1, <2>2, <2>5
<1> QED
  BY <1>1 DEF CountsBridges, SlotsExact

LEMMA EachImplies == OneEach => OneSocketPerSubscription
<1> SUFFICES ASSUME OneEach, NEW v \in Views
             PROVE  Cardinality({c \in Conns : conn[c].of = v /\ conn[c].browser # "closed"})
                      + (IF timer[v] THEN 1 ELSE 0) = IF on[v] THEN 1 ELSE 0
  BY DEF OneSocketPerSubscription
<1> DEFINE sockets == {c \in Conns : conn[c].of = v /\ conn[c].browser # "closed"}
<1>1. \A c, d \in sockets : c = d
  BY DEF OneEach, InBrowser
<1>2. /\ timer[v] => sockets = {} /\ on[v]
      /\ sockets # {} => on[v]
      /\ on[v] => timer[v] \/ sockets # {}
  BY DEF OneEach, InBrowser
<1> HIDE DEF sockets
<1>3. CASE sockets = {}
  <2>1. Cardinality(sockets) = 0
    BY <1>3, FS_EmptySet
  <2> QED
    BY <1>2, <1>3, <2>1 DEF sockets
<1>4. CASE sockets # {}
  <2>1. PICK c \in sockets : sockets = {c}
    BY <1>1, <1>4
  <2>2. Cardinality(sockets) = 1
    BY <2>1, FS_Singleton
  <2> QED
    BY <1>2, <1>4, <2>2 DEF sockets
<1> QED
  BY <1>3, <1>4

\* The inductive invariant of the sockets.
FeedKept == FeedTypeOK /\ DrawnInv /\ OneEach /\ SlotsExact

LEMMA FeedKeptInit == FeedInit => FeedKept
<1> SUFFICES ASSUME FeedInit PROVE FeedKept
  OBVIOUS
<1> USE FeedAssumption DEF FeedParameters, FeedInit
<1>1. Idle \in Connections
  BY DEF Idle, Connections
<1>2. conn \in [Conns -> Connections] /\ \A c \in Conns : conn[c] = Idle
  BY <1>1
<1>3. OthersTyped
  <2>1. <<>> \in Seq(1..MaxPrice) /\ 0 \in 0..MaxFaults /\ 1 \in 1..MaxPrice /\ 0 \in 0..MaxPrice
    BY MaxFaultsAssumption
  <2> QED
    BY <2>1 DEF OthersTyped
<1>4. FeedTypeOK
  BY <1>2, <1>3, TypedParts
<1>5. DrawnInv
  BY DEF DrawnInv, OneChart, DrawnIsOfTheView
<1>6. OneEach
  BY <1>2 DEF OneEach, InBrowser, Idle
<1>7. DOMAIN perClient = {} /\ perClient \in [{} -> 1..MaxPerClient]
  OBVIOUS
<1>8. \A k : CountOf(k) = 0 /\ Held(k) = {}
  BY <1>2, <1>7 DEF CountOf, Held, Busy, Idle
<1>9. \A k : CountOf(k) = Cardinality(Held(k))
  BY <1>8, FS_EmptySet
<1>10. Total = 0 /\ IsFiniteSet({})
  BY <1>7, SumEmpty, FS_EmptySet DEF Total
<1>11. SlotsExact
  BY <1>7, <1>9, <1>10 DEF SlotsExact
<1> QED
  BY <1>4, <1>5, <1>6, <1>11 DEF FeedKept

LEMMA FeedKeptNext == FeedKept /\ [FeedNext]_feedVars => FeedKept'
<1> SUFFICES ASSUME FeedKept, [FeedNext]_feedVars PROVE FeedKept'
  OBVIOUS
<1>1. FeedTypeOK /\ OneChart /\ DrawnInv /\ OneEach /\ SlotsExact
  BY DEF FeedKept, DrawnInv
<1>2. DrawnInv' /\ OneEach' /\ SlotsExact' /\ OthersTyped'
  BY <1>1, DrawnNext, EachNext, SlotsNext, OthersNext
<1>3. FeedTypeOK'
  BY <1>2 DEF FeedTypeOK, OthersTyped, OneEach, Connections, DrawnInv, OneChart
<1> QED
  BY <1>2, <1>3 DEF FeedKept

\* For any number of views, clients and connections, and through every way a socket ends:
\* the gateway's counters are the bridges that hold a slot, within both caps, and a
\* subscription has one socket or one timer, and nothing once it has been cleaned up.
THEOREM SocketsHold == FeedSpec => []SocketsAccounted
<1>1. FeedKept => SocketsAccounted
  BY SlotsImply, EachImplies DEF FeedKept, SocketsAccounted
<1> QED
  BY <1>1, FeedKeptInit, FeedKeptNext, PTL DEF FeedSpec

-----------------------------------------------------------------------------
(* What is behind the gateway's market routes: MarketData *)

\* One copy more, or one less, is a bag of the same messages.
LEMMA BagGrows ==
  ASSUME NEW B, IsABag(B), NEW x
  PROVE  /\ IsABag(BagAdd(B, x)) /\ DOMAIN BagAdd(B, x) = DOMAIN B \cup {x}
         /\ BagAdd(B, x) # EmptyBag
<1>1. IsABag(BagAdd(B, x)) /\ DOMAIN BagAdd(B, x) = DOMAIN B \cup {x}
  <2>1. CASE x \in DOMAIN B
    <3>1. BagAdd(B, x) = [e \in DOMAIN B |-> IF e = x THEN B[e] + 1 ELSE B[e]]
      BY <2>1 DEF BagAdd
    <3>2. \A e \in DOMAIN B : B[e] \in Nat /\ B[e] > 0
      BY DEF IsABag
    <3>3. DOMAIN BagAdd(B, x) = DOMAIN B
      BY <3>1
    <3>4. BagAdd(B, x) \in [DOMAIN B -> {n \in Nat : n > 0}]
      BY <3>1, <3>2
    <3> QED
      BY <2>1, <3>3, <3>4 DEF IsABag
  <2>2. CASE x \notin DOMAIN B
    BY <2>2 DEF IsABag, BagAdd
  <2> QED
    BY <2>1, <2>2
<1>2. DOMAIN EmptyBag = {}
  BY DEF EmptyBag, SetToBag
<1> QED
  BY <1>1, <1>2

LEMMA BagShrinks ==
  ASSUME NEW B, IsABag(B), NEW x
  PROVE  /\ IsABag(BagRemove(B, x)) /\ DOMAIN BagRemove(B, x) \subseteq DOMAIN B
<1>1. CASE x \in DOMAIN B /\ B[x] = 1
  BY <1>1 DEF IsABag, BagRemove
<1>2. CASE x \in DOMAIN B /\ B[x] # 1
  BY <1>2 DEF IsABag, BagRemove
<1>3. CASE x \notin DOMAIN B
  BY <1>3 DEF IsABag, BagRemove
<1> QED
  BY <1>1, <1>2, <1>3

-----------------------------------------------------------------------------
\* A task at work has a message, the task with the outstanding delivery is at work, and
\* what a task is about to show is committed.
AtWork ==
  /\ \A t \in Tasks : step[t] # "idle" => msg[t] \in Msgs
  /\ current # NoTask => step[current] # "idle"
  /\ \A t \in Tasks : step[t] \in {"set_last", "set_quote", "tick", "ack"} => Trade(t) \in rows

Shown == ShownIsDurable /\ AtWork

\* What the state must be for the type of the queue, and of the tasks, to be right.
Queue == IsABag(waiting) /\ DOMAIN waiting \subseteq Msgs

LEMMA QueueTakesBack == Shown => IsABag(TakenBack) /\ DOMAIN TakenBack \subseteq Msgs
<1> SUFFICES ASSUME Shown PROVE IsABag(TakenBack) /\ DOMAIN TakenBack \subseteq Msgs
  OBVIOUS
<1>1. IsABag(waiting) /\ DOMAIN waiting \subseteq Msgs /\ current \in Tasks \cup {NoTask}
  BY DEF Shown, ShownIsDurable, MarketTypeOK
<1>2. CASE current = NoTask
  BY <1>1, <1>2 DEF TakenBack
<1>3. CASE current # NoTask
  <2>1. msg[current] \in Msgs
    BY <1>1, <1>3 DEF Shown, AtWork
  <2>2. IsABag(TakenBack) /\ DOMAIN TakenBack \subseteq Msgs
    <3>1. TakenBack = BagAdd(waiting, msg[current])
      BY <1>3 DEF TakenBack
    <3>2. /\ IsABag(BagAdd(waiting, msg[current]))
          /\ DOMAIN BagAdd(waiting, msg[current]) = DOMAIN waiting \cup {msg[current]}
      BY <1>1, BagGrows
    <3> QED
      BY <1>1, <2>1, <3>1, <3>2
  <2> QED
    BY <2>2
<1> QED
  BY <1>2, <1>3

LEMMA QueueCopies ==
  ASSUME Shown, NEW m \in Msgs, CopyOnward(m)
  PROVE  Queue' /\ abandoned' \in BOOLEAN
<1>1. Queue /\ abandoned \in BOOLEAN
  BY DEF Shown, ShownIsDurable, MarketTypeOK, Queue
<1>2. CASE Exhausted(m)
  BY <1>1, <1>2 DEF CopyOnward, Queue
<1>3. CASE ~ Exhausted(m)
  <2> DEFINE n == [m EXCEPT !.attempts = @ + 1]
  <2>1. n \in Msgs
    BY <1>3, MarketAssumption DEF Msgs, Exhausted
  <2>2. waiting' = BagAdd(waiting, n) /\ UNCHANGED abandoned
    BY <1>3 DEF CopyOnward
  <2> HIDE DEF n
  <2>3. IsABag(waiting) /\ DOMAIN waiting \subseteq Msgs
    BY <1>1 DEF Queue
  <2>4. IsABag(BagAdd(waiting, n)) /\ DOMAIN BagAdd(waiting, n) = DOMAIN waiting \cup {n}
    BY <2>3, BagGrows
  <2> QED
    BY <2>2, <2>4, <2>1, <1>1 DEF Queue
<1> QED
  BY <1>2, <1>3

LEMMA ShownNext == Shown /\ [MarketNext]_marketVars => Shown'
<1> SUFFICES ASSUME Shown, [MarketNext]_marketVars PROVE Shown'
  OBVIOUS
<1> USE DEF Shown, ShownIsDurable, MarketTypeOK, NothingShownBeforeCommit, AtWork, Trade,
        tasks, db, cache, Goto, End, PCs, Queue
<1>a. NoTask \notin Tasks /\ MaxFaults \in Nat
  BY MarketAssumption, MaxFaultsAssumption
<1>f. Fault => faults' \in 0..MaxFaults
  BY <1>a DEF Fault
<1>1. ASSUME NEW t \in Tasks, NEW m \in Msgs, Deliver(t, m) PROVE Shown'
  <2>1. Queue'
    BY <1>1, BagShrinks DEF Deliver
  <2> QED
    BY <1>1, <2>1, <1>a DEF Deliver
<1>2. ASSUME NEW t \in Tasks, HandlerStep(t) PROVE Shown'
  <2>1. CASE Commit(t)
    BY <2>1 DEF Commit, Msgs
  <2>2. CASE SetLastPrice(t)
    BY <2>2 DEF SetLastPrice
  <2>3. CASE SetQuote(t)
    BY <2>3 DEF SetQuote
  <2>4. CASE PublishTick(t)
    BY <2>4 DEF PublishTick
  <2>5. CASE Ack(t)
    BY <2>5, <1>a DEF Ack
  <2>6. CASE Raise(t)
    <3>1. Queue' /\ abandoned' \in BOOLEAN
      BY <2>6, QueueCopies DEF Raise
    <3> QED
      BY <2>6, <3>1, <1>a, <1>f DEF Raise
  <2>7. CASE StaleAck(t)
    <3>1. Queue' /\ abandoned' \in BOOLEAN
      BY <2>7, QueueCopies DEF StaleAck
    <3> QED
      BY <2>7, <3>1, <1>a DEF StaleAck
  <2>8. CASE StrayLost(t)
    BY <2>8, <1>f DEF StrayLost
  <2> QED
    BY <1>2, <2>1, <2>2, <2>3, <2>4, <2>5, <2>6, <2>7, <2>8 DEF HandlerStep
<1>3. CASE ConnectionDrops
  <2>1. Queue'
    BY <1>3, QueueTakesBack DEF ConnectionDrops
  <2> QED
    BY <1>3, <2>1, <1>f DEF ConnectionDrops
<1>4. CASE Crash
  <2>1. Queue'
    BY <1>4, QueueTakesBack DEF Crash
  <2> QED
    BY <1>4, <2>1, <1>f DEF Crash
<1>5. CASE WarmUp
  BY <1>5 DEF WarmUp
<1>6. CASE RedisLoses
  BY <1>6, <1>f DEF RedisLoses
<1>7. CASE UNCHANGED marketVars
  BY <1>7 DEF marketVars
<1> QED
  BY <1>1, <1>2, <1>3, <1>4, <1>5, <1>6, <1>7 DEF MarketNext

LEMMA ShownInit == MarketInit => Shown
<1> SUFFICES ASSUME MarketInit PROVE Shown
  OBVIOUS
<1>1. IsABag(waiting) /\ DOMAIN waiting \subseteq Msgs
  BY MarketAssumption DEF MarketInit, IsABag, SetToBag, Msgs
<1> QED
  BY <1>1, MaxFaultsAssumption, 0 \in 0..MaxFaults DEF MarketInit, Shown, ShownIsDurable, MarketTypeOK,
    NothingShownBeforeCommit, AtWork, PCs

\* No quote, board or chart shows a trade that no transaction has committed: a task shows
\* only what it has itself committed, whatever fails, is retried or is killed between.
THEOREM ShownHolds == MarketSpec => []ShownIsDurable
<1>1. Shown => ShownIsDurable
  BY DEF Shown
<1> QED
  BY <1>1, ShownInit, ShownNext, PTL DEF MarketSpec

-----------------------------------------------------------------------------
\* The greatest and the least of a set that has one.
LEMMA MaxIs ==
  ASSUME NEW S, NEW a \in S, \A b \in S : b \in Int /\ a >= b
  PROVE  Max(S) = a
<1>1. Max(S) \in S /\ \A b \in S : Max(S) >= b
  BY DEF Max
<1> QED
  BY <1>1

LEMMA MinIs ==
  ASSUME NEW S, NEW a \in S, \A b \in S : b \in Int /\ a <= b
  PROVE  Min(S) = a
<1>1. Min(S) \in S /\ \A b \in S : Min(S) <= b
  BY DEF Min
<1> QED
  BY <1>1

\* What is kept of a candle c of the trades S: its high and low are exact, it opens and
\* closes at prices of S and misses no volume; when the trades came once and in order it
\* opens with the earliest, closes with the latest and counts each once.
PricesOf(S) == {Price[x] : x \in S}
Fits(c, S, ordered) ==
  /\ c = [open |-> c.open, high |-> c.high, low |-> c.low, close |-> c.close, volume |-> c.volume]
  /\ {c.open, c.high, c.low, c.close} \subseteq PricesOf(S)
  /\ \A x \in S : c.low <= Price[x] /\ Price[x] <= c.high
  /\ c.volume \in Nat /\ c.volume >= SumFunctionOnSet(Quantity, S)
  /\ ordered =>
       /\ c.volume = SumFunctionOnSet(Quantity, S)
       /\ \E x \in S : c.open = Price[x] /\ \A y \in S : At[x] <= At[y]
       /\ \E x \in S : c.close = Price[x] /\ \A y \in S : At[y] <= At[x]

LEMMA NewFits ==
  ASSUME NEW x \in Trades, NEW ordered \in BOOLEAN
  PROVE  Fits(NewCandle(x), {x}, ordered)
<1>1. Price[x] \in Nat /\ Quantity[x] \in Nat /\ At[x] \in Nat
  BY TradeAssumption
<1>2. SumFunctionOnSet(Quantity, {x}) = Quantity[x]
  <2>1. SumFunctionOnSet(Quantity, {} \cup {x}) = Quantity[x] + SumFunctionOnSet(Quantity, {})
    <3>1. IsFiniteSet({}) /\ x \notin {} /\ \A y \in {} \cup {x} : Quantity[y] \in Int
      BY <1>1, FS_EmptySet
    <3> QED
      BY ONLY <3>1, SumAdd
  <2>2. {} \cup {x} = {x}
    OBVIOUS
  <2> QED
    BY <1>1, <2>1, <2>2, SumEmpty
<1> QED
  BY <1>1, <1>2 DEF Fits, NewCandle, PricesOf

LEMMA UpdatedFits ==
  ASSUME NEW S \in SUBSET Trades, IsFiniteSet(S), NEW c, NEW x \in Trades,
         NEW before \in BOOLEAN, NEW after \in BOOLEAN, Fits(c, S, before),
         after => before /\ \A y \in S : At[y] < At[x]
  PROVE  Fits([open |-> c.open, high |-> Max({c.high, Price[x]}), low |-> Min({c.low, Price[x]}),
               close |-> Price[x], volume |-> c.volume + Quantity[x]], S \cup {x}, after)
<1> DEFINE h == Max({c.high, Price[x]})
           l == Min({c.low, Price[x]})
           d == [open |-> c.open, high |-> h, low |-> l, close |-> Price[x],
                 volume |-> c.volume + Quantity[x]]
           sum == SumFunctionOnSet(Quantity, S)
           more == SumFunctionOnSet(Quantity, S \cup {x})
<1>1. /\ \A y \in Trades : Price[y] \in Nat /\ Quantity[y] \in Nat /\ At[y] \in Nat
  BY TradeAssumption
<1>2. {c.open, c.high, c.low, c.close} \subseteq PricesOf(S) /\ c.volume \in Nat /\ c.volume >= sum
  BY DEF Fits
<1>3. c.high \in Nat /\ c.low \in Nat /\ c.open \in Nat
  BY <1>1, <1>2 DEF PricesOf
<1>4. h \in {c.high, Price[x]} /\ c.high <= h /\ Price[x] <= h
  BY <1>1, <1>3 DEF Max
<1>5. l \in {c.low, Price[x]} /\ l <= c.low /\ l <= Price[x]
  BY <1>1, <1>3 DEF Min
<1>6. sum \in Nat
  BY <1>1, SumNat
<1>7. more <= sum + Quantity[x] /\ (x \notin S => more = sum + Quantity[x])
  <2>1. CASE x \in S
    <3>1. S \cup {x} = S
      BY <2>1
    <3> HIDE DEF sum
    <3>2. more = sum
      BY <3>1 DEF sum
    <3> HIDE DEF more
    <3> QED
      BY <2>1, <3>2, <1>1, <1>6
  <2>2. CASE x \notin S
    <3>1. more = Quantity[x] + sum
      BY <2>2, <1>1, SumAdd
    <3> HIDE DEF sum, more
    <3> QED
      BY <3>1, <1>1, <1>6
  <2> QED
    BY <2>1, <2>2
<1> HIDE DEF h, l, sum, more
<1>8. {d.open, d.high, d.low, d.close} \subseteq PricesOf(S \cup {x})
  BY <1>2, <1>4, <1>5 DEF PricesOf
<1>9. \A y \in S \cup {x} : d.low <= Price[y] /\ Price[y] <= d.high
  <2>1. \A y \in S : c.low <= Price[y] /\ Price[y] <= c.high
    BY DEF Fits
  <2>2. h \in Nat /\ l \in Nat
    BY <1>1, <1>3, <1>4, <1>5
  <2> QED
    BY <1>1, <1>3, <1>4, <1>5, <2>1, <2>2
<1>10. more \in Nat
  <2>1. IsFiniteSet(S \cup {x}) /\ \A y \in S \cup {x} : Quantity[y] \in Nat
    BY <1>1, FS_AddElement
  <2> QED
    BY ONLY <2>1, SumNat DEF more
<1>11. d.volume \in Nat /\ d.volume >= more
  BY <1>1, <1>2, <1>6, <1>7, <1>10
<1>12. ASSUME after
       PROVE  /\ d.volume = more
              /\ \E y \in S \cup {x} : d.open = Price[y] /\ \A z \in S \cup {x} : At[y] <= At[z]
              /\ \E y \in S \cup {x} : d.close = Price[y] /\ \A z \in S \cup {x} : At[z] <= At[y]
  <2>1. x \notin S /\ before /\ \A y \in S : At[y] < At[x]
    BY <1>12, <1>1
  <2>2. c.volume = sum
    BY <2>1 DEF Fits, sum
  <2>3. PICK y \in S : c.open = Price[y] /\ \A z \in S : At[y] <= At[z]
    BY <2>1 DEF Fits
  <2>4. d.volume = more
    BY <2>1, <2>2, <1>7, <1>1, <1>6
  <2>5. \E z \in S \cup {x} : d.open = Price[z] /\ \A u \in S \cup {x} : At[z] <= At[u]
    BY <2>1, <2>3, <1>1
  <2>6. \A z \in S \cup {x} : At[z] <= At[x]
    BY <2>1, <1>1
  <2> QED
    BY <2>4, <2>5, <2>6
<1>13. d = [open |-> d.open, high |-> d.high, low |-> d.low, close |-> d.close, volume |-> d.volume]
  OBVIOUS
<1>14. Fits(d, S \cup {x}, after)
  <2> HIDE DEF d
  <2> QED
    BY <1>8, <1>9, <1>11, <1>12, <1>13 DEF Fits, more
<1> QED
  BY <1>14 DEF h, l

\* A candle that fits trades of different moments is the candle of the definition.
LEMMA FitsReference ==
  ASSUME NEW S \in SUBSET Trades, NEW c, NEW ordered \in BOOLEAN, Fits(c, S, ordered),
         ordered => \A x, y \in S : At[x] = At[y] => x = y
  PROVE  /\ c.high = Reference(S).high /\ c.low = Reference(S).low
         /\ c.volume >= Reference(S).volume
         /\ {c.open, c.close} \subseteq PricesOf(S)
         /\ ordered => c = Reference(S)
<1>1. \A y \in S : Price[y] \in Nat /\ At[y] \in Nat
  BY TradeAssumption
<1>2. Max(PricesOf(S)) = c.high
  <2>1. c.high \in PricesOf(S) /\ \A b \in PricesOf(S) : b \in Int /\ c.high >= b
    BY <1>1 DEF PricesOf, Fits
  <2> QED
    BY <2>1, MaxIs
<1>3. Min(PricesOf(S)) = c.low
  <2>1. c.low \in PricesOf(S) /\ \A b \in PricesOf(S) : b \in Int /\ c.low <= b
    BY <1>1 DEF PricesOf, Fits
  <2> QED
    BY <2>1, MinIs
<1> DEFINE first == CHOOSE x \in S : \A y \in S : At[x] <= At[y]
           last == CHOOSE x \in S : \A y \in S : At[y] <= At[x]
<1>4. Reference(S) = [open |-> Price[first], high |-> c.high, low |-> c.low, close |-> Price[last],
                      volume |-> SumFunctionOnSet(Quantity, S)]
  BY <1>2, <1>3 DEF Reference, PricesOf
<1>5. ASSUME ordered PROVE c.open = Price[first] /\ c.close = Price[last]
  <2>1. PICK x \in S : c.open = Price[x] /\ \A y \in S : At[x] <= At[y]
    BY <1>5 DEF Fits
  <2>2. PICK z \in S : c.close = Price[z] /\ \A y \in S : At[y] <= At[z]
    BY <1>5 DEF Fits
  <2>3. first \in S /\ \A y \in S : At[first] <= At[y]
    BY <2>1
  <2>4. last \in S /\ \A y \in S : At[y] <= At[last]
    BY <2>2
  <2> HIDE DEF first, last
  <2>5. At[x] = At[first] /\ At[z] = At[last]
    BY <2>1, <2>2, <2>3, <2>4, <1>1
  <2> QED
    BY <2>1, <2>2, <2>3, <2>4, <2>5, <1>5
<1> HIDE DEF first, last
<1> QED
  BY <1>4, <1>5 DEF Fits

-----------------------------------------------------------------------------
\* The rows are finite, each candle fits the trades of its bucket, the candle of the last
\* commit closes at its price, and rows that came in order are of different moments.
CandlesKept ==
  /\ IsFiniteSet(rows) /\ rows \subseteq Trades /\ inOrder \in BOOLEAN
  /\ candles = [w \in Widths |-> candles[w]]
  /\ rows # {} => lastCommit \in rows
  /\ inOrder => /\ \A x, y \in rows : At[x] = At[y] => x = y
                /\ \A x \in rows : At[x] <= At[lastCommit]
  /\ \A w \in Widths :
       /\ BucketsOf(w) = {FloorBucket(At[x], w) : x \in rows}
       /\ \A b \in BucketsOf(w) : Fits(candles[w][b], InBucket(w, b), inOrder)
       /\ rows # {} => candles[w][FloorBucket(At[lastCommit], w)].close = Price[lastCommit]

LEMMA CandlesInit == MarketInit => CandlesKept
  BY FS_EmptySet DEF MarketInit, CandlesKept, BucketsOf

LEMMA CommitKeepsCandles ==
  ASSUME Shown, CandlesKept, NEW t \in Tasks, Commit(t)
  PROVE  CandlesKept'
<1>1. PICK x \in Trades : x = Trade(t)
  BY DEF Shown, AtWork, Commit, Msgs, Trade
<1>2. /\ rows' = rows \cup {x} /\ candles' = [w \in Widths |-> WithTrade(w, x)] /\ lastCommit' = x
      /\ inOrder' = (inOrder /\ \A y \in rows : At[y] < At[x])
  BY <1>1 DEF Commit
<1>3. \A y \in Trades : At[y] \in Nat /\ Price[y] \in Nat
  BY TradeAssumption
<1>4. IsFiniteSet(rows') /\ rows' \subseteq Trades /\ inOrder' \in BOOLEAN
  BY <1>2, FS_AddElement DEF CandlesKept
<1>5. ASSUME inOrder'
      PROVE  /\ \A y, z \in rows' : At[y] = At[z] => y = z
             /\ \A y \in rows' : At[y] <= At[x]
  <2>1. inOrder /\ \A y \in rows : At[y] < At[x]
    BY <1>5, <1>2
  <2>2. \A y, z \in rows : At[y] = At[z] => y = z
    BY <2>1 DEF CandlesKept
  <2> QED
    BY <2>1, <2>2, <1>2, <1>3, <1>4
<1>6. ASSUME NEW w \in Widths
      PROVE  /\ BucketsOf(w)' = {FloorBucket(At[y], w) : y \in rows'}
             /\ \A b \in BucketsOf(w)' : Fits(candles'[w][b], InBucket(w, b)', inOrder')
             /\ candles'[w][FloorBucket(At[x], w)].close = Price[x]
  <2> DEFINE b0 == FloorBucket(At[x], w)
  <2>1. candles'[w] = [d \in BucketsOf(w) \cup {b0} |->
                        IF d = b0 THEN UpsertCandle(w, b0, x) ELSE candles[w][d]]
    BY <1>2 DEF WithTrade
  <2>2. /\ DOMAIN candles'[w] = BucketsOf(w) \cup {b0}
        /\ candles'[w][b0] = UpsertCandle(w, b0, x)
        /\ \A b \in BucketsOf(w) : b # b0 => candles'[w][b] = candles[w][b]
    <3> HIDE DEF b0
    <3> QED
      BY <2>1 DEF BucketsOf
  <2>3. BucketsOf(w) = {FloorBucket(At[y], w) : y \in rows}
    BY DEF CandlesKept
  <2>4. BucketsOf(w)' = {FloorBucket(At[y], w) : y \in rows'}
    BY <2>2, <2>3, <1>2 DEF BucketsOf
  <2>5. ASSUME NEW b \in BucketsOf(w), b # b0
        PROVE  Fits(candles'[w][b], InBucket(w, b)', inOrder')
    <3>1. InBucket(w, b)' = InBucket(w, b)
      BY <2>5, <1>2 DEF InBucket
    <3>2. Fits(candles[w][b], InBucket(w, b), inOrder) /\ (inOrder' => inOrder)
      BY <2>5, <1>2 DEF CandlesKept
    <3>3. candles'[w][b] = candles[w][b]
      BY <2>2, <2>5
    <3> QED
      BY <3>1, <3>2, <3>3 DEF Fits
  <2>6. /\ Fits(candles'[w][b0], InBucket(w, b0)', inOrder')
        /\ candles'[w][b0].close = Price[x]
    <3>1. CASE b0 \in BucketsOf(w)
      <4>1. PICK c : c = candles[w][b0]
        OBVIOUS
      <4>2. PICK S : S = InBucket(w, b0)
        OBVIOUS
      <4>3. InBucket(w, b0)' = S \cup {x}
        BY <4>2, <1>2 DEF InBucket
      <4>4. S \in SUBSET Trades /\ IsFiniteSet(S) /\ S \subseteq rows
        BY <4>2, FS_Subset DEF InBucket, CandlesKept
      <4>5. Fits(c, S, inOrder)
        BY <3>1, <4>1, <4>2 DEF CandlesKept
      <4>6. UpsertCandle(w, b0, x)
              = [open |-> c.open, high |-> Max({c.high, Price[x]}), low |-> Min({c.low, Price[x]}),
                 close |-> Price[x], volume |-> c.volume + Quantity[x]]
        BY <3>1, <4>1 DEF UpsertCandle
      <4>7. inOrder \in BOOLEAN /\ inOrder' \in BOOLEAN
            /\ (inOrder' => inOrder /\ \A y \in S : At[y] < At[x])
        BY <1>2, <4>4 DEF CandlesKept
      <4>8. Fits(UpsertCandle(w, b0, x), S \cup {x}, inOrder')
        BY ONLY <4>4, <4>5, <4>6, <4>7, x \in Trades, UpdatedFits
      <4>9. UpsertCandle(w, b0, x).close = Price[x]
        BY <4>6
      <4> HIDE DEF b0
      <4> QED
        BY <2>2, <4>3, <4>8, <4>9
    <3>2. CASE b0 \notin BucketsOf(w)
      <4>1. InBucket(w, b0)' = {x}
        BY <3>2, <2>3, <1>2 DEF InBucket
      <4>2. UpsertCandle(w, b0, x) = NewCandle(x) /\ NewCandle(x).close = Price[x]
        BY <3>2 DEF UpsertCandle, NewCandle
      <4>3. Fits(NewCandle(x), {x}, inOrder')
        BY <1>4, NewFits
      <4> HIDE DEF b0
      <4> QED
        BY <2>2, <4>1, <4>2, <4>3
    <3> QED
      BY <3>1, <3>2
  <2>7. BucketsOf(w)' = BucketsOf(w) \cup {b0}
    BY <2>2 DEF BucketsOf
  <2> HIDE DEF b0
  <2>8. \A b \in BucketsOf(w)' : Fits(candles'[w][b], InBucket(w, b)', inOrder')
    BY <2>5, <2>6, <2>7
  <2> QED
    BY <2>4, <2>6, <2>8 DEF b0
<1>7. candles' = [w \in Widths |-> candles'[w]]
  BY <1>2
<1> QED
  BY <1>2, <1>4, <1>5, <1>6, <1>7 DEF CandlesKept

LEMMA CandlesNext == Shown /\ CandlesKept /\ [MarketNext]_marketVars => CandlesKept'
<1> SUFFICES ASSUME Shown, CandlesKept, [MarketNext]_marketVars PROVE CandlesKept'
  OBVIOUS
<1>1. ASSUME UNCHANGED db PROVE CandlesKept'
  BY <1>1 DEF db, CandlesKept, BucketsOf, InBucket
<1>2. ASSUME NEW t \in Tasks, HandlerStep(t) PROVE UNCHANGED db \/ Commit(t)
  BY <1>2 DEF HandlerStep, SetLastPrice, SetQuote, PublishTick, Ack, Raise, StaleAck, StrayLost
<1>3. ASSUME NEW t \in Tasks, HandlerStep(t) PROVE CandlesKept'
  BY <1>1, <1>2, <1>3, CommitKeepsCandles
<1>4. ASSUME NEW t \in Tasks, NEW m \in Msgs, Deliver(t, m) PROVE UNCHANGED db
  BY <1>4 DEF Deliver
<1>5. ASSUME ConnectionDrops \/ Crash \/ WarmUp \/ RedisLoses \/ UNCHANGED marketVars
      PROVE  UNCHANGED db
  BY <1>5 DEF ConnectionDrops, Crash, WarmUp, RedisLoses, marketVars
<1> QED
  BY <1>1, <1>3, <1>4, <1>5 DEF MarketNext

LEMMA CandlesImply == CandlesKept => CandlesMatchTrades
<1> SUFFICES ASSUME CandlesKept, NEW w \in Widths, NEW b \in BucketsOf(w)
             PROVE  LET c == candles[w][b]
                        ref == Reference(InBucket(w, b))
                    IN /\ c.high = ref.high /\ c.low = ref.low /\ c.volume >= ref.volume
                       /\ {c.open, c.close} \subseteq {Price[x] : x \in InBucket(w, b)}
                       /\ inOrder => c = ref
  BY DEF CandlesKept, CandlesMatchTrades
<1>1. PICK c : c = candles[w][b]
  OBVIOUS
<1>2. PICK S : S = InBucket(w, b)
  OBVIOUS
<1>3. /\ S \in SUBSET Trades /\ inOrder \in BOOLEAN /\ Fits(c, S, inOrder)
      /\ (inOrder => \A x, y \in S : At[x] = At[y] => x = y)
  BY <1>1, <1>2 DEF CandlesKept, InBucket
<1>4. /\ c.high = Reference(S).high /\ c.low = Reference(S).low
      /\ c.volume >= Reference(S).volume
      /\ {c.open, c.close} \subseteq PricesOf(S)
      /\ inOrder => c = Reference(S)
  BY ONLY <1>3, FitsReference
<1> QED
  BY <1>1, <1>2, <1>4 DEF PricesOf

\* The candles agree with the trades table however often and in whatever order the trades
\* of the symbol are delivered, however many there are and whatever the intervals.
THEOREM CandlesHold == MarketSpec => []CandlesMatchTrades
  BY CandlesInit, CandlesNext, CandlesImply, ShownInit, ShownNext, PTL DEF MarketSpec

-----------------------------------------------------------------------------
\* Work is outstanding: a message that comes back, a handler whose channel has closed, a
\* commit to come.
Pending ==
  \/ waiting # EmptyBag
  \/ \E t \in Tasks : step[t] # "idle" /\ current # t
  \/ \E t \in Tasks : step[t] = "commit"

\* The last commit is shown, or the one task at work is about to show it.
Followed ==
  /\ current = NoTask => lastPrice = Price[lastCommit] /\ quote = lastCommit
  /\ current # NoTask =>
       /\ Trade(current) = lastCommit
       /\ step[current] \in {"set_quote", "tick", "ack"} => lastPrice = Price[lastCommit]
       /\ step[current] \in {"tick", "ack"} => quote = lastCommit

Fresh ==
  /\ ~ serving => current = NoTask
  /\ rows # {} /\ ~ abandoned /\ ~ flushed => Pending \/ Followed

\* An attempt that fails has a successor or is abandoned.
LEMMA CopyIsPending ==
  ASSUME Shown, NEW m, CopyOnward(m)
  PROVE  abandoned' \/ waiting' # EmptyBag
<1>1. CASE Exhausted(m)
  BY <1>1 DEF CopyOnward
<1>2. CASE ~ Exhausted(m)
  <2>1. waiting' = BagAdd(waiting, [m EXCEPT !.attempts = @ + 1]) /\ IsABag(waiting)
    BY <1>2 DEF CopyOnward, Shown, ShownIsDurable, MarketTypeOK
  <2>2. PICK n : n = [m EXCEPT !.attempts = @ + 1]
    OBVIOUS
  <2>3. BagAdd(waiting, n) # EmptyBag
    BY <2>1, BagGrows
  <2> QED
    BY <2>1, <2>2, <2>3
<1> QED
  BY <1>1, <1>2

LEMMA TakenBackIsPending ==
  ASSUME Shown, current # NoTask
  PROVE  TakenBack # EmptyBag
<1>1. IsABag(waiting)
  BY DEF Shown, ShownIsDurable, MarketTypeOK
<1>2. TakenBack = BagAdd(waiting, msg[current])
  BY DEF TakenBack
<1> QED
  BY <1>1, <1>2, BagGrows

LEMMA FreshNext == Shown /\ CandlesKept /\ Fresh /\ [MarketNext]_marketVars => Fresh'
<1> SUFFICES ASSUME Shown, CandlesKept, Fresh, [MarketNext]_marketVars PROVE Fresh'
  OBVIOUS
<1> USE DEF Fresh, Pending, Followed, Trade, tasks, db, cache, Goto, End
<1>1. /\ step \in [Tasks -> PCs] /\ msg \in [Tasks -> Msgs \cup {NoMsg}]
      /\ current \in Tasks \cup {NoTask} /\ NoTask \notin Tasks
      /\ (current # NoTask => step[current] # "idle")
      /\ \A t \in Tasks : step[t] # "idle" => msg[t] \in Msgs
  BY MarketAssumption DEF Shown, ShownIsDurable, MarketTypeOK, AtWork
<1>2. ASSUME NEW t \in Tasks, NEW m \in Msgs, Deliver(t, m) PROVE Fresh'
  BY <1>1, <1>2 DEF Deliver
<1>3. ASSUME NEW t \in Tasks, HandlerStep(t) PROVE Fresh'
  <2>1. CASE Commit(t)
    <3>1. CASE current = t
      BY <1>1, <2>1, <3>1 DEF Commit
    <3>2. CASE current # t
      BY <1>1, <2>1, <3>2 DEF Commit
    <3> QED
      BY <3>1, <3>2
  <2>2. CASE SetLastPrice(t)
    BY <1>1, <2>2 DEF SetLastPrice
  <2>3. CASE SetQuote(t)
    BY <1>1, <2>3 DEF SetQuote
  <2>4. CASE PublishTick(t)
    BY <1>1, <2>4 DEF PublishTick
  <2>5. CASE Ack(t)
    BY <1>1, <2>5 DEF Ack
  <2>6. CASE Raise(t)
    <3>1. abandoned' \/ waiting' # EmptyBag
      BY <2>6, CopyIsPending DEF Raise
    <3>2. (~ serving' => current' = NoTask) /\ UNCHANGED <<flushed>>
      BY <2>6 DEF Raise
    <3> QED
      BY <3>1, <3>2
  <2>7. CASE StaleAck(t)
    <3>1. abandoned' \/ waiting' # EmptyBag
      BY <2>7, CopyIsPending DEF StaleAck
    <3>2. ~ serving' => current' = NoTask
      BY <2>7 DEF StaleAck
    <3> QED
      BY <3>1, <3>2
  <2>8. CASE StrayLost(t)
    BY <2>8 DEF StrayLost
  <2> QED
    BY <1>3, <2>1, <2>2, <2>3, <2>4, <2>5, <2>6, <2>7, <2>8 DEF HandlerStep
<1>4. CASE ConnectionDrops
  <2>1. waiting' # EmptyBag /\ current' = NoTask
    BY <1>4, TakenBackIsPending DEF ConnectionDrops
  <2> QED
    BY <2>1
<1>5. CASE Crash
  <2>1. current' = NoTask /\ waiting' = TakenBack
    BY <1>5 DEF Crash
  <2>2. CASE current # NoTask
    BY <2>1, <2>2, TakenBackIsPending
  <2>3. CASE current = NoTask
    <3>1. waiting' = waiting
      BY <2>1, <2>3 DEF TakenBack
    <3>2. ~ abandoned' => ~ abandoned /\ \A t \in Tasks : step[t] = "idle"
      BY <1>1, <1>5, <2>3 DEF Crash
    <3>3. UNCHANGED <<rows, lastCommit, lastPrice, quote, flushed>>
      BY <1>5 DEF Crash
    <3> QED
      BY <2>1, <2>3, <3>1, <3>2, <3>3
  <2> QED
    BY <2>2, <2>3
<1>6. CASE WarmUp
  <2>1. ~ serving /\ serving' /\ current = NoTask /\ UNCHANGED <<waiting, tasks, db, quote, abandoned, flushed>>
    BY <1>6 DEF WarmUp
  <2>2. CASE lastPrice # None
    BY <1>6, <2>1, <2>2 DEF WarmUp
  <2>3. CASE lastPrice = None
    <3>1. rows # {} => Price[lastCommit] # None
      BY MarketAssumption, TradeAssumption DEF CandlesKept
    <3> QED
      BY <2>1, <2>3, <3>1
  <2> QED
    BY <2>2, <2>3
<1>7. CASE RedisLoses
  BY <1>7 DEF RedisLoses
<1>8. CASE UNCHANGED marketVars
  BY <1>8 DEF marketVars
<1> QED
  BY <1>2, <1>3, <1>4, <1>5, <1>6, <1>7, <1>8 DEF MarketNext

\* A set of numbers that is not empty has a least element.
LEMMA LeastIs ==
  ASSUME NEW S \in SUBSET Nat, S # {}
  PROVE  Min(S) \in S /\ \A m \in S : Min(S) <= m
<1>1. PICK N \in S : TRUE
  OBVIOUS
<1> DEFINE T == {0..m : m \in S}
           I == 0..N
           C == {s \in T : s \subseteq I}
<1>2. I \in C
  BY <1>1, Zenon
<1>3. IsFiniteSet(I) /\ C \subseteq SUBSET I /\ C # {}
  <2>1. IsFiniteSet(0..N)
    BY <1>1, FS_Interval
  <2> QED
    BY <1>2, <2>1
<1> HIDE DEF C, I
<1>4. PICK s \in C : \A t \in C : ~ (t \subseteq s /\ t # s)
  BY <1>3, LeastSubset
<1>5. PICK n \in S : s = 0..n
  BY <1>4 DEF C
<1>6. ASSUME NEW m \in S, ~ (n <= m)
      PROVE  FALSE
  <2>1. n \in Nat /\ m \in Nat /\ m < n
    BY <1>6
  <2>2. 0..m \subseteq 0..n /\ n \in 0..n /\ n \notin 0..m
    BY <2>1
  <2>3. 0..m \in C
    BY <2>2, <1>4, <1>5 DEF C, T
  <2> QED
    BY <2>2, <2>3, <1>4, <1>5
<1>7. Min(S) = n
  <2>1. \A b \in S : b \in Int /\ n <= b
    BY <1>6
  <2> QED
    BY <2>1, MinIs
<1> QED
  BY <1>6, <1>7

\* A later moment is in no earlier interval.
LEMMA FloorMonotone ==
  ASSUME NEW w \in Nat \ {0}, NEW a \in Nat, NEW b \in Nat, a <= b
  PROVE  FloorBucket(a, w) \in Nat /\ FloorBucket(b, w) \in Nat /\ FloorBucket(a, w) <= FloorBucket(b, w)
<1>1. a \div w \in Nat /\ b \div w \in Nat /\ a \div w <= b \div w
  BY SMTT(20)
<1>2. \A p, q, r \in Nat : p <= q => p * r <= q * r /\ p * r \in Nat
  BY SMTT(20)
<1> QED
  BY <1>1, <1>2 DEF FloorBucket

\* The change and the volume that the board shows are those of the trades of today's
\* short intervals, when the trades came once and in order.
LEMMA BoardAgrees ==
  ASSUME CandlesKept, inOrder, NEW when \in Nat, NEW today,
         today = {x \in rows : FloorBucket(At[x], Min(Widths)) >= when - Day}, today # {}
  PROVE  /\ Board(when).change = Board(when).last - Reference(today).open
         /\ Board(when).volume = Reference(today).volume
<1> DEFINE w == Min(Widths)
           B == {b \in BucketsOf(w) : b >= when - Day}
           k == [x \in rows |-> FloorBucket(At[x], w)]
<1>1. w \in Widths /\ w \in Nat \ {0} /\ Day \in Nat
  BY LeastIs, MarketAssumption
<1> HIDE DEF w
<1>2. BucketsOf(w) = {k[x] : x \in rows} /\ rows \subseteq Trades /\ IsFiniteSet(rows)
  BY <1>1 DEF CandlesKept
<1>3. \A x \in rows : At[x] \in Nat /\ Price[x] \in Nat /\ Quantity[x] \in Nat /\ k[x] \in Nat
  BY <1>1, <1>2, TradeAssumption, FloorMonotone
<1>4. \A x \in rows : \A y \in rows : At[x] <= At[y] => k[x] <= k[y]
  BY <1>1, <1>3, FloorMonotone
<1>5. today = {x \in rows : k[x] \in B} /\ today = {x \in rows : k[x] >= when - Day}
  BY <1>2 DEF w
<1>6. B \subseteq Nat /\ B # {} /\ IsFiniteSet(B)
  <2>1. IsFiniteSet(BucketsOf(w))
    <3>1. IsFiniteSet(rows) /\ \A b \in BucketsOf(w) : \E x \in rows : b = k[x]
      BY <1>2
    <3> HIDE DEF k
    <3> QED
      BY ONLY <3>1, ImageFinite
  <2>2. B \subseteq BucketsOf(w)
    OBVIOUS
  <2>3. IsFiniteSet(B)
    BY <2>1, <2>2, FS_Subset
  <2> QED
    BY <1>2, <1>3, <1>5, <2>3
<1>7. \A b \in B : InBucket(w, b) = {x \in rows : k[x] = b}
  BY DEF InBucket
<1>8. \A b \in B : Fits(candles[w][b], {x \in rows : k[x] = b}, inOrder)
  BY <1>1, <1>7 DEF CandlesKept
<1>9. Board(when) = [last |-> Board(when).last,
                    change |-> Board(when).last - candles[w][Min(B)].open,
                    volume |-> SumFunctionOnSet([b \in B |-> candles[w][b].volume], B)]
  BY <1>6 DEF Board, w
<1> HIDE DEF k, B
<1>10. Min(B) \in B /\ \A b \in B : Min(B) <= b
  BY <1>6, LeastIs
<1> DEFINE first == CHOOSE x \in today : \A y \in today : At[x] <= At[y]
<1>11. Reference(today).open = Price[first] /\ Reference(today).volume = SumFunctionOnSet(Quantity, today)
  BY DEF Reference
<1>12. candles[w][Min(B)].open = Price[first]
  <2> DEFINE m == Min(B)
             c == candles[w][m]
  <2>1. PICK x \in {x \in rows : k[x] = m} :
          c.open = Price[x] /\ \A y \in {y \in rows : k[y] = m} : At[x] <= At[y]
    BY <1>8, <1>10 DEF Fits
  <2> HIDE DEF c, m
  <2>2. x \in today
    BY <2>1, <1>5, <1>10 DEF m
  <2>3. ASSUME NEW y \in today PROVE At[x] <= At[y]
    <3>1. y \in rows /\ k[y] \in B /\ x \in rows /\ k[x] = m /\ m \in Nat
      BY <2>1, <1>5, <1>6, <1>10 DEF m
    <3>2. m <= k[y]
      BY <3>1, <1>10 DEF m
    <3>3. CASE k[y] = m
      BY <2>1, <3>1, <3>3
    <3>4. CASE k[y] # m
      <4>1. ~ (At[y] <= At[x])
        BY <1>3, <1>4, <3>1, <3>2, <3>4
      <4> QED
        BY <4>1, <3>1, <1>3
    <3> QED
      BY <3>3, <3>4
  <2>4. first \in today /\ \A y \in today : At[first] <= At[y]
    BY <2>2, <2>3
  <2> HIDE DEF first
  <2>5. At[first] = At[x] /\ first \in rows /\ x \in rows
    BY <2>2, <2>3, <2>4, <1>3, <1>5
  <2>6. first = x
    BY <2>5 DEF CandlesKept
  <2> QED
    BY <2>1, <2>6 DEF c, m
<1>13. SumFunctionOnSet([b \in B |-> candles[w][b].volume], B) = SumFunctionOnSet(Quantity, today)
  <2> DEFINE g == [b \in B |-> candles[w][b].volume]
             p == [b \in B |-> {x \in rows : k[x] = b}]
  <2>1. \A b \in B : /\ p[b] \in SUBSET rows /\ g[b] = SumFunctionOnSet(Quantity, p[b])
                    /\ \A x \in rows : x \in p[b] <=> k[x] = b
    BY <1>8 DEF Fits
  <2>2. \A x \in rows : Quantity[x] \in Int
    BY <1>3
  <2>3. today \in SUBSET rows /\ \A x \in rows : x \in today <=> k[x] \in B
    BY <1>5
  <2>4. IsFiniteSet(rows) /\ IsFiniteSet(B)
    BY <1>2, <1>6
  <2> HIDE DEF g, p
  <2>5. SumFunctionOnSet(g, B) = SumFunctionOnSet(Quantity, today)
    BY ONLY <2>1, <2>2, <2>3, <2>4, SumParts, SMTT(60)
  <2> QED
    BY <2>5 DEF g
<1> HIDE DEF first
<1> QED
  BY <1>9, <1>11, <1>12, <1>13

LEMMA ReadsFollow == Shown /\ CandlesKept /\ Fresh => ReadsAgree
<1> SUFFICES ASSUME Shown, CandlesKept, Fresh, Settled
             PROVE  /\ Quote = QuoteOf(lastCommit)
                    /\ \A w \in Widths :
                         candles[w][FloorBucket(At[lastCommit], w)].close = Quote.price
                    /\ \A when \in {At[x] : x \in Trades} :
                         LET today == {x \in rows : FloorBucket(At[x], Min(Widths)) >= when - Day}
                         IN /\ Board(when).last = Quote.price
                            /\ inOrder /\ today # {} =>
                                 /\ Board(when).change = Quote.price - Reference(today).open
                                 /\ Board(when).volume = Reference(today).volume
  BY DEF ReadsAgree
<1>1. rows # {} /\ lastCommit \in rows /\ lastCommit \in Trades
  BY DEF CandlesKept, Settled
<1>2. current = NoTask
  BY DEF Settled, AllHandled, Shown, AtWork, ShownIsDurable, MarketTypeOK
<1>3. lastPrice = Price[lastCommit] /\ quote = lastCommit
  BY <1>2 DEF Fresh, Settled, AllHandled, Pending, Followed
<1>4. lastPrice # None /\ quote # None
  BY <1>1, <1>3, MarketAssumption, TradeAssumption
<1>5. Quote = QuoteOf(lastCommit)
  BY <1>3, <1>4 DEF Quote
<1>6. Quote.price = Price[lastCommit]
  BY <1>5 DEF QuoteOf
<1>7. \A when : Board(when).last = Price[lastCommit]
  BY <1>3, <1>4 DEF Board
<1>8. \A w \in Widths : candles[w][FloorBucket(At[lastCommit], w)].close = Quote.price
  BY <1>1, <1>6 DEF CandlesKept
<1>9. ASSUME NEW when \in {At[x] : x \in Trades}, inOrder,
             NEW today, today = {x \in rows : FloorBucket(At[x], Min(Widths)) >= when - Day},
             today # {}
      PROVE  /\ Board(when).change = Quote.price - Reference(today).open
             /\ Board(when).volume = Reference(today).volume
  <2>1. when \in Nat
    BY TradeAssumption
  <2>2. /\ Board(when).change = Board(when).last - Reference(today).open
        /\ Board(when).volume = Reference(today).volume
    BY ONLY <2>1, <1>9, CandlesKept, BoardAgrees
  <2> QED
    BY <2>2, <1>6, <1>7
<1> QED
  BY <1>5, <1>6, <1>7, <1>8, <1>9

\* When all work is done and none of it was given up, quote, board and chart agree on the
\* last commit, however the handlers overlapped.
THEOREM ReadsHold == MarketSpec => []ReadsAgree
<1>1. MarketInit => Fresh
  BY DEF MarketInit, Fresh
<1> QED
  BY <1>1, ReadsFollow, FreshNext, CandlesInit, CandlesNext, ShownInit, ShownNext, PTL DEF MarketSpec

-----------------------------------------------------------------------------
(* The series of the chart (MarketData) *)

\* InOrder does list a finite set of numbers in order.
LEMMA InOrderLists ==
  ASSUME NEW S, IsFiniteSet(S), S \subseteq Nat
  PROVE  Lists(InOrder(S), S) /\ Cardinality(S) \in Nat
<1>1. PICK s : Lists(s, S)
  BY CanBeListed
<1>2. s \in [1..Cardinality(S) -> S] /\ \A i, j \in DOMAIN s : i < j => s[i] < s[j]
  BY <1>1 DEF Lists
<1>3. Cardinality(S) \in Nat
  BY FS_CardinalityType
<1>4. PICK t : t = InOrder(S)
  OBVIOUS
<1>5. t \in [1..Cardinality(S) -> S] /\ \A i, j \in DOMAIN t : i < j => t[i] < t[j]
  BY <1>2, <1>4 DEF InOrder
<1> QED
  BY <1>3, <1>4, <1>5, AscendingLists

\* What may be in a series of the candles c.
Points(c) ==
  {Point(b, c[b]) : b \in DOMAIN c} \cup {Flat(t, c[b].close) : t \in Nat, b \in DOMAIN c}

Multiple(b, w) == \E u \in Nat : b = u * w

\* Consecutive buckets, all multiples of the candle's length.
Consecutive(s, B, w) ==
  /\ s \in Seq(B) /\ B \subseteq Nat /\ w \in Nat \ {0}
  /\ \A b \in B : Multiple(b, w)
  /\ \A i, j \in 1..Len(s) : i < j => s[i] < s[j]
  /\ \A i \in 2..Len(s) : \A b \in B : ~ (s[i-1] < b /\ b < s[i])

\* The point at i is a candle, or flat at the close before it; and it comes right after the one
\* before, or behind as many flat points as a gap may have.
Continues(q, i, B, w) ==
  /\ q[i].time \notin B => q[i] = Flat(q[i-1].time + w, q[i-1].close)
  /\ q[i].time > q[i-1].time + w => \A k \in 1..MaxFill : k < i => q[i-k].time \notin B

Ascends(q) == \A i, j \in 1..Len(q) : i < j => q[i].time < q[j].time

\* What the fill has drawn of the candles c of the first n buckets of s.
Draws(q, s, n, c, w) ==
  /\ q \in Seq(Points(c))
  /\ n = 0 => q = <<>>
  /\ n # 0 =>
       /\ Len(q) >= 1 /\ q[1].time = s[1] /\ q[Len(q)] = Point(s[n], c[s[n]])
       /\ Ascends(q)
       /\ \A m \in 1..n : \E i \in 1..Len(q) : q[i] = Point(s[m], c[s[m]])
       /\ \A i \in 2..Len(q) : Continues(q, i, DOMAIN c, w)

\* Multiples of w.
LEMMA Multiples ==
  ASSUME NEW w \in Nat \ {0}, NEW u \in Nat, NEW v \in Nat, u * w < v * w
  PROVE  /\ u < v
         /\ (v * w - u * w) \div w = v - u
<1>1. u < v
  <2> SUFFICES ASSUME v <= u PROVE FALSE
    OBVIOUS
  <2>1. v * w <= u * w
    BY SMTT(20)
  <2>2. v * w \in Nat /\ u * w \in Nat
    BY SMTT(20)
  <2> QED
    BY <2>1, <2>2
<1>2. PICK d \in Nat : d = v - u
  BY <1>1
<1>3. v * w - u * w = d * w
  BY <1>2, SMTT(20)
<1>4. (d * w) \div w = d
  BY SMTT(20)
<1> QED
  BY <1>1, <1>2, <1>3, <1>4

\* t[j] is the time of the j-th point that fills the gap between p and b.
Steps(t, m, p, b, w) ==
  /\ m \in Nat /\ m <= MaxFill
  /\ t \in [0..m -> Nat] /\ t[0] = p.time
  /\ \A j \in 1..m : t[j] = t[j-1] + w /\ t[j] = p.time + j * w
  /\ \A i, j \in 0..m : i < j => t[i] < t[j]
  /\ t[m] < b
  /\ t[m] + w < b => m = MaxFill

\* The fill takes such steps.
LEMMA GapSteps ==
  ASSUME NEW w \in Nat \ {0}, NEW p, Multiple(p.time, w), NEW b, Multiple(b, w), p.time < b
  PROVE  \E m \in Nat : \E t :
           /\ Steps(t, m, p, b, w)
           /\ GapFill(p, b, w) = [j \in 1..m |-> Flat(t[j], p.close)]
<1> PICK u \in Nat, v \in Nat : p.time = u * w /\ b = v * w
  BY DEF Multiple
<1>0. MaxFill \in Nat
  BY MarketAssumption
<1>1. u < v /\ (b - p.time) \div w = v - u
  BY Multiples
<1>2. PICK d \in Nat : d = v - u - 1
  BY <1>1
<1>3. PICK T : T = {d, MaxFill}
  OBVIOUS
<1>4. PICK m \in Nat : m = Min(T) /\ m <= d /\ m <= MaxFill /\ (m = d \/ m = MaxFill)
  <2>1. CASE d <= MaxFill
    <3>1. d \in T /\ \A x \in T : x \in Int /\ d <= x
      BY <1>0, <1>3, <2>1
    <3>2. Min(T) = d
      BY ONLY <3>1, MinIs
    <3> QED
      BY <3>2, <2>1
  <2>2. CASE MaxFill <= d
    <3>1. MaxFill \in T /\ \A x \in T : x \in Int /\ MaxFill <= x
      BY <1>0, <1>3, <2>2
    <3>2. Min(T) = MaxFill
      BY ONLY <3>1, MinIs
    <3> QED
      BY <3>2, <2>2, <1>0
  <2> QED
    BY <1>0, <2>1, <2>2
<1>5. PICK t : t = [j \in 0..m |-> p.time + j * w]
  OBVIOUS
<1>6. \A j \in 0..m : t[j] = p.time + j * w /\ t[j] \in Nat /\ t[j] = (u + j) * w
  <2> TAKE j \in 0..m
  <2>1. j \in Nat
    OBVIOUS
  <2>2. j * w \in Nat /\ u * w \in Nat /\ u * w + j * w = (u + j) * w
    BY <2>1, SMTT(20)
  <2> QED
    BY <1>5, <2>1, <2>2
<1>7. \A x, y \in Nat : x < y => x * w + w <= y * w /\ x * w \in Nat /\ y * w \in Nat
  <2> TAKE x \in Nat, y \in Nat
  <2> HAVE x < y
  <2>1. PICK z \in Nat : y = x + 1 + z
    <3>1. y - x - 1 \in Nat /\ y = x + 1 + (y - x - 1)
      OBVIOUS
    <3> QED
      BY <3>1
  <2>2. y * w = x * w + w + z * w /\ z * w \in Nat /\ x * w \in Nat
    BY <2>1, SMTT(20)
  <2> QED
    BY <2>2
<1>8. ASSUME NEW i \in 0..m, NEW j \in 0..m, i < j PROVE t[i] + w <= t[j]
  <2>1. u + i \in Nat /\ u + j \in Nat /\ u + i < u + j
    BY <1>8
  <2> QED
    BY <1>6, <1>7, <2>1
<1>9. \A j \in 1..m : t[j] = t[j-1] + w
  <2> TAKE j \in 1..m
  <2>1. j \in Nat /\ j - 1 \in Nat /\ j \in 0..m /\ j - 1 \in 0..m
    OBVIOUS
  <2>2. j * w = (j - 1) * w + w /\ (j - 1) * w \in Nat /\ u * w \in Nat
    BY <2>1, SMTT(20)
  <2> QED
    BY <1>6, <2>1, <2>2
<1>10. t[m] < b
  <2>1. u + m \in Nat /\ u + m < v
    BY <1>1, <1>2, <1>4
  <2>2. (u + m) * w + w <= v * w /\ (u + m) * w \in Nat /\ v * w \in Nat
    BY <1>7, <2>1
  <2> QED
    BY <1>4, <1>6, <2>2
<1>11. ASSUME t[m] + w < b PROVE m = MaxFill
  <2> SUFFICES ASSUME m = d PROVE FALSE
    BY <1>4
  <2>1. u + m + 1 = v /\ u + m \in Nat
    BY <1>1, <1>2
  <2>2. v * w = (u + m) * w + w
    BY <2>1, SMTT(20)
  <2> QED
    BY <1>4, <1>6, <1>11, <2>2, 0 \in 0..m, m \in 0..m
<1>12. t \in [0..m -> Nat] /\ t[0] = p.time
  BY <1>5, <1>6, p.time = u * w, 0 \in 0..m
<1>13. Steps(t, m, p, b, w)
  <2>1. \A i, j \in 0..m : i < j => t[i] < t[j]
    BY <1>6, <1>8
  <2>2. \A j \in 1..m : j \in 0..m
    OBVIOUS
  <2>3. \A j \in 1..m : t[j] = t[j-1] + w /\ t[j] = p.time + j * w
    BY <1>6, <1>9, <2>2
  <2> QED
    BY <1>4, <1>10, <1>11, <1>12, <2>1, <2>3 DEF Steps
<1>14. GapFill(p, b, w) = [j \in 1..m |-> Flat(t[j], p.close)]
  <2>1. \A j \in 1..m : t[j] = p.time + j * w
    BY <1>13 DEF Steps
  <2>2. (b - p.time) \div w - 1 = d
    BY <1>1, <1>2
  <2>3. Min({(b - p.time) \div w - 1, MaxFill}) = m
    BY <1>3, <1>4, <2>2
  <2>4. GapFill(p, b, w) = [j \in 1..m |-> Flat(p.time + j * w, p.close)]
    BY <2>3 DEF GapFill
  <2> QED
    BY <2>1, <2>4
<1> QED
  BY <1>13, <1>14

\* The first candle is a point of its own.
LEMMA OnePoint ==
  ASSUME NEW s, NEW c, NEW w, Consecutive(s, DOMAIN c, w), 1 \in 1..Len(s)
  PROVE  Draws(<<Point(s[1], c[s[1]])>>, s, 1, c, w)
<1>1. s[1] \in DOMAIN c
  BY DEF Consecutive
<1>2. PICK e : e = Point(s[1], c[s[1]])
  OBVIOUS
<1>3. e \in Points(c) /\ e.time = s[1]
  BY <1>1, <1>2 DEF Points, Point
<1>4. PICK q : q = <<e>>
  OBVIOUS
<1>5. q \in Seq(Points(c)) /\ Len(q) = 1 /\ q[1] = e
  BY <1>3, <1>4
<1>6. Ascends(q)
  BY <1>5 DEF Ascends
<1>7. \A m \in 1..1 : \E i \in 1..Len(q) : q[i] = Point(s[m], c[s[m]])
  BY <1>2, <1>5
<1>8. \A i \in 2..Len(q) : Continues(q, i, DOMAIN c, w)
  BY <1>5
<1> QED
  BY <1>2, <1>3, <1>4, <1>5, <1>6, <1>7, <1>8 DEF Draws

\* The series r is q, then the gap filled in m steps, then the candle of b.
Joined(r, q, t, m, e, held) ==
  /\ Len(r) = Len(q) + m + 1
  /\ \A i \in 1..Len(q) : r[i] = q[i]
  /\ \A j \in 1..m : r[Len(q) + j] = Flat(t[j], held)
  /\ r[Len(q) + m + 1] = e

\* Such is the series with the next candle.
LEMMA ExtendedJoined ==
  ASSUME NEW w, NEW c, c = candles[w], DOMAIN c \subseteq Nat,
         NEW q \in Seq(Points(c)), q # <<>>, NEW a \in DOMAIN c, q[Len(q)].close = c[a].close,
         NEW b \in DOMAIN c, NEW m \in Nat, NEW t \in [0..m -> Nat],
         GapFill(q[Len(q)], b, w) = [j \in 1..m |-> Flat(t[j], q[Len(q)].close)]
  PROVE  /\ Extended(q, b, w) \in Seq(Points(c))
         /\ Joined(Extended(q, b, w), q, t, m, Point(b, c[b]), c[a].close)
<1>1. PICK e, g, p : e = Point(b, c[b]) /\ g = GapFill(q[Len(q)], b, w) /\ p = q[Len(q)]
  OBVIOUS
<1>2. e \in Points(c)
  BY <1>1 DEF Points
<1>3. g \in Seq(Points(c)) /\ Len(g) = m /\ \A j \in 1..m : g[j] = Flat(t[j], c[a].close)
  <2>1. \A j \in 1..m : t[j] \in Nat
    OBVIOUS
  <2>2. g = [j \in 1..m |-> Flat(t[j], c[a].close)]
    BY <1>1
  <2>3. \A j \in 1..m : Flat(t[j], c[a].close) \in Points(c)
    BY <2>1 DEF Points
  <2> HIDE DEF Flat, Points
  <2> QED
    BY ONLY <2>2, <2>3, m \in Nat
<1>4. PICK r : r = Append(q \o g, e)
  OBVIOUS
<1>5. Extended(q, b, w) = r
  BY <1>1, <1>4 DEF Extended, Last
<1>6. PICK P : P = Points(c)
  OBVIOUS
<1>7. q \in Seq(P) /\ g \in Seq(P) /\ e \in P /\ Len(q) \in Nat /\ Len(g) = m
  BY <1>2, <1>3, <1>6
<1>8. /\ r \in Seq(P) /\ Len(r) = Len(q) + m + 1
      /\ \A i \in 1..Len(q) : r[i] = q[i]
      /\ \A j \in 1..m : r[Len(q) + j] = g[j]
      /\ r[Len(q) + m + 1] = e
  BY ONLY <1>4, <1>7, m \in Nat
<1> QED
  BY <1>1, <1>3, <1>5, <1>6, <1>8 DEF Joined

\* The next candle keeps what was drawn before as it should be, and so is what it adds.
LEMMA ExtendedDraws ==
  ASSUME NEW w, NEW s, NEW c, c = candles[w], Consecutive(s, DOMAIN c, w), NEW n \in 1..Len(s),
         NEW q, Draws(q, s, n - 1, c, w)
  PROVE  Draws(Extended(q, s[n], w), s, n, c, w)
<1>1. PICK B : B = DOMAIN c
  OBVIOUS
<1>2. /\ s \in Seq(B) /\ B \subseteq Nat /\ w \in Nat \ {0} /\ Len(s) \in Nat /\ n \in Nat
      /\ \A x \in B : Multiple(x, w)
      /\ \A i, j \in 1..Len(s) : i < j => s[i] < s[j]
      /\ \A i \in 2..Len(s) : \A x \in B : ~ (s[i-1] < x /\ x < s[i])
      /\ \A i \in 1..Len(s) : s[i] \in B /\ s[i] \in Nat
  <2>1. s \in Seq(B) /\ B \subseteq Nat /\ w \in Nat \ {0} /\ \A x \in B : Multiple(x, w)
    BY <1>1 DEF Consecutive
  <2>2. /\ \A i, j \in 1..Len(s) : i < j => s[i] < s[j]
        /\ \A i \in 2..Len(s) : \A x \in B : ~ (s[i-1] < x /\ x < s[i])
    BY <1>1 DEF Consecutive
  <2>3. Len(s) \in Nat /\ \A i \in 1..Len(s) : s[i] \in B /\ s[i] \in Nat
    <3>1. s \in Seq(B) /\ B \subseteq Nat
      BY <2>1
    <3>2. Len(s) \in Nat /\ \A i \in 1..Len(s) : s[i] \in B
      BY ONLY <3>1
    <3> QED
      BY ONLY <3>1, <3>2
  <2>4. n \in Nat
    BY <2>3
  <2> QED
    BY <2>1, <2>2, <2>3, <2>4
<1>3. CASE n = 1
  <2>1. q = <<>>
    BY <1>3 DEF Draws
  <2>2. Extended(q, s[n], w) = <<Point(s[1], c[s[1]])>>
    BY <1>3, <2>1 DEF Extended
  <2>3. Draws(<<Point(s[1], c[s[1]])>>, s, 1, c, w)
    BY <1>3, OnePoint
  <2> QED
    BY <1>3, <2>2, <2>3
<1>4. CASE n # 1
  <2>1. n - 1 \in 1..Len(s) /\ n \in 2..Len(s) /\ n - 1 # 0
    BY <1>2, <1>4
  <2>2. PICK a, b, e, p, l :
           /\ a = s[n - 1] /\ b = s[n] /\ e = Point(b, c[b]) /\ l = Len(q) /\ p = q[l]
    OBVIOUS
  <2>3. /\ a \in B /\ b \in B /\ a \in Nat /\ b \in Nat /\ a < b /\ e.time = b
        /\ \A x \in B : ~ (a < x /\ x < b)
    BY <1>2, <2>1, <2>2 DEF Point
  <2>4. /\ q \in Seq(Points(c)) /\ l \in Nat /\ l >= 1 /\ q # <<>>
        /\ q[1].time = s[1] /\ p = Point(a, c[a]) /\ p.time = a /\ p.close = c[a].close
        /\ Ascends(q)
        /\ \A m \in 1..n-1 : \E i \in 1..l : q[i] = Point(s[m], c[s[m]])
        /\ \A i \in 2..l : Continues(q, i, B, w)
    <3>1. /\ q \in Seq(Points(c)) /\ l >= 1 /\ p = Point(a, c[a]) /\ q[1].time = s[1]
          /\ Ascends(q)
          /\ \A m \in 1..n-1 : \E i \in 1..l : q[i] = Point(s[m], c[s[m]])
          /\ \A i \in 2..l : Continues(q, i, B, w)
      BY <1>1, <2>1, <2>2 DEF Draws
    <3>2. p.time = a /\ p.close = c[a].close
      BY <3>1 DEF Point
    <3>3. l \in Nat /\ q # <<>>
      BY <2>2, <3>1
    <3> QED
      BY <3>1, <3>2, <3>3
  <2>5m. PICK m \in Nat :
           \E t : /\ Steps(t, m, p, b, w)
                  /\ GapFill(p, b, w) = [j \in 1..m |-> Flat(t[j], p.close)]
    <3>1. Multiple(p.time, w) /\ Multiple(b, w) /\ p.time < b /\ w \in Nat \ {0}
      BY <1>2, <2>3, <2>4
    <3> QED
      BY ONLY <3>1, GapSteps
  <2>5t. PICK t : /\ Steps(t, m, p, b, w)
                  /\ GapFill(p, b, w) = [j \in 1..m |-> Flat(t[j], p.close)]
    BY ONLY <2>5m
  <2>5. /\ m \in Nat
        /\ Steps(t, m, p, b, w)
        /\ GapFill(p, b, w) = [j \in 1..m |-> Flat(t[j], p.close)]
    BY ONLY <2>5m, <2>5t
  <2>6. /\ m <= MaxFill /\ t \in [0..m -> Nat] /\ t[0] = a
        /\ \A j \in 1..m : t[j] = t[j-1] + w
        /\ \A i, j \in 0..m : i < j => t[i] < t[j]
        /\ t[m] < b /\ (t[m] + w < b => m = MaxFill)
    BY <2>4, <2>5 DEF Steps
  <2>a. l \in Nat /\ l >= 1 /\ m \in Nat
    BY <2>4, <2>5
  <2>7. PICK r : r = Extended(q, b, w)
    OBVIOUS
  <2>8. r \in Seq(Points(c)) /\ Joined(r, q, t, m, e, c[a].close)
    <3>1. DOMAIN c \subseteq Nat /\ a \in DOMAIN c /\ b \in DOMAIN c
      BY <1>1, <1>2, <2>3
    <3>2. q[Len(q)].close = c[a].close /\ q \in Seq(Points(c)) /\ q # <<>>
      BY <2>2, <2>4
    <3>3. GapFill(q[Len(q)], b, w) = [j \in 1..m |-> Flat(t[j], q[Len(q)].close)]
      BY <2>2, <2>5
    <3>4. t \in [0..m -> Nat] /\ m \in Nat
      BY <2>6
    <3>5. /\ Extended(q, b, w) \in Seq(Points(c))
          /\ Joined(Extended(q, b, w), q, t, m, Point(b, c[b]), c[a].close)
      BY ONLY c = candles[w], <3>1, <3>2, <3>3, <3>4, ExtendedJoined
    <3> QED
      BY <2>2, <2>7, <3>5
  <2>9. /\ Len(r) = l + m + 1
        /\ \A i \in 1..l : r[i] = q[i]
        /\ \A j \in 1..m : r[l + j] = Flat(t[j], p.close)
        /\ r[l + m + 1] = e
    BY <2>2, <2>4, <2>8 DEF Joined
  <2>10. \A j \in 1..m : /\ r[l + j].time = t[j] /\ r[l + j].close = p.close
                         /\ a < t[j] /\ t[j] < b /\ t[j] \in Nat /\ t[j] \notin B
    <3> TAKE j \in 1..m
    <3>1. j \in 0..m /\ 0 \in 0..m /\ m \in 0..m /\ 0 < j /\ (j < m \/ j = m)
      BY <2>5
    <3>2. a < t[j] /\ t[j] < b /\ t[j] \in Nat
      BY <2>3, <2>6, <3>1
    <3>3. r[l + j].time = t[j] /\ r[l + j].close = p.close
      <4>1. r[l + j] = Flat(t[j], p.close)
        BY <2>9
      <4>2. Flat(t[j], p.close).time = t[j] /\ Flat(t[j], p.close).close = p.close
        BY DEF Flat
      <4> QED
        BY <4>1, <4>2
    <3> QED
      BY <2>3, <3>2, <3>3
  <2>11. \A i \in 1..l : r[i].time \in Nat /\ r[i].time <= a
    <3> TAKE i \in 1..l
    <3>1. q[i] \in Points(c) /\ i \in 1..Len(q) /\ l \in 1..Len(q)
      BY <2>2, <2>4
    <3>2. q[i].time \in Nat
      <4>1. PICK x : x = q[i]
        OBVIOUS
      <4>2. CASE x \in {Point(y, c[y]) : y \in DOMAIN c}
        <5>1. PICK y \in DOMAIN c : x = Point(y, c[y])
          BY <4>2
        <5> QED
          BY <1>1, <1>2, <4>1, <5>1 DEF Point
      <4>3. CASE x \in {Flat(y, c[z].close) : y \in Nat, z \in DOMAIN c}
        <5>1. PICK y \in Nat, z \in DOMAIN c : x = Flat(y, c[z].close)
          BY <4>3
        <5> QED
          BY <4>1, <5>1 DEF Flat
      <4> QED
        BY <3>1, <4>1, <4>2, <4>3 DEF Points
    <3>3. i = l \/ q[i].time < q[l].time
      BY <2>4, <3>1 DEF Ascends
    <3>4. q[l].time = a
      BY <2>2, <2>4
    <3> QED
      BY <2>3, <2>9, <3>2, <3>3, <3>4
  <2>12. \A i \in 1..Len(r) : \/ i \in 1..l
                              \/ i - l \in 1..m /\ i = l + (i - l)
                              \/ i = l + m + 1
    BY <2>a, <2>9
  <2> HIDE DEF Point, Flat, Points
  <2>13. Ascends(r)
    <3> SUFFICES ASSUME NEW i \in 1..Len(r), NEW j \in 1..Len(r), i < j
                 PROVE  r[i].time < r[j].time
      BY DEF Ascends
    <3>1. CASE i \in 1..l /\ j \in 1..l
      BY <2>2, <2>4, <2>9, <3>1 DEF Ascends
    <3>2. CASE i \in 1..l /\ j \notin 1..l
      <4>1. r[i].time <= a /\ r[i].time \in Nat
        BY <2>11, <3>2
      <4>2. j = l + m + 1 \/ (j - l \in 1..m /\ j = l + (j - l))
        BY <2>12, <3>2
      <4>3. a < r[j].time /\ r[j].time \in Nat
        BY <2>3, <2>9, <2>10, <4>2
      <4> QED
        BY <2>3, <4>1, <4>3
    <3>3. CASE i \notin 1..l
      <4>1. i - l \in 1..m /\ i = l + (i - l)
        BY <2>a, <2>9, <2>12, <3>3
      <4>2. r[i].time = t[i - l] /\ t[i - l] < b /\ t[i - l] \in Nat
        BY <2>10, <4>1
      <4>3. CASE j = l + m + 1
        BY <2>3, <2>9, <4>2, <4>3
      <4>4. CASE j # l + m + 1
        <5>1. j - l \in 1..m /\ j = l + (j - l) /\ i - l < j - l
          BY <2>a, <2>12, <3>3, <4>1, <4>4
        <5>2. r[j].time = t[j - l] /\ i - l \in 0..m /\ j - l \in 0..m
          BY <2>10, <4>1, <5>1
        <5> QED
          BY <2>6, <4>2, <5>1, <5>2
      <4> QED
        BY <4>3, <4>4
    <3> QED
      BY <3>1, <3>2, <3>3
  <2>14. \A k \in 1..n : \E i \in 1..Len(r) : r[i] = Point(s[k], c[s[k]])
    <3> TAKE k \in 1..n
    <3>1. CASE k = n
      <4>1. l + m + 1 \in 1..Len(r)
        BY <2>a, <2>9
      <4> QED
        BY <2>2, <2>9, <3>1, <4>1
    <3>2. CASE k # n
      <4>1. k \in 1..n-1
        BY <1>2, <3>2
      <4>2. PICK i \in 1..l : q[i] = Point(s[k], c[s[k]])
        BY <2>4, <4>1
      <4>3. i \in 1..Len(r)
        BY <2>a, <2>9
      <4> QED
        BY <2>9, <4>2, <4>3
    <3> QED
      BY <3>1, <3>2
  <2>15. \A i \in 2..Len(r) : Continues(r, i, B, w)
    <3> TAKE i \in 2..Len(r)
    <3>1. CASE i \in 1..l
      <4>1. i \in 2..l /\ i - 1 \in 1..l
        BY <2>4, <3>1
      <4>2. \A k \in 1..MaxFill : k < i => i - k \in 1..l /\ r[i-k] = q[i-k]
        BY <2>4, <2>9, <3>1
      <4>3. r[i] = q[i] /\ r[i-1] = q[i-1]
        BY <2>9, <3>1, <4>1
      <4>4. Continues(q, i, B, w)
        BY <2>4, <4>1
      <4> QED
        BY <4>2, <4>3, <4>4 DEF Continues
    <3>2. CASE i - l \in 1..m
      <4>1. PICK j \in 1..m : i = l + j
        BY <2>4, <3>2
      <4>2. r[i] = Flat(t[j], p.close) /\ r[i].time = t[j] /\ t[j] \in Nat
        BY <2>9, <2>10, <4>1
      <4>3. r[i-1].time = t[j-1] /\ r[i-1].close = p.close
        <5>1. CASE j = 1
          <6>1. i - 1 = l /\ l \in 1..l
            BY <2>4, <4>1, <5>1
          <6>2. r[i-1] = p
            BY <2>2, <2>9, <6>1
          <6>3. t[j-1] = a
            BY <2>6, <5>1
          <6> QED
            BY <2>4, <6>2, <6>3
        <5>2. CASE j # 1
          <6>1. j - 1 \in 1..m
            BY <2>5, <5>2
          <6>2. i - 1 = l + (j - 1)
            BY ONLY <2>4, <4>1, j \in Int, <6>1
          <6> QED
            BY <2>10, <6>1, <6>2
        <5> QED
          BY <5>1, <5>2
      <4>4. t[j] = t[j-1] + w
        BY <2>6
      <4> QED
        BY <4>2, <4>3, <4>4 DEF Continues
    <3>3. CASE i = l + m + 1
      <4>1. r[i].time = b
        BY <2>3, <2>9, <3>3
      <4>2. r[i-1].time = t[m]
        <5>1. CASE m = 0
          <6>1. i - 1 = l /\ l \in 1..l
            BY <2>4, <3>3, <5>1
          <6> QED
            BY <2>2, <2>4, <2>6, <2>9, <5>1, <6>1
        <5>2. CASE m # 0
          <6>1. m \in 1..m /\ i - 1 = l + m
            BY ONLY <2>a, <3>3, <5>2
          <6> QED
            BY <2>10, <6>1
        <5> QED
          BY <5>1, <5>2
      <4>3. ASSUME b > t[m] + w, NEW k \in 1..MaxFill, k < i PROVE r[i-k].time \notin B
        <5>1. m = MaxFill
          <6>1. t[m] \in Nat /\ w \in Nat
            <7>1. m \in 0..m
              BY <2>5
            <7> QED
              BY <1>2, <2>6, <7>1
          <6> QED
            BY <2>3, <2>6, <4>3, <6>1
        <5>2. m + 1 - k \in 1..m /\ i - k = l + (m + 1 - k)
          BY <2>a, <3>3, <5>1
        <5> QED
          BY <2>10, <5>2
      <4> QED
        BY <2>3, <4>1, <4>2, <4>3 DEF Continues
    <3> QED
      BY <2>12, <3>1, <3>2, <3>3, <2>4, <2>9
  <2>16. Len(r) >= 1 /\ r[1].time = s[1] /\ r[Len(r)] = e
    <3>1. 1 \in 1..l /\ l + m + 1 >= 1
      BY <2>a
    <3> QED
      BY <2>4, <2>9, <3>1
  <2>17. Draws(r, s, n, c, w)
    <3>1. r[Len(r)] = Point(s[n], c[s[n]]) /\ n # 0
      BY <1>2, <2>2, <2>16
    <3>2. \A i \in 2..Len(r) : Continues(r, i, DOMAIN c, w)
      BY <1>1, <2>15
    <3> QED
      BY ONLY <2>8, <2>13, <2>14, <2>16, <3>1, <3>2 DEF Draws
  <2> QED
    BY <2>2, <2>7, <2>17
<1> QED
  BY <1>3, <1>4

\* The recursive function of Filled, up to position N.
IsFilled(f, s, w, N) ==
  f = [n \in 0..N |-> IF n = 0 THEN <<>> ELSE Extended(f[n - 1], s[n], w)]
FilledUpTo(s, w, N) == CHOOSE f : IsFilled(f, s, w, N)

\* The function is there.
LEMMA FilledExists ==
  ASSUME NEW s, NEW w, NEW N \in Nat
  PROVE  \E f : IsFilled(f, s, w, N)
<1> DEFINE Bad == {n \in 0..N : ~ \E f : IsFilled(f, s, w, n)}
<1> SUFFICES ASSUME Bad # {} PROVE FALSE
  OBVIOUS
<1>1. PICK n \in Bad : \A m \in Bad : n <= m
  <2>1. Bad \in SUBSET Nat
    OBVIOUS
  <2> HIDE DEF Bad
  <2> QED
    BY ONLY <2>1, Bad # {}, LeastIs
<1>2. CASE n = 0
  <2>1. IsFilled([k \in 0..0 |-> <<>>], s, w, 0)
    BY DEF IsFilled
  <2> QED
    BY <2>1, <1>2, <1>1
<1>3. CASE n # 0
  <2>1. n \in Nat /\ n - 1 \in 0..N /\ ~ (n <= n - 1)
    BY <1>3
  <2>2. PICK f : IsFilled(f, s, w, n - 1)
    BY <2>1, <1>1
  <2>3. PICK g : g = [k \in 0..n |-> IF k = n THEN Extended(f[n - 1], s[n], w) ELSE f[k]]
    OBVIOUS
  <2>4. f = [k \in 0..(n - 1) |-> IF k = 0 THEN <<>> ELSE Extended(f[k - 1], s[k], w)]
    BY <2>2 DEF IsFilled
  <2>5. ASSUME NEW k \in 0..n
        PROVE  g[k] = IF k = 0 THEN <<>> ELSE Extended(g[k - 1], s[k], w)
    <3>1. CASE k = n
      <4>1. g[n] = Extended(f[n - 1], s[n], w)
        BY <2>1, <2>3
      <4>2. n - 1 \in 0..n /\ n - 1 # n
        BY <2>1, <1>3
      <4>3. g[n - 1] = f[n - 1]
        BY <2>3, <4>2
      <4> QED
        BY <1>3, <4>1, <4>3, <3>1
    <3>2. CASE k # n
      <4>1. k \in 0..(n - 1)
        BY <3>2, <2>1
      <4>2. g[k] = f[k]
        BY <2>3, <3>2
      <4>3. CASE k = 0
        BY <2>4, <4>1, <4>2, <4>3
      <4>4. CASE k # 0
        <5>1. k - 1 \in 0..n /\ k - 1 # n
          BY <2>1, <4>1, <4>4
        <5>2. g[k - 1] = f[k - 1]
          BY <2>3, <5>1
        <5> QED
          BY <2>4, <4>1, <4>2, <4>4, <5>2
      <4> QED
        BY <4>3, <4>4
    <3> QED
      BY <3>1, <3>2
  <2>6. DOMAIN g = 0..n /\ g = [k \in 0..n |-> g[k]]
    BY <2>3
  <2>7. IsFilled(g, s, w, n)
    BY <2>5, <2>6 DEF IsFilled
  <2> QED
    BY <2>7, <1>1
<1> QED
  BY <1>2, <1>3

LEMMA FilledIsLast == ASSUME NEW s, NEW w PROVE Filled(s, w) = FilledUpTo(s, w, Len(s))[Len(s)]
BY DEF Filled, FilledUpTo, IsFilled

\* So by a least counterexample all candles are drawn as they should be.
LEMMA FilledDraws ==
  ASSUME NEW w, NEW c, c = candles[w], NEW s, Consecutive(s, DOMAIN c, w)
  PROVE  Draws(Filled(s, w), s, Len(s), c, w)
<1>1. PICK N \in Nat : N = Len(s)
  BY DEF Consecutive
<1>2. PICK f : IsFilled(f, s, w, N) /\ Filled(s, w) = f[N]
  <2>1. IsFilled(FilledUpTo(s, w, N), s, w, N)
    BY FilledExists DEF FilledUpTo
  <2> QED
    BY <1>1, <2>1, FilledIsLast
<1>3. f = [n \in 0..N |-> IF n = 0 THEN <<>> ELSE Extended(f[n - 1], s[n], w)]
  BY <1>2 DEF IsFilled
<1> DEFINE Bad == {n \in 0..N : ~ Draws(f[n], s, n, c, w)}
<1>4. SUFFICES ASSUME Bad # {} PROVE FALSE
  <2>1. N \in 0..N
    OBVIOUS
  <2> QED
    BY <1>1, <1>2, <1>4, <2>1
<1>5. PICK n \in Bad : \A m \in Bad : n <= m
  <2>1. Bad \in SUBSET Nat
    OBVIOUS
  <2> HIDE DEF Bad
  <2> QED
    BY ONLY <2>1, <1>4, LeastIs
<1>6. CASE n = 0
  <2>1. f[0] = <<>>
    BY <1>3, <1>6
  <2>2. Draws(<<>>, s, 0, c, w)
    BY DEF Draws
  <2> QED
    BY <1>5, <1>6, <2>1, <2>2
<1>7. CASE n # 0
  <2>1. n \in 1..N /\ n - 1 \in 0..N /\ ~ (n <= n - 1)
    BY <1>7
  <2>2. Draws(f[n - 1], s, n - 1, c, w)
    BY <1>5, <2>1
  <2>3. f[n] = Extended(f[n - 1], s[n], w)
    BY <1>3, <1>7, <2>1
  <2>4. Draws(Extended(f[n - 1], s[n], w), s, n, c, w)
    BY <1>1, <2>1, <2>2, ExtendedDraws
  <2> QED
    BY <1>5, <2>3, <2>4
<1> QED
  BY <1>6, <1>7

\* r is what s has behind a position k.
IsTail(r, s, limit, T) ==
  /\ r \in Seq(T)
  /\ \E k \in Nat : \E n \in Nat \ {0} :
       /\ Len(s) = k + n /\ n <= limit /\ Len(r) = n
       /\ \A i \in 1..n : r[i] = s[k + i]

LEMMA NewestsIs ==
  ASSUME NEW T, NEW s \in Seq(T), s # <<>>, NEW limit \in Nat \ {0}
  PROVE  IsTail(Newests(s, limit), s, limit, T)
<1>1. PICK l \in Nat \ {0} : l = Len(s)
  OBVIOUS
<1>2. PICK Z : Z = {0, l - limit}
  OBVIOUS
<1>3. PICK k \in Nat : k = Max(Z) /\ k < l /\ l - limit <= k
  <2>1. CASE l - limit <= 0
    <3>1. 0 \in Z /\ \A x \in Z : x \in Int /\ 0 >= x
      BY <1>2, <2>1
    <3>2. Max(Z) = 0
      BY ONLY <3>1, MaxIs
    <3> QED
      BY <3>2, <2>1
  <2>2. CASE l - limit >= 0
    <3>1. l - limit \in Z /\ \A x \in Z : x \in Int /\ l - limit >= x
      BY <1>2, <2>2
    <3>2. Max(Z) = l - limit
      BY ONLY <3>1, MaxIs
    <3> QED
      BY <3>2, <2>2
  <2> QED
    BY <2>1, <2>2
<1>4. PICK n \in Nat \ {0} : n = l - k
  BY <1>3
<1>5. PICK r : r = Newests(s, limit)
  OBVIOUS
<1>6. r = [i \in 1..n |-> s[k + i]]
  BY <1>1, <1>2, <1>3, <1>4, <1>5 DEF Newests
<1>7. \A i \in 1..n : s[k + i] \in T
  <2> TAKE i \in 1..n
  <2>1. k + i \in 1..l
    BY <1>3, <1>4
  <2>2. \A j \in 1..l : s[j] \in T
    BY <1>1
  <2> QED
    BY ONLY <2>1, <2>2
<1>8. r \in Seq(T) /\ Len(r) = n /\ \A i \in 1..n : r[i] = s[k + i]
  BY ONLY <1>6, <1>7, n \in Nat
<1>9. Len(s) = k + n /\ n <= limit
  BY ONLY <1>1, <1>3, <1>4, k \in Nat, l \in Nat, limit \in Nat
<1> QED
  BY ONLY <1>5, <1>8, <1>9, k \in Nat, n \in Nat \ {0} DEF IsTail

\* The buckets of a series: the newest of B, without a hole.
NewestOf(s, B, w) ==
  /\ Consecutive(s, B, w) /\ Len(s) \in Nat \ {0}
  /\ \A b \in B : b <= s[Len(s)]
  /\ \A b \in B : b >= s[1] => \E i \in 1..Len(s) : s[i] = b

LEMMA NewestBuckets ==
  ASSUME NEW B, IsFiniteSet(B), B \subseteq Nat, B # {}, NEW w \in Nat \ {0},
         \A b \in B : Multiple(b, w), NEW limit \in Nat \ {0}
  PROVE  NewestOf(Newests(InOrder(B), limit), B, w)
<1>1. PICK o, m : o = InOrder(B) /\ m = Cardinality(B)
  OBVIOUS
<1>2. /\ m \in Nat /\ o \in [1..m -> B]
      /\ \A i, j \in 1..m : i < j => o[i] < o[j]
      /\ \A x \in B : \E i \in 1..m : o[i] = x
  BY <1>1, InOrderLists DEF Lists
<1>3. o \in Seq(B) /\ Len(o) = m /\ o # <<>> /\ m # 0
  <2>1. o \in Seq(B) /\ Len(o) = m
    BY <1>2
  <2>2. \E i \in 1..m : TRUE
    BY <1>2
  <2> QED
    BY <2>1, <2>2, <1>2
<1>4. PICK s : s = Newests(o, limit)
  OBVIOUS
<1>5. PICK k \in Nat, n \in Nat \ {0} :
        /\ m = k + n /\ s \in Seq(B) /\ Len(s) = n /\ \A i \in 1..n : s[i] = o[k + i]
  <2>1. o \in Seq(B) /\ o # <<>>
    BY <1>3
  <2>2. IsTail(s, o, limit, B)
    BY <1>4, <2>1, NewestsIs
  <2> QED
    BY <1>3, <2>2 DEF IsTail
<1>6. \A i \in 1..m : o[i] \in Nat
  BY <1>2
<1>7. \A i \in 1..n : k + i \in 1..m
  BY <1>5
<1>8. \A i, j \in 1..n : i < j => s[i] < s[j]
  <2> TAKE i, j \in 1..n
  <2> HAVE i < j
  <2>1. k + i \in 1..m /\ k + j \in 1..m /\ k + i < k + j
    BY <1>7
  <2> QED
    BY <1>2, <1>5, <2>1
<1>9. ASSUME NEW i \in 2..n, NEW b \in B, s[i-1] < b, b < s[i] PROVE FALSE
  <2>1. PICK j \in 1..m : o[j] = b
    BY <1>2
  <2>2. i \in 1..n /\ i - 1 \in 1..n
    BY <1>5
  <2>3. s[i-1] = o[k + (i - 1)] /\ s[i] = o[k + i] /\ k + (i - 1) \in 1..m /\ k + i \in 1..m
    BY <1>5, <1>7, <2>2
  <2>4. PICK a \in 1..m, d \in 1..m : a = k + (i - 1) /\ d = k + i
    BY <2>3
  <2>5. o[a] < o[j] /\ o[j] < o[d] /\ o[a] \in Nat /\ o[j] \in Nat /\ o[d] \in Nat
    BY <1>6, <1>9, <2>1, <2>3, <2>4
  <2>6. ~ (j < a) /\ j # a
    BY <1>2, <2>5
  <2>7. ~ (d < j) /\ j # d
    BY <1>2, <2>5
  <2>8. d = a + 1
    BY <2>4
  <2> QED
    BY ONLY <2>6, <2>7, <2>8, a \in Int, j \in Int, d \in Int, m \in Nat
<1>10. ASSUME NEW b \in B PROVE b <= s[n]
  <2>1. PICK j \in 1..m : o[j] = b
    BY <1>2
  <2>2. n \in 1..n /\ s[n] = o[m]
    BY <1>5
  <2>3. m \in 1..m /\ (j = m \/ j < m)
    BY <1>5
  <2> QED
    BY <1>2, <1>6, <2>1, <2>2, <2>3
<1>11. ASSUME NEW b \in B, b >= s[1] PROVE \E i \in 1..n : s[i] = b
  <2>1. PICK j \in 1..m : o[j] = b
    BY <1>2
  <2>2. 1 \in 1..n /\ s[1] = o[k + 1] /\ k + 1 \in 1..m
    BY <1>5, <1>7
  <2>3. ~ (j < k + 1)
    BY <1>2, <1>6, <1>11, <2>1, <2>2
  <2>4. j - k \in 1..n /\ k + (j - k) = j
    BY <1>5, <2>3
  <2> QED
    BY <1>5, <2>1, <2>4
<1>12. Consecutive(s, B, w)
  BY <1>5, <1>8, <1>9 DEF Consecutive
<1> QED
  BY <1>1, <1>4, <1>5, <1>10, <1>11, <1>12 DEF NewestOf

\* The buckets are multiples of their length.
LEMMA BucketsAre ==
  ASSUME CandlesKept, rows # {}, NEW w \in Widths
  PROVE  /\ IsFiniteSet(BucketsOf(w)) /\ BucketsOf(w) \subseteq Nat /\ BucketsOf(w) # {}
         /\ \A b \in BucketsOf(w) : Multiple(b, w)
<1>1. PICK B : B = BucketsOf(w) /\ B = {FloorBucket(At[x], w) : x \in rows}
  BY DEF CandlesKept
<1>2. IsFiniteSet(rows) /\ \A x \in rows : At[x] \in Nat
  BY TradeAssumption DEF CandlesKept
<1>3. w \in Nat \ {0}
  BY MarketAssumption
<1>4. PICK k : k = [x \in rows |-> FloorBucket(At[x], w)]
  OBVIOUS
<1>5. \A y \in B : \E x \in rows : y = k[x]
  BY <1>1, <1>4
<1>6. IsFiniteSet(B)
  BY ONLY <1>2, <1>5, ImageFinite
<1>7. \A x \in rows : At[x] \div w \in Nat /\ (At[x] \div w) * w \in Nat
  <2> TAKE x \in rows
  <2>1. PICK a \in Nat : a = At[x]
    BY <1>2
  <2>2. a \div w \in Nat
    BY <1>3, SMTT(20)
  <2>3. \A p \in Nat : p * w \in Nat
    BY <1>3, SMTT(20)
  <2> QED
    BY <2>1, <2>2, <2>3
<1>8. \A b \in B : b \in Nat /\ Multiple(b, w)
  BY <1>1, <1>7 DEF FloorBucket, Multiple
<1>9. B # {}
  BY <1>1
<1> QED
  BY <1>1, <1>6, <1>8, <1>9

\* What is drawn of the newest buckets, cut to the newest points, is sound.
LEMMA SeriesIs ==
  ASSUME CandlesKept, rows # {}, NEW w \in Widths, NEW limit \in Limits, NEW B, B = BucketsOf(w)
  PROVE  LET r == Series(w, limit)
         IN /\ Len(r) \in 1..limit /\ Last(r).time = Max(B)
            /\ \A b \in B : b >= r[1].time =>
                 \E i \in 1..Len(r) : r[i] = Point(b, candles[w][b])
            /\ \A i \in 2..Len(r) : r[i].time > r[i-1].time /\ Continues(r, i, B, w)
<1>1. PICK c : c = candles[w] /\ DOMAIN c = B
  BY DEF BucketsOf
<1>2. IsFiniteSet(B) /\ B \subseteq Nat /\ B # {} /\ \A b \in B : Multiple(b, w)
  BY BucketsAre
<1>3. w \in Nat \ {0} /\ limit \in Nat \ {0}
  BY MarketAssumption
<1>4. PICK s : s = Newests(InOrder(B), limit)
  OBVIOUS
<1>5. /\ Consecutive(s, B, w) /\ Len(s) \in Nat \ {0}
      /\ \A b \in B : b <= s[Len(s)]
      /\ \A b \in B : b >= s[1] => \E i \in 1..Len(s) : s[i] = b
  <2>1. NewestOf(s, B, w)
    BY ONLY <1>2, <1>3, <1>4, NewestBuckets
  <2> QED
    BY <2>1 DEF NewestOf
<1>6. PICK l \in Nat \ {0} : l = Len(s)
  BY <1>5
<1>7. s \in Seq(B) /\ \A i \in 1..l : s[i] \in B /\ s[i] \in Nat
  <2>1. s \in Seq(B)
    BY <1>5 DEF Consecutive
  <2> QED
    BY <1>2, <1>6, <2>1
<1>8. PICK q : q = Filled(s, w)
  OBVIOUS
<1>9. Draws(q, s, l, c, w)
  BY <1>1, <1>5, <1>6, <1>8, FilledDraws
<1>10. /\ q \in Seq(Points(c)) /\ Len(q) >= 1 /\ q[1].time = s[1]
       /\ q[Len(q)] = Point(s[l], c[s[l]]) /\ Ascends(q)
       /\ \A m \in 1..l : \E i \in 1..Len(q) : q[i] = Point(s[m], c[s[m]])
       /\ \A i \in 2..Len(q) : Continues(q, i, B, w)
  BY <1>1, <1>6, <1>9 DEF Draws
<1>11. PICK r : r = Newests(q, limit) /\ r = Series(w, limit)
  BY <1>4, <1>8 DEF Series, BucketsOf
<1>12. q # <<>>
  BY <1>10
<1>13. IsTail(r, q, limit, Points(c))
  BY <1>3, <1>10, <1>11, <1>12, NewestsIs
<1>14. PICK k \in Nat, n \in Nat \ {0} :
         /\ Len(q) = k + n /\ n <= limit /\ r \in Seq(Points(c)) /\ Len(r) = n
         /\ \A i \in 1..n : r[i] = q[k + i]
  BY <1>13 DEF IsTail
<1>15. \A i \in 1..n : k + i \in 1..Len(q)
  BY <1>14
<1>16. Len(r) \in 1..limit
  BY <1>3, <1>14
<1>17. Last(r).time = Max(B)
  <2>1. l \in 1..l /\ s[l] \in B
    BY <1>7
  <2>2. Max(B) = s[l]
    <3>1. \A b \in B : b \in Int /\ s[l] >= b
      BY <1>2, <1>5, <1>6, <1>7
    <3> QED
      BY ONLY <2>1, <3>1, MaxIs
  <2>3. Last(r) = r[n] /\ n \in 1..n /\ r[n] = q[k + n]
    BY <1>14 DEF Last
  <2>4. q[k + n].time = s[l]
    BY <1>10, <1>14 DEF Point
  <2> QED
    BY <2>2, <2>3, <2>4
<1>18. \A i \in 1..Len(q) : q[i].time \in Nat
  <2> TAKE i \in 1..Len(q)
  <2>1. PICK x : x = q[i] /\ x \in Points(c)
    BY <1>10
  <2>2. CASE x \in {Point(y, c[y]) : y \in DOMAIN c}
    <3>1. PICK y \in DOMAIN c : x = Point(y, c[y])
      BY <2>2
    <3> QED
      BY <1>1, <1>2, <2>1, <3>1 DEF Point
  <2>3. CASE x \in {Flat(y, c[z].close) : y \in Nat, z \in DOMAIN c}
    <3>1. PICK y \in Nat, z \in DOMAIN c : x = Flat(y, c[z].close)
      BY <2>3
    <3> QED
      BY <2>1, <3>1 DEF Flat
  <2> QED
    BY <2>1, <2>2, <2>3 DEF Points
<1> HIDE DEF Point, Flat, Points
<1>19. ASSUME NEW b \in B, b >= r[1].time
       PROVE  \E i \in 1..n : r[i] = Point(b, c[b])
  <2>1. 1 \in 1..n /\ k + 1 \in 1..Len(q) /\ r[1] = q[k + 1]
    BY <1>14, <1>15
  <2>2. 1 \in 1..Len(q) /\ q[1].time <= q[k + 1].time
    <3>1. 1 \in 1..Len(q) /\ (k + 1 = 1 \/ 1 < k + 1)
      BY <2>1
    <3> QED
      BY <1>10, <1>18, <2>1, <3>1 DEF Ascends
  <2>3. b >= s[1]
    <3>1. b \in Nat /\ q[1].time \in Nat /\ q[k + 1].time \in Nat
      BY <1>2, <1>18, <2>1, <2>2
    <3> QED
      BY <1>10, <1>19, <2>1, <2>2, <3>1
  <2>4. PICK m \in 1..l : s[m] = b
    BY <1>5, <1>6, <2>3
  <2>5. PICK i \in 1..Len(q) : q[i] = Point(b, c[b])
    BY <1>10, <2>4
  <2>6. q[i].time = b
    BY <2>5 DEF Point
  <2>7. ~ (i < k + 1)
    <3> SUFFICES ASSUME i < k + 1 PROVE FALSE
      OBVIOUS
    <3>1. q[i].time < q[k + 1].time
      BY <1>10, <2>1 DEF Ascends
    <3>2. q[i].time \in Nat /\ q[k + 1].time \in Nat
      BY <1>18, <2>1
    <3> QED
      BY <1>19, <2>1, <2>6, <3>1, <3>2
  <2>8. i - k \in 1..n /\ k + (i - k) = i
    BY <1>14, <2>7
  <2> QED
    BY <1>14, <2>5, <2>8
<1>20. ASSUME NEW i \in 2..n PROVE r[i].time > r[i-1].time /\ Continues(r, i, B, w)
  <2>1. i \in 1..n /\ i - 1 \in 1..n
    BY <1>14
  <2>2. PICK a \in 2..Len(q) : a = k + i
    BY <1>14
  <2>3. r[i] = q[a] /\ r[i-1] = q[a-1] /\ a - 1 \in 1..Len(q) /\ a \in 1..Len(q) /\ a - 1 < a
    <3>1. r[i-1] = q[k + (i - 1)] /\ k + (i - 1) = a - 1 /\ k + (i - 1) \in 1..Len(q)
      BY <1>14, <1>15, <2>1, <2>2
    <3>2. r[i] = q[a] /\ a \in 1..Len(q)
      BY <1>14, <1>15, <2>1, <2>2
    <3> QED
      BY <3>1, <3>2
  <2>4. q[a-1].time < q[a].time /\ q[a-1].time \in Nat /\ q[a].time \in Nat
    BY <1>10, <1>18, <2>3 DEF Ascends
  <2>5. \A d \in 1..MaxFill : d < i => d < a /\ r[i-d] = q[a-d]
    <3> TAKE d \in 1..MaxFill
    <3> HAVE d < i
    <3>1. i - d \in 1..n /\ k + (i - d) = a - d /\ d < a
      BY <1>14, <2>1, <2>2
    <3> QED
      BY <1>14, <3>1
  <2>6. Continues(q, a, B, w)
    BY <1>10
  <2>7. Continues(r, i, B, w)
    BY <2>3, <2>5, <2>6 DEF Continues
  <2> QED
    BY <2>3, <2>4, <2>7
<1> QED
  BY <1>1, <1>11, <1>14, <1>16, <1>17, <1>19, <1>20

LEMMA SeriesFollows == CandlesKept => SeriesSound
<1> SUFFICES ASSUME CandlesKept, rows # {}, NEW w \in Widths, NEW limit \in Limits
             PROVE  LET s == Series(w, limit)
                        B == BucketsOf(w)
                    IN /\ Len(s) \in 1..limit /\ Last(s).time = Max(B)
                       /\ \A b \in B : b >= s[1].time =>
                            \E i \in 1..Len(s) : s[i] = Point(b, candles[w][b])
                       /\ \A i \in 2..Len(s) :
                            /\ s[i].time > s[i-1].time
                            /\ s[i].time \notin B => s[i] = Flat(s[i-1].time + w, s[i-1].close)
                            /\ s[i].time > s[i-1].time + w =>
                                 \A k \in 1..MaxFill : k < i => s[i-k].time \notin B
  BY DEF SeriesSound
<1>1. PICK r, B : r = Series(w, limit) /\ B = BucketsOf(w)
  OBVIOUS
<1>2. /\ Len(r) \in 1..limit /\ Last(r).time = Max(B)
      /\ \A b \in B : b >= r[1].time => \E i \in 1..Len(r) : r[i] = Point(b, candles[w][b])
      /\ \A i \in 2..Len(r) : r[i].time > r[i-1].time /\ Continues(r, i, B, w)
  BY <1>1, SeriesIs
<1> QED
  BY <1>1, <1>2 DEF Continues

\* What GET /market/candles answers can be drawn, whatever trades came in whatever order,
\* however long the gaps between them, and whatever the limit: at most so many points, in
\* strictly increasing time up to the newest candle, none of the candles since the first
\* point left out, flat points between them, and a hole only where a gap has its fill
\* (market-data-service/app/main.py, get_market_candles).
THEOREM SeriesHolds == MarketSpec => []SeriesSound
<1> QED
  BY SeriesFollows, CandlesInit, CandlesNext, ShownInit, ShownNext, PTL DEF MarketSpec

-----------------------------------------------------------------------------
(* The notifications page (Notifications) *)

\* What a filter keeps are the elements at the positions, in order.
LEMMA FilteredIs ==
  ASSUME NEW s, NEW n \in Nat, NEW I \in SUBSET (1..n)
  PROVE  /\ Cardinality(I) \in Nat
         /\ Filtered(s, I) = [i \in 1..Cardinality(I) |-> Filtered(s, I)[i]]
         /\ \E at : /\ Lists(at, I)
                    /\ \A i \in 1..Cardinality(I) : Filtered(s, I)[i] = s[at[i]]
<1>1. IsFiniteSet(1..n)
  BY FS_Interval
<1>2. IsFiniteSet(I)
  BY <1>1, FS_Subset
<1>3. I \subseteq Nat
  OBVIOUS
<1>4. Lists(InOrder(I), I) /\ Cardinality(I) \in Nat
  BY <1>2, <1>3, InOrderLists
<1>5. Filtered(s, I) = [i \in 1..Cardinality(I) |-> s[InOrder(I)[i]]]
  BY DEF Filtered
<1> HIDE DEF InOrder
<1> QED
  BY <1>4, <1>5

-----------------------------------------------------------------------------
Filters == {"none", "all", "unread", "mixed"}
AlertRows == [id : Nat, is_read : BOOLEAN]
Recipients == {UsersOf(EventOf[e])[i] : e \in Events, i \in 1..2}
StoredRows == [event : Events, user : Recipients, is_read : BOOLEAN]

\* The alerts M of a user become N, and the late ones of them K become L: a new one is
\* late, or newer than all.
Grows(M, K, N, L) ==
  M \subseteq N /\ K \subseteq L /\ \A n \in N \ M : n \in L \/ \A m \in M : m < n

Newer(k, M) == {m \in M : m > k}

\* A list of alerts of M, none of them twice.
IsList(s, M) ==
  /\ s \in Seq(AlertRows)
  /\ \A i \in DOMAIN s : s[i].id \in M
  /\ \A i, j \in DOMAIN s : s[i].id = s[j].id => i = j

Descends(s) == \A i, j \in DOMAIN s : i < j => s[i].id > s[j].id

\* The first is the newest.
Topped(s) == \A i \in DOMAIN s : s[i].id <= s[1].id

\* Newest first, and every alert between two of the list is in it, but for the late ones L.
Whole(s, M, L) ==
  /\ Topped(s)
  /\ \A i, j \in DOMAIN s : i < j /\ s[i].id \notin L /\ s[j].id \notin L => s[i].id > s[j].id
  /\ \A i, j \in DOMAIN s, m \in M \ L : s[i].id <= m /\ m <= s[j].id => m \in Ids(s)

\* Whole, unless more than a page of alerts have come since.
Holds(s, M, L) ==
  s # <<>> /\ Cardinality(Newer(s[1].id, M)) <= PageSize => Whole(s, M, L)

\* The answer g overlaps the list b it was asked for, or begins right below it.
Joins(b, g, M, L) ==
  /\ g[1].id <= b[1].id
  /\ \A m \in M \ L : (\A i \in DOMAIN b : m < b[i].id) => m <= g[1].id

\* What an answer on its way to the page is.
Answers(r, M, L) ==
  /\ IsList(r.got, M) /\ Descends(r.got)
  /\ ~ r.only =>
       /\ Whole(r.got, M, L)
       /\ r.base # <<>> /\ r.from = "all" /\ r.got # <<>>
            /\ Cardinality(Newer(r.base[1].id, M)) <= PageSize => Joins(r.base, r.got, M, L)

\* What a request of the page is.
Asked(r, M, L) ==
  /\ r \in [more : BOOLEAN, only : BOOLEAN, base : Seq(AlertRows), from : Filters,
            got : Seq(AlertRows) \cup {NoAnswer}]
  /\ IsList(r.base, M) /\ (r.from = "all" => Holds(r.base, M, L))
  /\ IF r.more THEN Len(r.base) >= PageSize ELSE r.base = <<>>
  /\ r.got # NoAnswer => Answers(r, M, L)

Stored == table \in Seq(StoredRows)

ListsKept ==
  /\ Stored /\ processed \subseteq inserted /\ unreadOnly \in BOOLEAN /\ hasMore \in BOOLEAN /\ source \in Filters
  /\ IsList(alerts, Mine) /\ (source = "all" => Holds(alerts, Mine, late))
  /\ hasMore => Len(alerts) >= PageSize
  /\ \A r \in loads : Asked(r, Mine, late)

LEMMA MineFinite ==
  ASSUME Stored
  PROVE  /\ IsFiniteSet(Mine) /\ Mine \subseteq 1..Len(table) /\ Mine \subseteq Nat
         /\ IsFiniteSet(Unread) /\ Unread \subseteq Mine
<1>1. Len(table) \in Nat /\ DOMAIN table = 1..Len(table)
  BY DEF Stored
<1>2. Mine \in SUBSET (1..Len(table)) /\ Unread \in SUBSET Mine
  BY <1>1 DEF Mine, Unread
<1>3. IsFiniteSet(1..Len(table))
  BY <1>1, FS_Interval
<1>4. IsFiniteSet(Mine)
  BY <1>2, <1>3, FS_Subset
<1>5. IsFiniteSet(Unread)
  BY <1>2, <1>4, FS_Subset
<1> QED
  BY <1>1, <1>2, <1>4, <1>5

\* What was true of a list stays true while alerts come.
LEMMA GrownList ==
  ASSUME NEW M, NEW K, NEW N, NEW L, IsFiniteSet(N), N \subseteq Nat, Grows(M, K, N, L),
         NEW s, IsList(s, M)
  PROVE  /\ IsList(s, N)
         /\ Whole(s, M, K) => Whole(s, N, L)
         /\ Holds(s, M, K) => Holds(s, N, L)
         /\ s # <<>> => Cardinality(Newer(s[1].id, M)) <= Cardinality(Newer(s[1].id, N))
<1>1. IsList(s, N)
  BY DEF IsList, Grows
<1>2. ASSUME Whole(s, M, K) PROVE Whole(s, N, L)
  <2>1. ASSUME NEW i \in DOMAIN s, NEW j \in DOMAIN s, NEW m \in N \ L,
               s[i].id <= m, m <= s[j].id
        PROVE  m \in Ids(s)
    <3>1. s[j].id \in M /\ s[j].id \in Nat /\ m \in Nat
      BY DEF IsList, Grows
    <3>2. m \in M \ K
      BY <3>1, <2>1 DEF Grows
    <3> QED
      BY <3>2, <2>1, <1>2 DEF Whole
  <2>2. ASSUME NEW i \in DOMAIN s, NEW j \in DOMAIN s, i < j, s[i].id \notin L, s[j].id \notin L
        PROVE  s[i].id > s[j].id
    <3>1. s[i].id \notin K /\ s[j].id \notin K
      BY <2>2 DEF Grows
    <3> QED
      BY <3>1, <2>2, <1>2 DEF Whole
  <2> QED
    BY <2>1, <2>2, <1>2 DEF Whole
<1>3. \A k : Cardinality(Newer(k, M)) <= Cardinality(Newer(k, N))
  <2> TAKE k
  <2>1. Newer(k, N) \in SUBSET N /\ Newer(k, M) \in SUBSET Newer(k, N)
    BY DEF Newer, Grows
  <2> QED
    BY <2>1, FS_Subset
<1>4. \A k : Cardinality(Newer(k, M)) \in Nat /\ Cardinality(Newer(k, N)) \in Nat
  <2> TAKE k
  <2>1. Newer(k, N) \in SUBSET N /\ Newer(k, M) \in SUBSET N
    BY DEF Newer, Grows
  <2> QED
    BY <2>1, FS_Subset, FS_CardinalityType
<1>5. ASSUME Holds(s, M, K) PROVE Holds(s, N, L)
  BY <1>2, <1>3, <1>4, <1>5, BoundAssumption DEF Holds
<1> QED
  BY <1>1, <1>2, <1>3, <1>5

\* A list that is not empty has a first row.
LEMMA HasFirst ==
  ASSUME NEW S, NEW s \in Seq(S), s # <<>>
  PROVE  Len(s) \in Nat \ {0} /\ 1 \in DOMAIN s /\ s[1] \in S
  OBVIOUS

LEMMA GrownJoin ==
  ASSUME NEW M, NEW K, NEW N, NEW L, N \subseteq Nat, Grows(M, K, N, L),
         NEW b, NEW g, IsList(b, M), b # <<>>, Joins(b, g, M, K)
  PROVE  Joins(b, g, N, L)
<1>1. ASSUME NEW m \in N \ L, \A i \in DOMAIN b : m < b[i].id PROVE m <= g[1].id
  <2>1. 1 \in DOMAIN b /\ b[1].id \in M /\ b[1].id \in Nat
    <3>1. b \in Seq(AlertRows)
      BY DEF IsList
    <3>2. 1 \in DOMAIN b
      BY <3>1, HasFirst
    <3> QED
      BY <3>2 DEF IsList, Grows
  <2>2. m \in M \ K
    <3>1. m < b[1].id
      BY <1>1, <2>1
    <3>2. ASSUME m \notin M PROVE FALSE
      <4>1. b[1].id < m
        BY <2>1, <3>2 DEF Grows
      <4>2. m \in Nat
        BY N \subseteq Nat
      <4> QED
        BY <2>1, <3>1, <4>1, <4>2
    <3> QED
      BY <3>2 DEF Grows
  <2> QED
    BY <1>1, <2>2 DEF Joins
<1> QED
  BY <1>1 DEF Joins

\* So does what was true of a request.
LEMMA GrownRequest ==
  ASSUME NEW M, NEW K, NEW N, NEW L, IsFiniteSet(N), N \subseteq Nat, Grows(M, K, N, L),
         NEW r, Asked(r, M, K)
  PROVE  Asked(r, N, L)
<1>1. /\ IsList(r.base, M) /\ (r.from = "all" => Holds(r.base, M, K))
      /\ r.got # NoAnswer => Answers(r, M, K)
  BY DEF Asked
<1>2. /\ IsList(r.base, N) /\ (r.from = "all" => Holds(r.base, N, L))
      /\ r.base # <<>> =>
           Cardinality(Newer(r.base[1].id, M)) <= Cardinality(Newer(r.base[1].id, N))
  BY <1>1, GrownList
<1>3. ASSUME r.got # NoAnswer PROVE Answers(r, N, L)
  <2>1. IsList(r.got, M) /\ Descends(r.got)
    BY <1>1, <1>3 DEF Answers
  <2>2. IsList(r.got, N) /\ (Whole(r.got, M, K) => Whole(r.got, N, L))
    BY <2>1, GrownList
  <2>3. ASSUME ~ r.only, r.base # <<>>, r.from = "all", r.got # <<>>,
               Cardinality(Newer(r.base[1].id, N)) <= PageSize
        PROVE  Joins(r.base, r.got, N, L)
    <3>1. /\ Newer(r.base[1].id, N) \in SUBSET N /\ Newer(r.base[1].id, M) \in SUBSET N
      BY DEF Newer, Grows
    <3>2. /\ Cardinality(Newer(r.base[1].id, M)) \in Nat
          /\ Cardinality(Newer(r.base[1].id, N)) \in Nat
      BY <3>1, FS_Subset, FS_CardinalityType
    <3>3. Cardinality(Newer(r.base[1].id, M)) <= PageSize
      BY <1>2, <2>3, <3>2, BoundAssumption
    <3>4. Joins(r.base, r.got, M, K)
      BY <1>1, <1>3, <2>3, <3>3 DEF Answers
    <3> QED
      BY <1>1, <2>3, <3>4, GrownJoin
  <2> QED
    BY <1>1, <1>3, <2>1, <2>2, <2>3 DEF Answers
<1> QED
  BY <1>2, <1>3 DEF Asked

\* The list a is the list b with what the answer g adds to it.
Lengthens(a, b, g) ==
  /\ a \in Seq(AlertRows) /\ Len(a) >= Len(b)
  /\ \A i \in 1..Len(b) : a[i] = b[i]
  /\ \A i \in Len(b) + 1..Len(a) :
       /\ \E k \in DOMAIN g : a[i] = g[k]
       /\ a[i].id \notin Ids(b)
       /\ \A j \in DOMAIN a : i < j => a[i].id > a[j].id
  /\ Ids(a) = Ids(b) \cup Ids(g)
  /\ b = <<>> => Len(a) = Len(g)

LEMMA AppendedIs ==
  ASSUME NEW M, M \subseteq Nat, NEW r, IsList(r.base, M), IsList(r.got, M), Descends(r.got)
  PROVE  Lengthens(Appended(r), r.base, r.got)
<1> SUFFICES ASSUME NEW a, a = Appended(r) PROVE Lengthens(a, r.base, r.got)
  OBVIOUS
<1> DEFINE b == r.base
           g == r.got
           n == Len(b)
           I == {i \in DOMAIN g : g[i].id \notin Ids(b)}
           c == Cardinality(I)
<1>1. /\ b \in Seq(AlertRows) /\ n \in Nat /\ DOMAIN b = 1..n
      /\ g \in Seq(AlertRows) /\ Len(g) \in Nat /\ DOMAIN g = 1..Len(g)
      /\ I \in SUBSET (1..Len(g))
  BY DEF IsList
<1>0. \A i \in DOMAIN g : i \in I <=> g[i].id \notin Ids(b)
  OBVIOUS
<1>a. a = b \o Filtered(g, I)
  BY DEF Appended
<1> HIDE DEF I, b, g
<1>2. PICK at : Lists(at, I) /\ \A i \in 1..c : Filtered(g, I)[i] = g[at[i]]
  BY ONLY <1>1, FilteredIs
<1>3. c \in Nat /\ Filtered(g, I) = [i \in 1..c |-> Filtered(g, I)[i]]
  BY ONLY <1>1, FilteredIs
<1>b. /\ at \in [1..c -> I]
      /\ \A i, j \in 1..c : i < j => at[i] < at[j]
      /\ \A k \in I : \E i \in 1..c : at[i] = k
  BY <1>2 DEF Lists
<1> HIDE DEF c
<1>4. /\ \A i \in 1..c : at[i] \in DOMAIN g /\ at[i] \in Nat /\ g[at[i]].id \notin Ids(b)
      /\ \A i, j \in 1..c : i < j => at[i] < at[j]
      /\ \A k \in I : \E i \in 1..c : at[i] = k
  <2>1. \A i \in 1..c : at[i] \in I
    BY <1>b
  <2>2. \A i \in I : i \in 1..Len(g) /\ i \in DOMAIN g /\ i \in Nat /\ g[i].id \notin Ids(b)
    BY <1>0, <1>1
  <2> QED
    BY <1>b, <2>1, <2>2
<1>5. PICK k : k = Filtered(g, I)
  OBVIOUS
<1>6. k \in Seq(AlertRows) /\ Len(k) = c /\ \A i \in 1..c : k[i] = g[at[i]]
  <2>1. k = [i \in 1..c |-> k[i]] /\ \A i \in 1..c : k[i] = g[at[i]]
    BY <1>2, <1>3, <1>5
  <2>2. \A i \in 1..c : k[i] \in AlertRows
    BY <1>1, <1>4, <2>1
  <2> QED
    BY <1>3, <2>1, <2>2
<1>7. a = b \o k
  BY <1>a, <1>5
<1>8. /\ a \in Seq(AlertRows) /\ Len(a) = n + c /\ DOMAIN a = 1..n + c
      /\ \A i \in 1..n : a[i] = b[i]
      /\ \A i \in 1..c : a[n + i] = g[at[i]]
  BY ONLY <1>1, <1>3, <1>6, <1>7
<1>9. ASSUME NEW i \in n + 1..Len(a)
      PROVE  /\ i - n \in 1..c /\ a[i] = g[at[i - n]]
  BY ONLY <1>1, <1>3, <1>8
<1>10. ASSUME NEW i \in n + 1..Len(a), NEW j \in DOMAIN a, i < j
       PROVE  a[i].id > a[j].id
  <2>1. j \in n + 1..Len(a) /\ i - n < j - n
    BY <1>1, <1>3, <1>8, <1>10
  <2>2. at[i - n] < at[j - n]
    BY <1>4, <1>9, <2>1
  <2>3. Descends(g)
    BY DEF g
  <2> QED
    BY <1>4, <1>9, <2>1, <2>2, <2>3 DEF Descends
<1>11. Ids(a) = Ids(b) \cup Ids(g)
  <2>1. ASSUME NEW x \in Ids(a) PROVE x \in Ids(b) \cup Ids(g)
    <3>1. PICK i \in 1..n + c : x = a[i].id
      BY <1>8 DEF Ids
    <3>2. CASE i <= n
      BY <1>1, <1>3, <1>8, <3>1, <3>2 DEF Ids
    <3>3. CASE i > n
      <4>1. i \in n + 1..Len(a)
        BY <1>1, <1>3, <1>8, <3>1, <3>3
      <4> QED
        BY <1>4, <1>9, <3>1, <4>1 DEF Ids
    <3> QED
      BY <1>1, <1>3, <3>2, <3>3
  <2>2. ASSUME NEW i \in 1..n PROVE b[i].id \in Ids(a)
    BY <1>1, <1>3, <1>8 DEF Ids
  <2>3. ASSUME NEW i \in DOMAIN g, g[i].id \notin Ids(b) PROVE g[i].id \in Ids(a)
    <3>1. PICK j \in 1..c : at[j] = i
      BY <1>0, <1>4, <2>3
    <3>2. n + j \in DOMAIN a /\ a[n + j].id = g[i].id
      BY <1>1, <1>3, <1>8, <3>1
    <3> QED
      BY <3>2 DEF Ids
  <2>4. Ids(b) \subseteq Ids(a)
    BY <1>1, <2>2 DEF Ids
  <2>5. Ids(g) \subseteq Ids(a)
    <3>1. ASSUME NEW i \in DOMAIN g PROVE g[i].id \in Ids(a)
      BY <2>3, <2>4
    <3> QED
      BY <3>1 DEF Ids
  <2> QED
    BY <2>1, <2>4, <2>5
<1>12. ASSUME b = <<>> PROVE Len(a) = Len(g)
  <2>1. n = 0 /\ Ids(b) = {}
    BY <1>1, <1>12 DEF Ids
  <2>0. I = 1..Len(g)
    BY <1>0, <1>1, <2>1
  <2>2. c = Len(g)
    <3>1. PICK l \in Nat : l = Len(g)
      BY <1>1
    <3>2. Cardinality(1..l) = l
      BY FS_Interval
    <3> QED
      BY <2>0, <3>1, <3>2 DEF c
  <2> QED
    BY <1>1, <1>3, <1>8, <2>1, <2>2
<1>13. Len(a) >= n
  BY <1>1, <1>3, <1>8
<1>14. \A i \in n + 1..Len(a) :
          (\E l \in DOMAIN g : a[i] = g[l]) /\ a[i].id \notin Ids(b)
  BY <1>4, <1>9
<1> QED
  BY <1>8, <1>10, <1>11, <1>12, <1>13, <1>14 DEF Lengthens, b, g

\* Joined to a list that is whole, an answer that is whole makes a longer one.
LEMMA AppendedHolds ==
  ASSUME NEW M, IsFiniteSet(M), M \subseteq Nat, NEW L,
         NEW r, IsList(r.base, M), IsList(r.got, M), Descends(r.got)
  PROVE  /\ IsList(Appended(r), M) /\ Len(Appended(r)) >= Len(r.base)
         /\ r.base = <<>> => Len(Appended(r)) = Len(r.got)
         /\ Asked(r, M, L) /\ r.got # NoAnswer /\ SourceOf(r) = "all" => Holds(Appended(r), M, L)
<1>1. PICK a : a = Appended(r)
  OBVIOUS
<1>0. Lengthens(a, r.base, r.got)
  BY <1>1, AppendedIs
<1> DEFINE b == r.base
           g == r.got
           n == Len(b)
<1>2. /\ b \in Seq(AlertRows) /\ n \in Nat /\ DOMAIN b = 1..n
      /\ g \in Seq(AlertRows) /\ Len(g) \in Nat /\ DOMAIN g = 1..Len(g)
      /\ \A i \in DOMAIN b : b[i].id \in M /\ b[i].id \in Nat
      /\ \A i \in DOMAIN g : g[i].id \in M /\ g[i].id \in Nat
      /\ \A i, j \in DOMAIN b : b[i].id = b[j].id => i = j
      /\ \A i, j \in DOMAIN g : i < j => g[i].id > g[j].id
  <2>1. IsList(b, M) /\ IsList(g, M) /\ Descends(g)
    OBVIOUS
  <2> HIDE DEF b, g
  <2>2. /\ b \in Seq(AlertRows) /\ \A i \in DOMAIN b : b[i].id \in M
        /\ \A i, j \in DOMAIN b : b[i].id = b[j].id => i = j
    BY <2>1 DEF IsList
  <2>3. /\ g \in Seq(AlertRows) /\ \A i \in DOMAIN g : g[i].id \in M
    BY <2>1 DEF IsList
  <2>4. DOMAIN b = 1..Len(b) /\ Len(b) \in Nat /\ DOMAIN g = 1..Len(g) /\ Len(g) \in Nat
    BY <2>2, <2>3
  <2>5. /\ \A i \in DOMAIN b : b[i].id \in Nat
        /\ \A i \in DOMAIN g : g[i].id \in Nat
    BY <2>2, <2>3
  <2>6. \A i, j \in DOMAIN g : i < j => g[i].id > g[j].id
    BY <2>1 DEF Descends
  <2> QED
    BY <2>2, <2>3, <2>4, <2>5, <2>6
<1>3. /\ a \in Seq(AlertRows) /\ Len(a) >= n /\ Len(a) \in Nat /\ DOMAIN a = 1..Len(a)
      /\ \A i \in 1..n : a[i] = b[i]
      /\ \A i \in n + 1..Len(a) :
           /\ \E k \in DOMAIN g : a[i] = g[k]
           /\ a[i].id \notin Ids(b)
           /\ \A j \in DOMAIN a : i < j => a[i].id > a[j].id
      /\ Ids(a) = Ids(b) \cup Ids(g)
      /\ b = <<>> => Len(a) = Len(g)
  BY <1>0 DEF Lengthens
<1> HIDE DEF b, g, n
<1>4. \A i \in DOMAIN a : i \in 1..n \/ i \in n + 1..Len(a)
  <2>1. n \in Nat /\ Len(a) \in Nat /\ DOMAIN a = 1..Len(a)
    BY <1>2, <1>3
  <2> QED
    BY ONLY <2>1
<1>5. \A i \in DOMAIN a : a[i].id \in M /\ a[i].id \in Nat
  BY <1>2, <1>3, <1>4
<1>6. ASSUME NEW i \in DOMAIN a, NEW j \in DOMAIN a, i < j PROVE a[i].id # a[j].id
  <2>1. CASE i \in n + 1..Len(a)
    <3>1. a[i].id > a[j].id
      BY <1>3, <1>6, <2>1
    <3>2. a[i].id \in Nat /\ a[j].id \in Nat
      BY <1>5
    <3> QED
      BY ONLY <3>1, <3>2
  <2>2. CASE i \in 1..n /\ j \in 1..n
    <3>1. i # j /\ i \in DOMAIN b /\ j \in DOMAIN b
      BY <1>2, <1>6, <2>2
    <3>2. a[i] = b[i] /\ a[j] = b[j]
      BY <1>3, <2>2
    <3> QED
      BY <1>2, <3>1, <3>2
  <2>3. CASE i \in 1..n /\ j \in n + 1..Len(a)
    <3>1. a[i].id \in Ids(b)
      BY <1>2, <1>3, <2>3 DEF Ids
    <3> QED
      BY <1>3, <2>3, <3>1
  <2> QED
    BY <1>4, <2>1, <2>2, <2>3
<1>7. IsList(a, M)
  <2>1. ASSUME NEW i \in DOMAIN a, NEW j \in DOMAIN a, a[i].id = a[j].id PROVE i = j
    <3>1. ~ (i < j) /\ ~ (j < i)
      BY <1>6, <2>1
    <3> QED
      BY <1>3, <3>1
  <2> QED
    BY <1>3, <1>5, <2>1 DEF IsList
<1>8. ASSUME Asked(r, M, L), r.got # NoAnswer, SourceOf(r) = "all" PROVE Holds(a, M, L)
  <2>1. ~ r.only /\ (r.more => r.from = "all")
    BY <1>8 DEF SourceOf, Asked
  <2>2. Whole(g, M, L)
    BY <1>8, <2>1 DEF Asked, Answers, g
  <2>3. CASE b = <<>>
    <3>1. n = 0 /\ Ids(b) = {}
      BY <1>2, <2>3 DEF n, Ids
    <3>2. Ids(a) = Ids(g)
      BY <1>3, <3>1
    <3>3. /\ \A i, j \in DOMAIN a : i < j => a[i].id > a[j].id
          /\ Topped(a)
      <4>1. \A i, j \in DOMAIN a : i < j => a[i].id > a[j].id
        BY <1>3, <1>4, <3>1
      <4>2. ASSUME NEW i \in DOMAIN a PROVE a[i].id <= a[1].id
        <5>1. 1 \in DOMAIN a /\ (i = 1 \/ 1 < i)
          BY <1>3
        <5> QED
          BY <1>5, <4>1, <5>1
      <4> QED
        BY <4>1, <4>2 DEF Topped
    <3>4. \A i \in DOMAIN a : \E k \in DOMAIN g : a[i] = g[k]
      BY <1>3, <1>4, <3>1
    <3>5. Whole(a, M, L)
      BY <2>2, <3>2, <3>3, <3>4 DEF Whole
    <3> QED
      BY <3>5 DEF Holds
  <2>4. CASE b # <<>>
    <3>1. n \in Nat \ {0} /\ 1 \in 1..n /\ a # <<>> /\ a[1] = b[1]
      <4>1. n \in Nat \ {0}
        BY <1>2, <2>4, HasFirst DEF n
      <4>2. 1 \in 1..n /\ a[1] = b[1]
        BY <1>3, <4>1
      <4>3. a # <<>>
        BY <1>3, <4>1
      <4> QED
        BY <4>1, <4>2, <4>3
    <3>2. r.from = "all"
      BY <1>8, <2>1, <2>4 DEF Asked, b
    <3> SUFFICES ASSUME Cardinality(Newer(b[1].id, M)) <= PageSize PROVE Whole(a, M, L)
      BY <3>1 DEF Holds
    <3>3. Whole(b, M, L)
      BY <1>8, <2>4, <3>2 DEF Asked, Holds, b
    <3>4. g # <<>> => Joins(b, g, M, L)
      BY <1>8, <2>1, <2>4, <3>2 DEF Asked, Answers, b, g
    <3>5. ASSUME NEW k \in DOMAIN g
          PROVE  Joins(b, g, M, L) /\ g[k].id <= g[1].id /\ g[1].id <= b[1].id /\ 1 \in DOMAIN g
      <4>1. g # <<>> /\ 1 \in DOMAIN g
        BY <1>2
      <4>2. Joins(b, g, M, L)
        BY <3>4, <4>1
      <4>3. g[k].id <= g[1].id
        <5>1. CASE k = 1
          BY <1>2, <4>1, <5>1
        <5>2. CASE k # 1
          BY <1>2, <4>1, <5>2
        <5> QED
          BY <5>1, <5>2
      <4> QED
        BY <4>1, <4>2, <4>3 DEF Joins
    <3>6. \A j \in DOMAIN a : a[j].id <= b[1].id
      <4> TAKE j \in DOMAIN a
      <4>1. CASE j \in 1..n
        <5>1. b[j].id <= b[1].id
          BY <1>2, <3>3, <4>1 DEF Whole, Topped
        <5> QED
          BY <1>3, <4>1, <5>1
      <4>2. CASE j \in n + 1..Len(a)
        <5>1. PICK k \in DOMAIN g : a[j] = g[k]
          BY <1>3, <4>2
        <5> QED
          BY <1>2, <3>1, <3>5, <5>1
      <4> QED
        BY <1>4, <4>1, <4>2
    <3>7. ASSUME NEW i \in 1..n, NEW j \in n + 1..Len(a), a[j].id \notin L
          PROVE  a[i].id > a[j].id
      <4>1. j \in DOMAIN a /\ a[j].id \in M /\ a[j].id \in Nat /\ a[j].id \notin Ids(b)
        <5>0. n \in Nat /\ Len(a) \in Nat
          BY <1>2, <1>3
        <5>1. j \in 1..Len(a)
          BY ONLY <5>0, j \in n + 1..Len(a)
        <5> QED
          BY <1>3, <1>5, <5>1
      <4>2. a[i] = b[i] /\ i \in DOMAIN b /\ 1 \in DOMAIN b /\ b[i].id \in Nat
        BY <1>2, <1>3, <3>1
      <4>3. ~ (b[i].id <= a[j].id)
        BY <3>3, <3>6, <3>7, <4>1, <4>2 DEF Whole
      <4> QED
        BY <4>1, <4>2, <4>3
    <3>8. ASSUME NEW i \in DOMAIN a, NEW j \in DOMAIN a, i < j, a[i].id \notin L, a[j].id \notin L
          PROVE  a[i].id > a[j].id
      <4>1. CASE i \in n + 1..Len(a)
        BY <1>3, <3>8, <4>1
      <4>2. CASE i \in 1..n /\ j \in 1..n
        BY <1>2, <1>3, <3>3, <3>8, <4>2 DEF Whole
      <4>3. CASE i \in 1..n /\ j \in n + 1..Len(a)
        BY <3>7, <3>8, <4>3
      <4> QED
        BY <1>4, <4>1, <4>2, <4>3
    <3>9. ASSUME NEW i \in DOMAIN a, NEW j \in DOMAIN a, NEW m \in M \ L,
                 a[i].id <= m, m <= a[j].id
          PROVE  m \in Ids(a)
      <4>0. m \in Nat /\ a[i].id \in Nat /\ a[j].id \in Nat /\ b[1].id \in Nat
        BY <1>2, <1>5, <3>1
      <4>1. CASE \E k \in DOMAIN b : b[k].id <= m
        <5>1. m <= b[1].id /\ 1 \in DOMAIN b
          BY <1>2, <3>1, <3>6, <3>9, <4>0
        <5>2. m \in Ids(b)
          BY <3>3, <4>1, <5>1 DEF Whole
        <5> QED
          BY <1>3, <5>2
      <4>2. CASE \A k \in DOMAIN b : ~ (b[k].id <= m)
        <5>1. \A k \in DOMAIN b : m < b[k].id
          BY <1>2, <4>0, <4>2
        <5>2. i \in n + 1..Len(a)
          BY <1>2, <1>3, <1>4, <3>9, <4>2
        <5>3. PICK k \in DOMAIN g : a[i] = g[k]
          BY <1>3, <5>2
        <5>4. m <= g[1].id /\ 1 \in DOMAIN g
          BY <3>5, <5>1 DEF Joins
        <5>5. m \in Ids(g)
          BY <2>2, <3>9, <5>3, <5>4 DEF Whole
        <5> QED
          BY <1>3, <5>5
      <4> QED
        BY <4>1, <4>2
    <3> QED
      BY <3>1, <3>6, <3>8, <3>9 DEF Whole, Topped
  <2> QED
    BY <2>3, <2>4
<1> QED
  BY <1>1, <1>3, <1>7, <1>8 DEF b, g, n

\* A page of the list: the alerts of S from rank offset + 1 on, newest first.
IsPage(s, S, offset) ==
  \E d : /\ d \in [1..Cardinality(S) -> S]
         /\ \A i, j \in 1..Cardinality(S) : i < j => d[i] > d[j]
         /\ \A x \in S : \E i \in 1..Cardinality(S) : d[i] = x
         /\ \A i \in DOMAIN s : offset + i \in 1..Cardinality(S) /\ s[i].id = d[offset + i]

LEMMA PageIs ==
  ASSUME Stored, NEW only \in BOOLEAN, NEW limit \in Nat, NEW offset \in Nat
  PROVE  /\ ListNotifications(only, limit, offset) \in Seq(AlertRows)
         /\ IsPage(ListNotifications(only, limit, offset), IF only THEN Unread ELSE Mine, offset)
<1> DEFINE S == IF only THEN Unread ELSE Mine
<1>1. IsFiniteSet(S) /\ S \subseteq Mine /\ S \subseteq Nat /\ Mine \subseteq 1..Len(table)
  BY MineFinite
<1> HIDE DEF S
<1>2. Lists(InOrder(S), S) /\ Cardinality(S) \in Nat
  BY <1>1, InOrderLists
<1>3. PICK o : o = InOrder(S)
  OBVIOUS
<1>4. PICK n \in Nat : n = Cardinality(S)
  BY <1>2
<1>5. /\ o \in [1..n -> S] /\ o \in Seq(S) /\ Len(o) = n
      /\ \A i, j \in 1..n : i < j => o[i] < o[j]
      /\ \A x \in S : \E i \in 1..n : o[i] = x
  BY <1>2, <1>3, <1>4 DEF Lists
<1>6. PICK d : d = Reverse(o)
  OBVIOUS
<1>7. d = [i \in 1..n |-> o[n - i + 1]]
  BY <1>5, <1>6 DEF Reverse
<1>8. /\ d \in [1..n -> S] /\ Len(d) = n
      /\ \A i, j \in 1..n : i < j => d[i] > d[j]
      /\ \A x \in S : \E i \in 1..n : d[i] = x
  <2>1. \A i \in 1..n : n - i + 1 \in 1..n /\ d[i] = o[n - i + 1] /\ d[i] \in S
    BY <1>5, <1>7
  <2>2. ASSUME NEW i \in 1..n, NEW j \in 1..n, i < j PROVE d[i] > d[j]
    <3>1. n - j + 1 < n - i + 1 /\ n - j + 1 \in 1..n /\ n - i + 1 \in 1..n
      BY <2>2
    <3>2. o[n - j + 1] < o[n - i + 1] /\ o[n - j + 1] \in Nat /\ o[n - i + 1] \in Nat
      BY <1>1, <1>5, <3>1
    <3> QED
      BY <2>1, <3>2
  <2>3. ASSUME NEW x \in S PROVE \E i \in 1..n : d[i] = x
    <3>1. PICK j \in 1..n : o[j] = x
      BY <1>5
    <3>2. n - j + 1 \in 1..n /\ n - (n - j + 1) + 1 = j
      OBVIOUS
    <3> QED
      BY <2>1, <3>1, <3>2
  <2>4. Len(d) = n /\ d \in [1..n -> S]
    BY <1>7, <2>1
  <2> QED
    BY <2>2, <2>3, <2>4
<1>9. PICK T : T = {limit, n - offset}
  OBVIOUS
<1>10. PICK k : k = Min(T) /\ k \in Int /\ k <= n - offset
  <2>1. limit \in T /\ n - offset \in T /\ limit \in Int /\ n - offset \in Int
    BY <1>9
  <2>2. CASE limit <= n - offset
    <3>1. \A b \in T : b \in Int /\ limit <= b
      BY <1>9, <2>1, <2>2
    <3>2. Min(T) = limit
      BY <2>1, <3>1, MinIs
    <3> QED
      BY <2>1, <2>2, <3>2
  <2>3. CASE n - offset <= limit
    <3>1. \A b \in T : b \in Int /\ n - offset <= b
      BY <1>9, <2>1, <2>3
    <3>2. Min(T) = n - offset
      BY <2>1, <3>1, MinIs
    <3> QED
      BY <2>1, <2>3, <3>2
  <2> QED
    BY <2>1, <2>2, <2>3
<1>11. PICK s : s = ListNotifications(only, limit, offset)
  OBVIOUS
<1>12. s = [i \in 1..k |-> [id |-> d[offset + i], is_read |-> table[d[offset + i]].is_read]]
  BY <1>3, <1>6, <1>8, <1>9, <1>10, <1>11 DEF ListNotifications, S
<1>13. DOMAIN s = 1..k /\ \A i \in 1..k : offset + i \in 1..n /\ s[i].id = d[offset + i]
  BY <1>10, <1>12
<1>14. s \in Seq(AlertRows)
  <2>1. ASSUME NEW i \in 1..k PROVE s[i] \in AlertRows
    <3>1. d[offset + i] \in Mine /\ d[offset + i] \in Nat /\ d[offset + i] \in 1..Len(table)
      BY <1>1, <1>8, <1>13
    <3>2. table[d[offset + i]] \in StoredRows
      BY <3>1 DEF Stored
    <3>3. table[d[offset + i]].is_read \in BOOLEAN
      BY <3>2 DEF StoredRows
    <3> QED
      BY <1>12, <3>1, <3>3 DEF AlertRows
  <2>2. PICK l \in Nat : 1..k = 1..l
    <3>1. CASE k >= 0
      BY <1>10, <3>1
    <3>2. CASE k < 0
      BY <1>10, <3>2, 1..k = 1..0
    <3> QED
      BY <1>10, <3>1, <3>2
  <2>3. s = [i \in 1..l |-> s[i]] /\ \A i \in 1..l : s[i] \in AlertRows
    BY <1>12, <2>1, <2>2
  <2> QED
    BY <2>3
<1>15. IsPage(s, S, offset)
  BY <1>4, <1>8, <1>13 DEF IsPage
<1> QED
  BY <1>11, <1>14, <1>15 DEF S

\* A page is a list, newest first, and without the filter it is whole.
LEMMA PageHolds ==
  ASSUME NEW M, IsFiniteSet(M), M \subseteq Nat, NEW S, S \subseteq M,
         NEW g \in Seq(AlertRows), NEW offset \in Nat, IsPage(g, S, offset), NEW L
  PROVE  /\ IsList(g, M) /\ Descends(g)
         /\ S = M => Whole(g, M, L)
<1>0. IsFiniteSet(S)
  BY FS_Subset
<1>1. PICK n \in Nat : n = Cardinality(S)
  BY <1>0, FS_CardinalityType
<1>2. PICK d : /\ d \in [1..n -> S]
               /\ \A i, j \in 1..n : i < j => d[i] > d[j]
               /\ \A x \in S : \E i \in 1..n : d[i] = x
               /\ \A i \in DOMAIN g : offset + i \in 1..n /\ g[i].id = d[offset + i]
  BY <1>1 DEF IsPage
<1>3. DOMAIN g = 1..Len(g) /\ Len(g) \in Nat
  OBVIOUS
<1>4. \A i \in 1..n : d[i] \in M /\ d[i] \in Nat
  BY <1>2
<1>5. ASSUME NEW i \in DOMAIN g, NEW j \in DOMAIN g, i < j PROVE g[i].id > g[j].id
  <2>1. offset + i < offset + j
    BY <1>3, <1>5
  <2> QED
    BY <1>2, <2>1
<1>6. Descends(g)
  BY <1>5 DEF Descends
<1>7. IsList(g, M)
  <2>1. \A i \in DOMAIN g : g[i].id \in M /\ g[i].id \in Nat
    BY <1>2, <1>4
  <2>2. ASSUME NEW i \in DOMAIN g, NEW j \in DOMAIN g, g[i].id = g[j].id PROVE i = j
    <3>1. ~ (i < j) /\ ~ (j < i)
      BY <1>5, <2>1, <2>2
    <3> QED
      BY <1>3, <3>1
  <2> QED
    BY <2>1, <2>2 DEF IsList
<1>8. ASSUME S = M PROVE Whole(g, M, L)
  <2>1. ASSUME NEW i \in DOMAIN g, NEW j \in DOMAIN g, NEW m \in M \ L,
               g[i].id <= m, m <= g[j].id
        PROVE  m \in Ids(g)
    <3>1. PICK q \in 1..n : d[q] = m
      BY <1>2, <1>8
    <3>2. d[offset + i] <= d[q] /\ d[q] <= d[offset + j]
      BY <1>2, <2>1, <3>1
    <3>3. /\ offset + i \in 1..n /\ offset + j \in 1..n
          /\ d[offset + i] \in Nat /\ d[offset + j] \in Nat /\ d[q] \in Nat
      BY <1>2, <1>4
    <3>4. ~ (offset + i < q) /\ ~ (q < offset + j)
      BY <1>2, <3>2, <3>3
    <3>5. q - offset \in DOMAIN g /\ offset + (q - offset) = q
      BY <1>3, <3>3, <3>4
    <3>6. g[q - offset].id = m
      BY <1>2, <3>1, <3>5
    <3> QED
      BY <3>5, <3>6 DEF Ids
  <2>2. ASSUME NEW i \in DOMAIN g PROVE g[i].id <= g[1].id
    <3>1. 1 \in DOMAIN g /\ (i = 1 \/ 1 < i)
      BY <1>3
    <3>2. g[i].id \in Nat /\ g[1].id \in Nat
      BY <1>2, <1>4, <3>1
    <3> QED
      BY <1>5, <3>1, <3>2
  <2> QED
    BY <1>5, <2>1, <2>2 DEF Whole, Topped
<1> QED
  BY <1>6, <1>7, <1>8

\* The next page joins the list it was asked for, unless more than a page of alerts have
\* come since that list was drawn: by what is on both sides of the offset.
LEMMA PageJoins ==
  ASSUME NEW M, IsFiniteSet(M), M \subseteq Nat, NEW g \in Seq(AlertRows), g # <<>>,
         NEW b, IsList(b, M), b # <<>>, Len(b) >= PageSize, IsPage(g, M, Len(b)),
         Cardinality(Newer(b[1].id, M)) <= PageSize, NEW L
  PROVE  Joins(b, g, M, L)
<1>1. PICK n \in Nat : n = Cardinality(M)
  BY FS_CardinalityType
<1>2. PICK d : /\ d \in [1..n -> M]
               /\ \A i, j \in 1..n : i < j => d[i] > d[j]
               /\ \A x \in M : \E i \in 1..n : d[i] = x
               /\ \A i \in DOMAIN g : Len(b) + i \in 1..n /\ g[i].id = d[Len(b) + i]
  BY <1>1 DEF IsPage
<1>3. \A i \in 1..n : d[i] \in M /\ d[i] \in Nat
  BY <1>2
<1> DEFINE w == Len(b)
<1>4. b \in Seq(AlertRows)
  BY DEF IsList
<1>5. /\ w \in Nat \ {0} /\ DOMAIN b = 1..w /\ 1 \in DOMAIN b
      /\ \A i \in 1..w : b[i].id \in M /\ b[i].id \in Nat
      /\ \A i, j \in 1..w : b[i].id = b[j].id => i = j
  <2>1. w \in Nat \ {0} /\ 1 \in DOMAIN b
    BY <1>4, HasFirst
  <2>2. DOMAIN b = 1..w
    BY <1>4
  <2> QED
    BY <2>1, <2>2 DEF IsList
<1>6. 1 \in DOMAIN g /\ w + 1 \in 1..n /\ g[1].id = d[w + 1]
  <2>1. 1 \in DOMAIN g
    BY HasFirst
  <2> QED
    BY <1>2, <2>1
<1> HIDE DEF w
<1>7. g[1].id <= b[1].id
  <2> SUFFICES ASSUME ~ (d[w + 1] <= b[1].id) PROVE FALSE
    BY <1>6
  <2> DEFINE T == Newer(b[1].id, M)
  <2>1. \A i \in 1..w + 1 : i \in 1..n /\ d[i] \in T
    <3> TAKE i \in 1..w + 1
    <3>1. i \in 1..n /\ d[i] \in Nat /\ d[i] \in M /\ d[w + 1] \in Nat /\ b[1].id \in Nat
      BY <1>3, <1>5, <1>6
    <3>2. i = w + 1 \/ d[i] > d[w + 1]
      BY <1>2, <1>5, <1>6, <3>1
    <3> QED
      BY <3>1, <3>2 DEF Newer
  <2>2. IsFiniteSet(T)
    <3>1. T \in SUBSET M
      BY DEF Newer
    <3> QED
      BY <3>1, FS_Subset
  <2> HIDE DEF T
  <2>3. PICK f : f = [i \in 1..w + 1 |-> d[i]]
    OBVIOUS
  <2>4. f \in [1..w + 1 -> T]
    BY <2>1, <2>3
  <2>5. ASSUME NEW i \in 1..w + 1, NEW j \in 1..w + 1, f[i] = f[j] PROVE i = j
    <3>1. i \in 1..n /\ j \in 1..n /\ d[i] = d[j] /\ d[i] \in Nat
      BY <1>3, <2>1, <2>3, <2>5
    <3>2. ~ (i < j) /\ ~ (j < i)
      BY <1>2, <3>1
    <3> QED
      BY <3>2, <1>5
  <2>6. w + 1 <= Cardinality(T)
    <3>1. w + 1 \in Nat
      BY <1>5
    <3> QED
      BY ONLY <2>2, <2>4, <2>5, <3>1, Pigeons
  <2>7. Cardinality(T) \in Nat /\ Cardinality(T) <= PageSize /\ PageSize <= w
    BY <2>2, FS_CardinalityType DEF T, w
  <2> QED
    BY <1>5, <2>6, <2>7, BoundAssumption
<1>8. ASSUME NEW m \in M, \A i \in DOMAIN b : m < b[i].id PROVE m <= g[1].id
  <2> SUFFICES ASSUME ~ (m <= d[w + 1]) PROVE FALSE
    BY <1>6
  <2>1. PICK q \in 1..n : d[q] = m
    BY <1>2
  <2>2. q < w + 1
    <3>1. d[q] \in Nat /\ d[w + 1] \in Nat /\ d[q] > d[w + 1] /\ q \in Nat
      BY <1>3, <1>6, <2>1
    <3>2. ASSUME w + 1 < q PROVE FALSE
      BY <1>2, <1>6, <3>1, <3>2
    <3>3. w + 1 # q
      BY <3>1
    <3> QED
      BY <1>5, <3>1, <3>2, <3>3
  <2> DEFINE T == {d[i] : i \in 1..q - 1}
  <2>3. IsFiniteSet(T) /\ Cardinality(T) <= q - 1
    <3>1. q - 1 \in Nat
      OBVIOUS
    <3> QED
      BY ONLY <3>1, Holes
  <2>4. \A i \in 1..w : b[i].id \in T
    <3> TAKE i \in 1..w
    <3>1. PICK p \in 1..n : d[p] = b[i].id
      BY <1>2, <1>5
    <3>2. d[q] < d[p] /\ d[q] \in Nat /\ d[p] \in Nat
      BY <1>3, <1>5, <1>8, <2>1, <3>1
    <3>3. ASSUME q < p PROVE FALSE
      BY <1>2, <3>2, <3>3
    <3>4. p \in 1..q - 1
      <4>1. p # q
        BY <3>2
      <4> QED
        BY <3>3, <4>1
    <3> QED
      BY <3>1, <3>4
  <2> HIDE DEF T
  <2>5. PICK f : f = [i \in 1..w |-> b[i].id]
    OBVIOUS
  <2>6. f \in [1..w -> T] /\ \A i, j \in 1..w : f[i] = f[j] => i = j
    BY <1>5, <2>4, <2>5
  <2>7. w <= Cardinality(T)
    BY <1>5, <2>3, <2>6, Pigeons
  <2>8. Cardinality(T) \in Nat
    BY <2>3, FS_CardinalityType
  <2> QED
    BY <1>5, <2>2, <2>3, <2>7, <2>8
<1> QED
  BY <1>7, <1>8 DEF Joins

-----------------------------------------------------------------------------
LEMMA AlertsInitKept == AlertsInit => ListsKept
<1> SUFFICES ASSUME AlertsInit PROVE ListsKept
  OBVIOUS
<1>1. /\ table = <<>> /\ alerts = <<>> /\ unreadOnly = FALSE /\ hasMore = FALSE
      /\ source = "none" /\ loads \subseteq {Load(FALSE)} /\ processed \subseteq inserted
  BY DEF AlertsInit
<1>2. Stored /\ IsList(alerts, Mine)
  BY <1>1 DEF Stored, IsList
<1>3. Asked(Load(FALSE), Mine, late)
  BY DEF Asked, Load, IsList, Filters
<1> QED
  BY <1>1, <1>2, <1>3 DEF ListsKept, Filters

\* Requests and lists survive what brings alerts.
LEMMA GrownKept ==
  ASSUME ListsKept, Stored', processed' \subseteq inserted', IsFiniteSet(Mine'), Mine' \subseteq Nat, Grows(Mine, late, Mine', late'),
         unreadOnly' \in BOOLEAN, UNCHANGED <<alerts, source, hasMore>>,
         \A r \in loads' : r \in loads \/ Asked(r, Mine, late)
  PROVE  ListsKept'
<1>1. PICK M, N, K, L, s : M = Mine /\ N = Mine' /\ K = late /\ L = late' /\ s = alerts
  OBVIOUS
<1>2. IsList(s, M) /\ (source = "all" => Holds(s, M, K)) /\ \A r \in loads' : Asked(r, M, K)
  BY <1>1 DEF ListsKept
<1>3. IsFiniteSet(N) /\ N \subseteq Nat /\ Grows(M, K, N, L)
  BY <1>1
<1>4. IsList(s, N) /\ (Holds(s, M, K) => Holds(s, N, L))
  BY <1>2, <1>3, GrownList
<1>5. \A r \in loads' : Asked(r, N, L)
  BY <1>2, <1>3, GrownRequest
<1> QED
  BY <1>1, <1>2, <1>4, <1>5 DEF ListsKept

LEMMA RecipientsStored ==
  ASSUME NEW e \in Events
  PROVE  RowsOf(e) \in Seq(StoredRows)
<1> DEFINE p == EventOf[e]
<1>1. PICK users : /\ users = CASE p.type = "trade.executed" -> <<p.buyer, p.seller>>
                     [] p.type = "order.cancelled" ->
                          IF p.reason = "IOC_REMAINDER" /\ p.quantity = 0 THEN <<>> ELSE <<p.user>>
                     [] p.type = "order.rejected" -> <<p.user>>
  OBVIOUS
<1>2. PICK n \in 0..2 : DOMAIN users = 1..n
  <2>1. p.type \in {"trade.executed", "order.cancelled", "order.rejected"}
    BY EventAssumption
  <2>2. CASE p.type = "trade.executed"
    BY <1>1, <2>2
  <2>3. CASE p.type = "order.cancelled"
    <3>1. users = <<>> \/ users = <<p.user>>
      BY <1>1, <2>3
    <3> QED
      BY <3>1
  <2>4. CASE p.type = "order.rejected"
    BY <1>1, <2>4
  <2> QED
    BY <2>1, <2>2, <2>3, <2>4
<1> DEFINE I == {i \in DOMAIN users : users[i] # NoUser}
<1>3. UsersOf(p) = Filtered(users, I)
  BY <1>1 DEF UsersOf
<1>4. I \in SUBSET (1..n) /\ n \in Nat
  BY <1>2
<1> HIDE DEF I, p
<1>5. PICK c \in Nat : DOMAIN UsersOf(p) = 1..c /\ c <= 2
  <2>1. Cardinality(I) \in Nat /\ DOMAIN Filtered(users, I) = 1..Cardinality(I)
    <3>1. /\ Cardinality(I) \in Nat
          /\ Filtered(users, I) = [i \in 1..Cardinality(I) |-> Filtered(users, I)[i]]
      BY ONLY <1>4, FilteredIs
    <3> QED
      BY <3>1
  <2>2. Cardinality(I) <= 2
    <3>1. IsFiniteSet(1..n) /\ Cardinality(1..n) = n
      BY <1>2, <1>4, FS_Interval
    <3>2. Cardinality(I) <= Cardinality(1..n)
      BY <1>4, <3>1, FS_Subset
    <3> QED
      BY <1>2, <2>1, <3>1, <3>2
  <2> QED
    BY <1>3, <2>1, <2>2
<1>6. RowsOf(e) = [i \in 1..c |-> [event |-> e, user |-> UsersOf(p)[i], is_read |-> FALSE]]
  BY <1>5 DEF RowsOf, p
<1>7. \A i \in 1..c : UsersOf(p)[i] \in Recipients
  BY <1>5 DEF Recipients, p
<1>8. \A i \in 1..c : RowsOf(e)[i] \in StoredRows
  BY <1>6, <1>7 DEF StoredRows
<1> QED
  BY <1>5, <1>6, <1>8

\* Rows that are inserted are nobody's to see.
LEMMA FlushKeeps ==
  ASSUME Stored, NEW e \in Events, e \notin processed, table' = table \o RowsOf(e),
         processed' = processed
  PROVE  Stored' /\ Mine' = Mine
<1>1. PICK s, new : s = table /\ new = RowsOf(e)
  OBVIOUS
<1>2. s \in Seq(StoredRows) /\ new \in Seq(StoredRows)
  BY <1>1, RecipientsStored DEF Stored
<1>3. PICK u : u = s \o new
  OBVIOUS
<1>4. /\ u \in Seq(StoredRows) /\ Len(u) = Len(s) + Len(new)
      /\ \A i \in 1..Len(s) : u[i] = s[i]
      /\ \A i \in Len(s) + 1..Len(u) : i - Len(s) \in DOMAIN new /\ u[i] = new[i - Len(s)]
      /\ Len(s) \in Nat /\ Len(new) \in Nat /\ DOMAIN s = 1..Len(s) /\ DOMAIN u = 1..Len(u)
  BY <1>2, <1>3
<1>5. table' = u
  BY <1>1, <1>3
<1>6. \A i \in DOMAIN new : new[i].event = e
  BY <1>1 DEF RowsOf
<1>7. /\ Mine = {i \in 1..Len(s) : s[i].event \in processed /\ s[i].user = Me}
      /\ Mine' = {i \in 1..Len(u) : u[i].event \in processed /\ u[i].user = Me}
  BY <1>1, <1>4, <1>5 DEF Mine
<1>8. \A i \in 1..Len(u) : i \in 1..Len(s) \/ i \in Len(s) + 1..Len(u)
  <2>1. Len(s) \in Nat /\ Len(u) \in Nat
    BY <1>4
  <2> QED
    BY ONLY <2>1
<1>9. \A i \in Len(s) + 1..Len(u) : u[i].event \notin processed
  BY <1>4, <1>6
<1>10. 1..Len(s) \subseteq 1..Len(u)
  BY <1>4
<1>11. Mine' = Mine
  BY <1>4, <1>7, <1>8, <1>9, <1>10
<1> QED
  BY <1>4, <1>5, <1>11 DEF Stored

\* A commit shows rows that are late, or newer than all that were seen.
LEMMA CommitGrows ==
  ASSUME Stored, NEW e \in Events, CommitRows(e)
  PROVE  /\ Stored' /\ IsFiniteSet(Mine') /\ Mine' \subseteq Nat
         /\ Grows(Mine, late, Mine', late')
<1>1. /\ table' = table /\ processed' = processed \cup {e}
      /\ late' = late \cup {i \in DOMAIN table :
           table[i].event = e /\ table[i].user = Me /\ \E m \in Mine : i < m}
  BY DEF CommitRows
<1>2. Stored'
  BY <1>1 DEF Stored
<1>3. Mine' = {i \in DOMAIN table : table[i].event \in processed \cup {e} /\ table[i].user = Me}
  BY <1>1 DEF Mine
<1>4. PICK n \in Nat : DOMAIN table = 1..n
  BY DEF Stored
<1>5. IsFiniteSet(Mine') /\ Mine' \subseteq Nat
  <2>1. PICK N : N = Mine'
    OBVIOUS
  <2>2. N \in SUBSET (1..n)
    BY <1>3, <1>4, <2>1
  <2>3. IsFiniteSet(1..n)
    BY ONLY n \in Nat, FS_Interval
  <2>4. IsFiniteSet(N)
    BY ONLY <2>2, <2>3, FS_Subset
  <2> QED
    BY <2>1, <2>2, <2>4
<1>6. Mine \subseteq Mine' /\ Mine \subseteq Nat
  BY <1>3, <1>4 DEF Mine
<1>7. ASSUME NEW i \in Mine' \ Mine, i \notin late', NEW m \in Mine PROVE m < i
  <2>1. i \in DOMAIN table /\ table[i].event = e /\ table[i].user = Me
    BY <1>3, <1>7 DEF Mine
  <2>2. ~ (i < m)
    BY <1>1, <1>7, <2>1
  <2>3. i # m /\ i \in Nat /\ m \in Nat
    BY <1>5, <1>6, <1>7
  <2> QED
    BY <2>2, <2>3
<1> QED
  BY <1>1, <1>2, <1>5, <1>6, <1>7 DEF Grows

\* Marking as read changes no owner.
LEMMA MarkKeepsMine ==
  ASSUME Stored, NEW ids,
         table' = [i \in DOMAIN table |->
                     IF i \in ids THEN [table[i] EXCEPT !.is_read = TRUE] ELSE table[i]],
         processed' = processed
  PROVE  Stored' /\ Mine' = Mine
<1>1. PICK s : s = table
  OBVIOUS
<1>2. s \in Seq(StoredRows) /\ DOMAIN s = 1..Len(s) /\ Len(s) \in Nat
  BY <1>1 DEF Stored
<1>3. PICK u : u = [i \in 1..Len(s) |-> IF i \in ids THEN [s[i] EXCEPT !.is_read = TRUE] ELSE s[i]]
  OBVIOUS
<1>4. \A i \in 1..Len(s) : u[i] \in StoredRows /\ u[i].user = s[i].user /\ u[i].event = s[i].event
  <2> TAKE i \in 1..Len(s)
  <2>1. PICK x : x = s[i]
    OBVIOUS
  <2>2. x \in StoredRows
    BY <1>2, <2>1
  <2>3. u[i] = IF i \in ids THEN [x EXCEPT !.is_read = TRUE] ELSE x
    BY <1>3, <2>1
  <2>4. /\ [x EXCEPT !.is_read = TRUE] \in StoredRows
        /\ [x EXCEPT !.is_read = TRUE].user = x.user
        /\ [x EXCEPT !.is_read = TRUE].event = x.event
    BY <2>2 DEF StoredRows
  <2> QED
    BY <2>1, <2>2, <2>3, <2>4
<1>5. u \in Seq(StoredRows) /\ DOMAIN u = 1..Len(s) /\ table' = u
  BY <1>1, <1>2, <1>3, <1>4
<1>6. Mine' = Mine
  BY <1>1, <1>2, <1>4, <1>5 DEF Mine
<1> QED
  BY <1>5, <1>6 DEF Stored

\* Nor does marking in a list change which alerts are listed, and in which order.
LEMMA AsReadKeeps ==
  ASSUME NEW M, NEW s, IsList(s, M), NEW ids, NEW L
  PROVE  /\ IsList(AsRead(s, ids), M) /\ Len(AsRead(s, ids)) = Len(s)
         /\ Holds(s, M, L) => Holds(AsRead(s, ids), M, L)
<1>1. s \in Seq(AlertRows) /\ DOMAIN s = 1..Len(s) /\ Len(s) \in Nat
  BY DEF IsList
<1>2. PICK u : u = AsRead(s, ids)
  OBVIOUS
<1>3. u = [i \in 1..Len(s) |-> IF s[i].id \in ids THEN [s[i] EXCEPT !.is_read = TRUE] ELSE s[i]]
  BY <1>1, <1>2 DEF AsRead
<1>4. \A i \in 1..Len(s) : u[i] \in AlertRows /\ u[i].id = s[i].id
  <2> TAKE i \in 1..Len(s)
  <2>1. PICK x : x = s[i]
    OBVIOUS
  <2>2. x \in AlertRows
    BY <1>1, <2>1
  <2>3. u[i] = IF x.id \in ids THEN [x EXCEPT !.is_read = TRUE] ELSE x
    BY <1>3, <2>1
  <2>4. [x EXCEPT !.is_read = TRUE] \in AlertRows /\ [x EXCEPT !.is_read = TRUE].id = x.id
    BY <2>2 DEF AlertRows
  <2> QED
    BY <2>1, <2>2, <2>3, <2>4
<1>5. u \in Seq(AlertRows) /\ DOMAIN u = 1..Len(s) /\ Len(u) = Len(s)
  BY <1>1, <1>3, <1>4
<1>6. IsList(u, M)
  BY <1>1, <1>4, <1>5 DEF IsList
<1>7. ASSUME Holds(s, M, L) PROVE Holds(u, M, L)
  <2> SUFFICES ASSUME u # <<>>, Cardinality(Newer(u[1].id, M)) <= PageSize PROVE Whole(u, M, L)
    BY DEF Holds
  <2>1. s # <<>> /\ u[1].id = s[1].id
    <3>1. 1 \in 1..Len(s)
      BY <1>5, HasFirst
    <3> QED
      BY <1>1, <1>4, <3>1
  <2>2. Whole(s, M, L)
    BY <1>7, <2>1 DEF Holds
  <2>3. Ids(u) = Ids(s)
    BY <1>1, <1>4, <1>5 DEF Ids
  <2>4. Topped(u)
    BY <1>1, <1>4, <1>5, <2>1, <2>2 DEF Whole, Topped
  <2> QED
    BY <1>1, <1>4, <1>5, <2>2, <2>3, <2>4 DEF Whole
<1> QED
  BY <1>2, <1>5, <1>6, <1>7

\* What keeps the table and the page keeps the lists.
LEMMA RestKept ==
  ASSUME ListsKept, UNCHANGED <<server, page>>
  PROVE  ListsKept'
<1>1. PICK M : M = Mine
  OBVIOUS
<1>2. Mine' = M /\ Stored'
  BY <1>1 DEF ListsKept, Mine, Stored, server
<1>3. /\ unreadOnly' = unreadOnly /\ hasMore' = hasMore /\ source' = source
      /\ alerts' = alerts /\ loads' = loads
  BY DEF page
<1> QED
  BY <1>1, <1>2, <1>3 DEF ListsKept, server

\* Nor does a request of a list that is on the page spoil them.
LEMMA RequestKept ==
  ASSUME ListsKept, UNCHANGED <<server, alerts, source, hasMore>>, unreadOnly' \in BOOLEAN,
         \A r \in loads' : r \in loads \/ Asked(r, Mine, late)
  PROVE  ListsKept'
<1>1. PICK M : M = Mine
  OBVIOUS
<1>2. Mine' = M /\ Stored'
  BY <1>1 DEF ListsKept, Mine, Stored, server
<1>3. UNCHANGED <<processed, inserted, late, alerts, source, hasMore>>
  BY DEF server
<1> QED
  BY <1>1, <1>2, <1>3 DEF ListsKept

LEMMA LoadAsked == ASSUME NEW only \in BOOLEAN PROVE Asked(Load(only), Mine, late)
BY DEF Asked, Load, IsList, Filters

LEMMA PostServedKept ==
  ASSUME ListsKept, NEW p \in posts, PostServed(p)
  PROVE  ListsKept'
<1>1. Stored
  BY DEF ListsKept
<1>2. Stored' /\ Mine' = Mine
  BY <1>1, MarkKeepsMine DEF PostServed
<1>3. UNCHANGED <<processed, inserted, late, alerts, unreadOnly, hasMore, loads, source>>
  BY DEF PostServed, page
<1>4. PICK M : M = Mine
  OBVIOUS
<1> QED
  BY <1>2, <1>3, <1>4 DEF ListsKept

LEMMA PostAnsweredKept ==
  ASSUME ListsKept, NEW p \in posts, PostAnswered(p)
  PROVE  ListsKept'
<1>1. /\ UNCHANGED <<server, alerts, source, hasMore>>
      /\ unreadOnly' = unreadOnly /\ loads' = loads \cup {Load(TRUE)}
  BY DEF PostAnswered, server
<1>2. \A r \in loads' : r \in loads \/ Asked(r, Mine, late)
  BY <1>1, LoadAsked
<1> QED
  BY <1>1, <1>2, RequestKept DEF ListsKept, server

LEMMA LoadMoreKept == ASSUME ListsKept, LoadMore PROVE ListsKept'
<1>1. PICK r : r = [more |-> TRUE, only |-> unreadOnly, base |-> alerts, from |-> source,
                    got |-> NoAnswer]
  OBVIOUS
<1>2. hasMore /\ loads' = loads \cup {r} /\ UNCHANGED <<server, alerts, source, hasMore, unreadOnly>>
  BY <1>1 DEF LoadMore, CanLoadMore, server
<1>3. Asked(r, Mine, late)
  <2>1. IsList(alerts, Mine) /\ alerts \in Seq(AlertRows) /\ (source = "all" => Holds(alerts, Mine, late))
    BY DEF ListsKept, IsList
  <2>2. Len(alerts) >= PageSize /\ unreadOnly \in BOOLEAN /\ source \in Filters
    BY <1>2 DEF ListsKept
  <2> QED
    BY <1>1, <2>1, <2>2 DEF Asked
<1> QED
  BY <1>2, <1>3, RequestKept DEF ListsKept, server

\* What the server answers.
LEMMA PageServedKept ==
  ASSUME ListsKept, NEW r \in loads, PageServed(r)
  PROVE  ListsKept'
<1>1. PICK g, q : g = ListNotifications(r.only, PageSize, Offset(r)) /\ q = [r EXCEPT !.got = g]
  OBVIOUS
<1>2. /\ loads' = (loads \ {r}) \cup {q}
      /\ UNCHANGED <<server, alerts, source, hasMore, unreadOnly>>
  BY <1>1 DEF PageServed, server
<1>3. PICK M : M = Mine
  OBVIOUS
<1>4. IsFiniteSet(M) /\ M \subseteq Nat /\ Unread \subseteq M
  BY <1>3, MineFinite DEF ListsKept
<1>5. Asked(r, M, late)
  BY <1>3 DEF ListsKept
<1>6. r.only \in BOOLEAN /\ r.base \in Seq(AlertRows) /\ PageSize \in Nat
  BY <1>5, BoundAssumption DEF Asked
<1>7. PICK S : S = IF r.only THEN Unread ELSE M
  OBVIOUS
<1>8. Len(r.base) \in Nat
  BY <1>6
<1>9. g \in Seq(AlertRows) /\ IsPage(g, S, Len(r.base))
  BY <1>1, <1>3, <1>6, <1>7, <1>8, PageIs DEF ListsKept, Offset
<1>10. S \subseteq M /\ (~ r.only => S = M)
  BY <1>4, <1>7
<1>11. IsList(g, M) /\ Descends(g) /\ (~ r.only => Whole(g, M, late))
  BY <1>4, <1>8, <1>9, <1>10, PageHolds
<1>12. ASSUME ~ r.only, r.base # <<>>, r.from = "all", g # <<>>,
              Cardinality(Newer(r.base[1].id, M)) <= PageSize
       PROVE  Joins(r.base, g, M, late)
  <2>1. IsList(r.base, M) /\ Len(r.base) >= PageSize
    BY <1>5, <1>12 DEF Asked
  <2>2. IsPage(g, M, Len(r.base))
    BY <1>9, <1>10, <1>12
  <2> QED
    BY <1>4, <1>9, <1>12, <2>1, <2>2, PageJoins
<1>13. /\ q.got = g /\ q.more = r.more /\ q.only = r.only /\ q.base = r.base /\ q.from = r.from
       /\ q \in [more : BOOLEAN, only : BOOLEAN, base : Seq(AlertRows), from : Filters,
                 got : Seq(AlertRows) \cup {NoAnswer}]
  BY <1>1, <1>5, <1>9 DEF Asked
<1>14. Answers(q, M, late)
  BY <1>11, <1>12, <1>13 DEF Answers
<1>15. Asked(q, Mine, late)
  BY <1>3, <1>5, <1>13, <1>14 DEF Asked
<1> QED
  BY <1>2, <1>15, RequestKept DEF ListsKept, server

\* What the page makes of an answer.
LEMMA PageAnsweredKept ==
  ASSUME ListsKept, NEW r \in loads, PageAnswered(r)
  PROVE  ListsKept'
<1>1. PICK M, a : M = Mine /\ a = Appended(r)
  OBVIOUS
<1>2. /\ r.got # NoAnswer /\ loads' = loads \ {r} /\ alerts' = a
      /\ hasMore' = (Len(r.got) = PageSize) /\ source' = SourceOf(r)
      /\ UNCHANGED <<server, unreadOnly>>
  BY <1>1 DEF PageAnswered, server
<1>3. Mine' = M /\ Stored'
  BY <1>1, <1>2 DEF ListsKept, Mine, Stored, server
<1>4. IsFiniteSet(M) /\ M \subseteq Nat
  BY <1>1, MineFinite DEF ListsKept
<1>5. Asked(r, M, late) /\ Answers(r, M, late)
  BY <1>1, <1>2 DEF ListsKept, Asked
<1>6. IsList(r.base, M) /\ IsList(r.got, M) /\ Descends(r.got)
  BY <1>5 DEF Asked, Answers
<1>7. /\ IsList(a, M) /\ Len(a) >= Len(r.base) /\ (r.base = <<>> => Len(a) = Len(r.got))
      /\ SourceOf(r) = "all" => Holds(a, M, late)
  BY <1>1, <1>2, <1>4, <1>5, <1>6, AppendedHolds
<1>8. SourceOf(r) \in Filters
  BY DEF SourceOf, Filters
<1>9. hasMore' => Len(a) >= PageSize
  <2> SUFFICES ASSUME Len(r.got) = PageSize PROVE Len(a) >= PageSize
    BY <1>2
  <2>1. r.base = <<>> \/ Len(r.base) >= PageSize
    BY <1>5 DEF Asked
  <2>2. Len(a) \in Nat /\ Len(r.base) \in Nat /\ PageSize \in Nat
    BY <1>6, <1>7, BoundAssumption DEF IsList
  <2>3. CASE r.base = <<>>
    <3>1. Len(a) = Len(r.got)
      BY <1>7, <2>3
    <3> QED
      BY <2>2, <3>1
  <2>4. CASE Len(r.base) >= PageSize
    <3>1. Len(a) >= Len(r.base)
      BY <1>7
    <3> QED
      BY ONLY <2>2, <2>4, <3>1
  <2> QED
    BY ONLY <2>1, <2>3, <2>4
<1> QED
  BY <1>1, <1>2, <1>3, <1>7, <1>8, <1>9 DEF ListsKept, server

LEMMA PageFailsKept ==
  ASSUME ListsKept, NEW r \in loads, PageFails(r)
  PROVE  ListsKept'
<1>1. PICK M : M = Mine
  OBVIOUS
<1>2. /\ loads' = loads \ {r} /\ (hasMore' => hasMore) /\ hasMore' \in BOOLEAN
      /\ UNCHANGED <<server, alerts, source, unreadOnly>>
  BY DEF PageFails, server, ListsKept
<1>3. Mine' = M /\ Stored'
  BY <1>1, <1>2 DEF ListsKept, Mine, Stored, server
<1> QED
  BY <1>1, <1>2, <1>3 DEF ListsKept, server

LEMMA MarkedKept ==
  ASSUME ListsKept, NEW ids, alerts' = AsRead(alerts, ids),
         UNCHANGED <<server, unreadOnly, hasMore, loads, source>>
  PROVE  ListsKept'
<1>1. PICK M, a : M = Mine /\ a = AsRead(alerts, ids)
  OBVIOUS
<1>2. Mine' = M /\ Stored'
  BY <1>1 DEF ListsKept, Mine, Stored, server
<1>3. IsList(alerts, M)
  BY <1>1 DEF ListsKept
<1>4. /\ IsList(a, M) /\ Len(a) = Len(alerts) /\ (Holds(alerts, M, late) => Holds(a, M, late))
  BY <1>1, <1>3, AsReadKeeps
<1> QED
  BY <1>1, <1>2, <1>4 DEF ListsKept, server

LEMMA ListsNext == ListsKept /\ [AlertsNext]_alertVars => ListsKept'
<1> SUFFICES ASSUME ListsKept, [AlertsNext]_alertVars PROVE ListsKept'
  OBVIOUS
<1>0. ASSUME NEW e \in Events, InsertRows(e) PROVE ListsKept'
  <2>1. /\ table' = table \o RowsOf(e) /\ processed' = processed /\ late' = late
        /\ UNCHANGED <<alerts, source, hasMore, unreadOnly, loads>>
    BY <1>0 DEF InsertRows, page
  <2>2. e \notin processed
    BY <1>0 DEF InsertRows, ListsKept
  <2>3. Stored' /\ Mine' = Mine
    BY <2>1, <2>2, FlushKeeps DEF ListsKept
  <2>4. PICK M : M = Mine
    OBVIOUS
  <2>5. processed' \subseteq inserted'
    BY <1>0 DEF InsertRows, ListsKept
  <2> QED
    BY <2>1, <2>3, <2>4, <2>5 DEF ListsKept
<1>1. ASSUME NEW e \in Events, CommitRows(e) PROVE ListsKept'
  <2>1. UNCHANGED <<alerts, source, hasMore, unreadOnly, loads>>
    BY <1>1 DEF CommitRows, page
  <2>2. /\ Stored' /\ IsFiniteSet(Mine') /\ Mine' \subseteq Nat
        /\ Grows(Mine, late, Mine', late')
    BY <1>1, CommitGrows DEF ListsKept
  <2>3. processed' \subseteq inserted'
    BY <1>1 DEF CommitRows, ListsKept
  <2> QED
    BY <2>1, <2>2, <2>3, GrownKept DEF ListsKept
<1>2. ASSUME NEW p \in posts, PostServed(p) PROVE ListsKept'
  BY <1>2, PostServedKept
<1>3. ASSUME NEW p \in posts, PostFails(p) PROVE ListsKept'
  BY <1>3, RestKept DEF PostFails, server
<1>20. ASSUME NEW p \in posts, PostAnswered(p) PROVE ListsKept'
  BY <1>20, PostAnsweredKept
<1>4. CASE Poll
  BY <1>4, RestKept DEF Poll, server
<1>5. ASSUME NEW n \in BagToSet(polls), PollAnswered(n) PROVE ListsKept'
  BY <1>5, RestKept DEF PollAnswered, server
<1>6. ASSUME NEW n \in BagToSet(polls), PollFails(n) PROVE ListsKept'
  BY <1>6, RestKept DEF PollFails, server
<1>7. CASE Toggle
  BY <1>7, RestKept DEF Toggle, server
<1>8. CASE Listed
  BY <1>8, RestKept DEF Listed, server
<1>9. CASE ListFails
  BY <1>9, RestKept DEF ListFails, server
<1>10. ASSUME NEW x \in InBell, BellMarkOne(x) PROVE ListsKept'
  BY <1>10, RestKept DEF BellMarkOne, server
<1>11. CASE BellMarkAll
  BY <1>11, RestKept DEF BellMarkAll, server
<1>12. CASE Filter
  <2>1. PICK only \in BOOLEAN : only = ~ unreadOnly
    OBVIOUS
  <2>2. /\ unreadOnly' = only /\ loads' = loads \cup {Load(only)}
        /\ UNCHANGED <<server, alerts, source, hasMore>>
    BY <1>12, <2>1 DEF Filter, server
  <2>3. Asked(Load(only), Mine, late)
    BY LoadAsked
  <2> QED
    BY <2>2, <2>3, RequestKept
<1>13. CASE LoadMore
  BY <1>13, LoadMoreKept
<1>14. ASSUME NEW r \in loads, PageServed(r) PROVE ListsKept'
  BY <1>14, PageServedKept
<1>15. ASSUME NEW r \in loads, PageAnswered(r) PROVE ListsKept'
  BY <1>15, PageAnsweredKept
<1>16. ASSUME NEW r \in loads, PageFails(r) PROVE ListsKept'
  BY <1>16, PageFailsKept
<1>17. ASSUME NEW x \in OnPage, PageMarkOne(x) PROVE ListsKept'
  BY <1>17, MarkedKept DEF PageMarkOne, server
<1>18. CASE PageMarkAll
  BY <1>18, MarkedKept DEF PageMarkAll, server
<1>19. CASE UNCHANGED alertVars
  BY <1>19, RestKept DEF alertVars, server
<1> QED
  BY <1>0, <1>1, <1>2, <1>3, <1>4, <1>5, <1>6, <1>7, <1>8, <1>9, <1>10, <1>11, <1>12, <1>13,
     <1>14, <1>15, <1>16, <1>17, <1>18, <1>19, <1>20 DEF AlertsNext

LEMMA ListsImply == ListsKept => ListExact
<1> SUFFICES ASSUME ListsKept PROVE ListExact
  OBVIOUS
<1>1. PICK s, M, n : s = alerts /\ M = Mine /\ n = Len(s)
  OBVIOUS
<1>2. /\ IsList(s, M) /\ (source = "all" => Holds(s, M, late))
      /\ s \in Seq(AlertRows) /\ n \in Nat /\ DOMAIN s = 1..n
  <2>1. IsList(s, M) /\ (source = "all" => Holds(s, M, late))
    BY <1>1 DEF ListsKept
  <2>2. s \in Seq(AlertRows)
    BY <2>1 DEF IsList
  <2> QED
    BY <1>1, <2>1, <2>2
<1>3. \A i \in 1..n : s[i].id \in M /\ s[i].id \in Nat
  <2>1. M \subseteq Nat
    BY <1>1, MineFinite DEF ListsKept
  <2> QED
    BY <1>2, <2>1 DEF IsList
<1>4. Cardinality(Ids(s)) = n
  <2>1. PICK f : f = [i \in 1..n |-> s[i].id]
    OBVIOUS
  <2>2. PICK T : T = {f[i] : i \in 1..n}
    OBVIOUS
  <2>3. IsFiniteSet(T) /\ Cardinality(T) <= n
    BY ONLY <1>2, <2>2, Holes
  <2>4. f \in [1..n -> T]
    BY <2>1, <2>2
  <2>5. \A i, j \in 1..n : f[i] = f[j] => i = j
    BY <1>2, <2>1 DEF IsList
  <2>6. n <= Cardinality(T)
    BY ONLY <1>2, <2>3, <2>4, <2>5, Pigeons
  <2>7. Cardinality(T) \in Nat
    BY <2>3, FS_CardinalityType
  <2>8. Ids(s) = T
    BY <1>2, <2>1, <2>2 DEF Ids
  <2> QED
    BY <1>2, <2>3, <2>6, <2>7, <2>8
<1>5. ASSUME source = "all", s # <<>>, Cardinality({m \in M : m > s[1].id}) <= PageSize
      PROVE  Whole(s, M, late)
  BY <1>2, <1>5 DEF Holds, Newer
<1>6. M \subseteq Nat
  BY <1>1, MineFinite DEF ListsKept
<1>7. ASSUME Whole(s, M, late), NEW i \in DOMAIN s, NEW m \in M \ late,
             s[i].id < m, m < s[1].id
      PROVE  m \in Ids(s)
  <2>1. 1 \in DOMAIN s
    BY <1>2
  <2>2. m \in Nat /\ s[i].id \in Nat /\ s[1].id \in Nat
    BY <1>2, <1>3, <1>6, <2>1
  <2>3. s[i].id <= m /\ m <= s[1].id
    BY <1>7, <2>2
  <2> QED
    BY <1>7, <2>1, <2>3 DEF Whole
<1>8. ASSUME Whole(s, M, late), NEW i \in DOMAIN s, NEW j \in DOMAIN s, i < j,
             s[i].id \notin late, s[j].id \notin late
      PROVE  s[j].id < s[i].id
  BY <1>2, <1>3, <1>8 DEF Whole
<1> QED
  BY <1>1, <1>4, <1>5, <1>7, <1>8 DEF ListExact

\* The page lists no alert twice, and a list put together from answers for the filter `all`
\* stands newest first and without a hole, but for alerts that committed after one created
\* later, as long as no more alerts than a page have come above its first row: for every page size, every order in which requests are
\* served and answers applied, and every alert that comes meanwhile
\* (notifications/page.tsx, load and loadMore).
THEOREM ListHolds == AlertsSpec => []ListExact
<1> QED
  BY AlertsInitKept, ListsNext, ListsImply, PTL DEF AlertsSpec

=============================================================================
