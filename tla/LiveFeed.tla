------------------------------ MODULE LiveFeed ------------------------------
(***************************************************************************)
(* The live prices of one symbol on their way to the browser: the channel  *)
(* md:ticks, the tick pump and the sockets of market-data-service, the     *)
(* bridge of the gateway, and subscribeMarket with the chart that uses it. *)
(*                                                                         *)
(* A view is one run of a React effect that subscribes: the price of a     *)
(* page (useLivePrices) or a symbol and interval of the chart.  A view     *)
(* that replaces another one names it in After; StrictMode's second mount  *)
(* is such a view.  Prices are numbered in the order they are set, and a   *)
(* connection is one WebSocket from browser to gateway with its bridge.    *)
(***************************************************************************)
EXTENDS FaultBudget, Integers, BagsExt, FiniteSetsExt, SequencesExt

CONSTANTS
  Views,           \* effect runs that subscribe
  Charts,          \* those of the chart; the others are useLivePrices
  After,           \* the view whose place a view takes, or NoView
  Client,          \* _client_key: the address a view connects from
  MaxPerClient,    \* MAX_PER_CLIENT
  MaxTotal,        \* MAX_TOTAL_CONNECTIONS
  Conns,           \* bound: the connections that exist at one time
  MaxMounts,       \* bound: the views mounted
  MaxPrice,        \* bound: the prices set
  NoView

VARIABLES
  life,            \* of a view: "new", "mounted", "gone"
  on,              \* subscribed: subscribeMarket's closed is FALSE
  timer,           \* its reconnect timer is set
  conn,            \* the connections: view, browser, bridge and hub end
  perClient,       \* _per_client
  price,           \* md:last_price, after market-data's set
  channel,         \* published prices the pump has not read
  unsent,          \* the price set but not yet published, or 0
  hubUp, pumpUp,   \* market-data runs; its pump is subscribed to md:ticks
  sending, left,   \* the broadcast's price and the connections still to send to
  shown,           \* the price a view shows
  load,            \* the chart's request of a view: "no", "asked", "done", "failed"
  empty,           \* CandleChart has been told that there are no candles
  drawn            \* the view whose candles are drawn

browser == <<life, on, timer, shown>>
chart == <<load, empty, drawn>>
feed == <<price, channel, unsent, hubUp, pumpUp, sending, left>>
feedVars == <<browser, conn, perClient, feed, chart, faults>>

FeedParameters ==
  /\ Charts \subseteq Views /\ After \in [Views -> Views \cup {NoView}]
  /\ NoView \notin Views /\ IsFiniteSet(Conns)
  /\ MaxPerClient \in Nat \ {0} /\ MaxTotal \in Nat \ {0}
  /\ MaxMounts \in Nat /\ MaxPrice \in Nat \ {0}

ASSUME FeedAssumption == FeedParameters

Clients == {Client[v] : v \in Views}

Idle == [of |-> NoView, browser |-> "closed", bridge |-> "gone", hub |-> "out",
         snap |-> 0]

FeedInit ==
  /\ life = [v \in Views |-> "new"] /\ on = [v \in Views |-> FALSE]
  /\ timer = [v \in Views |-> FALSE]
  /\ conn = [c \in Conns |-> Idle] /\ perClient = <<>>
  /\ price = 1 /\ channel = <<>> /\ unsent = 0
  /\ hubUp = TRUE /\ pumpUp = TRUE /\ sending = 0 /\ left = {}
  /\ shown = [v \in Views |-> 0]
  /\ load = [v \in Views |-> "no"] /\ empty = FALSE
  /\ drawn = NoView
  /\ faults = 0

Free(c) == conn[c] = Idle /\ c \notin left

\* A connection all of whose ends are gone is forgotten.
Kept(r) == IF r.browser = "closed" /\ r.bridge = "gone" /\ r.hub = "out" THEN Idle ELSE r
Put(c, r) == conn' = [conn EXCEPT ![c] = Kept(r)]

-----------------------------------------------------------------------------
(* subscribeMarket *)

\* open: a new WebSocket.  Its URL is a constant, so the constructor does not throw.
Open(v) ==
  /\ \E c \in Conns : Free(c)
  /\ LET c == CHOOSE c \in Conns : Free(c)
     IN conn' = [conn EXCEPT ![c] =
          [of |-> v, browser |-> "connecting", bridge |-> "arriving", hub |-> "out",
           snap |-> 0]]

Subscribe(v) ==
  /\ on' = [on EXCEPT ![v] = TRUE]
  /\ Open(v)
  /\ UNCHANGED timer

\* The cleanup: closed, the timer cleared, the socket closed.
Unsubscribe(v) ==
  /\ on' = [on EXCEPT ![v] = FALSE]
  /\ timer' = [timer EXCEPT ![v] = FALSE]
  /\ conn' = [c \in Conns |->
       IF conn[c].of = v THEN Kept([conn[c] EXCEPT !.browser = "closed"]) ELSE conn[c]]

TimerFires(v) ==
  /\ timer[v] /\ timer' = [timer EXCEPT ![v] = FALSE]
  /\ Open(v)
  /\ UNCHANGED <<life, on, shown, perClient, feed, chart, faults>>

\* Mutant: a socket that never opened is not tried again.
SocketClosesForGood(c) ==
  LET v == conn[c].of
  IN /\ Put(c, [conn[c] EXCEPT !.browser = "closed"])
     /\ timer' = [timer EXCEPT ![v] = conn[c].browser # "connecting"]
     /\ UNCHANGED <<life, on, shown>>

\* onclose, unless the cleanup has run: reconnect after a delay.
SocketCloses(c) ==
  LET v == conn[c].of
  IN /\ Put(c, [conn[c] EXCEPT !.browser = "closed"])
     /\ timer' = [timer EXCEPT ![v] = TRUE]
     /\ UNCHANGED <<life, on, shown>>

\* The gateway has refused or closed the socket.
HearsClose(c) ==
  /\ conn[c].browser # "closed" /\ conn[c].bridge = "gone"
  /\ SocketCloses(c)
  /\ UNCHANGED <<perClient, feed, chart, faults>>

\* The browser loses the connection before the gateway knows.
NetworkDrops(c) ==
  /\ Fault
  /\ conn[c].browser # "closed"
  /\ SocketCloses(c)
  /\ UNCHANGED <<perClient, feed, chart>>

\* The browser stops reading what it is sent ...
Stalls(c) ==
  /\ Fault
  /\ conn[c].browser = "open" /\ conn[c].bridge = "pumping"
  /\ Put(c, [conn[c] EXCEPT !.browser = "stalled"])
  /\ UNCHANGED <<browser, perClient, feed, chart>>

\* ... until the gateway's server misses its pong.
PingTimeout(c) ==
  /\ conn[c].browser = "stalled"
  /\ SocketCloses(c)
  /\ UNCHANGED <<perClient, feed, chart, faults>>

-----------------------------------------------------------------------------
(* The components *)

\* CandleChart's loading: TRUE until a load has ended under a mounted view.
loading == \A v \in Charts : load[v] \in {"no", "asked"}

\* A page has one chart.
Mount(v) ==
  /\ v \in Charts => \A u \in Charts : life[u] # "mounted"
  /\ Cardinality({u \in Views : life[u] # "new"}) < MaxMounts
  /\ life[v] = "new" /\ (After[v] # NoView => life[After[v]] = "gone")
  /\ life' = [life EXCEPT ![v] = "mounted"]
  /\ IF v \notin Charts
     THEN Subscribe(v) /\ UNCHANGED chart
     ELSE /\ load' = [load EXCEPT ![v] = "asked"]
          /\ IF empty \/ loading THEN UNCHANGED <<on, timer, conn>> ELSE Subscribe(v)
          /\ UNCHANGED <<empty, drawn>>
  /\ UNCHANGED <<shown, perClient, feed, faults>>

Unmount(v) ==
  /\ life[v] = "mounted"
  /\ life' = [life EXCEPT ![v] = "gone"]
  /\ Unsubscribe(v)
  /\ UNCHANGED <<shown, perClient, feed, chart, faults>>

\* The second effect of CandleChart runs again when empty or loading has changed.
Resubscribe(v) ==
  IF empty' \/ loading'
  THEN IF on[v] THEN Unsubscribe(v) ELSE UNCHANGED <<on, timer, conn>>
  ELSE IF on[v] THEN UNCHANGED <<on, timer, conn>> ELSE Subscribe(v)

\* Mutant: the answer of a view that is gone is drawn as well.
LoadAnsweredAlways(v) ==
  /\ load[v] = "asked" /\ life[v] # "new"
  /\ load' = [load EXCEPT ![v] = "done"]
  /\ empty' = FALSE /\ drawn' = v
  /\ \E n \in 1..price : shown' = [shown EXCEPT ![v] = n]
  /\ IF life[v] = "mounted" THEN Resubscribe(v) ELSE UNCHANGED <<on, timer, conn>>
  /\ UNCHANGED <<life, perClient, feed, faults>>

\* loadData gets candles, from a replica that may lag: none at all, or up to some price.
\* lastCandle, on which the ticks are drawn, is left out: before this answer it is still
\* the candle of the view before (CandleChart.tsx:19,92-101).
LoadAnswered(v) ==
  /\ load[v] = "asked" /\ life[v] = "mounted"
  /\ load' = [load EXCEPT ![v] = "done"]
  /\ \/ empty' = TRUE /\ UNCHANGED <<drawn, shown>>
     \/ /\ empty' = FALSE /\ drawn' = v
        /\ \E n \in 1..price : shown' = [shown EXCEPT ![v] = n]
  /\ Resubscribe(v)
  /\ UNCHANGED <<life, perClient, feed, faults>>

LoadFails(v) ==
  /\ Fault
  /\ load[v] = "asked" /\ life[v] = "mounted"
  /\ load' = [load EXCEPT ![v] = "failed"]
  /\ UNCHANGED <<empty, drawn>> /\ Resubscribe(v)
  /\ UNCHANGED <<life, shown, perClient, feed>>

-----------------------------------------------------------------------------
(* bridge_market *)

CountOf(k) == IF k \in DOMAIN perClient THEN perClient[k] ELSE 0
Total == SumFunctionOnSet(perClient, DOMAIN perClient)
AtCapacity(k) == Total >= MaxTotal \/ CountOf(k) >= MaxPerClient

Refuse(c) ==
  /\ conn[c].bridge = "arriving" /\ AtCapacity(Client[conn[c].of])
  /\ Put(c, [conn[c] EXCEPT !.bridge = "gone"])
  /\ UNCHANGED <<browser, perClient, feed, chart, faults>>

\* accept() returns without suspending, so the caps are checked and counted in one step.
\* The browser is "live" from here, before the upstream is dialled.
Accept(c) ==
  LET k == Client[conn[c].of]
  IN /\ conn[c].bridge = "arriving" /\ ~ AtCapacity(k)
     /\ perClient' = [j \in DOMAIN perClient \cup {k} |-> CountOf(j) + (IF j = k THEN 1 ELSE 0)]
     /\ Put(c, [conn[c] EXCEPT !.bridge = "dialing",
                               !.browser = IF @ = "closed" THEN @ ELSE "open"])
     /\ UNCHANGED <<browser, feed, chart, faults>>

\* Mutant: the slot is given back only when the upstream was reached.
ReleaseAfterPumping(c) ==
  LET k == Client[conn[c].of]
  IN perClient' = IF conn[c].bridge # "pumping" THEN perClient
                  ELSE IF perClient[k] > 1 THEN [perClient EXCEPT ![k] = @ - 1]
                  ELSE Restrict(perClient, DOMAIN perClient \ {k})

\* The finally clause: the slot is given back, and the key goes with its last one.
GiveBack(c) ==
  LET k == Client[conn[c].of]
  IN perClient' = IF perClient[k] > 1 THEN [perClient EXCEPT ![k] = @ - 1]
                  ELSE Restrict(perClient, DOMAIN perClient \ {k})

\* market-data accepts the upstream socket: ws_market adds it to the hub.
DialSucceeds(c) ==
  /\ conn[c].bridge = "dialing" /\ hubUp
  /\ Put(c, [conn[c] EXCEPT !.bridge = "pumping", !.hub = "added"])
  /\ UNCHANGED <<browser, perClient, feed, chart, faults>>

DialFails(c) ==
  /\ conn[c].bridge = "dialing"
  /\ IF hubUp THEN Fault ELSE UNCHANGED faults
  /\ GiveBack(c)
  /\ Put(c, [conn[c] EXCEPT !.bridge = "gone"])
  /\ UNCHANGED <<browser, feed, chart>>

\* One of the two pump tasks ends; the other is cancelled and both sockets are closed.
BridgeEnds(c) ==
  /\ conn[c].bridge = "pumping"
  /\ conn[c].browser = "closed" \/ conn[c].hub = "out"
  /\ GiveBack(c)
  /\ Put(c, [conn[c] EXCEPT !.bridge = "gone"])
  /\ UNCHANGED <<browser, feed, chart, faults>>

GatewayRestarts ==
  /\ Fault
  /\ perClient # <<>> /\ perClient' = <<>>
  /\ conn' = [c \in Conns |-> Kept([conn[c] EXCEPT !.bridge = "gone"])]
  /\ UNCHANGED <<browser, feed, chart>>

-----------------------------------------------------------------------------
(* ws_market, the hub and the tick pump of market-data-service *)

InHub(c) == conn[c].hub # "out"
Reaches(c) == InHub(c) /\ conn[c].bridge = "pumping" /\ conn[c].browser = "open"

Show(c, n) == shown' = [shown EXCEPT ![conn[c].of] = n]

\* The snapshot: the price is read, then sent; the hub knows the connection already.
ReadSnapshot(c) ==
  /\ conn[c].hub = "added"
  /\ Put(c, [conn[c] EXCEPT !.hub = "sending", !.snap = price])
  /\ UNCHANGED <<browser, perClient, feed, chart, faults>>

SendSnapshot(c) ==
  /\ conn[c].hub = "sending" /\ Reaches(c)
  /\ Show(c, conn[c].snap)
  /\ Put(c, [conn[c] EXCEPT !.hub = "listed", !.snap = 0])
  /\ UNCHANGED <<life, on, timer, perClient, feed, chart, faults>>

\* The upstream socket is closed: the next send or receive raises, MANAGER.remove.
HubLeaves(c) ==
  /\ InHub(c) /\ conn[c].bridge = "gone"
  /\ Put(c, [conn[c] EXCEPT !.hub = "out", !.snap = 0])
  /\ UNCHANGED <<browser, perClient, feed, chart, faults>>

\* A trade: redis.set, then redis.publish, which reaches a subscribed pump only.
SetPrice ==
  /\ price < MaxPrice /\ unsent = 0
  /\ price' = price + 1 /\ unsent' = price'
  /\ UNCHANGED <<channel, hubUp, pumpUp, sending, left, browser, conn, perClient, chart,
                 faults>>

Publish ==
  /\ unsent # 0 /\ unsent' = 0
  /\ channel' = IF pumpUp THEN Append(channel, unsent) ELSE channel
  /\ UNCHANGED <<price, hubUp, pumpUp, sending, left, browser, conn, perClient, chart,
                 faults>>

\* broadcast walks over a copy of the connections.
PumpTakes ==
  /\ pumpUp /\ left = {} /\ channel # <<>>
  /\ sending' = Head(channel) /\ channel' = Tail(channel)
  /\ left' = {c \in Conns : InHub(c)}
  /\ UNCHANGED <<price, unsent, hubUp, pumpUp, browser, conn, perClient, chart, faults>>

\* Mutant: the error of a closed connection ends the broadcast.
PumpStopsAtError(c) ==
  /\ c \in left /\ conn[c].browser # "stalled"
  /\ left' = IF Reaches(c) THEN left \ {c} ELSE {}
  /\ IF Reaches(c) THEN Show(c, sending) ELSE UNCHANGED shown
  /\ UNCHANGED <<life, on, timer, conn, perClient, price, channel, unsent, hubUp, pumpUp,
                 sending, chart, faults>>

\* send_json to one connection; to a closed one it raises and the hub forgets it.
PumpSends(c) ==
  /\ c \in left /\ conn[c].browser # "stalled" /\ left' = left \ {c}
  /\ IF Reaches(c) THEN Show(c, sending) ELSE UNCHANGED shown
  /\ UNCHANGED <<life, on, timer, conn, perClient, price, channel, unsent, hubUp,
                 pumpUp, sending, chart, faults>>

\* The pump loses Redis; what is published until it has subscribed again is lost.
PumpDies ==
  /\ Fault
  /\ pumpUp /\ pumpUp' = FALSE /\ channel' = <<>> /\ left' = {} /\ sending' = 0
  /\ UNCHANGED <<price, unsent, hubUp, browser, conn, perClient, chart>>

PumpSubscribes ==
  /\ hubUp /\ ~ pumpUp /\ pumpUp' = TRUE
  /\ UNCHANGED <<price, unsent, channel, hubUp, sending, left, browser, conn, perClient,
                 chart, faults>>

HubCrashes ==
  /\ Fault
  /\ hubUp /\ hubUp' = FALSE /\ pumpUp' = FALSE
  /\ channel' = <<>> /\ left' = {} /\ sending' = 0
  /\ conn' = [c \in Conns |-> Kept([conn[c] EXCEPT !.hub = "out", !.snap = 0])]
  /\ UNCHANGED <<price, unsent, browser, perClient, chart>>

HubStarts ==
  /\ ~ hubUp /\ hubUp' = TRUE
  /\ UNCHANGED <<price, unsent, channel, pumpUp, sending, left, browser, conn, perClient,
                 chart, faults>>

-----------------------------------------------------------------------------
Progress(c) ==
  \/ HearsClose(c)
  \/ PingTimeout(c)
  \/ Refuse(c)
  \/ Accept(c)
  \/ DialSucceeds(c)
  \/ BridgeEnds(c)
  \/ ReadSnapshot(c)
  \/ SendSnapshot(c)
  \/ HubLeaves(c)
  \/ PumpSends(c)

ConnFault(c) ==
  \/ NetworkDrops(c)
  \/ Stalls(c)
  \/ DialFails(c)

ViewStep(v) ==
  \/ Mount(v)
  \/ Unmount(v)
  \/ TimerFires(v)
  \/ LoadAnswered(v)
  \/ LoadFails(v)

FeedStep ==
  \/ Publish
  \/ PumpTakes
  \/ PumpSubscribes
  \/ HubStarts

FeedNext ==
  \/ \E c \in Conns : Progress(c)
  \/ \E c \in Conns : ConnFault(c)
  \/ \E v \in Views : ViewStep(v)
  \/ FeedStep
  \/ SetPrice
  \/ PumpDies
  \/ HubCrashes
  \/ GatewayRestarts

\* Timers fire, requests are answered, the event loops run their tasks and the servers'
\* pings time out; only components, trades and faults come as they like.
Fairness ==
  /\ \A c \in Conns : WF_feedVars(Progress(c))
  /\ \A v \in Views : WF_feedVars(TimerFires(v)) /\ WF_feedVars(LoadAnswered(v))
  /\ WF_feedVars(FeedStep)

FeedSpec == FeedInit /\ [][FeedNext]_feedVars /\ Fairness

-----------------------------------------------------------------------------
(* Properties *)

FeedTypeOK ==
  /\ life \in [Views -> {"new", "mounted", "gone"}]
  /\ on \in [Views -> BOOLEAN] /\ timer \in [Views -> BOOLEAN]
  /\ conn \in [Conns ->
       [of : Views \cup {NoView}, browser : {"connecting", "open", "stalled", "closed"},
        bridge : {"arriving", "dialing", "pumping", "gone"},
        hub : {"added", "sending", "listed", "out"}, snap : 0..MaxPrice]]
  /\ price \in 1..MaxPrice /\ unsent \in {0, price} /\ sending \in 0..MaxPrice
  /\ channel \in Seq(1..MaxPrice) /\ left \subseteq Conns
  /\ shown \in [Views -> 0..MaxPrice]
  /\ load \in [Views -> {"no", "asked", "done", "failed"}]
  /\ drawn \in Charts \cup {NoView} /\ faults \in 0..MaxFaults

\* The counters of ws_proxy.py neither leak nor drift: at every moment a client's count
\* is the number of its bridges that are dialling or pumping, on whatever path the others
\* ended, a client without one has no key, and both caps hold.
CountsBridges ==
  /\ \A k \in Clients :
       LET n == Cardinality({c \in Conns : /\ conn[c].bridge \in {"dialing", "pumping"}
                                           /\ Client[conn[c].of] = k})
       IN CountOf(k) = n /\ (k \in DOMAIN perClient <=> n > 0) /\ n <= MaxPerClient
  /\ Total <= MaxTotal

\* "Without cleanup you get two sockets and doubled ticks" (ws.ts:12): a subscription has
\* at most one socket or timer, and none once its cleanup has run, although the close of
\* an older socket may still be on its way.
OneSocketPerSubscription ==
  \A v \in Views :
    LET open == {c \in Conns : conn[c].of = v /\ conn[c].browser # "closed"}
    IN Cardinality(open) + (IF timer[v] THEN 1 ELSE 0) = IF on[v] THEN 1 ELSE 0

\* The sockets at both ends, in account with each other through every way they end.
SocketsAccounted == FeedTypeOK /\ CountsBridges /\ OneSocketPerSubscription

\* The chart never draws the answer of another view: when the candles of the mounted view
\* have come and are not empty, they are the ones drawn, whatever answer of an earlier view
\* came later.  A tick that comes before them is drawn on the candle of the view before,
\* which they replace.
DrawnIsOfTheView ==
  \A v \in Charts :
    life[v] = "mounted" /\ load[v] = "done" /\ ~ empty => drawn = v

\* A subscription reaches the hub although the gateway is full of the sockets it replaces,
\* a dial fails, a connection drops or a process restarts: the retries do not end before,
\* and when the faults have ended everyone who is subscribed stays connected.
Connected(v) == \E c \in Conns : conn[c].of = v /\ Reaches(c)
EverySubscriptionConnects == <>[](\A v \in Views : on[v] => Connected(v))

\* A price that is published while a connection is in the hub arrives in its browser,
\* although a browser that does not read blocks the broadcast for all of them, unless the
\* connection breaks or the pump dies.
Arrives(c, n) ==
  (n \in Range(channel) /\ conn[c].hub = "listed" /\ Reaches(c))
    ~> (conn[c].of = NoView \/ ~ Reaches(c) \/ ~ pumpUp \/ shown[conn[c].of] >= n)

\* README.md:259: replica lag "is not visible to the user" because the chart applies the
\* live tick.  It is true of a chart that gets candles on its first load: it comes to show
\* a price at least as new as any that was current when it asked.
LagPasses(v, n) ==
  (life[v] = "mounted" /\ load[v] = "asked" /\ price = n)
    ~> (shown[v] >= n \/ life[v] = "gone" \/ empty \/ load[v] = "failed")

\* Prices arrive, in every browser and on every chart that shows one view alone.
PricesFlow ==
  \A n \in 2..MaxPrice :
    /\ \A c \in Conns : Arrives(c, n)
    /\ \A v \in Charts : After[v] = NoView => LagPasses(v, n)
=============================================================================
