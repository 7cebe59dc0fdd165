----------------------------- MODULE MarketData -----------------------------
(***************************************************************************)
(* services/market-data-service for one symbol: the consumer of            *)
(* trade.executed with its candles and its cached prices, the warm-up of   *)
(* the cache at boot, and the reads of the streaming replica.              *)
(*                                                                         *)
(* handle_trade asks for the idem:marketdata marker, which nothing in the  *)
(* service ever writes, so every delivery does the work.  The trades table *)
(* drops a second row with the same event id; the candles do not.          *)
(***************************************************************************)
EXTENDS FaultBudget, Ordering, BagsExt, FiniteSetsExt, SequencesExt

CONSTANTS
  Trades,                \* the trade.executed events of the symbol
  At, Price, Quantity,   \* executed_at, price and quantity of a trade
  Seed,                  \* SEED_PRICES of the symbol
  Widths,                \* the lengths of the candle intervals ("1m" and "5m")
  Day,                   \* the window of the board ("24 hours")
  MaxFill,               \* MAX_FILL_PER_GAP
  Limits,                \* bound: the limits a chart may ask for
  Tasks,                 \* the handler tasks that may run at once
  MaxAttempts,           \* MAX_DELIVERY_ATTEMPTS
  NoTask, NoMsg,         \* no delivery is outstanding; the task has no message
  None                   \* no key, no row

VARIABLES
  waiting,               \* bag of messages in the queue and its retry queue
  current,               \* the task with the one unacked delivery (prefetch_count = 1)
  step, msg,               \* each task's next step and its message
  rows,                  \* the table trades of the primary
  candles,               \* the table candles: candles[w][b], one row per bucket
  lastCommit, inOrder,   \* history: the last trade committed; each came once and in order
  lastPrice, quote,      \* md:last_price (a price) and md:quote (a trade) in Redis
  tick,                  \* the last trade published on md:ticks
  serving,               \* the process is up and its cache is warm
  abandoned,             \* history: an attempt failed and had no successor
  flushed                \* history: Redis has lost its keys

tasks == <<current, step, msg>>
db == <<rows, candles, lastCommit, inOrder>>
cache == <<lastPrice, quote>>
marketVars == <<waiting, tasks, db, cache, tick, serving, abandoned, flushed, faults>>

ASSUME TradeAssumption ==
  /\ At \in [Trades -> Nat] /\ Price \in [Trades -> Nat] /\ Quantity \in [Trades -> Nat]
  /\ Seed \in Nat
ASSUME MarketAssumption ==
  /\ Widths \subseteq Nat \ {0} /\ Widths # {} /\ Day \in Nat /\ Limits \subseteq Nat \ {0} /\ MaxFill \in Nat
  /\ MaxAttempts \in Nat \ {0} /\ NoTask \notin Tasks /\ None \notin Trades \cup Nat

Msgs == [trade : Trades, attempts : 0..MaxAttempts - 1]
PCs == {"idle", "commit", "set_last", "set_quote", "tick", "ack"}

MarketInit ==
  /\ waiting = SetToBag([trade : Trades, attempts : {0}])
  /\ current = NoTask
  /\ step = [t \in Tasks |-> "idle"] /\ msg = [t \in Tasks |-> NoMsg]
  /\ rows = {} /\ candles = [w \in Widths |-> <<>>]
  /\ lastCommit = None /\ inOrder = TRUE
  /\ lastPrice = None /\ quote = None /\ tick = None
  /\ serving = FALSE
  /\ abandoned = FALSE /\ flushed = FALSE /\ faults = 0

-----------------------------------------------------------------------------
(* The candles *)

\* floor_bucket: the start of the interval of length w that holds the moment ts.
FloorBucket(ts, w) == (ts \div w) * w

BucketsOf(w) == DOMAIN candles[w]

NewCandle(x) ==
  [open |-> Price[x], high |-> Price[x], low |-> Price[x], close |-> Price[x],
   volume |-> Quantity[x]]

\* Mutant: the conflict clause keeps the old high.
KeepsHigh(w, b, x) ==
  LET c == candles[w][b]
  IN IF b \in BucketsOf(w)
     THEN [open |-> c.open, high |-> c.high, low |-> Min({c.low, Price[x]}),
           close |-> Price[x], volume |-> c.volume + Quantity[x]]
     ELSE NewCandle(x)

\* upsert_candle: INSERT .. ON CONFLICT DO UPDATE.  The first trade handled opens the
\* candle, whatever its time.
UpsertCandle(w, b, x) ==
  LET c == candles[w][b]
  IN IF b \in BucketsOf(w)
     THEN [open |-> c.open, high |-> Max({c.high, Price[x]}), low |-> Min({c.low, Price[x]}),
           close |-> Price[x], volume |-> c.volume + Quantity[x]]
     ELSE NewCandle(x)

\* The candles of length w with the trade x added to the one of its bucket.
WithTrade(w, x) ==
  LET b == FloorBucket(At[x], w)
  IN [d \in BucketsOf(w) \cup {b} |-> IF d = b THEN UpsertCandle(w, b, x) ELSE candles[w][d]]

-----------------------------------------------------------------------------
(* GET /market/candles *)

Point(b, c) == [time |-> b, open |-> c.open, high |-> c.high, low |-> c.low,
                close |-> c.close, volume |-> c.volume]
Flat(b, price) == [time |-> b, open |-> price, high |-> price, low |-> price,
                   close |-> price, volume |-> 0]

\* Mutant: one filler too many, in the bucket of the candle that ends the gap.
OverlappingFill(p, b, w) ==
  [i \in 1..Min({(b - p.time) \div w, MaxFill}) |-> Flat(p.time + i * w, p.close)]

\* The quiet buckets between the point p and the bucket b, flat at p's close.
GapFill(p, b, w) ==
  [i \in 1..Min({(b - p.time) \div w - 1, MaxFill}) |-> Flat(p.time + i * w, p.close)]

\* The points so far with the candle of b behind them, and the gap before it filled.
Extended(points, b, w) ==
  Append(IF points = <<>> THEN points ELSE points \o GapFill(Last(points), b, w),
         Point(b, candles[w][b]))

Filled(buckets, w) ==
  LET points[n \in 0..Len(buckets)] ==
        IF n = 0 THEN <<>> ELSE Extended(points[n - 1], buckets[n], w)
  IN points[Len(buckets)]

\* The newest `limit` of s: of the stored candles and, after the gaps are filled, of the points.
Newests(s, limit) ==
  LET older == Max({0, Len(s) - limit})
  IN [i \in 1..Len(s) - older |-> s[older + i]]

Series(w, limit) == Newests(Filled(Newests(InOrder(BucketsOf(w)), limit), w), limit)

-----------------------------------------------------------------------------
(* GET /market/quote and GET /market/symbols *)

\* The cached quote, or the newest trade of the table, or the seed price for nothing.
QuoteOf(x) == [price |-> Price[x], quantity |-> Quantity[x]]
Quote ==
  CASE quote # None -> QuoteOf(quote)
    [] quote = None /\ rows # {} ->
         QuoteOf(CHOOSE x \in rows : \A y \in rows : At[y] <= At[x])
    [] OTHER -> [price |-> Seed, quantity |-> 0]

\* The symbol's line at the moment `now`: the change is against the open of the day's
\* first short candle, and nothing without one.
Board(now) ==
  LET B == {b \in BucketsOf(Min(Widths)) : b >= now - Day}
      last == IF lastPrice = None THEN Seed ELSE lastPrice
  IN [last |-> last,
      change |-> IF B = {} THEN 0 ELSE last - candles[Min(Widths)][Min(B)].open,
      volume |-> SumFunctionOnSet([b \in B |-> candles[Min(Widths)][b].volume], B)]

-----------------------------------------------------------------------------
(* The consumer *)

Trade(t) == msg[t].trade
Goto(t, next) == step' = [step EXCEPT ![t] = next]
End(t) == Goto(t, "idle") /\ msg' = [msg EXCEPT ![t] = NoMsg]

Deliver(t, m) ==
  /\ serving /\ current = NoTask /\ step[t] = "idle"
  /\ BagIn(m, waiting)
  /\ waiting' = BagRemove(waiting, m)
  /\ current' = t /\ Goto(t, "commit") /\ msg' = [msg EXCEPT ![t] = m]
  /\ UNCHANGED <<db, cache, tick, serving, abandoned, flushed, faults>>

\* Mutant: the failure of the transaction is logged and not raised again.
CommitFailsUnnoticed(t) ==
  /\ step[t] = "commit" /\ Goto(t, "set_last")
  /\ UNCHANGED <<waiting, current, msg, db, cache, tick, serving, abandoned,
                 flushed, faults>>

\* seen_event finds no marker.  One transaction: the trade, unless its id is there, and
\* a candle per interval.
Commit(t) ==
  /\ step[t] = "commit" /\ Goto(t, "set_last")
  /\ rows' = rows \cup {Trade(t)}
  /\ candles' = [w \in Widths |-> WithTrade(w, Trade(t))]
  /\ lastCommit' = Trade(t)
  /\ inOrder' = (inOrder /\ \A x \in rows : At[x] < At[Trade(t)])
  /\ UNCHANGED <<waiting, current, msg, cache, tick, serving, abandoned,
                 flushed, faults>>

SetLastPrice(t) ==
  /\ step[t] = "set_last" /\ Goto(t, "set_quote")
  /\ lastPrice' = Price[Trade(t)]
  /\ UNCHANGED <<waiting, current, msg, db, quote, tick, serving,
                 abandoned, flushed, faults>>

SetQuote(t) ==
  /\ step[t] = "set_quote" /\ Goto(t, "tick")
  /\ quote' = Trade(t)
  /\ UNCHANGED <<waiting, current, msg, db, lastPrice, tick, serving,
                 abandoned, flushed, faults>>

PublishTick(t) ==
  /\ step[t] = "tick" /\ Goto(t, "ack")
  /\ tick' = Trade(t)
  /\ UNCHANGED <<waiting, current, msg, db, cache, serving, abandoned,
                 flushed, faults>>

Ack(t) ==
  /\ step[t] = "ack" /\ current = t
  /\ current' = NoTask /\ End(t)
  /\ UNCHANGED <<waiting, db, cache, tick, serving, abandoned, flushed, faults>>

Exhausted(m) == m.attempts + 1 >= MaxAttempts

\* The copy for the retry queue, or the dead-letter exchange after the last attempt.
CopyOnward(m) ==
  IF Exhausted(m)
  THEN UNCHANGED waiting /\ abandoned' = TRUE
  ELSE /\ waiting' = BagAdd(waiting, [m EXCEPT !.attempts = @ + 1])
       /\ UNCHANGED abandoned

\* A step raises: the database or Redis fails.
Raise(t) ==
  /\ Fault
  /\ step[t] # "idle"
  /\ CopyOnward(msg[t])
  /\ current' = IF current = t THEN NoTask ELSE current
  /\ End(t)
  /\ UNCHANGED <<db, cache, tick, serving, flushed>>

\* The ack of a task whose channel has closed raises as well.
StaleAck(t) ==
  /\ step[t] = "ack" /\ current # t
  /\ CopyOnward(msg[t]) /\ End(t)
  /\ UNCHANGED <<current, db, cache, tick, serving, flushed, faults>>

\* The copy of a task whose channel has closed cannot be published either.
StrayLost(t) ==
  /\ Fault
  /\ step[t] # "idle" /\ current # t
  /\ abandoned' = TRUE /\ End(t)
  /\ UNCHANGED <<waiting, current, db, cache, tick, serving, flushed>>

TakenBack == IF current = NoTask THEN waiting ELSE BagAdd(waiting, msg[current])

\* The broker delivers the unacked message again while its handler keeps running.
ConnectionDrops ==
  /\ Fault
  /\ current # NoTask
  /\ waiting' = TakenBack /\ current' = NoTask
  /\ UNCHANGED <<step, msg, db, cache, tick, serving, abandoned, flushed>>

Crash ==
  /\ Fault
  /\ serving /\ serving' = FALSE
  /\ waiting' = TakenBack /\ current' = NoTask
  /\ step' = [t \in Tasks |-> "idle"] /\ msg' = [t \in Tasks |-> NoMsg]
  /\ abandoned' = (abandoned \/ \E t \in Tasks \ {current} : step[t] # "idle")
  /\ UNCHANGED <<db, cache, tick, flushed>>

-----------------------------------------------------------------------------
(* The cache at boot and Redis *)

\* Mutant: the key that is there is replaced.
WarmsAnyway ==
  /\ ~ serving /\ serving' = TRUE
  /\ \/ lastPrice' = Seed
     \/ \E x \in rows : lastPrice' = Price[x]
  /\ UNCHANGED <<waiting, tasks, db, quote, tick, abandoned, flushed, faults>>

\* warmup_cache, before the consumer starts: a key that is there stays; otherwise the
\* newest trade of the replica, which may lag so that any row is its newest, or the
\* seed price when it has none or fails.
WarmUp ==
  /\ ~ serving /\ serving' = TRUE
  /\ IF lastPrice # None THEN UNCHANGED lastPrice
     ELSE \/ lastPrice' = Seed
          \/ \E x \in rows : lastPrice' = Price[x]
  /\ UNCHANGED <<waiting, tasks, db, quote, tick, abandoned, flushed, faults>>

RedisLoses ==
  /\ Fault
  /\ cache # <<None, None>>
  /\ lastPrice' = None /\ quote' = None /\ flushed' = TRUE
  /\ UNCHANGED <<waiting, tasks, db, tick, serving, abandoned>>

-----------------------------------------------------------------------------
HandlerStep(t) ==
  \/ Commit(t)
  \/ SetLastPrice(t)
  \/ SetQuote(t)
  \/ PublishTick(t)
  \/ Ack(t)
  \/ Raise(t)
  \/ StaleAck(t)
  \/ StrayLost(t)

MarketNext ==
  \/ \E t \in Tasks, m \in Msgs : Deliver(t, m)
  \/ \E t \in Tasks : HandlerStep(t)
  \/ ConnectionDrops
  \/ Crash
  \/ WarmUp
  \/ RedisLoses

MarketSpec == MarketInit /\ [][MarketNext]_marketVars

-----------------------------------------------------------------------------
(* Properties *)

MarketTypeOK ==
  /\ IsABag(waiting) /\ DOMAIN waiting \subseteq Msgs
  /\ current \in Tasks \cup {NoTask}
  /\ step \in [Tasks -> PCs] /\ msg \in [Tasks -> Msgs \cup {NoMsg}]
  /\ rows \subseteq Trades /\ lastCommit \in Trades \cup {None} /\ inOrder \in BOOLEAN
  /\ lastPrice \in {None, Seed} \cup {Price[x] : x \in Trades}
  /\ quote \in Trades \cup {None} /\ tick \in Trades \cup {None}
  /\ serving \in BOOLEAN /\ abandoned \in BOOLEAN /\ flushed \in BOOLEAN /\ faults \in 0..MaxFaults

\* What a candle ought to be: open, high, low, close and volume of the trades of its
\* bucket, in the order of their execution.
InBucket(w, b) == {x \in rows : FloorBucket(At[x], w) = b}
Reference(S) ==
  [open |-> Price[CHOOSE x \in S : \A y \in S : At[x] <= At[y]],
   high |-> Max({Price[x] : x \in S}), low |-> Min({Price[x] : x \in S}),
   close |-> Price[CHOOSE x \in S : \A y \in S : At[y] <= At[x]],
   volume |-> SumFunctionOnSet(Quantity, S)]

\* The candles agree with the trades table however often and in whatever order the
\* trades were delivered: they cover the same buckets, their high and low are exact,
\* they open and close at prices of the bucket and never miss volume.  Trades handled
\* once each and in order give exactly the candles of the definition.
CandlesMatchTrades ==
  \A w \in Widths :
    /\ BucketsOf(w) = {FloorBucket(At[x], w) : x \in rows}
    /\ \A b \in BucketsOf(w) :
         LET c == candles[w][b]
             ref == Reference(InBucket(w, b))
         IN /\ c.high = ref.high /\ c.low = ref.low /\ c.volume >= ref.volume
            /\ {c.open, c.close} \subseteq {Price[x] : x \in InBucket(w, b)}
            /\ inOrder => c = ref

\* events.py calls the trade id its idempotency, and README.md:236 promises that every
\* event handler is idempotent: a candle counts each trade of its bucket once.
VolumeCountedOnce ==
  \A w \in Widths : \A b \in BucketsOf(w) :
    candles[w][b].volume = Reference(InBucket(w, b)).volume

\* Nobody sees a price of a trade that is not durable: the cache and the ticks follow
\* the commit, and a restart that finds no key does not invent one.
NothingShownBeforeCommit ==
  /\ lastPrice \in {None, Seed} \cup {Price[x] : x \in rows}
  /\ quote \in {None} \cup rows
  /\ tick \in {None} \cup rows

\* What the service holds is well-formed, and what it shows is durable.
ShownIsDurable == MarketTypeOK /\ NothingShownBeforeCommit

AllHandled == waiting = EmptyBag /\ \A t \in Tasks : step[t] = "idle"
Settled == AllHandled /\ rows # {} /\ ~ abandoned /\ ~ flushed

\* The reads of one symbol come from three places, md:last_price, md:quote and the
\* candles, which handlers that overlap after a dropped connection may write in another
\* order than they committed.  Their messages come back, so when all work is done board
\* and quote show the last commit and the chart's candle closes there, unless an attempt
\* had no successor or Redis lost the keys; and the board's change and volume are those
\* of the trades of the day's short intervals when each was handled once and in order.
ReadsAgree ==
  Settled =>
    /\ Quote = QuoteOf(lastCommit)
    /\ \A w \in Widths :
         candles[w][FloorBucket(At[lastCommit], w)].close = Quote.price
    /\ \A now \in {At[x] : x \in Trades} :
         LET today == {x \in rows : FloorBucket(At[x], Min(Widths)) >= now - Day}
         IN /\ Board(now).last = Quote.price
            /\ inOrder /\ today # {} =>
                 /\ Board(now).change = Quote.price - Reference(today).open
                 /\ Board(now).volume = Reference(today).volume

\* What GET /market/candles answers can be drawn: at most `limit` points in strictly
\* increasing time, ending with the newest candle; every candle since the first point
\* is there unchanged, every other point is flat at the close before it; and a hole is
\* left only behind MaxFill flat points.  What a lagging replica answers is what the
\* primary answered earlier.
SeriesSound ==
  rows # {} => \A w \in Widths, limit \in Limits :
    LET s == Series(w, limit)
        B == BucketsOf(w)
    IN /\ Len(s) \in 1..limit /\ Last(s).time = Max(B)
       /\ \A b \in B : b >= s[1].time =>
            \E i \in 1..Len(s) : s[i] = Point(b, candles[w][b])
       /\ \A i \in 2..Len(s) :
            /\ s[i].time > s[i-1].time
            /\ s[i].time \notin B => s[i] = Flat(s[i-1].time + w, s[i-1].close)
            /\ s[i].time > s[i-1].time + w =>
                 \A k \in 1..MaxFill : k < i => s[i-k].time \notin B
=============================================================================
