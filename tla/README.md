# A verification project for the Mini Stock Exchange Platform

TLA+ models of the services of the exchange and of the parts of its frontend that keep
state of their own, the
TLC configurations that check them on small instances, and TLAPS proofs of the
properties that hold for every value of the parameters. Paths are relative to the
repository; `tlc -config X.cfg M` runs a configuration and `tlapm M.tla` a proof.

## 1. The system and its components

Eight Python services around one RabbitMQ exchange, one Redis and one PostgreSQL
server. A user's order goes through the gateway to the Order Service, which reserves
cash or shares over HTTP, and hands it to the Matching Engine over the bus; the
engine's events then settle in four services that never talk to each other.

| Component | State | Operations | What is hard | What makes it correct |
|---|---|---|---|---|
| **Event bus and idempotent consumers** `libs/common/events.py`, `redis_client.py` | queue, `.retry` queue, dead-letter exchange, `idem:` markers, `processed_events` tables | publish, deliver, ack, retry with a delay, dead-letter; look for the marker, work and insert the row, set the marker | redelivery while the old handler runs, crash between any two steps, publish that fails or only seems to, poison messages | an event is applied at most once, never lost, and settled in the end |
| **Order Service** `services/order-service` | orders with a status and a filled quantity | place-order saga with compensation, two-phase cancel, consumers of `trade.executed`, `order.cancelled`, `order.cancel_rejected`, reconciliation at startup | request sessions hold copies of rows the consumers change; ambiguous publishes; crash in mid-saga; events out of order | terminal orders stay terminal, fills are accounted for, a cancel is answered, no order in the book without a hold |
| **Matching Engine** `services/matching-engine` | per symbol: levels, index; `seen_orders` | match, rest, cancel, rebuild from the Order Service | duplicates, cancel against fill, book in memory only, publishes after the lock | price-time priority, consistent and uncrossed book, no overfill, one answer per cancel |
| **Account Service** `services/account-service` | cash and held balance, reservations, ledger | deposit, reserve, release, settle a trade, release on cancel or rejection | retries and late calls, fills after releases, stale reads before a lock, CHECK constraints | cash is conserved, holds are covered and equal the reservations, none leaks |
| **Portfolio Service** `services/portfolio-service` | holdings, share reservations, trade history | reserve, release, settle both sides, release on cancel or rejection | lock with a TTL only, checks before the lock, cancel handler without one; averages that are rounded | shares are conserved, reserved shares equal the reservations, profits explain what was paid |
| **Market Data Service** `services/market-data-service` | trades, candles, last-price and quote cache, sockets | aggregate candles, cache, publish ticks, warm-up, fill gaps, reads from a replica, broadcast | redelivery and overlapping handlers, replica lag, a socket that blocks, a snapshot beside the ticks | candles agree with the trades, the reads agree with each other, every price arrives |
| **Notification Service** `services/notification-service` | notifications | one or two rows per event, list, count, mark as read, mock email | offsets that shift while alerts arrive; crash between commit and email | one row per event and side, pages without twins or holes |
| **API Gateway** `services/gateway` | permits, breaker, quota counters in Redis, WebSocket counts | authenticate, count, forward, bridge | all of it shared between requests across awaits | permits come back, the breaker reopens, quotas and caps are exact |
| **User Service** `services/user-service` | users; tokens at the clients | register, login, rename, change of password | only the unique columns stand between two requests, and login takes the first row it finds | the owner of an account gets in, whatever others register |
| **Frontend** `frontend` | the session in localStorage, shared by the tabs; what each page shows, optimistic marks, timers, sockets | sign in and out, place and cancel, poll, subscribe | answers overtake each other; effects that run twice; a request that failed for the browser but not for the server | no other view's data, one order per ticket, and what is shown becomes what the server has |
| **Distributed lock** `libs/common/redis_client.py` | a key with a TTL | acquire, release by token | TTL shorter than the section | mutual exclusion while the TTL lasts |
| Libraries for money, symbols, sessions, logging; seed data, migrations, scripts | none of their own, or outside the protocols | | | |

How they interact:

* **HTTP, synchronous**: browser to gateway, gateway to every service; Order Service to Account and
  Portfolio (reserve, release), with retries and timeouts in `http_client.call_service`;
  Matching Engine to the Order Service (open orders at boot).
* **Bus**: `order.accepted` and `order.cancel_requested` to the engine;
  `trade.executed`, `order.cancelled`, `order.cancel_rejected` from it; `order.rejected`
  from the Order Service. Each consumer has a queue per event type, prefetch 1, and a
  retry queue, so **nothing orders two events of different types, nor a retried event
  and the one behind it**.
* **Live prices**: `md:ticks` in Redis to the tick pump, its hub to the gateway's bridge, the
  bridge to one WebSocket per subscription of a page.
* **Shared state**: Redis, for locks, markers, quotas, caches and ticks; localStorage, for
  the tabs of a browser. Databases are not shared.

The hazards these interactions expose the code to are listed, at their lines, in
`PROJECT.json`, each with the property that would catch it or the reason none does.

## 2. Modules

| Module | Models | Refines or composes |
|---|---|---|
| `OnceEffect` | what the bus promises a handler: a published event takes effect at most once | |
| `EventDelivery` | one queue with its retry queue and its consumer | implements `OnceEffect` |
| `EngineContract` | what the Order Service relies on the engine for | |
| `OrderService` | saga, cancel, consumers, reconciliation | |
| `OrderLifecycle` | Order Service and engine together | `OrderService` with `EngineContract` |
| `MatchingEngine` | the book of one symbol, both consumers, restart | implements `EngineContract` |
| `Account` | balances, reservations and their callers | |
| `Portfolio` | holdings, share reservations, the lock and the database sessions | |
| `Positions` | what the portfolio service keeps of one user's trades beside the shares, and the portfolio it computes | |
| `MarketData` | consumer, cache, warm-up and reads of one symbol | |
| `LiveFeed` | a price on its way from the trade to the browser | market-data, gateway and frontend in one module |
| `FaultBudget` | the bound on faults of `MarketData`, of `LiveFeed` and of `Notifications` | |
| `Ordering` | ORDER BY a column without duplicates | of `MarketData` and `Notifications` |
| `Notifications` | alerts, the bell and the notifications page | notification service and frontend in one module |
| `Gateway` | the path of an HTTP request | |
| `Session` | accounts, tokens, localStorage and the tabs | |
| `TradingPages` | order ticket, orders page and what the Order Service answers | |
| `MoneyPages` | portfolio page, dashboard and wallet, with what the services answer them | `Positions` with the pages |
| `Browser` | a browser with its session and its pages | `Session` with `TradingPages` and `MoneyPages` |
| `MC_*` | constants for TLC | |
| `EventDelivery_proofs`, `OrderLifecycle_proofs`, `MatchingEngine_proofs`, `Account_proofs`, `Portfolio_proofs`, `Browser_proofs` | theorems about the module of that name | |
| `Edge_proofs` | theorems about `Gateway`, `LiveFeed`, `MarketData` and `Notifications` | |
| `SumTheorems` | lemmas about sums over finite sets, listing them in order and counting | |

The two halves of the order protocol are tied by `EngineContract`: `OrderLifecycle`
checks the Order Service against *any* engine that behaves like the contract, and
`MatchingEngine` shows that the code is such an engine. Because events are idempotent
(`EventDelivery`), the other modules but `MarketData` let each event be handled once, in any order,
and do not repeat the delivery protocol.

### EventDelivery

A message is an event and the attempts in its `x-attempts` header. `ready` and
`retrying` are bags of messages, `current` the task with the one unacked delivery.
A task goes through the steps of `_on_message` and of the handler it awaits:
`SeenEvent` (look for the marker), `Commit`, `Duplicate` or `WorkFails` (one
transaction), `MarkProcessed`, `Ack`; a failure leads to `Requeue` or `RequeueFails`,
then `AckCopied`. `ConnectionDrops` gives the message to a second task while the first
goes on; `ParkedTimesOut` is the broker closing a channel with a message nobody will
ack. `Raise` can happen wherever the code awaits something that can fail.

### OrderService, EngineContract, OrderLifecycle

`saga[o]` is where `place_order` stands; `sagaView[o]` is the status in the copy of the
row its session holds, and `previous[c]` is the same for a cancel request. That is the
important part of the model: consumers work on the row under `SELECT ... FOR UPDATE`
(one step), a request writes what it computed from its copy. A `publish` that raises may or may
not have reached the exchange. `CrashAndRestart` kills the request sessions, rejects any
subset of the PENDING orders (those older than a minute) and starts the republishing of
the open ones, which can fail half-way. A cancel that reads a terminal or pending order
changes nothing, so it is left out; so is a row's `avg_fill_price`.

`EngineContract` has `live[o]`, what is left of an order in the book, and lets any two
live orders of opposite sides trade. It may see an `order.accepted` again whose ack was lost, lose any event (`_publish` swallows
failures), redeliver requests, and restart with the book the Order Service reports or
with an empty one.

### MatchingEngine

`bids` and `asks` map prices to sequences; `index` is the set of resting orders. The
match loop is one step per trade (`MatchOne`) between `BeginMatch` and `EndMatch` while
`matching` holds the lock. A trade is made with the first candidate (`IsFirst`): best price, front of its
level, not an order of the same user; the code's pop, set aside and put back comes to
that. The handlers then publish their `outbox` one event at a time, without the lock.
`Admitted` is what `validate()` lets reach the engine, prices being counted in ticks.
`Restart` empties everything and rests what the Order Service lists as open: its list
lags behind the trades and answers it has not handled, and leaves out CANCEL_PENDING orders (`Rows`; a
request makes the row CANCEL_PENDING until a fill or `order.cancel_rejected` is handled). A second request for
the same order is `OrderLifecycle`'s; here each order is asked about once. Price levels that became empty stay in the function as empty sequences.

### Account

Transactions that hold `lock:funds` and the account row are one step. The exception is
the release endpoint: `ReleaseRead` copies the reservation, `ReleaseApply` works on the
copy. The callers are part of the model: reserve calls that are retried, arrive after the
caller gave up, and releases of the compensation; trades at any price up to the limit
(at any price at all for a market order), events handled in any order. A settlement that
would break a CHECK constraint is refused as a whole, seller included (`RefuseFill`),
since it fails in the same way at each of the five attempts.

Nothing keeps fills, cancellations and other releases away from a reservation between the two
(`routes.py:183-200`), and nothing does here. `torn` is history: the orders whose release was applied to a copy
that no longer was what the row said. The properties say what such a release may do and what it may not. It may free
cash that another order of the same buyer needs, and make `consumed` and `released` together exceed the hold. It
may not touch another buyer, create cash, or leave anything on hold.

The engine does not restart in this module, nor in `Portfolio`, so an order trades no more than its size. After a
rebuild from rows that lag (`matching-engine/app/main.py:46-93`) it may trade more; `MatchingEngine` and
`OrderLifecycle` have that, and what the two services make of such a fill is outside the model.

### Portfolio

`session[s]` is a database session: of an HTTP request, or of one of the three consumers
(named after their events). A handler is two reads and a commit, since this service locks
no rows: `ReserveRead` (the check for a repeated call), `ReserveLock` (the lock and the
holding), `ReserveCommit`; the same for a release; `TradeLock` (both locks and holdings),
`TradeReadRow`, `TradeCommit` or `TradeFails`; `CancelRead`, `CancelReadHolding`,
`CancelCommit` without a lock. A session keeps the copies it has read and writes the
columns it changed (`Written`, `ReservedAfter`). Row locks of PostgreSQL only order commits,
which are atomic; a deadlock between two of them ends in a rollback and a retry, the same
as a handler that did not start. A holding is in one symbol: other symbols have rows and locks
of their own. `Crash` ends all sessions.

Three history variables say when the code's own gaps show. `torn`: a commit on stale copies
that a lock, taken before the first read, would have prevented (a cancellation beside
a lock holder, a release that waited while its reservation changed). `late`: a fill handled
after its reservation was given back. `refused`: a fill that breaks a CHECK and is lost for
the portfolio, at a flush by dead-lettering, at the commit because every IntegrityError
is taken for a duplicate.

### Positions

One user, whose trades (`made`, any history of purchases and sales) are handled in any order
that sells only what is there. `Bought` is the average over all shares, rounded by `ToMoney` (`to_money`'s
ROUND_HALF_UP, in units of 0.0001), `Sold` takes the profit from the average, and a closed position starts
afresh. `GetPortfolio` and `Totals` are what `_get_portfolio` computes of the rows and of the cached
prices, a symbol without a price at its cost. `rounding` counts, as history, the shares each rounded
average was taken over. The rows here have no versions and no locks: `Portfolio` has those, for the shares.

### MarketData

A message is a trade and its attempts, as in `EventDelivery`, of which the steps are kept
and the markers left out: `handle_trade` asks for a marker nobody writes. `Commit` is the
transaction with the row and one candle per interval; `SetLastPrice`, `SetQuote` and
`PublishTick` are the three awaits behind it. `Raise`, `StaleAck` and `StrayLost` are the
ways a step ends in `_requeue_for_retry`, or beside it. `WarmUp` starts the service and
sets a price only when there is none; the replica may lag, so the newest trade it has is any. The reads
are operators: `Series` (the newest candles `Filled` with a `GapFill` each, and cut to the newest points), `Quote` and `Board`, whose day of candles is that of the shortest
interval. Times are numbers; an interval is a width and a bucket its start.

### LiveFeed

A connection has three ends: `browser`, `bridge` (the coroutine of the gateway) and `hub`
(the socket at market-data), each of which learns of the others' end in its own time.
Between the gateway's check of its caps and its count no `await` suspends, so `Accept` is
one step; the browser is connected from there, before market-data has been dialled. A view
is a run of the effect that subscribes; StrictMode's second mount and another symbol are
a view `After` the first; one chart is mounted at a time. A connection whose three ends are gone is
`Idle` again and may be used for another. `LoadAnswered` and `Resubscribe` are the two effects of
`CandleChart`. `PumpTakes` copies the set of sockets and `PumpSends` awaits one after the
other; a stalled browser blocks it until `PingTimeout`.

### Notifications

A transaction is two steps: `InsertRows` gives its rows their `created_at`, `CommitRows` makes them visible. Three
consumers overlap, so the commits may come in another order than the timestamps, by which the lists are sorted. `late` is
history: alerts that became visible after one created later. Requests travel, are served and are answered on their own;
the page loads again at the answer to its mark-all (`PostAnswered`), which may be lost.
The bell (`polls`, `items`, `count`) and the page (`alerts`, `loads`) are two places; a user
is in one of them in a behaviour. `Load`'s record keeps what the closure of the click has:
the rows to append to, the filter, and later the answer. The table's order is `InOrder`, and what a
filter keeps is `Filtered`: the elements at a set of positions, in order.

### Gateway

`pc[r]` moves only at the awaits of `proxy`, `enforce` and `forward`: `Count` (Redis), the
bulkhead's wait, the call. `Granted` is its own step, since the semaphore's future is set
before the waiter runs; that is where `TimesOut` can hold a permit. `HalfOpen` is inside
`PassesBreaker` as in `_circuit_open`. A tick is a unit in which windows and the open
circuit are counted.

### Session, TradingPages, MoneyPages, Browser

A token is the number of its issue and names its owner. `Unauthorized` is the 401 of
`api()`: it clears the store all tabs share and takes the tab to `/login`. `LoadPage` is a
page loaded by the browser, where `AuthProvider` reads the store; `Follow` is a link, where
it does not. `Authenticate` takes any one of the rows that go by what was typed, as `.first()` does of a query
without an order, and checks that one.

In `TradingPages` an order moves along `transition`'s edges as it likes, since `OrderService`
has the rest; `PostServed` is the lookup of the key with the insert, `PostDecided` the end
of the saga. A request may be lost for the ticket and still go on (`heard`).

In `MoneyPages` a page asks when its timer fires (`Ask`), and an answer is read in two steps,
rows and then prices (`HoldingsRead`, `PricesRead`), and drawn whenever it comes (`FetchAnswered`). The portfolio
page asks while a filled order is among its newest unread notifications (`FillUnread`), which the
Notification Service may write before the Portfolio Service has booked the trade (`Alert`). The wallet loads when
it is opened and after each deposit its form reports (`Reload`); a load reads balance and ledger on
their own (`BalanceRead`, `RowsRead`). What a page draws of these are `PortfolioDraws`, `DashboardDraws` and `WalletDraws`.
The balance counts deposits, since the rest of it is `Account`'s.

`Browser` joins them: the session moves while none of these pages is open (`~ Working`), and beside
such a page the timers of the navigation bar and the end of its token do; above the pages of money the bar's
calls are followed once that token has ended, which is when they matter. That is the
abstraction the composition makes; it keeps the product small.

## 3. Runs

State counts are of the whole reachable state space, without symmetry unless noted.

| Run | Bounds | States | Shows |
|---|---|---|---|
| `event_delivery` | 2 events, 2 tasks, 2 attempts, 2 faults | 417,060 | never lost, markers only for durable work, dead-lettered only after all attempts, settled in the end; implements `OnceEffect`: at most once |
| `order_lifecycle` | 2 orders (limit buy of 2, market sell of 1), no keys or the same key, 2 cancels, 2 trades, 1 fault | 912,774 (symmetric cancels) | rows agree with the book's trades; one order per key and none in the book without a hold; a cancel is never stranded; consumers keep terminal orders |
| `account` | 2 orders of one user, 2 users, prices 1 and 4 (below a limit, above the market hold), 1 deposit of 5, 2 reserve calls for the limit order and 1 for the market order, 2 release requests | 757,324 (symmetric releases) | cash conserved; holds covered, no more than the reservations and equal to them without a stale release, enough for what can still trade, and given back in the end |
| `portfolio` | 2 sell orders (2 and 1) of one user with 2 or 3 shares, 2 request sessions, 3 consumers, 2 reserve calls each, 1 fault, crashes | 626,924 (symmetric requests) | reserved shares equal the reservations, cover all that can be sold, and are given back; refusals only after an early release |
| `naked_short` | 2 sell orders of 2, 1 request session, no fault | | counterexample, section 6 |
| `matching_engine` | 4 orders of 3 users of which 3 are placed, 1 cancel, 1 fault | 191,564 | the book is consistent and uncrossed, no overfill, one cancellation; price-time priority; every cancel request answered, across a restart too; implements `EngineContract` |
| `market_data` | 3 trades, intervals of 1 and 2, 2 tasks, 2 attempts, 2 faults, `MAX_FILL_PER_GAP` 2, limits 1, 3 and 6 | 280,331 (symmetric tasks) | candles agree with the trades; nothing is shown before it is durable; quote, board and chart agree; the series can be drawn |
| `candle_volume` | as above | | counterexample, section 6 |
| `live_feed` | 2 views of a chart, 1 of a page in another browser, 2 connections, caps 1 and 2, 2 prices, 1 fault | 162,132 | sockets and counters in account; every subscription connects; prices arrive; candles are those of the view; replica lag passes |
| `notifications` | 3 events, pages of 1 alert, 3 clicks, 2 polls and 2 list requests in flight, 1 failure | 1,722,480 | the badge converges; no alert twice and none skipped but late ones |
| `gateway` | 5 requests of 2 identities to 2 upstreams, quotas 1 and 2, 1 permit each, thresholds 1 and 2, 2 ticks, 1 failure of Redis | 746,568 (symmetric orders) | permits, breaker and quota are exact; an outage is contained |
| `browser` | 2 tabs, 2 people, 2 tokens, 4 visits, 2 lapses; or 3 orders, 2 polls, 3 clicks, 2 losses; or 3 trades, 1 price, 2 requests, 1 deposit, 1 loss | 201,595 | owners get in; the end of a session is noticed; one order per ticket; the orders page settles; profits explain the money; the pages of money catch up |

Several invariants are conjunctions of named parts, each with its own comment in its module: `QuantitiesSound`
(types, `FillBounds`, `FillsAccounted`), `PlacementSound` (`OneOrderPerKey`,
`AcceptedOnlyAfterReserve`), `Account!BooksBalance` (`CashConserved`,
`HeldMatchesReservations`, `HoldCoversRest`), `Portfolio!BooksBalance` (types,
`ReservedMatches`, `NeverOverdrawn`), `SalesSettle` (`SalesCovered`,
`RefusedOnlyAfterReturn`), `BookSound` (types, `BookConsistent`, `NotCrossedBeforeRestart`,
`NoOverfill`, `CancelledOnce`), `SocketsAccounted` (types, `CountsBridges`,
`OneSocketPerSubscription`), `PricesFlow` (`PricesArrive`, `LagPasses`),
`PagesCatchUp` (`PortfolioCatchesUp`, `DepositShows`), `ShownIsDurable` (types, `NothingShownBeforeCommit`).

Why the bounds are enough for the questions asked:

* *event_delivery*: two tasks are what a redelivery while the first handler runs needs; two
  attempts make one retry and one dead-lettering; two events
  wait for each other behind prefetch 1. Two faults give drop and crash, or a failed retry publish
  and a drop, in one run.
* *order_lifecycle*: an order of two can be filled partly and then fully; two cancel
  requests race for one order; the second order is the other leg, and carries the same
  key. One fault is any one of: failed or ambiguous call, publish, crash, engine restart,
  lost event, lost ack. `MaxTrades` bounds the engine of this run (in `OrderLifecycle`'s `Next`)
  and is no part of the contract. `FewEnough` leaves out two trades *and* two cancel requests in one
  behaviour: stale copies need one of each, the race of the cancels needs two and a trade.
* *account*: the user's deposit pays for one order and not quite for both, so that a wrong release of one shows
  in the other; the limit order of two fills in two parts, in either order of settlement, with or without price
  improvement. Two release requests overlap each other, the fills and the cancellation. A retried reserve of
  the limit order finds its row, or arrives after the hold was released.
* *portfolio*: the user can reserve one of the orders or both, so the reserve calls compete for shares
  and a wrong release of one order shows in the other; the order of two has two fills that
  can be handled in either order, and a cancellation that can be handled before or between them. Two
  request sessions are what a retried reserve, or two releases at once, need. `naked_short`
  has two orders of two.
* *matching_engine*: two buys at one price make time priority matter, the market sell
  sweeps both or leaves a remainder, the limit sell crosses and has to skip an order of its own
  user. `SeenMax` is larger than the number of orders: beyond `SEEN_ORDERS_MAX` the code
  forgets, and `NoOverfill` is not claimed there.
* *market_data*: two trades share the long interval and not the short one, and the third
  leaves a gap longer than `MAX_FILL_PER_GAP`; every order of delivery is reached, and a trade counted twice.
* *live_feed*: the cap of one per client makes the second view wait for the first one's
  bridge; the other browser's socket is where a blocked broadcast shows. Two prices are a
  tick beside a snapshot.
* *notifications*: pages of one alert make every arrival shift the offset; two requests in flight can
  come back in either order; three clicks load, append twice, or switch the filter between. Three events are
  what it takes for one to commit late, below a row that is listed and above one that is not.
* *gateway*: three orders exceed their quota of two and the single permit; a look at the market has
  the other upstream, whose breaker must not hear of the first; thresholds one and two make a hard and
  a soft failure differ; the two ticks end the open circuit and the minute.
* *browser*: two people whose names collide only in lower case, who log in by email or name; the second tab has the first
  one's session. Three orders are one from before and two attempts, or two from before. The position is
  bought at 4 and 3, an average that has to be rounded, and then closed at a profit; the portfolio page sees
  its two purchases come (`MaxNotified`), the dashboard all three trades. `Newest` is 1, so a later notification
  pushes the one of a filled order out of sight; two requests overtake each other, and a wallet that is still
  loading for the first time meets the load after a deposit.

`CHECK_DEADLOCK FALSE` is set in every configuration: with its bounded numbers of
orders, events, clicks and faults, each system ends when all of them are used up.

### Fairness

* `EventDelivery!FairSpec`: every task goes on (the event loop runs it), the broker delivers while
  the consumer is free, the TTL of a retry copy runs out, and an unacked delivery does not
  stay out for ever (RabbitMQ's consumer timeout). Nothing is assumed of faults, of Redis
  or of the database, which may fail at every attempt: then the event is dead-lettered.
* `MatchingEngine!FairSpec`: each of the two consumers goes on while it has something to do. Restarts and lost
  publishes are not fair and need not happen. A request that a crash interrupts is redelivered at the restart, since its
  ack was not sent (`Restart`).
* `LiveFeed!FeedSpec`: reconnect timers fire, requests are answered, coroutines that can go on do,
  the server misses a stalled browser's pong, a crashed market-data is started
  again. Trades, users and faults are not fair.
* `Notifications!AlertsSpec`: the bell's interval fires and a poll is answered; the events, the clicks and
  their requests are not fair.
* `Browser!FairSpec`: timers of a tab fire and their requests are answered, also those for the
  portfolio and the wallet, each of their reads for itself. Nothing is assumed
  of orders, trades and deposits: `PageSettles` speaks of behaviours in which each order comes to its end,
  `PagesCatchUp` of those in which the user stays on the page and, for a portfolio page, leaves the
  notification of a filled order unread among the newest.

## 4. Proofs

`EventDelivery_proofs` proves, for any sets of events and tasks and any
`MaxAttempts >= 1`, all five invariants and the refinement of `OnceEffect`. The
invariants are built in layers: `WellFormed` (types; a busy task handles a message with
attempts left), `Committed` (what was applied is what has its row, once, and a marker or a task about to set one
implies the row), `Sourced` (every copy comes from a publish),
`Counted` (a header never runs ahead of the failed attempts), and `NothingLost`, which
needs `WellFormed` to know that the task that fails holds the message it re-injects. The refinement
maps `Publish` to `Send` and `Commit` to `Apply`, everything else to a stutter.

`OrderLifecycle_proofs` proves all four properties of its run, for any orders, sizes, keys, requests and numbers of
trades, restarts and faults (`IInv`). `QuantitiesSound` is inductive with types
and with the trades on the bus having numbers of their own (`TradesSound`), because `FillsAccounted` sums over them.
`AcceptedOnlyAfterReserve` speaks of the engine's queue, and an order gets there from the saga, from a
republishing or from a restarted engine's book: `SagasSound` says what copy each step of the saga holds, `HoldsFirst` that
none gets past PENDING, or is republished, without its hold, `CancelsSound` that a cancel request
writes a status an open order had. The last is what keeps a stale copy from inventing a
status, though it may bring an old one back. `ConsumersKeepTerminal` then follows step by step.

`MatchingEngine_proofs` has three layers.

* `Base` is inductive without conditions: the levels and the index hold the same
  orders, each once, with something left (`BookConsistent`), every request is about a placed order, and, until a
  restart, no two users' orders cross: an order rests only when it has no candidate
  left. Orders of one user may cross, since a match skips them.
* `Live` needs `NobodyForgotten` (`MaxPlaced <= SeenMax`). A level is in the order in which `seen_orders` saw its
  orders, which gives `PriceTimePriority`; what an order traded and has left is within its size, nothing
  trades before it is seen, and an order is in the book or its cancellation is in one place only, which gives
  `NoOverfill` and `CancelledOnce`. The assumption is no convenience: `_remember` evicts the oldest
  id beyond `SEEN_ORDERS_MAX`, and a redelivered `order.accepted` of an evicted order would
  be matched again.
* `Told` is about the outboxes: what a handler has still to publish, in which order, and under which
  `trade_id`. The contract has a trade or an answer on the bus the moment the engine decides it, the code publishes
  it later; the refinement mapping counts both, and `Told` says no event is counted twice.

`EngineRefinement` puts them together: every step of the engine, the failed publish and the restart among them, is
a step of `EngineContract` or leaves its variables alone. `OrderLifecycle`'s theorems
are about any engine that keeps the contract, so they hold of this one.

`Account_proofs` proves, for any users, orders, positive limits and quantities, `TypeOK`
(no balance or column of a reservation is ever negative) and the run's four invariants, for any number of overlapping
releases. `HoldsCovered` is not inductive: a release writes from a copy. `CopiesSound` says how wrong
the copy can be: what it is about to release is no less than what is left, since fills and releases only take
away, and no more than the hold. `TornSpent` says that after a stale release nothing is left, so that `max(ZERO, ...)` in
the fill takes and gives back nothing more. That held cash stays covered at a settlement needs the CHECK constraint
(`ChecksPass`), as the code does: `max(ZERO, ...)` and a market order above its hold give no
other guarantee. `Ledger` adds the sums, `CashConserved` and `HeldMatchesReservations`, and per
order what its caller, its events and its end still owe it (`OrderSound`); `HoldCoversRest`, `NoHoldLeak` and
`RefusedOnlyAfterRelease` follow from that. What is held is compared with the parts of the reservations that are
left (`Left`); a stale release lowers the left side by more than the right one, for one user, who is then marked.

`Portfolio_proofs` proves, for any users, orders, holdings, requests, retries and crashes, the run's three invariants.
Nothing there is atomic by a row lock, so the proof has two stages.

* `Sound`: types, what a session may be doing (`SessionSound`), that no two sessions hold the lock of a user
  (`LocksExclude`), and that what a session has read under the lock is still what the rows say when it commits, as
  long as its seller is not in `torn` (`CopyCurrent`). This is inductive by itself. A step of one session is shown to
  spare every other (`Spared`): two sessions with copies to lose have different sellers, because each holds its
  seller's lock (`OneGuarded`), and the step that disregards the lock marks its seller as `torn`. A trade holds two locks, and both
  are needed, since it writes the holdings of both sides.
* `Ledger`: with `Sound` a commit acts on the rows as one step. `EngineSound` says that the book and the bus never have more of
  an order than its size, `RowSound` that a reservation exists before its order trades and ends with it, `RowKept` that
  it has consumed exactly the fills that were handled, `HoldingSound` that `reserved` is the sum of
  what is `Due`. None is inductive without the others: that a fill finds its shares reserved needs the
  sum, the sum needs what the reservation says, and that needs the engine's bound.
  `HoldingSound` has weaker clauses for a user in `late`, where a fill has taken from what other orders reserved:
  `reserved` never exceeds what is due unless a fill was refused, and never the holding.

`BooksBalance`, `SalesSettle` and `NoShareLeak` follow, with the conditions they have in the run
(`torn`, `late`, `refused`, `forgotten`) and no others. One step each of fill, release and cancellation changes
one order and one holding (`LedgerStep`); all other orders are `Untouched`.

`Browser_proofs` proves the two invariants and `OwnersGetIn`. That a lookup finds one row at most (`FoundIsOne`) rests on
`NoTwins`, kept by registration and rename through the unique indexes, on `Registered`, where the text of a row comes from,
and on names having no @ (`FormAssumption`).
`BuysOnce` is not inductive: orders are counted by their client ids, each in use by
one order, and the ticket moves on to the next id only with an order to report (`KeysOnce`).
`GainsExplained` sums over symbols and over trades. Inductive is `Booked`, an equation for each symbol's row: profit,
cost basis and what its recorded trades paid differ by no more than half a unit per share of each average taken
over it (`ToMoneyNearest`), and not at all by a purchase that opens a position (`ToMoneyExact`) or by a sale.
The sums over symbols then add up to the property (`BookedExplains`), whatever the prices, since market value and
unrealized profit differ by the cost basis.

Sums are folds, that is, recursive functions chosen by CHOOSE. The library's induction
theorems cannot be used here, so `SumTheorems` proves that the fold exists and what it computes from
a least counterexample: a set of subsets of a finite set has a minimal member. That a finite set of numbers
can be listed in order (`AscendingLists`) is proved the same way. `MatchingEngine_proofs` does the same
with numbers for `Those`, the recursive function that leaves an order out of a level.

`Edge_proofs` is about the services a browser meets first. Of `Gateway` it proves, for any finite set of requests, any upstreams, limits, thresholds and
ticks, `TypeOK` and all four invariants of `gateway`. `BulkheadExact` and
`FailuresOpenCircuit` are inductive with `TypeOK`; the first by what one request's step does to the
set of holders (`HoldersChange`). `OutageContained` needs `OpenedByFailure`, that a circuit which is open was
opened by a failed call to that upstream, and that an answer, once given, stays
(`AnswersFinal`). `QuotaExact` is about a request and its rivals, while the counters
are about a key: `CountersExact` says that a key's counter lies between the number of requests
Redis has answered and that number with the ones it failed; `QuotaKept` bounds those let
through for a key; and a request's rivals are those past the counter of its key.

Of `LiveFeed` it proves, for any views, addresses, connections and caps, `SocketsAccounted` and `DrawnIsOfTheView`. The
invariant is `FeedKept`: types, `SlotsExact`, `OneEach` and `DrawnInv`.

* `SlotsExact` says for each address that its counter is the number of bridges that hold one of its slots, and is
  there only while that is not zero; the total is their sum. A bridge gives its slot back in one of several ways
  (its browser has gone, market-data has, dialling failed, the gateway restarts), and a lemma for one slot
  more, one for one slot less and one for a restart serve all the actions.
* `OneEach` strengthens `OneSocketPerSubscription`: an open socket belongs to a subscription that is on and has no
  timer, a timer to one that is on, and one that is on has a socket or a timer. All the ways a connection can move
  (`Moves`) keep it, except those that open a socket, close one or clean up, which are shown one by one.
* `DrawnInv` adds to the property that no two charts are mounted (`OneChart`), which is what makes an
  answer to an earlier view's request find that view gone.

Of `MarketData` it proves, for any trades, intervals, tasks and attempts, all four invariants.

* `ShownIsDurable` is inductive with `AtWork`: a task past its commit has a trade that is in the table.
* `CandlesMatchTrades` follows from `CandlesKept`. A candle `Fits` the trades of its bucket: its prices are theirs, its high and
  low bound them all, its volume is no less than their sum and, as long as each trade came once and in the
  order of execution, equal to it, with the open of the first and the close of the last. The reference candle
  of the property has CHOOSE and folds in it and is not inductive; `FitsReference` shows that a candle that fits equals it.
* `ReadsAgree` needs `Fresh`: once a trade is committed and unless an attempt was given up or Redis flushed, either
  work is still `Pending` (a message in a queue, a task before its commit, or one that lost its delivery and
  may write what is older), or the caches are `Followed` by the one task at work, which has
  written them as far as its step says. That the board's volume is the sum of its candles, and so of the
  day's trades, is `BoardAgrees`, with `SumParts`: a sum over a set is the sum over the parts of a partition.

* `SeriesSound` follows from `CandlesKept`, but needs to know what the loop that fills gaps computes. `Filled` is a
  recursive function, which is shown to exist (`FilledExists`) and to keep `Draws` from one candle to the next, both by a least
  counterexample: the points ascend, each is a candle or flat behind the one before it, and a hole has its
  `MaxFill` flat points. One gap is `GapSteps`: candles start at multiples of their length, so a fill that is not cut
  short ends exactly one length before the next candle. That is the nonlinear arithmetic of the
  proof; `ExtendedDraws` uses only that each step adds the length. Cutting to the newest (`IsTail`)
  keeps all of it, and nothing between two buckets of the listing was stored (`NewestBuckets`).

Of `Notifications` it proves, for any events, page size, requests and clicks, `ListExact`. The invariant is
`ListsKept`, about the list on the page, the list each request will append to and each answer on its way.

* Each of them `IsList`: alerts of this user, none twice. One that came for the filter `all` is also `Whole` (newest
  first and without a hole), an answer always and a list as long as no more than a page has come since its first
  row (`Holds`). Alerts that come meanwhile have greater numbers or are `late` (`Grows`), and the late ones are those a whole list may
  lack, so they leave a list as whole as it was.
* An answer `Joins` the list it was asked for: it begins no higher than the list's first row and no lower than right below its last.
  `PageJoins` counts. The offset is the length of the list, which is at least a page (`hasMore` says so, since
  only a full page sets it and lists do not shrink); were the first row of the answer above the list, more than a
  page would have come, and were an alert between the two, there would be fewer alerts above it than the list has.
* `AppendedHolds` then shows that dropping the duplicates of an answer that is whole and joins gives a list that is whole.

The assumptions are the named ASSUMEs of the modules: bounds are naturals, sets of orders or requests that are counted or summed
over are finite (`FiniteAssumption`), orders passed validation (`Admitted`), sizes have a largest one (`MaxQuantity`), markers for "none" are
not members of the sets they stand beside, amounts are positive, forms and first rows are of the type of the tables
(`FormAssumption`, `RowsAssumption`), events of the kinds the service consumes (`EventAssumption`), and, for the quota, the requests
of one identity are all of a bot or none. `NobodyForgotten` is a hypothesis of the theorems that need it.

Only model-checked is liveness (`EventuallySettled`, `RequestsAnswered`, `BadgeConverges`,
`EverySubscriptionConnects`, `PricesFlow`, `EndIsNoticed`, `PageSettles`, `PagesCatchUp`), which is out of the prover's
reach. Every safety property of the passing runs is a theorem.

`NoNakedShort` and the volume of a candle that was counted twice are refuted (section 6).

## 5. Not modelled

* Market Data: the symbols table, whose rows `warmup_cache` inserts once (here the constants of one symbol); the list of recent trades, a plain query;
  the `from` and `to` filters of the candles.
* Notification: titles and texts, and the mock email, which is sent after the commit (a crash in between loses
  it) and read by nothing.
* Gateway: filtering of headers, the health endpoint, and the `EXPIRE` behind the first `INCR`: a
  counter whose EXPIRE fails stays in Redis, but its key names a minute that does not come back.
* User Service: hashing (`Verifies` compares a password as a value) and the read endpoints.
* Frontend: the order book, the recent trades and the table of symbols, which draw what they got; the
  checks a form makes before it sends; the dashboard's and the navigation bar's figure for the available cash; the mock
  server, the layout.
* Portfolio: the list of trades and the single holding, which no page asks for.
* Libraries for symbols, settings and logging are pure, as are the checks of prices and quantities, of which
  `Admitted` has what they let through. Money is in whole units
  everywhere but in `Positions`, the one place with a division to round.
* Migrations, seed and scripts run no protocol; the constraints that migrations
  create are modelled where code meets them.
* Undecodable and malformed messages, which are logged and dropped; the transaction ledger beyond what `MoneyPages` has of it, and an order's average fill
  price, which are written beside every change and read by no decision.
* The distributed lock is taken to exclude others for the whole section: with a TTL of 5 s,
  after which it is free for others, and sections of a few statements this is what happens unless a database call hangs.
* `seen_orders` beyond its 10,000 entries (`Remember` has the eviction, the run does not reach it).

## 6. What the counterexamples show

* **`naked_short`**: "Can a user sell shares they don't own? No" (`docs/PRESENTATION_GUIDE.md:723-725`). A user sells
  one share of an order for two and cancels the rest; `order.cancelled` is handled before the fill, on a
  queue of its own, and makes both shares available; a second order for two is reserved and
  accepted. The CHECK constraint refuses a later settlement, when the trade has already been made and paid.
* **`candle_volume`**: "Every event handler is idempotent" (`README.md:236`). A trade whose handler fails behind the
  commit is delivered again; its row is dropped as a duplicate, and the candles of its intervals
  count its volume a second time.

Other behaviours of the code that a reader might not expect are in the models, and the
properties are worded around them:

| Behaviour | Where the model has it | What the properties say |
|---|---|---|
| a cancel request that read the row before the last fill writes CANCEL_PENDING over FILLED (`order-service/app/routes.py:126`) | `CancelCommit` and the copies `previous` | `ConsumersKeepTerminal`: of the consumers only |
| a publish that raises although the broker took it: the hold is released and the order is in the book (`service.py:289`) | `OrderService`, ambiguous publish | `PlacementSound`: the hold *was* confirmed before |
| two overlapping release calls give one hold back twice, and a release that overlaps a fill frees what the fill consumed, so that cash held for another order of the buyer is free too early (`account-service/app/routes.py:183`) | `ReleaseApply`, `torn` | `HeldMatchesReservations`, `RefusedOnlyAfterRelease`: less on hold, and a later fill refused, only then and only for that buyer |
| an alert whose transaction commits after that of a newer one appears below rows already listed, and load-more may skip it (`notification-service/app/models.py:44`, `handlers.py:91`) | `InsertRows`, `CommitRows`, `late` | `ListExact`: complete and in order but for `late` alerts |
| ticks that come after a change of symbol or interval and before its candles are drawn onto the last candle of the view before (`CandleChart.tsx:19,92-101`) | not in the model: `lastCandle` is left out of `LoadAnswered` | `DrawnIsOfTheView`: of the candles that were loaded |
| two upstreams on one host would share a breaker and a bulkhead (`gateway/app/routing.py:39-41`) | `UpstreamName`: the host stands for the URL, each service having its own (`docker-compose.yml:18-24`) | `OutageContained`: the breaker of a host; not the pool and resolver that all calls share |
| `rebuild_book` rests open orders without matching them (`matching-engine/app/main.py:46`) | `Restart` | `NotCrossedBeforeRestart` |
| `order.cancelled` may be published before an earlier trade of the order (`matching-engine/app/handlers.py:163`) | `outbox` | `RefusedOnlyAfterRelease`, `NoHoldLeak`: what Account makes of it |
| requests that waited for a permit dial although the circuit has opened, and one late success closes it (`gateway/app/proxy.py:91,165`) | `Granted`, `Served` | `OutageContained`: only a failure opens it |
| a chart that found no candles never subscribes (`CandleChart.tsx:83`) | `empty` | `PricesFlow`: of charts that got candles |
| a ticket keeps its client id after a rejection, so trying again returns the rejected order (`OrderTicket.tsx:108`, `service.py:229`) | `NextKey`, `PostServed` | `BuysOnce`: no more orders than were reported |
| a ticket whose request went through unheard, edited and sent again under its client id, gets the old order back (`OrderTicket.tsx:108`, `service.py:229`) | `PostServed` answers with the row of the key | `BuysOnce`: counts orders, not what they were for |
| an older load of the wallet may be drawn after a newer one, and stays until the next deposit (`wallet/page.tsx:29`) | `WalletLoaded` takes any load | `DepositShows`: the deposit comes to be shown |
| the dashboard's "Total P&L" is the unrealized profit alone (`app/page.tsx:56`) | `DashboardDraws` draws all totals | `GainsExplained` needs both profits |
| a late 401 of an old token ends a new session (`api.ts:39`) | `calls` carry their token | `EndIsNoticed`: the tab finds out |

## 7. Plan

Done: all eight services and the parts of the frontend that keep state; proofs of every safety property of the
passing runs. What is left, in this order:

1. The mock email of the Notification Service as an effect after the commit, with what a crash does to it.
2. The distributed lock with sections that outlast its TTL, composed with `Portfolio`'s trades.
