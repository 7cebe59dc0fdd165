----------------------------- MODULE Positions -----------------------------
(***************************************************************************)
(* services/portfolio-service, the value of one user's positions: the cost *)
(* and the profit that handle_trade_executed writes beside the shares      *)
(* (which Portfolio has), and the portfolio that is computed of them and   *)
(* of the cached prices.                                                   *)
(*                                                                         *)
(* Money is counted in units of 0.0001, so to_money matters only where     *)
(* there is a division.  The engine skips orders of the same user, so a    *)
(* trade is a BUY or a SELL of this one, never both.                       *)
(***************************************************************************)
EXTENDS Integers, Sequences, FiniteSets, Functions

CONSTANTS
  Symbols,
  Histories,       \* what trades the user may come to have made, in order
  Quotes,          \* the prices trades of other users may set
  MaxQuotes        \* bound: how often they do

VARIABLES
  made,            \* the user's trades: [symbol, side, quantity, price, left]
  recorded,        \* the trades in trade_history
  holding,         \* holding[s]: [quantity, avg_cost, realized_pnl], zeros where there is no row
  last_price,      \* Redis, md:last_price:{s}, 0 where absent
  quotes,
  rounding         \* history: rounding[s]: the shares each average was taken over, added up

positionVars == <<made, recorded, holding, last_price, quotes, rounding>>

\* left is what the user's order has still to trade: 0 is told him as ORDER_FILLED.
Trade == [symbol : Symbols, side : {"BUY", "SELL"}, quantity : Nat \ {0},
          price : Nat \ {0}, left : Nat]

ASSUME HistoriesAssumption == Histories \subseteq Seq(Trade)

ASSUME SymbolsAssumption == IsFiniteSet(Symbols)

ASSUME QuotesAssumption == Quotes \subseteq Nat \ {0} /\ MaxQuotes \in Nat

-----------------------------------------------------------------------------
(* The handler *)

\* to_money(n / d): ROUND_HALF_UP.
ToMoney(n, d) == (2 * n + d) \div (2 * d)

Bought(h, t) ==
  LET quantity == h.quantity + t.quantity IN
  [quantity |-> quantity,
   avg_cost |-> ToMoney(h.quantity * h.avg_cost + t.quantity * t.price, quantity),
   realized_pnl |-> h.realized_pnl]

\* Mutant: what was paid for the sold shares is forgotten in the profit.
SoldForProceeds(h, t) ==
  [quantity |-> h.quantity - t.quantity,
   avg_cost |-> IF h.quantity = t.quantity THEN 0 ELSE h.avg_cost,
   realized_pnl |-> h.realized_pnl + t.price * t.quantity]

\* A position that is closed starts afresh.
Sold(h, t) ==
  [quantity |-> h.quantity - t.quantity,
   avg_cost |-> IF h.quantity = t.quantity THEN 0 ELSE h.avg_cost,
   realized_pnl |-> h.realized_pnl + (t.price - h.avg_cost) * t.quantity]

\* The side of this user in one trade, in whatever order the trades come.  What is sold was
\* reserved from shares that were there.
TradeHandled(i) ==
  LET t == made[i]
      h == holding[t.symbol] IN
  /\ i \notin recorded /\ recorded' = recorded \cup {i}
  /\ \/ /\ t.side = "BUY" /\ holding' = [holding EXCEPT ![t.symbol] = Bought(h, t)]
        /\ rounding' = [rounding EXCEPT ![t.symbol] =
                          @ + IF h.quantity = 0 THEN 0 ELSE h.quantity + t.quantity]
     \/ /\ t.side = "SELL" /\ t.quantity <= h.quantity
        /\ holding' = [holding EXCEPT ![t.symbol] = Sold(h, t)]
        /\ UNCHANGED rounding
  /\ UNCHANGED <<made, last_price, quotes>>

\* Market data writes the price of this user's trade, or of another's.
QuoteMoves(s, p) ==
  /\ quotes < MaxQuotes /\ quotes' = quotes + 1
  /\ last_price' = [last_price EXCEPT ![s] = p]
  /\ UNCHANGED <<made, recorded, holding, rounding>>

-----------------------------------------------------------------------------
(* _get_portfolio, of the rows h and the prices m *)

\* A symbol without a price is shown at its cost, and marked stale.
Mark(h, m) == IF m = 0 THEN h.avg_cost ELSE m
MarketValue(h, m) == Mark(h, m) * h.quantity
CostBasis(h) == h.avg_cost * h.quantity

Line(h, m) ==
  [quantity |-> h.quantity, avg_cost |-> h.avg_cost, last_price |-> Mark(h, m),
   market_value |-> MarketValue(h, m),
   unrealized_pnl |-> MarketValue(h, m) - CostBasis(h),
   realized_pnl |-> h.realized_pnl, price_stale |-> m = 0]

Total(f) == SumFunctionOnSet(f, Symbols)

Totals(h, m) ==
  [market_value |-> Total([s \in Symbols |-> MarketValue(h[s], m[s])]),
   cost_basis |-> Total([s \in Symbols |-> CostBasis(h[s])]),
   unrealized_pnl |-> Total([s \in Symbols |-> MarketValue(h[s], m[s]) - CostBasis(h[s])]),
   realized_pnl |-> Total([s \in Symbols |-> h[s].realized_pnl])]

GetPortfolio(h, m) ==
  [holdings |-> [s \in Symbols |-> Line(h[s], m[s])], totals |-> Totals(h, m)]

-----------------------------------------------------------------------------
PositionsInit ==
  /\ made \in Histories
  /\ recorded = {}
  /\ holding = [s \in Symbols |-> [quantity |-> 0, avg_cost |-> 0, realized_pnl |-> 0]]
  /\ last_price = [s \in Symbols |-> 0]
  /\ quotes = 0
  /\ rounding = [s \in Symbols |-> 0]

PositionsNext ==
  \/ \E i \in DOMAIN made : TradeHandled(i)
  \/ \E s \in Symbols, p \in Quotes : QuoteMoves(s, p)

-----------------------------------------------------------------------------
(* Properties *)

\* What the recorded trades have cost the user, less what they brought him.
Paid ==
  SumFunctionOnSet([i \in DOMAIN made |->
    IF made[i].side = "BUY" THEN made[i].quantity * made[i].price
    ELSE 0 - made[i].quantity * made[i].price], recorded)

\* The two profits of the totals explain what became of the user's money: together they are
\* what the positions are worth less what was paid for them, but for half a unit per share
\* of each average, whatever order purchases and sales are handled in and however often
\* a position is closed and opened again (events.py:80, events.py:91).
GainsExplained ==
  LET totals == Totals(holding, last_price)
      error == totals.realized_pnl + totals.unrealized_pnl - (totals.market_value - Paid)
  IN  2 * error <= Total(rounding) /\ 0 - 2 * error <= Total(rounding)
=============================================================================
