----------------------------- MODULE MoneyPages -----------------------------
(***************************************************************************)
(* The pages of the frontend that show the user his money: the portfolio   *)
(* page and the dashboard over the positions of Positions, and the wallet  *)
(* with its deposit form over the balance of the Account Service (which    *)
(* Account has; here it counts deposits).                                  *)
(*                                                                         *)
(* No page is told of a change.  The portfolio page looks among the unread *)
(* notifications for a filled order, the dashboard asks again and again,   *)
(* and the wallet asks after a deposit.                                    *)
(***************************************************************************)
EXTENDS Positions, SequencesExt, Bags

CONSTANTS
  Newest,          \* how many notifications the portfolio page asks for
  MaxFetches,      \* bound: requests for the portfolio on their way or due
  MaxNotified,     \* bound: the user's trades while he is on the portfolio page
  MaxDeposits,     \* bound: deposits the user asks for
  MaxGlitches,     \* bound: requests and answers that are lost
  NotRead          \* nothing read, or drawn, yet

VARIABLES
  view,            \* bound: the page the user is on: one of Views, or "none"
  alerted,         \* the trades of which the user has been notified
  unread,          \* those of them he has not read of, the newest first
  due,             \* the requests for the portfolio whose holdings are not read yet
  fetches,         \* bag of the others: [read, data], the rows or the whole answer
  page,            \* what the page draws of the portfolio
  failed,          \* it draws an error: instead of it or, on the dashboard, beside it
  form,            \* the deposit form: "idle", "sent" or "served", its buttons disabled
  unanswered,      \* the requests to deposit that go on though the form has given them up
  banked,          \* the deposits in the ledger
  told,            \* history: the deposits reported to the user
  loads,           \* the wallet's loads: [since, balance, rows], by what was told before
  wallet,          \* the load it draws
  tries, glitches

pageVars == <<due, fetches, page, failed>>
alertVars == <<alerted, unread>>
walletVars == <<form, unanswered, banked, told, loads, wallet, tries>>
moneyVars == <<positionVars, view, alertVars, pageVars, walletVars, glitches>>

Views == {"portfolio", "dashboard", "wallet"}

ASSUME MoneyBoundAssumption ==
  /\ Newest \in Nat \ {0} /\ MaxFetches \in Nat \ {0}
  /\ MaxNotified \in Nat /\ MaxDeposits \in Nat /\ MaxGlitches \in Nat

Glitch == glitches < MaxGlitches /\ glitches' = glitches + 1

-----------------------------------------------------------------------------
(* The portfolio page and the dashboard *)

\* The Notification Service handles a trade, before the Portfolio Service does or after.
Alert(i) ==
  /\ view = "portfolio"
  /\ i \notin alerted /\ alerted' = alerted \cup {i}
  /\ unread' = <<i>> \o unread
  /\ UNCHANGED <<positionVars, view, pageVars, walletVars, glitches>>

\* The user reads one, in the bell that stands above the page.
MarkRead(k) ==
  /\ unread' = RemoveAt(unread, k)
  /\ UNCHANGED <<positionVars, view, alerted, pageVars, walletVars, glitches>>

FillUnread == \E k \in DOMAIN unread : k <= Newest /\ made[unread[k]].left = 0

\* The portfolio page draws its error instead of the portfolio.
PortfolioDraws == IF failed THEN NotRead ELSE page

\* The dashboard draws the totals it has, and beside them whether it is catching up.
DashboardDraws == [totals |-> page, lagging |-> failed]

CanAsk == due + BagCardinality(fetches) < MaxFetches

\* Every 5 seconds the page looks for a filled order, and at one it asks a second later.
\* Every 15 seconds the dashboard asks.
Ask ==
  /\ \/ view = "portfolio" /\ FillUnread
     \/ view = "dashboard"
  /\ CanAsk /\ due' = due + 1
  /\ UNCHANGED <<positionVars, view, alertVars, fetches, page, failed, walletVars, glitches>>

\* The answer of /portfolio, or of /portfolio/pnl.
Answer(h, m) == IF view = "dashboard" THEN Totals(h, m) ELSE GetPortfolio(h, m)

Replace(old, new) == fetches' = (fetches (-) SetToBag({old})) (+) SetToBag({new})

\* The rows are read first and then the prices.  Nothing sees when the request was sent.
HoldingsRead ==
  /\ due > 0 /\ due' = due - 1
  /\ fetches' = fetches (+) SetToBag({[read |-> "rows", data |-> holding]})
  /\ UNCHANGED <<positionVars, view, alertVars, page, failed, walletVars, glitches>>

PricesRead(f) ==
  /\ f.read = "rows"
  /\ Replace(f, [read |-> "all", data |-> Answer(f.data, last_price)])
  /\ UNCHANGED <<positionVars, view, alertVars, due, page, failed, walletVars, glitches>>

\* Mutant: an error that was shown stays.
ErrorStays == UNCHANGED failed

ErrorGoes == failed' = FALSE

\* An answer is drawn, be there a later one or not.
FetchAnswered(f) ==
  /\ f.read = "all"
  /\ fetches' = fetches (-) SetToBag({f})
  /\ page' = f.data /\ ErrorGoes
  /\ UNCHANGED <<positionVars, view, alertVars, due, walletVars, glitches>>

FetchFails ==
  /\ Glitch
  /\ \/ due > 0 /\ due' = due - 1 /\ UNCHANGED fetches
     \/ \E f \in BagToSet(fetches) : fetches' = fetches (-) SetToBag({f}) /\ UNCHANGED due
  /\ failed' = TRUE
  /\ UNCHANGED <<positionVars, view, alertVars, page, walletVars>>

-----------------------------------------------------------------------------
(* The wallet *)

othersOfWallet == <<positionVars, view, alertVars, pageVars>>

\* The form's buttons are disabled while a deposit is on its way.
CanDeposit == view = "wallet" /\ form = "idle"

\* submitAmount: what the form refuses never leaves it.
SubmitAmount ==
  /\ CanDeposit /\ form' = "sent"
  /\ tries < MaxDeposits /\ tries' = tries + 1
  /\ UNCHANGED <<othersOfWallet, unanswered, banked, told, loads, wallet, glitches>>

\* deposit: the balance and its row in the ledger are one transaction.
DepositServed ==
  /\ banked' = banked + 1
  /\ \/ form = "sent" /\ form' = "served" /\ UNCHANGED unanswered
     \/ unanswered > 0 /\ unanswered' = unanswered - 1 /\ UNCHANGED form
  /\ UNCHANGED <<othersOfWallet, told, loads, wallet, tries, glitches>>

\* Mutant: the wallet is not loaded again.
NoLoad == UNCHANGED loads

Reload == loads' = loads \cup {[since |-> told', balance |-> NotRead, rows |-> NotRead]}

DepositReported ==
  /\ form = "served" /\ form' = "idle"
  /\ told' = told + 1 /\ Reload
  /\ UNCHANGED <<othersOfWallet, unanswered, banked, wallet, tries, glitches>>

\* The form shows an error, and the request may go on.
DepositLost ==
  /\ Glitch
  /\ form \in {"sent", "served"} /\ form' = "idle"
  /\ unanswered' \in {unanswered} \cup {unanswered + 1 : x \in {form} \cap {"sent"}}
  /\ UNCHANGED <<othersOfWallet, banked, told, loads, wallet, tries>>

\* load: two requests at once, for the balance and for the ledger.
BalanceRead(l) ==
  /\ l.balance = NotRead /\ loads' = (loads \ {l}) \cup {[l EXCEPT !.balance = banked]}
  /\ UNCHANGED <<othersOfWallet, form, unanswered, banked, told, wallet, tries, glitches>>

RowsRead(l) ==
  /\ l.rows = NotRead /\ loads' = (loads \ {l}) \cup {[l EXCEPT !.rows = banked]}
  /\ UNCHANGED <<othersOfWallet, form, unanswered, banked, told, wallet, tries, glitches>>

\* Both are drawn when both have come, be there a later load or not.
WalletLoaded(l) ==
  /\ l.balance # NotRead /\ l.rows # NotRead
  /\ loads' = loads \ {l} /\ wallet' = l
  /\ UNCHANGED <<othersOfWallet, form, unanswered, banked, told, tries, glitches>>

\* The wallet draws n deposits or more, in the balance and in the ledger.
WalletDraws(n) == wallet # NotRead /\ wallet.balance >= n /\ wallet.rows >= n

WalletFails(l) ==
  /\ Glitch
  /\ loads' = loads \ {l}
  /\ UNCHANGED <<othersOfWallet, form, unanswered, banked, told, wallet, tries>>

-----------------------------------------------------------------------------
\* A page asks for what it shows when it is opened.
MoneyInit ==
  /\ view \in Views \cup {"none"}
  /\ PositionsInit
  /\ view \in {"wallet", "none"} => made = <<>>
  /\ view = "portfolio" => Len(made) <= MaxNotified
  /\ alerted = {} /\ unread = <<>>
  /\ due = IF view \in {"portfolio", "dashboard"} THEN 1 ELSE 0
  /\ fetches = EmptyBag /\ page = NotRead /\ failed = FALSE
  /\ form = "idle" /\ unanswered = 0 /\ banked = 0 /\ told = 0
  /\ loads = IF view = "wallet" THEN {[since |-> 0, balance |-> NotRead, rows |-> NotRead]}
             ELSE {}
  /\ wallet = NotRead /\ tries = 0 /\ glitches = 0

\* The browser leaves the pages.  What was on its way has reached the service or never does.
LeaveMoneyPages ==
  /\ view' = "none"
  /\ due' = 0 /\ fetches' = EmptyBag /\ page' = NotRead /\ failed' = FALSE
  /\ form' = "idle" /\ unanswered' = 0 /\ loads' = {} /\ wallet' = NotRead
  /\ UNCHANGED <<positionVars, alertVars, banked, told, tries, glitches>>

\* The wallet shows no positions.
PositionsMove ==
  /\ view # "wallet" /\ PositionsNext
  /\ UNCHANGED <<view, alertVars, pageVars, walletVars, glitches>>

MoneyNext ==
  \/ PositionsMove
  \/ \E i \in DOMAIN made : Alert(i)
  \/ \E k \in DOMAIN unread : MarkRead(k)
  \/ Ask
  \/ HoldingsRead
  \/ \E f \in BagToSet(fetches) : PricesRead(f)
  \/ \E f \in BagToSet(fetches) : FetchAnswered(f)
  \/ FetchFails
  \/ SubmitAmount
  \/ DepositServed
  \/ DepositReported
  \/ DepositLost
  \/ \E l \in loads : BalanceRead(l)
  \/ \E l \in loads : RowsRead(l)
  \/ \E l \in loads : WalletLoaded(l)
  \/ \E l \in loads : WalletFails(l)

-----------------------------------------------------------------------------
(* Properties *)

CaughtUp ==
  IF view = "dashboard"
  THEN DashboardDraws = [totals |-> Totals(holding, last_price), lagging |-> FALSE]
  ELSE PortfolioDraws = GetPortfolio(holding, last_price)

\* A dashboard, and a portfolio page as long as a filled order is among the newest unread
\* notifications, end at the present portfolio and without an error, although the
\* notification may come long before the trade is booked, the rows are read before the
\* prices, answers overtake each other and some fail (portfolio/page.tsx:34, "Poll for
\* notifications to catch fills", and app/page.tsx:11).
PortfolioCatchesUp ==
  <>[](view = "dashboard") \/ <>[](view = "portfolio" /\ FillUnread)
    => <>[]CaughtUp

\* A deposit that was reported comes to be shown, in the balance and in the ledger, unless
\* requests are lost or the user leaves, although the page may still be loading for the
\* first time and the two numbers are read one after the other (wallet/page.tsx:71).  It
\* need not stay: an earlier load may be drawn after it (wallet/page.tsx:29).
DepositShows ==
  \A n \in 1..MaxDeposits :
    <>(told >= n) => <>(WalletDraws(n) \/ glitches > 0 \/ view # "wallet")

\* Each page of money comes to show what became of it.
PagesCatchUp == PortfolioCatchesUp /\ DepositShows
=============================================================================
