------------------------------ MODULE Browser ------------------------------
(***************************************************************************)
(* One browser at work: its session (Session) and, once somebody is signed *)
(* in, the pages on which orders are placed and followed (TradingPages) or *)
(* the user sees his money (MoneyPages).  What joins them is api(): a 401  *)
(* to a call of these pages ends the session and takes the tab away from   *)
(* them.                                                                   *)
(***************************************************************************)
EXTENDS Session, TradingPages, MoneyPages

CONSTANTS
  Trader           \* the tab in which these pages are opened

vars == <<sessionVars, tradingVars, moneyVars>>

\* Trader is on one of the pages, with the first token.
Working == place # "none" \/ view # "none"

\* Either nobody is signed in and the session is what moves, or Trader has opened one of
\* the pages, and only the end of the token is of interest.
Init ==
  /\ TradingInit /\ MoneyInit
  /\ place = "none" \/ view = "none"
  /\ \/ ~ Working /\ SessionInit
     \/ /\ Working
        /\ users = <<RowOf(CHOOSE f \in Forms : TRUE)>>
        /\ issued = <<1>> /\ expired = {}
        /\ store = [token |-> 1, user |-> 1]
        /\ shown = [b \in Tabs |-> IF b = Trader THEN 1 ELSE 0]
        /\ at = [b \in Tabs |-> IF b = Trader THEN "page" ELSE "login"]
        /\ attempt = None /\ calls = {}
        /\ visits = MaxVisits /\ lapses = 0

\* The pages go on until the token ends and one of their calls is answered 401.
TokenEnds ==
  /\ Working
  /\ \E t \in DOMAIN issued : Expire(t)
  /\ UNCHANGED <<tradingVars, moneyVars>>

Calling ==
  \/ submitting \/ polls # EmptyBag \/ cancels # {}
  \/ view \in {"portfolio", "dashboard"} \/ form # "idle" \/ loads # {}

PageUnauthorized ==
  /\ Working /\ ~ Valid(store.token)
  /\ Calling
  /\ Unauthorized(Trader)
  /\ calls' = calls \ CallsOf(Trader)
  /\ LeavePages /\ LeaveMoneyPages
  /\ UNCHANGED <<accounts, attempt, visits, lapses>>

\* The calls of the navigation bar and the bell stand above every page.  Above those of
\* money only the calls that find the session over are of interest.
Poll(b) ==
  /\ Call(b) /\ (view # "none" => ~ Valid(store.token))
  /\ UNCHANGED <<tradingVars, moneyVars>>

PollAnswered(b) ==
  \E c \in calls :
    /\ c[1] = b /\ CallAnswered(c)
    /\ \/ Working /\ ~ Valid(c[2]) /\ LeavePages /\ LeaveMoneyPages
       \/ (~ Working \/ Valid(c[2])) /\ UNCHANGED <<tradingVars, moneyVars>>

\* Once the token has ended, nothing but that is of interest of the pages of money.
MoneyGoesOn == view # "none" /\ Valid(store.token)

Next ==
  \/ ~ Working /\ SessionNext /\ UNCHANGED <<tradingVars, moneyVars>>
  \/ TradingNext /\ UNCHANGED <<sessionVars, moneyVars>>
  \/ MoneyGoesOn /\ MoneyNext /\ UNCHANGED <<sessionVars, tradingVars>>
  \/ \E b \in Tabs : Poll(b)
  \/ \E b \in Tabs : PollAnswered(b)
  \/ TokenEnds
  \/ PageUnauthorized

Spec == Init /\ [][Next]_vars

Trading(A) == A /\ UNCHANGED <<sessionVars, moneyVars>>
Money(A) == MoneyGoesOn /\ A /\ UNCHANGED <<sessionVars, tradingVars>>

\* The timers of a tab run, and what it calls is answered.
Fairness ==
  /\ \A b \in Tabs : WF_vars(Poll(b)) /\ WF_vars(PollAnswered(b))
  /\ WF_vars(Trading(PollOrders))
  /\ WF_vars(Trading(\E l \in BagToSet(polls) : LoadAnswered(l)))
  /\ WF_vars(Money(Ask))
  /\ WF_vars(Money(HoldingsRead))
  /\ WF_vars(Money(\E f \in BagToSet(fetches) : PricesRead(f)))
  /\ WF_vars(Money(\E f \in BagToSet(fetches) : FetchAnswered(f)))
  /\ WF_vars(Money(\E l \in loads : BalanceRead(l)))
  /\ WF_vars(Money(\E l \in loads : RowsRead(l)))
  /\ WF_vars(Money(\E l \in loads : WalletLoaded(l)))

FairSpec == Spec /\ Fairness
=============================================================================
