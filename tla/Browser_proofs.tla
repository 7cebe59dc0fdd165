--------------------------- MODULE Browser_proofs ---------------------------
(***************************************************************************)
(* Proofs about Browser for any tabs, forms, orders, trades and bounds:    *)
(* owners get in, the ticket buys once, and the profits explain what       *)
(* became of the money.                                                    *)
(*                                                                         *)
(* OwnersGetIn rests on NoTwins: no two rows answer to one name or email,  *)
(* for which it must be known where a row's text comes from (Registered).  *)
(* BuysOnce is not inductive:                                              *)
(* the count of orders is bounded because every order of the ticket has a  *)
(* client id of its own among those the ticket has used (KeysOnce), and    *)
(* the ticket goes on to the next one only with an order to report.        *)
(* GainsExplained speaks of sums over symbols that each step changes in    *)
(* one term: Booked is its error without the market value, which cancels   *)
(* out (the lemmas about sums are in SumTheorems).                         *)
(***************************************************************************)
EXTENDS Browser, SumTheorems, TLAPS

\* Strings.  That a literal is one is not known to the provers.
Status == STRING \cup Final \cup {"PENDING", "NEW", "CANCEL_PENDING"}

\* A row of the table users.
Account == [email : {f.email : f \in Forms}, name : DOMAIN Lower, password : STRING,
            active : BOOLEAN]

\* The table, and the sign-in on its way: what is registered was typed in a form.
Registered ==
  /\ users \in Seq(Account) /\ issued \in Seq(Nat)
  /\ \/ attempt = None
     \/ /\ attempt \in [tab : Tabs, kind : {"login", "register"}, form : Forms \cup Logins,
                        answer : {"none", "ok", "401", "403", "409"}, token : Nat]
        /\ attempt.kind = "register" => attempt.form \in Forms

\* No two rows share an email or, in any case, a name.
NoTwins ==
  \A i, j \in DOMAIN users : i # j =>
    users[i].email # users[j].email /\ Lower[users[i].name] # Lower[users[j].name]

\* An order, and the request of the ticket that asked for it.
Order == [key : Nat, size : Sizes, status : Status]
Post == [key : Nat, size : Sizes, row : Nat, heard : BOOLEAN, answer : {"none", "order", "error"}]

\* The ticket has used the client ids up to key, one for each order it reported and one
\* for the order it is at, and no id made two orders.
KeysOnce ==
  /\ reported \in Nat /\ key = reported + 1
  /\ orders \in Seq(Order)
  /\ posts \subseteq Post
  /\ \A p \in posts : p.key \in 1..key
  /\ \A i \in DOMAIN orders : orders[i].key \in 0..key
  /\ \A i, j \in DOMAIN orders : i # j /\ orders[i].key # 0 => orders[i].key # orders[j].key

-----------------------------------------------------------------------------
(* The accounts *)

LEMMA RowTyped ==
  ASSUME Registered, NEW i \in DOMAIN users
  PROVE  users[i] \in Account
  BY DEF Registered

\* An answer to the sign-in on its way.
LEMMA AnswerTyped ==
  ASSUME Registered, attempt # None,
         \/ \E i \in Nat : Issue(i)
         \/ \E status \in {"401", "403", "409"} : Refuse(status)
  PROVE  /\ issued' \in Seq(Nat)
         /\ attempt' \in [tab : Tabs, kind : {"login", "register"}, form : Forms \cup Logins,
                         answer : {"none", "ok", "401", "403", "409"}, token : Nat]
         /\ attempt'.kind = attempt.kind /\ attempt'.form = attempt.form
<1>1. CASE \E i \in Nat : Issue(i)
  <2>1. issued' \in Seq(Nat) /\ Len(issued') \in Nat
    BY <1>1 DEF Issue, Registered
  <2> QED
    BY <1>1, <2>1 DEF Issue, Registered
<1>2. CASE \E status \in {"401", "403", "409"} : Refuse(status)
  BY <1>2 DEF Refuse, Registered
<1> QED
  BY <1>1, <1>2

LEMMA RegisterServedSound ==
  ASSUME Registered, NoTwins, RegisterServed
  PROVE  Registered' /\ NoTwins'
<1> DEFINE i == Len(users) + 1
           u == RowOf(attempt.form)
<1>1. attempt # None /\ attempt.kind = "register" /\ attempt.form \in Forms
  BY DEF RegisterServed, Waiting, Registered
<1>2. u \in Account /\ i \in Nat /\ i \notin DOMAIN users
  BY <1>1, FormAssumption DEF Account, Registered, RowOf
<1>3. CASE Free(i, u) /\ users' = Append(users, u) /\ Issue(i)
  <2> HIDE DEF u
  <2>1. users' \in Seq(Account) /\ DOMAIN users' = DOMAIN users \cup {i} /\ users'[i] = u
        /\ \A j \in DOMAIN users \ {i} : users'[j] = users[j]
    BY <1>2, <1>3 DEF Registered
  <2> HIDE DEF i
  <2>2. NoTwins'
    BY <1>3, <2>1 DEF NoTwins, Free, Collides
  <2>3. Registered'
    BY <1>1, <1>2, <1>3, <2>1, AnswerTyped DEF Registered
  <2> QED
    BY <2>2, <2>3
<1>4. CASE Refuse("409") /\ UNCHANGED users
  BY <1>1, <1>4, AnswerTyped DEF Registered, NoTwins
<1> QED
  BY <1>3, <1>4 DEF RegisterServed

LEMMA LoginServedSound ==
  ASSUME Registered, NoTwins, LoginServed
  PROVE  Registered' /\ NoTwins'
<1>1. attempt # None /\ attempt.kind = "login"
  BY DEF LoginServed, Waiting
<1>2. \/ \E i \in Nat : Issue(i)
      \/ \E status \in {"401", "403", "409"} : Refuse(status)
  <2>1. DOMAIN users \subseteq Nat
    BY DEF Registered
  <2> QED
    BY <2>1 DEF LoginServed, Authenticate, Find
<1>3. NoTwins'
  BY DEF LoginServed, NoTwins
<1> QED
  BY <1>1, <1>2, <1>3, AnswerTyped DEF LoginServed, Registered

LEMMA RenameSound ==
  ASSUME Registered, NoTwins, NEW i \in DOMAIN users, NEW name \in DOMAIN Lower, Rename(i, name)
  PROVE  Registered' /\ NoTwins'
<1> DEFINE u == [users[i] EXCEPT !.name = name]
<1>1. users[i] \in Account
  BY RowTyped
<1>2. u \in Account
  BY <1>1 DEF Account
<1>3. Free(i, u) /\ users' = [users EXCEPT ![i] = u]
  BY DEF Rename
<1> HIDE DEF u
<1>4. /\ users' \in Seq(Account) /\ DOMAIN users' = DOMAIN users /\ users'[i] = u
      /\ \A j \in DOMAIN users : j # i => users'[j] = users[j]
  BY <1>2, <1>3 DEF Registered
<1>5. NoTwins'
  BY <1>3, <1>4 DEF NoTwins, Free, Collides
<1> QED
  BY <1>4, <1>5 DEF Rename, Registered, browser

\* A write to a row that leaves its email and its name alone.
LEMMA OtherColumnSound ==
  ASSUME Registered, NoTwins, NEW i \in DOMAIN users, NEW u \in Account,
         u.email = users[i].email, u.name = users[i].name,
         users' = [users EXCEPT ![i] = u], UNCHANGED <<issued, attempt>>
  PROVE  Registered' /\ NoTwins'
<1>1. users' \in Seq(Account) /\ DOMAIN users' = DOMAIN users
      /\ \A j \in DOMAIN users : users'[j].email = users[j].email /\ users'[j].name = users[j].name
  BY DEF Registered
<1> QED
  BY <1>1 DEF Registered, NoTwins

LEMMA ChangePasswordSound ==
  ASSUME Registered, NoTwins, NEW i \in DOMAIN users, NEW p \in Passwords, ChangePassword(i, p)
  PROVE  Registered' /\ NoTwins'
<1> DEFINE u == [users[i] EXCEPT !.password = p]
<1>1. users[i] \in Account /\ p \in STRING
  BY RowTyped, FormAssumption
<1>2. u \in Account /\ u.email = users[i].email /\ u.name = users[i].name
  BY <1>1 DEF Account
<1>3. users' = [users EXCEPT ![i] = u] /\ UNCHANGED <<issued, attempt>>
  BY DEF ChangePassword, browser
<1> HIDE DEF u
<1> QED
  BY <1>2, <1>3, OtherColumnSound

LEMMA DisableSound ==
  ASSUME Registered, NoTwins, NEW i \in DOMAIN users, Disable(i)
  PROVE  Registered' /\ NoTwins'
<1> DEFINE u == [users[i] EXCEPT !.active = FALSE]
<1>1. users[i] \in Account
  BY RowTyped
<1>2. u \in Account /\ u.email = users[i].email /\ u.name = users[i].name
  BY <1>1 DEF Account
<1>3. users' = [users EXCEPT ![i] = u] /\ UNCHANGED <<issued, attempt>>
  BY DEF Disable, browser
<1> HIDE DEF u
<1> QED
  BY <1>2, <1>3, OtherColumnSound

\* Every other step of the session leaves the table alone, and the sign-in as it is, new
\* or gone.
LEMMA TableUntouched ==
  ASSUME Registered, NoTwins, UNCHANGED <<users, issued>>,
         \/ attempt' \in {attempt, None}
         \/ \E b \in Tabs : SubmitLogin(b)
         \/ \E b \in Tabs : SubmitRegistration(b)
  PROVE  Registered' /\ NoTwins'
<1>1. NoTwins'
  BY DEF NoTwins
<1>2. CASE attempt' \in {attempt, None}
  BY <1>1, <1>2 DEF Registered
<1>3. CASE \E b \in Tabs : SubmitLogin(b)
  BY <1>1, <1>3 DEF Registered, Submit, SubmitLogin
<1>4. CASE \E b \in Tabs : SubmitRegistration(b)
  BY <1>1, <1>4 DEF Registered, Submit, SubmitRegistration
<1> QED
  BY <1>2, <1>3, <1>4

LEMMA SessionStepSound ==
  ASSUME Registered, NoTwins, SessionNext
  PROVE  Registered' /\ NoTwins'
<1> USE DEF accounts, browser
<1>1. CASE RegisterServed \/ LoginServed
  BY <1>1, RegisterServedSound, LoginServedSound
<1>2. CASE \E i \in DOMAIN users, name \in DOMAIN Lower : Rename(i, name)
  BY <1>2, RenameSound
<1>3. CASE \E i \in DOMAIN users : Disable(i) \/ \E p \in Passwords : ChangePassword(i, p)
  BY <1>3, DisableSound, ChangePasswordSound
<1>4. CASE \E t \in DOMAIN issued : Expire(t)
  BY <1>4, TableUntouched DEF Expire
<1>5. CASE (\E b \in Tabs : SubmitLogin(b))
           \/ (\E b \in Tabs : SubmitRegistration(b))
  <2>1. UNCHANGED <<users, issued>>
    BY <1>5 DEF Submit, SubmitLogin, SubmitRegistration
  <2> QED
    BY <1>5, <2>1, TableUntouched
<1>6. CASE SignedIn \/ SignInRefused \/ SignInFails
  <2>1. UNCHANGED <<users, issued>> /\ attempt' = None
    BY <1>6 DEF SignedIn, SignInRefused, SignInFails
  <2> QED
    BY <2>1, TableUntouched
<1>7. CASE \E b \in Tabs : Logout(b) \/ \E p \in {"login", "register", "page"} :
             LoadPage(b, p) \/ Follow(b, p)
  <2>1. UNCHANGED <<users, issued>> /\ attempt' \in {attempt, None}
    BY <1>7 DEF Logout, LoadPage, Follow, AttemptWithout
  <2> QED
    BY <2>1, TableUntouched
<1>8. CASE \E c \in calls : CallFails(c)
  <2>1. UNCHANGED <<users, issued>> /\ attempt' = attempt
    BY <1>8 DEF CallFails
  <2> QED
    BY <2>1, TableUntouched
<1> QED
  BY <1>1, <1>2, <1>3, <1>4, <1>5, <1>6, <1>7, <1>8 DEF SessionNext

\* A step that only polls, or leaves the session alone.
LEMMA PollsSound ==
  ASSUME Registered, NoTwins,
         \/ UNCHANGED sessionVars
         \/ \E b \in Tabs : Poll(b) \/ PollAnswered(b)
         \/ TokenEnds
         \/ PageUnauthorized
  PROVE  Registered' /\ NoTwins'
<1>1. UNCHANGED <<users, issued>> /\ attempt' \in {attempt, None}
  BY DEF Poll, Call, PollAnswered, CallAnswered, AttemptWithout, TokenEnds, Expire,
         PageUnauthorized, accounts, browser, sessionVars
<1> QED
  BY <1>1, TableUntouched

\* One row at most answers to a name or an email: a name is not an email.
LEMMA FoundIsOne ==
  ASSUME Registered, NoTwins, NEW who, NEW i \in Find(who), NEW j \in Find(who)
  PROVE  i = j
<1>1. users[i] \in Account /\ users[j] \in Account /\ i \in DOMAIN users /\ j \in DOMAIN users
  BY RowTyped DEF Find
<1>2. users[i].email # Lower[users[j].name] /\ users[j].email # Lower[users[i].name]
  BY <1>1, FormAssumption DEF Account
<1> QED
  BY <1>1, <1>2 DEF Find, NoTwins

\* What an answered sign-in says to the owner of account i.
GetsIn(i) ==
  /\ Waiting("login") /\ attempt' # None /\ attempt'.answer # "none"
  /\ i \in Find(attempt.form.who)
  /\ Verifies(i, attempt.form.password) /\ users[i].active
  => attempt'.answer = "ok" /\ issued' = Append(issued, i)

LEMMA LoginGetsIn ==
  ASSUME Registered, NoTwins, LoginServed, NEW i \in DOMAIN users
  PROVE  GetsIn(i)
<1> SUFFICES ASSUME i \in Find(attempt.form.who), Verifies(i, attempt.form.password),
                    users[i].active
             PROVE  attempt'.answer = "ok" /\ issued' = Append(issued, i)
  BY DEF GetsIn
<1>1. \A j \in Find(attempt.form.who) : j = i
  BY FoundIsOne
<1>2. attempt # None /\ Issue(i)
  BY <1>1 DEF LoginServed, Authenticate, Waiting
<1>3. attempt \in [tab : Tabs, kind : {"login", "register"}, form : Forms \cup Logins,
                   answer : {"none", "ok", "401", "403", "409"}, token : Nat]
  BY <1>2 DEF Registered
<1> QED
  BY <1>2, <1>3 DEF Issue

\* Every other step leaves the sign-in on its way unanswered, gives it up, or is about a
\* registration or a sign-in that was not there.
LEMMA OthersAnswerNoLogin ==
  ASSUME [Next]_vars, ~ LoginServed, NEW i \in DOMAIN users
  PROVE  GetsIn(i)
<1>1. \/ ~ Waiting("login")
      \/ attempt' \in {attempt, None}
  <2>1. CASE SessionNext
    <3>1. CASE RegisterServed
      BY <3>1 DEF RegisterServed, Waiting
    <3>2. CASE \/ \E j \in DOMAIN users, name \in DOMAIN Lower : Rename(j, name)
               \/ \E j \in DOMAIN users, p \in Passwords : ChangePassword(j, p)
               \/ \E j \in DOMAIN users : Disable(j)
               \/ \E t \in DOMAIN issued : Expire(t)
               \/ \E c \in calls : CallFails(c)
      BY <3>2 DEF Rename, ChangePassword, Disable, Expire, CallFails, browser
    <3>3. CASE (\E b \in Tabs : SubmitLogin(b)) \/ \E b \in Tabs : SubmitRegistration(b)
      BY <3>3 DEF SubmitLogin, SubmitRegistration, Submit, Waiting
    <3>4. CASE SignedIn \/ SignInRefused \/ SignInFails
      BY <3>4 DEF SignedIn, SignInRefused, SignInFails
    <3>5. CASE \/ \E b \in Tabs : Logout(b)
               \/ \E b \in Tabs, p \in {"login", "register", "page"} : LoadPage(b, p)
               \/ \E b \in Tabs, p \in {"login", "register", "page"} : Follow(b, p)
      BY <3>5 DEF Logout, LoadPage, Follow, AttemptWithout
    <3> QED
      BY <2>1, <3>1, <3>2, <3>3, <3>4, <3>5 DEF SessionNext
  <2>2. CASE UNCHANGED sessionVars \/ \E b \in Tabs : Poll(b) \/ PollAnswered(b)
    BY <2>2 DEF sessionVars, browser, Poll, Call, PollAnswered, CallAnswered, AttemptWithout
  <2>3. CASE TokenEnds \/ PageUnauthorized
    BY <2>3 DEF TokenEnds, Expire, PageUnauthorized, browser
  <2> QED
    BY <2>1, <2>2, <2>3 DEF Next, vars
<1> QED
  BY <1>1 DEF GetsIn, Waiting

\* Who types the name or the email and the password of an active account is signed in to
\* that one, whatever others registered and renamed themselves to before
\* (routes_auth.py:43-84, routes_users.py:43-51): the lookup takes the first row it finds,
\* and the unique indexes leave it one to find.
THEOREM OwnersAlwaysGetIn == Spec => OwnersGetIn
<1>1. Init => Registered /\ NoTwins
  <2> SUFFICES ASSUME Init PROVE Registered /\ NoTwins
    OBVIOUS
  <2> DEFINE u == RowOf(CHOOSE f \in Forms : TRUE)
  <2>1. u \in Account
    BY FormAssumption DEF Account, RowOf
  <2>2. attempt = None
    BY DEF Init, SessionInit
  <2>3. CASE users = <<>> /\ issued = <<>>
    BY <2>2, <2>3 DEF Registered, NoTwins
  <2>4. CASE users = <<u>> /\ issued = <<1>>
    <3> HIDE DEF u
    <3> QED
      BY <2>1, <2>2, <2>4 DEF Registered, NoTwins
  <2> QED
    BY <2>3, <2>4 DEF Init, SessionInit
<1>2. (Registered /\ NoTwins) /\ [Next]_vars => (Registered /\ NoTwins)'
  <2> SUFFICES ASSUME Registered, NoTwins, [Next]_vars PROVE Registered' /\ NoTwins'
    OBVIOUS
  <2>1. CASE SessionNext
    BY <2>1, SessionStepSound
  <2>2. CASE \/ UNCHANGED sessionVars \/ TokenEnds \/ PageUnauthorized
             \/ \E b \in Tabs : Poll(b) \/ PollAnswered(b)
    BY <2>2, PollsSound
  <2> QED
    BY <2>1, <2>2 DEF Next, vars
<1>3. (Registered /\ NoTwins) /\ [Next]_vars => [\A i \in DOMAIN users : GetsIn(i)]_sessionVars
  BY LoginGetsIn, OthersAnswerNoLogin
<1> QED
  BY <1>1, <1>2, <1>3, PTL DEF Spec, OwnersGetIn, GetsIn

-----------------------------------------------------------------------------
(* The ticket *)

\* An order that is written again keeps its client id.
LEMMA OrderWritten ==
  ASSUME orders \in Seq(Order), NEW i, NEW s \in Status,
         orders' = [orders EXCEPT ![i].status = s]
  PROVE  /\ orders' \in Seq(Order) /\ DOMAIN orders' = DOMAIN orders
         /\ \A j \in DOMAIN orders : orders'[j].key = orders[j].key
<1> DEFINE w == [orders[i] EXCEPT !.status = s]
<1>1. orders' = [orders EXCEPT ![i] = w]
  OBVIOUS
<1>2. CASE i \in DOMAIN orders
  <2>0. orders[i] \in Order
    BY <1>2
  <2>1. w \in Order /\ w.key = orders[i].key
    BY <2>0 DEF Order
  <2> HIDE DEF w
  <2> QED
    BY <1>1, <1>2, <2>1
<1>3. CASE i \notin DOMAIN orders
  <2> HIDE DEF w
  <2>1. orders' = orders
    BY <1>1, <1>3
  <2> QED
    BY <2>1
<1> QED
  BY <1>2, <1>3

\* What keeps the client ids of the orders and adds no request keeps the invariant.
LEMMA KeysKept ==
  ASSUME KeysOnce, orders' \in Seq(Order), DOMAIN orders' = DOMAIN orders,
         \A j \in DOMAIN orders : orders'[j].key = orders[j].key,
         posts' \subseteq Post, \A p \in posts' : p.key \in 1..key, UNCHANGED <<key, reported>>
  PROVE  KeysOnce'
BY DEF KeysOnce

LEMMA OrderMovesKeepsKeys ==
  ASSUME KeysOnce, NEW i \in DOMAIN orders, OrderMoves(i)
  PROVE  KeysOnce'
<1>1. PICK s \in Moves(orders[i].status) : orders' = [orders EXCEPT ![i].status = s]
  BY DEF OrderMoves
<1>2. s \in Status
  BY DEF Moves, Status, Final
<1>3. UNCHANGED <<key, reported, posts>>
  BY DEF OrderMoves, ticket
<1> QED
  BY <1>1, <1>2, <1>3, OrderWritten, KeysKept DEF KeysOnce

LEMMA SubmitOrderKeepsKeys ==
  ASSUME KeysOnce, NEW n \in Sizes, SubmitOrder(n)
  PROVE  KeysOnce'
<1> DEFINE p == [key |-> key, size |-> n, row |-> 0, heard |-> TRUE, answer |-> "none"]
<1>1. p \in Post /\ p.key \in 1..key
  BY DEF KeysOnce, Post
<1>2. posts' = posts \cup {p} /\ UNCHANGED <<orders, key, reported>>
  BY DEF SubmitOrder
<1> HIDE DEF p
<1> QED
  BY <1>1, <1>2 DEF KeysOnce

LEMMA PostServedKeepsKeys ==
  ASSUME KeysOnce, NEW p \in posts, PostServed(p)
  PROVE  KeysOnce'
<1> DEFINE same == {i \in DOMAIN orders : orders[i].key = p.key}
           o == [key |-> p.key, size |-> p.size, status |-> "PENDING"]
<1>1. /\ p \in Post /\ p.key \in 1..key /\ p.key \in Nat \ {0} /\ p.key # 0
      /\ \A i \in DOMAIN orders : i \in Nat
  BY DEF KeysOnce, Post
<1>2. UNCHANGED <<key, reported>>
  BY DEF PostServed
<1>3. CASE \E i \in same : /\ posts' = (posts \ {p}) \cup {[p EXCEPT !.row = i, !.answer = "order"]}
                           /\ UNCHANGED orders
  <2>1. PICK i \in same : posts' = (posts \ {p}) \cup {[p EXCEPT !.row = i, !.answer = "order"]}
    BY <1>3
  <2>2. [p EXCEPT !.row = i, !.answer = "order"] \in Post
        /\ [p EXCEPT !.row = i, !.answer = "order"].key = p.key
    BY <1>1 DEF Post
  <2> HIDE DEF same
  <2> QED
    BY <1>1, <1>2, <1>3, <2>1, <2>2 DEF KeysOnce
<1>4. CASE /\ same = {} /\ orders' = Append(orders, o)
           /\ posts' = (posts \ {p}) \cup {[p EXCEPT !.row = Len(orders')]}
  <2>1. o \in Order /\ o.key = p.key
    BY <1>1 DEF Order, Post, Status
  <2>2. \A i \in DOMAIN orders : orders[i].key # p.key
    BY <1>4
  <2> HIDE DEF same, o
  <2>3. /\ orders' \in Seq(Order) /\ DOMAIN orders' = DOMAIN orders \cup {Len(orders) + 1}
        /\ Len(orders') \in Nat /\ orders'[Len(orders) + 1] = o
        /\ \A j \in DOMAIN orders : orders'[j] = orders[j] /\ j # Len(orders) + 1
    BY <1>4, <2>1 DEF KeysOnce
  <2>4. [p EXCEPT !.row = Len(orders')] \in Post /\ [p EXCEPT !.row = Len(orders')].key = p.key
    BY <1>1, <2>3 DEF Post
  <2>5. posts' \subseteq Post /\ \A q \in posts' : q.key \in 1..key
    BY <1>1, <1>4, <2>4 DEF KeysOnce
  <2>6. \A i \in DOMAIN orders' : orders'[i].key \in 0..key
    BY <1>1, <2>1, <2>3 DEF KeysOnce
  <2>7. \A i, j \in DOMAIN orders' : i # j /\ orders'[i].key # 0 => orders'[i].key # orders'[j].key
    BY <1>1, <2>1, <2>2, <2>3 DEF KeysOnce
  <2> QED
    BY <1>2, <2>3, <2>5, <2>6, <2>7 DEF KeysOnce
<1> QED
  BY <1>3, <1>4 DEF PostServed

LEMMA PostDecidedKeepsKeys ==
  ASSUME KeysOnce, NEW p \in posts, PostDecided(p)
  PROVE  KeysOnce'
<1>1. p \in Post /\ p.key \in 1..key
  BY DEF KeysOnce
<1>2. UNCHANGED <<key, reported>>
  BY DEF PostDecided
<1>3. /\ posts' \subseteq Post
      /\ \A q \in posts' : q.key \in 1..key
  <2>1. \A a \in {"order", "error"} :
           [p EXCEPT !.answer = a] \in Post /\ [p EXCEPT !.answer = a].key = p.key
    BY <1>1 DEF Post
  <2>2. \E a \in {"order", "error"} : posts' = (posts \ {p}) \cup {[p EXCEPT !.answer = a]}
    BY DEF PostDecided
  <2> QED
    BY <1>1, <2>1, <2>2 DEF KeysOnce
<1>4. CASE UNCHANGED orders
  BY <1>2, <1>3, <1>4 DEF KeysOnce
<1>5. CASE orders' = [orders EXCEPT ![p.row].status = "REJECTED"]
  <2>1. "REJECTED" \in Status
    BY DEF Status, Final
  <2> QED
    BY <1>2, <1>3, <1>5, <2>1, OrderWritten, KeysKept DEF KeysOnce
<1> QED
  BY <1>4, <1>5 DEF PostDecided

LEMMA PostAnsweredKeepsKeys ==
  ASSUME KeysOnce, NEW p \in posts, PostAnswered(p)
  PROVE  KeysOnce'
BY DEF KeysOnce, PostAnswered, NextKey

LEMMA PostLostKeepsKeys ==
  ASSUME KeysOnce, NEW p \in posts, PostLost(p)
  PROVE  KeysOnce'
<1> DEFINE unheard == [p EXCEPT !.heard = FALSE]
<1>1. p \in Post /\ p.key \in 1..key
  BY DEF KeysOnce
<1>2. unheard \in Post /\ unheard.key = p.key
  BY <1>1 DEF Post
<1>3. UNCHANGED <<orders, key, reported>>
  BY <1>1 DEF PostLost, NextKey, Post
<1>4. posts' \subseteq posts \cup {unheard}
  BY DEF PostLost
<1> HIDE DEF unheard
<1> QED
  BY <1>1, <1>2, <1>3, <1>4 DEF KeysOnce

LEMMA CancelServedKeepsKeys ==
  ASSUME KeysOnce, NEW c \in cancels, CancelServed(c)
  PROVE  KeysOnce'
<1>1. UNCHANGED <<key, reported, posts>>
  BY DEF CancelServed, ticket
<1>2. CASE UNCHANGED orders
  BY <1>1, <1>2 DEF KeysOnce
<1>3. CASE orders' = [orders EXCEPT ![c.row].status = "CANCEL_PENDING"]
  <2>1. "CANCEL_PENDING" \in Status
    BY DEF Status
  <2> QED
    BY <1>1, <1>3, <2>1, OrderWritten, KeysKept DEF KeysOnce
<1> QED
  BY <1>2, <1>3 DEF CancelServed

LEMMA TradingStepKeepsKeys ==
  ASSUME KeysOnce, TradingNext
  PROVE  KeysOnce'
<1>1. CASE \E i \in DOMAIN orders : OrderMoves(i)
  BY <1>1, OrderMovesKeepsKeys
<1>2. CASE \E n \in Sizes : SubmitOrder(n)
  BY <1>2, SubmitOrderKeepsKeys
<1>3. CASE \E p \in posts : PostServed(p) \/ PostDecided(p) \/ PostAnswered(p) \/ PostLost(p)
  BY <1>3, PostServedKeepsKeys, PostDecidedKeepsKeys, PostAnsweredKeepsKeys, PostLostKeepsKeys
<1>4. CASE \E c \in cancels : CancelServed(c)
  BY <1>4, CancelServedKeepsKeys
<1>5. CASE \/ PollOrders
           \/ \E l \in BagToSet(polls) : LoadAnswered(l) \/ LoadFails(l)
           \/ \E i \in Open : Cancel(i)
           \/ \E c \in cancels : CancelAnswered(c) \/ CancelLost(c)
  <2>1. UNCHANGED <<orders, key, posts, reported>>
    BY <1>5 DEF PollOrders, LoadAnswered, LoadFails, Cancel, CancelAnswered, CancelLost, ticket
  <2> QED
    BY <2>1 DEF KeysOnce
<1> QED
  BY <1>1, <1>2, <1>3, <1>4, <1>5 DEF TradingNext

\* As many orders as client ids, at most.
LEMMA KeysBoundOrders ==
  ASSUME KeysOnce
  PROVE  BuysOnce
<1> DEFINE B == {i \in DOMAIN orders : orders[i].key # 0 /\ orders[i].status # "REJECTED"}
           f == [i \in B |-> orders[i].key]
<1>1. IsFiniteSet(1..key) /\ Cardinality(1..key) = key
  <2>1. key \in Nat /\ 1 <= key
    BY DEF KeysOnce
  <2> QED
    BY <2>1, FS_Interval
<1>2. f \in Injection(B, 1..key)
  BY DEF KeysOnce, Injection, IsInjective
<1> HIDE DEF B, f
<1>3. Cardinality(B) <= Cardinality(1..key)
  BY <1>1, <1>2, FS_Injection
<1> QED
  BY <1>1, <1>3 DEF B, BuysOnce, KeysOnce

\* No order is bought twice, whatever requests break, are tried again and go through all
\* the same (OrderTicket.tsx:37): in every behaviour of the browser, the orders that got
\* past their rejection are no more than those reported to the user and the one at hand.
THEOREM TicketBuysOnce == Spec => []BuysOnce
<1>1. Init => KeysOnce
  <2> SUFFICES ASSUME Init PROVE KeysOnce
    OBVIOUS
  <2>1. key = 1 /\ posts = {} /\ reported = 0 /\ (orders \in Rows \/ orders = <<>>)
    BY DEF Init, TradingInit
  <2>2. orders \in Seq(Order) /\ \A i \in DOMAIN orders : orders[i].key = 0
    <3> DEFINE Row == [key : {0}, size : Sizes, status : STRING]
    <3>1. Row \subseteq Order /\ \A o \in Row : o.key = 0
      BY DEF Order, Status
    <3>0. Rows \subseteq Seq(Row)
      BY RowsAssumption
    <3> HIDE DEF Row
    <3>2. orders \in Seq(Row)
      <4>1. CASE orders \in Rows
        BY <3>0, <4>1
      <4>2. CASE orders = <<>>
        BY <4>2
      <4> QED
        BY <2>1, <4>1, <4>2
    <3>3. \A i \in DOMAIN orders : orders[i] \in Row
      BY <3>2
    <3>4. orders \in Seq(Order)
      BY <3>1, <3>2, <3>3
    <3> QED
      BY <3>1, <3>3, <3>4
  <2> QED
    BY <2>1, <2>2 DEF KeysOnce
<1>2. KeysOnce /\ [Next]_vars => KeysOnce'
  <2> SUFFICES ASSUME KeysOnce, [Next]_vars PROVE KeysOnce'
    OBVIOUS
  <2>1. CASE TradingNext
    BY <2>1, TradingStepKeepsKeys
  <2>2. CASE UNCHANGED tradingVars
    BY <2>2 DEF tradingVars, KeysOnce
  <2>3. CASE LeavePages
    BY <2>3 DEF LeavePages, KeysOnce
  <2> QED
    BY <2>1, <2>2, <2>3 DEF Next, vars, Poll, PollAnswered, TokenEnds, PageUnauthorized
<1>3. KeysOnce => BuysOnce
  BY KeysBoundOrders
<1> QED
  BY <1>1, <1>2, <1>3, PTL DEF Spec
-----------------------------------------------------------------------------
(* The positions *)

\* A row of holdings.
Holding == [quantity : Nat, avg_cost : Nat, realized_pnl : Int]

Profits == [s \in Symbols |-> holding[s].realized_pnl]
Costs == [s \in Symbols |-> CostBasis(holding[s])]
Payments ==
  [i \in DOMAIN made |->
    IF made[i].side = "BUY" THEN made[i].quantity * made[i].price
    ELSE 0 - made[i].quantity * made[i].price]

\* The profits made and the cost of what is left, against what was paid.
Discrepancy == Total(Profits) - Total(Costs) + SumFunctionOnSet(Payments, recorded)

PositionsTyped ==
  /\ made \in Seq(Trade) /\ recorded \subseteq DOMAIN made
  /\ holding \in [Symbols -> Holding]
  /\ last_price \in [Symbols -> Nat]
  /\ rounding \in [Symbols -> Nat]

\* Nothing but the rounding of the averages is between them.
Booked ==
  /\ PositionsTyped
  /\ 2 * Discrepancy <= Total(rounding) /\ 0 - 2 * Discrepancy <= Total(rounding)

\* to_money is off by half a unit at most.
LEMMA ToMoneyNearest ==
  ASSUME NEW n \in Nat, NEW d \in Nat \ {0}
  PROVE  /\ ToMoney(n, d) \in Nat
         /\ 2 * (d * ToMoney(n, d)) <= 2 * n + d
         /\ 2 * n < 2 * (d * ToMoney(n, d)) + d
<1> DEFINE a == 2 * n + d
           b == 2 * d
           q == a \div b
<1>1. a \in Nat /\ b \in Nat /\ b > 0
  OBVIOUS
<1>2. q \in Nat /\ b * q <= a /\ a < b * q + b
  <2> HIDE DEF a, b
  <2> QED
    BY <1>1
<1>3. b * q = 2 * (d * q)
  <2> HIDE DEF q
  <2> QED
    BY <1>2
<1>4. ToMoney(n, d) = q
  BY DEF ToMoney
<1> HIDE DEF q
<1> QED
  BY <1>2, <1>3, <1>4

\* The average of one price is that price.
LEMMA ToMoneyExact ==
  ASSUME NEW p \in Nat, NEW d \in Nat \ {0}
  PROVE  ToMoney(d * p, d) = p
<1> DEFINE q == ToMoney(d * p, d)
<1>1. d * p \in Nat
  OBVIOUS
<1>2. q \in Nat /\ 2 * (d * q) <= 2 * (d * p) + d /\ 2 * (d * p) < 2 * (d * q) + d
  BY <1>1, ToMoneyNearest
<1> HIDE DEF q
<1>3. ASSUME q >= p + 1 PROVE FALSE
  <2>1. d * q >= d * (p + 1) /\ d * (p + 1) = d * p + d
    BY <1>2, <1>3
  <2> QED
    BY <1>1, <1>2, <2>1
<1>4. ASSUME p >= q + 1 PROVE FALSE
  <2>1. d * p >= d * (q + 1) /\ d * (q + 1) = d * q + d
    BY <1>2, <1>4
  <2> QED
    BY <1>1, <1>2, <2>1
<1> QED
  BY <1>2, <1>3, <1>4 DEF q

LEMMA PaymentTyped ==
  ASSUME made \in Seq(Trade), NEW i \in DOMAIN made
  PROVE  /\ made[i] \in Trade /\ Payments[i] \in Int
         /\ Payments[i] = IF made[i].side = "BUY" THEN made[i].quantity * made[i].price
                          ELSE 0 - made[i].quantity * made[i].price
<1>1. made[i] \in Trade
  OBVIOUS
<1>2. made[i].quantity * made[i].price \in Int
  BY <1>1 DEF Trade
<1> QED
  BY <1>1, <1>2 DEF Payments

LEMMA SumsTyped ==
  ASSUME PositionsTyped
  PROVE  /\ IsFiniteSet(recorded)
         /\ \A s \in Symbols : Profits[s] \in Int /\ Costs[s] \in Int
         /\ Total(Profits) \in Int /\ Total(Costs) \in Int /\ Total(rounding) \in Int
         /\ SumFunctionOnSet(Payments, recorded) \in Int
<1>1. IsFiniteSet(recorded)
  <2>1. recorded \subseteq 1..Len(made) /\ Len(made) \in Nat
    BY DEF PositionsTyped
  <2>2. IsFiniteSet(1..Len(made))
    BY <2>1, FS_Interval
  <2> QED
    BY <2>1, <2>2, FS_Subset
<1>2. \A s \in Symbols : holding[s] \in Holding /\ rounding[s] \in Int
  BY DEF PositionsTyped
<1>3. \A s \in Symbols : Profits[s] \in Int /\ Costs[s] \in Int
  BY <1>2 DEF Profits, Costs, CostBasis, Holding
<1>4. \A i \in recorded : Payments[i] \in Int
  BY PaymentTyped DEF PositionsTyped
<1> QED
  BY <1>1, <1>2, <1>3, <1>4, SumInt, SymbolsAssumption DEF Total

\* What it takes to book a trade: a row that accounts for its payment.
LEMMA RowBooked ==
  ASSUME Booked, NEW i \in DOMAIN made, i \notin recorded, recorded' = recorded \cup {i},
         NEW s \in Symbols, NEW row \in Holding, NEW x \in Nat,
         holding' = [holding EXCEPT ![s] = row],
         rounding' = [rounding EXCEPT ![s] = @ + x],
         UNCHANGED <<made, last_price>>,
         NEW e \in Int,
         e = (row.realized_pnl - CostBasis(row))
               - (holding[s].realized_pnl - CostBasis(holding[s])) + Payments[i],
         2 * e <= x, 0 - 2 * e <= x
  PROVE  Booked'
<1>0. PositionsTyped
  BY DEF Booked
<1>1. PositionsTyped'
  <2>1. holding' \in [Symbols -> Holding]
    BY <1>0 DEF PositionsTyped
  <2>2. rounding' \in [Symbols -> Nat]
    BY <1>0 DEF PositionsTyped
  <2> QED
    BY <1>0, <2>1, <2>2 DEF PositionsTyped
<1>2. /\ \A y \in Symbols : Profits[y] \in Int /\ Costs[y] \in Int
      /\ \A y \in Symbols : Profits'[y] \in Int /\ Costs'[y] \in Int
  <2>1. \A y \in Symbols : holding[y] \in Holding /\ holding'[y] \in Holding
    BY <1>0, <1>1 DEF PositionsTyped
  <2> QED
    BY <2>1 DEF Profits, Costs, CostBasis, Holding
<1>3. /\ Profits'[s] = row.realized_pnl /\ Profits[s] = holding[s].realized_pnl
      /\ Costs'[s] = CostBasis(row) /\ Costs[s] = CostBasis(holding[s])
      /\ \A y \in Symbols \ {s} : Profits'[y] = Profits[y] /\ Costs'[y] = Costs[y]
  <2>1. holding'[s] = row /\ \A y \in Symbols \ {s} : holding'[y] = holding[y]
    BY <1>0 DEF PositionsTyped
  <2> QED
    BY <2>1 DEF Profits, Costs, CostBasis
<1>4. Total(Profits)' = Total(Profits) + row.realized_pnl - holding[s].realized_pnl
  BY <1>2, <1>3, SumChange, SymbolsAssumption DEF Total
<1>5. Total(Costs)' = Total(Costs) + CostBasis(row) - CostBasis(holding[s])
  BY <1>2, <1>3, SumChange, SymbolsAssumption DEF Total
<1>6. Total(rounding)' = Total(rounding) + x
  <2>1. /\ \A y \in Symbols : rounding[y] \in Int /\ rounding'[y] \in Int
        /\ \A y \in Symbols \ {s} : rounding'[y] = rounding[y]
        /\ rounding'[s] = rounding[s] + x
    BY <1>0 DEF PositionsTyped
  <2>2. Total(rounding)' = Total(rounding) + rounding'[s] - rounding[s]
    <3> DEFINE f == rounding
               g == rounding'
    <3>1. /\ \A y \in Symbols : f[y] \in Int /\ g[y] \in Int
          /\ \A y \in Symbols \ {s} : g[y] = f[y]
      BY <2>1
    <3> HIDE DEF f, g
    <3>2. SumFunctionOnSet(g, Symbols) = SumFunctionOnSet(f, Symbols) + g[s] - f[s]
      BY <3>1, SumChange, SymbolsAssumption
    <3> QED
      BY <3>2 DEF f, g, Total
  <2>3. Total(rounding) \in Int
    BY <1>0, SumsTyped
  <2> QED
    BY <2>1, <2>2, <2>3
<1>7. SumFunctionOnSet(Payments, recorded)' = Payments[i] + SumFunctionOnSet(Payments, recorded)
  <2>1. Payments' = Payments
    BY DEF Payments
  <2>2. IsFiniteSet(recorded) /\ \A y \in recorded \cup {i} : Payments[y] \in Int
    BY <1>0, SumsTyped, PaymentTyped DEF PositionsTyped
  <2> QED
    BY <2>1, <2>2, SumAdd
<1>8. /\ Total(Profits) \in Int /\ Total(Costs) \in Int /\ Total(rounding) \in Int
      /\ SumFunctionOnSet(Payments, recorded) \in Int /\ Payments[i] \in Int
  BY <1>0, SumsTyped, PaymentTyped DEF PositionsTyped
<1>9. /\ row.realized_pnl \in Int /\ CostBasis(row) \in Int
      /\ holding[s].realized_pnl \in Int /\ CostBasis(holding[s]) \in Int
  <2>1. holding[s] \in Holding
    BY <1>0 DEF PositionsTyped
  <2> QED
    BY <2>1 DEF Holding, CostBasis
<1>10. Discrepancy' = Discrepancy + e /\ Discrepancy \in Int
  BY <1>4, <1>5, <1>7, <1>8, <1>9 DEF Discrepancy
<1> QED
  BY <1>1, <1>6, <1>8, <1>10 DEF Booked

\* A purchase is averaged in, and the average is off by half a unit per share.
LEMMA BoughtBooked ==
  ASSUME NEW h \in Holding, NEW t \in Trade
  PROVE  LET row == Bought(h, t)
             x == IF h.quantity = 0 THEN 0 ELSE h.quantity + t.quantity
             e == (row.realized_pnl - CostBasis(row)) - (h.realized_pnl - CostBasis(h))
                    + t.quantity * t.price
         IN  row \in Holding /\ x \in Nat /\ e \in Int /\ 2 * e <= x /\ 0 - 2 * e <= x
<1> DEFINE q == h.quantity
           n == t.quantity
           d == q + n
           cost == q * h.avg_cost
           paid == n * t.price
           a == ToMoney(cost + paid, d)
           row == Bought(h, t)
<1>1. /\ q \in Nat /\ n \in Nat \ {0} /\ h.avg_cost \in Nat /\ t.price \in Nat
      /\ h.realized_pnl \in Int /\ d \in Nat \ {0}
  BY DEF Holding, Trade
<1>2. cost \in Nat /\ paid \in Nat
  BY <1>1
<1>3. a \in Nat /\ 2 * (d * a) <= 2 * (cost + paid) + d /\ 2 * (cost + paid) < 2 * (d * a) + d
  <2> DEFINE all == cost + paid
  <2>1. all \in Nat
    BY <1>2
  <2> HIDE DEF all, d
  <2>2. /\ ToMoney(all, d) \in Nat
        /\ 2 * (d * ToMoney(all, d)) <= 2 * all + d
        /\ 2 * all < 2 * (d * ToMoney(all, d)) + d
    BY <1>1, <2>1, ToMoneyNearest
  <2> QED
    BY <2>2 DEF all
<1>4. row = [quantity |-> d, avg_cost |-> a, realized_pnl |-> h.realized_pnl]
  BY DEF Bought
<1>5. row \in Holding /\ CostBasis(row) = d * a /\ d * a \in Int
  <2> HIDE DEF d, a
  <2>1. a * d = d * a /\ d * a \in Int
    BY <1>1, <1>3
  <2> HIDE DEF row
  <2> QED
    BY <1>1, <1>3, <1>4, <2>1 DEF Holding, CostBasis
<1>6. CostBasis(h) = cost
  BY <1>1 DEF CostBasis
<1>7. q = 0 => d * a = cost + paid
  <2> SUFFICES ASSUME q = 0 PROVE d * a = cost + paid
    OBVIOUS
  <2>1. cost = 0 /\ d = n
    BY <1>1
  <2>2. ToMoney(n * t.price, n) = t.price
    BY <1>1, ToMoneyExact
  <2> QED
    BY <1>1, <1>2, <2>1, <2>2
<1>8. row.realized_pnl = h.realized_pnl
  BY <1>4
<1> DEFINE x == IF q = 0 THEN 0 ELSE d
           e == (row.realized_pnl - CostBasis(row)) - (h.realized_pnl - CostBasis(h)) + paid
<1>9. e = cost + paid - d * a
  <2> HIDE DEF row, d, a, cost, paid
  <2> QED
    BY <1>1, <1>2, <1>5, <1>6, <1>8
<1>10. x \in Nat /\ e \in Int /\ 2 * e <= x /\ 0 - 2 * e <= x
  <2> HIDE DEF row, d, a, cost, paid, e
  <2> QED
    BY <1>1, <1>2, <1>3, <1>5, <1>7, <1>9
<1> QED
  BY <1>5, <1>10

\* A sale turns its part of the cost and its profit into money, exactly.
LEMMA SoldBooked ==
  ASSUME NEW h \in Holding, NEW t \in Trade, t.quantity <= h.quantity
  PROVE  LET row == Sold(h, t)
         IN  /\ row \in Holding
             /\ (row.realized_pnl - CostBasis(row)) - (h.realized_pnl - CostBasis(h))
                  + (0 - t.quantity * t.price) = 0
<1> DEFINE q == h.quantity
           n == t.quantity
           a == h.avg_cost
           p == t.price
           row == Sold(h, t)
<1>1. /\ q \in Nat /\ n \in Nat /\ a \in Nat /\ p \in Nat /\ n <= q
      /\ h.realized_pnl \in Int
  BY DEF Holding, Trade
<1>2. (p - a) * n = n * p - a * n /\ a * (q - n) = a * q - a * n
      /\ n * p \in Int /\ a * n \in Int /\ a * q \in Int /\ (p - a) * n \in Int
  BY <1>1
<1>3. row.quantity = q - n /\ row.realized_pnl = h.realized_pnl + (p - a) * n
      /\ row.avg_cost = (IF q = n THEN 0 ELSE a)
  BY DEF Sold
<1>4. row \in Holding
  BY <1>1, <1>2 DEF Sold, Holding
<1>5. CostBasis(row) = a * q - a * n
  <2>1. CASE q = n
    <3>1. row.avg_cost = 0 /\ row.quantity = 0
      BY <1>1, <1>3, <2>1
    <3> QED
      BY <1>2, <2>1, <3>1 DEF CostBasis
  <2>2. CASE q # n
    BY <1>2, <1>3, <2>2 DEF CostBasis
  <2> QED
    BY <2>1, <2>2
<1>6. CostBasis(h) = a * q
  BY DEF CostBasis
<1> HIDE DEF row
<1> QED
  BY <1>1, <1>2, <1>3, <1>4, <1>5, <1>6 DEF row

LEMMA TradeHandledBooked ==
  ASSUME Booked, NEW i \in DOMAIN made, TradeHandled(i)
  PROVE  Booked'
<1> DEFINE t == made[i]
           s == t.symbol
           h == holding[s]
<1>1. /\ made \in Seq(Trade) /\ t \in Trade /\ s \in Symbols /\ h \in Holding
      /\ Payments[i] \in Int
      /\ Payments[i] = IF t.side = "BUY" THEN t.quantity * t.price ELSE 0 - t.quantity * t.price
  <2>1. made \in Seq(Trade)
    BY DEF Booked, PositionsTyped
  <2>2. t \in Trade /\ Payments[i] \in Int
    BY <2>1, PaymentTyped
  <2>3. s \in Symbols
    BY <2>2 DEF Trade
  <2> QED
    BY <2>1, <2>2, <2>3, PaymentTyped DEF Booked, PositionsTyped
<1>2. i \notin recorded /\ recorded' = recorded \cup {i} /\ UNCHANGED <<made, last_price>>
  BY DEF TradeHandled
<1>3. CASE /\ t.side = "BUY" /\ holding' = [holding EXCEPT ![s] = Bought(h, t)]
           /\ rounding' = [rounding EXCEPT ![s] =
                             @ + IF h.quantity = 0 THEN 0 ELSE h.quantity + t.quantity]
  <2> DEFINE row == Bought(h, t)
             x == IF h.quantity = 0 THEN 0 ELSE h.quantity + t.quantity
             e == (row.realized_pnl - CostBasis(row)) - (h.realized_pnl - CostBasis(h))
                    + Payments[i]
  <2>1. Payments[i] = t.quantity * t.price
    BY <1>1, <1>3
  <2>2. row \in Holding /\ x \in Nat /\ e \in Int /\ 2 * e <= x /\ 0 - 2 * e <= x
    BY <1>1, <2>1, BoughtBooked
  <2>3. holding' = [holding EXCEPT ![s] = row] /\ rounding' = [rounding EXCEPT ![s] = @ + x]
    BY <1>3
  <2>4. e = (row.realized_pnl - CostBasis(row))
              - (holding[s].realized_pnl - CostBasis(holding[s])) + Payments[i]
    OBVIOUS
  <2> HIDE DEF row, x, e, s
  <2> QED
    BY <1>1, <1>2, <2>2, <2>3, <2>4, RowBooked
<1>4. CASE /\ t.side = "SELL" /\ t.quantity <= h.quantity
           /\ holding' = [holding EXCEPT ![s] = Sold(h, t)]
           /\ UNCHANGED rounding
  <2> DEFINE row == Sold(h, t)
             x == 0
             e == 0
  <2>1. Payments[i] = 0 - t.quantity * t.price
    BY <1>1, <1>4
  <2>2. row \in Holding
        /\ 0 = (row.realized_pnl - CostBasis(row)) - (h.realized_pnl - CostBasis(h)) + Payments[i]
    BY <1>1, <1>4, <2>1, SoldBooked
  <2>3. holding' = [holding EXCEPT ![s] = row]
    BY <1>4
  <2>4. rounding' = [rounding EXCEPT ![s] = @ + x]
    BY <1>1, <1>4 DEF Booked, PositionsTyped
  <2>5. e = (row.realized_pnl - CostBasis(row))
              - (holding[s].realized_pnl - CostBasis(holding[s])) + Payments[i]
    BY <2>2
  <2>6. x \in Nat /\ e \in Int /\ 2 * e <= x /\ 0 - 2 * e <= x
    OBVIOUS
  <2> HIDE DEF row, x, e, s
  <2> QED
    BY <1>1, <1>2, <2>2, <2>3, <2>4, <2>5, <2>6, RowBooked
<1> QED
  BY <1>3, <1>4 DEF TradeHandled

LEMMA QuoteMovesBooked ==
  ASSUME Booked, NEW s \in Symbols, NEW p \in Quotes, QuoteMoves(s, p)
  PROVE  Booked'
<1>1. UNCHANGED <<made, recorded, holding, rounding>>
  BY DEF QuoteMoves
<1>2. last_price' \in [Symbols -> Nat]
  <2>1. p \in Nat /\ last_price \in [Symbols -> Nat] /\ last_price' = [last_price EXCEPT ![s] = p]
    BY QuotesAssumption DEF QuoteMoves, Booked, PositionsTyped
  <2> QED
    BY <2>1
<1>3. Discrepancy' = Discrepancy /\ Total(rounding)' = Total(rounding)
  BY <1>1 DEF Discrepancy, Profits, Costs, Payments, Total
<1> QED
  BY <1>1, <1>2, <1>3 DEF Booked, PositionsTyped

LEMMA PositionsKept ==
  ASSUME Booked, UNCHANGED positionVars
  PROVE  Booked'
<1>1. UNCHANGED <<made, recorded, holding, rounding, last_price>>
  BY DEF positionVars
<1>2. Discrepancy' = Discrepancy /\ Total(rounding)' = Total(rounding)
  BY <1>1 DEF Discrepancy, Profits, Costs, Payments, Total
<1> QED
  BY <1>1, <1>2 DEF Booked, PositionsTyped

\* The steps of the pages leave the positions alone.
LEMMA MoneyStepBooked ==
  ASSUME Booked, MoneyNext
  PROVE  Booked'
<1> USE DEF othersOfWallet
<1>1. CASE PositionsMove
  BY <1>1, TradeHandledBooked, QuoteMovesBooked DEF PositionsMove, PositionsNext
<1>2. CASE \/ \E i \in DOMAIN made : Alert(i)
           \/ \E k \in DOMAIN unread : MarkRead(k)
           \/ Ask \/ HoldingsRead \/ FetchFails
           \/ \E f \in BagToSet(fetches) : PricesRead(f) \/ FetchAnswered(f)
  <2>1. UNCHANGED positionVars
    BY <1>2 DEF Alert, MarkRead, Ask, HoldingsRead, FetchFails, PricesRead, FetchAnswered
  <2> QED
    BY <2>1, PositionsKept
<1>3. CASE \/ SubmitAmount \/ DepositServed \/ DepositReported \/ DepositLost
           \/ \E l \in loads : BalanceRead(l) \/ RowsRead(l) \/ WalletLoaded(l) \/ WalletFails(l)
  <2>1. UNCHANGED positionVars
    BY <1>3 DEF SubmitAmount, DepositServed, DepositReported, DepositLost, BalanceRead,
                RowsRead, WalletLoaded, WalletFails
  <2> QED
    BY <2>1, PositionsKept
<1> QED
  BY <1>1, <1>2, <1>3 DEF MoneyNext

\* Of the totals the market value cancels out, and the discrepancy is left.
LEMMA BookedExplains ==
  ASSUME Booked
  PROVE  GainsExplained
<1> DEFINE values == [s \in Symbols |-> MarketValue(holding[s], last_price[s])]
           gains == [s \in Symbols |->
                       MarketValue(holding[s], last_price[s]) - CostBasis(holding[s])]
           totals == Totals(holding, last_price)
<1>1. \A s \in Symbols : /\ values[s] \in Int /\ gains[s] \in Int /\ Costs[s] \in Int
                         /\ values[s] = gains[s] + Costs[s]
  <2> SUFFICES ASSUME NEW s \in Symbols
      PROVE  /\ values[s] \in Int /\ gains[s] \in Int /\ Costs[s] \in Int
             /\ values[s] = gains[s] + Costs[s]
    OBVIOUS
  <2>1. holding[s] \in Holding /\ last_price[s] \in Nat
    BY DEF Booked, PositionsTyped
  <2>2. Mark(holding[s], last_price[s]) \in Nat /\ holding[s].quantity \in Nat
        /\ holding[s].avg_cost \in Nat
    BY <2>1 DEF Holding, Mark
  <2>3. MarketValue(holding[s], last_price[s]) \in Int /\ CostBasis(holding[s]) \in Int
    BY <2>2 DEF MarketValue, CostBasis
  <2> QED
    BY <2>3 DEF Costs
<1> HIDE DEF values, gains
<1>2. Total(values) = Total(gains) + Total(Costs)
  BY <1>1, SumPlus, SymbolsAssumption DEF Total
<1>3. /\ Total(values) \in Int /\ Total(gains) \in Int
      /\ Total(Profits) \in Int /\ Total(Costs) \in Int /\ Total(rounding) \in Int
      /\ SumFunctionOnSet(Payments, recorded) \in Int
  BY <1>1, SumsTyped, SumInt, SymbolsAssumption DEF Total, Booked
<1>4. /\ totals.market_value = Total(values) /\ totals.unrealized_pnl = Total(gains)
      /\ totals.realized_pnl = Total(Profits)
  BY DEF Totals, values, gains, Profits
<1>5. Paid = SumFunctionOnSet(Payments, recorded)
  BY DEF Paid, Payments
<1> HIDE DEF totals
<1> DEFINE error == totals.realized_pnl + totals.unrealized_pnl - (totals.market_value - Paid)
<1>6. error = Discrepancy
  BY <1>2, <1>3, <1>4, <1>5 DEF Discrepancy
<1>7. 2 * error <= Total(rounding) /\ 0 - 2 * error <= Total(rounding)
  BY <1>6 DEF Booked
<1> QED
  BY <1>7 DEF GainsExplained, totals

\* Whatever trades are handled, in whatever order, and wherever prices go, the realized and
\* the unrealized profit that the portfolio shows add up to what the positions are worth less
\* what was paid for them, but for the rounding of the averages (events.py:80, events.py:91,
\* main.py:104): no sale, closed position or reopened one loses or invents a gain.
THEOREM GainsAreExplained == Spec => []GainsExplained
<1>1. Init => Booked
  <2> SUFFICES ASSUME Init PROVE Booked
    OBVIOUS
  <2>1. PositionsInit
    BY DEF Init, MoneyInit
  <2>2. PositionsTyped /\ recorded = {}
    BY <2>1, HistoriesAssumption DEF PositionsInit, PositionsTyped, Holding
  <2>3. \A s \in Symbols : Profits[s] = 0 /\ Costs[s] = 0 /\ rounding[s] = 0
    BY <2>1 DEF PositionsInit, Profits, Costs, CostBasis
  <2>4. Total(Profits) = 0 /\ Total(Costs) = 0 /\ Total(rounding) = 0
    BY <2>3, SumZero, SymbolsAssumption DEF Total
  <2>5. SumFunctionOnSet(Payments, recorded) = 0
    BY <2>2, SumEmpty
  <2> QED
    BY <2>2, <2>4, <2>5 DEF Booked, Discrepancy
<1>2. Booked /\ [Next]_vars => Booked'
  <2> SUFFICES ASSUME Booked, [Next]_vars PROVE Booked'
    OBVIOUS
  <2>1. CASE MoneyNext
    BY <2>1, MoneyStepBooked
  <2>2. CASE UNCHANGED moneyVars \/ LeaveMoneyPages
    BY <2>2, PositionsKept DEF moneyVars, LeaveMoneyPages
  <2> QED
    BY <2>1, <2>2 DEF Next, vars, Poll, PollAnswered, TokenEnds, PageUnauthorized
<1>3. Booked => GainsExplained
  BY BookedExplains
<1> QED
  BY <1>1, <1>2, <1>3, PTL DEF Spec
=============================================================================
