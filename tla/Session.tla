------------------------------ MODULE Session ------------------------------
(***************************************************************************)
(* services/user-service and the tabs of one browser: the accounts and the *)
(* tokens issued for them, the session the browser keeps in localStorage,  *)
(* which its tabs share, the user each tab shows, and api(), through which *)
(* all calls go and which ends the session at a 401.                       *)
(*                                                                         *)
(* A token is the number under which it was issued and names its owner.    *)
(* The service answers in one transaction.  Another client of the same     *)
(* user makes the changes that no page offers.                             *)
(***************************************************************************)
EXTENDS Integers, SequencesExt

CONSTANTS
  Tabs,
  Forms,           \* [email, name, password]: what is typed to register
  Logins,          \* [who, password]: who is an email or a name in lower case
  Lower,           \* lower(): the names that collide have the same image
  Passwords,
  MaxTokens,       \* bound: tokens issued
  MaxVisits,       \* bound: what users do: sign in and out, load a page, go to another
  MaxLapses,       \* bound: tokens that expire, accounts disabled, calls that fail
  None

VARIABLES
  users,           \* the table users: [email, name, password, active]
  issued,          \* issued[t]: the owner of token t
  expired,
  store,           \* localStorage: [token, user], 0 where absent
  shown,           \* shown[b]: the user of AuthProvider in tab b, 0 for none
  at,              \* at[b]: "login", "register", or "page" for the protected pages
  attempt,         \* the sign-in or registration on its way, or None; one at a time
  calls,           \* the other calls on their way: <<tab, token>>, 0 for no token
  visits, lapses

accounts == <<users, issued, expired>>
browser == <<store, shown, at, attempt, calls>>
sessionVars == <<accounts, browser, visits, lapses>>

ASSUME SessionBoundAssumption ==
  MaxTokens \in Nat /\ MaxVisits \in Nat /\ MaxLapses \in Nat

ASSUME FormAssumption ==
  /\ Forms # {} /\ Forms \subseteq [email : STRING, name : DOMAIN Lower, password : STRING]
  /\ DOMAIN Lower \subseteq STRING /\ Passwords \subseteq STRING
  \* An email has an @, a name has not (USERNAME_RE).
  /\ \A f \in Forms, n \in DOMAIN Lower : f.email # Lower[n]

Visit == visits < MaxVisits /\ visits' = visits + 1 /\ UNCHANGED lapses
Lapse == lapses < MaxLapses /\ lapses' = lapses + 1 /\ UNCHANGED visits
Uncounted == UNCHANGED <<visits, lapses>>

NoSession == [token |-> 0, user |-> 0]

-----------------------------------------------------------------------------
(* The service *)

\* Mutant: names are compared as they are written.
CollidesAsWritten(u, v) == u.email = v.email \/ u.name = v.name

\* The unique column email and the unique index on lower(username).
Collides(u, v) == u.email = v.email \/ Lower[u.name] = Lower[v.name]

\* No other row stands in the way of row i as it is to be written.
Free(i, u) == \A j \in DOMAIN users \ {i} : ~ Collides(users[j], u)

Find(who) == {i \in DOMAIN users : who \in {users[i].email, Lower[users[i].name]}}

\* verify_password, of passwords within the 72 bytes that bcrypt looks at: a longer one is
\* refused when it is set and cut off when it is typed.
Verifies(i, password) == users[i].password = password

\* The row that a form makes.
RowOf(f) == [email |-> f.email, name |-> f.name, password |-> f.password, active |-> TRUE]

\* A request for a token ends with the token or with the status of its refusal.
Refuse(status) == attempt' = [attempt EXCEPT !.answer = status] /\ UNCHANGED issued
Issue(i) ==
  /\ Len(issued) < MaxTokens /\ issued' = Append(issued, i)
  /\ attempt' = [attempt EXCEPT !.answer = "ok", !.token = Len(issued')]
Waiting(kind) == attempt # None /\ attempt.kind = kind /\ attempt.answer = "none"

RegisterServed ==
  LET i == Len(users) + 1
      u == RowOf(attempt.form) IN
  /\ Waiting("register")
  /\ \/ Free(i, u) /\ users' = Append(users, u) /\ Issue(i)
     \/ ~ Free(i, u) /\ Refuse("409") /\ UNCHANGED users
  /\ Uncounted /\ UNCHANGED <<expired, store, shown, at, calls>>

\* _authenticate takes the first row that it finds, in no order, and checks that one.
Authenticate(f) ==
  \/ Find(f.who) = {} /\ Refuse("401")
  \/ \E i \in Find(f.who) :
       \/ ~ Verifies(i, f.password) /\ Refuse("401")
       \/ Verifies(i, f.password) /\ ~ users[i].active /\ Refuse("403")
       \/ Verifies(i, f.password) /\ users[i].active /\ Issue(i)

LoginServed ==
  /\ Waiting("login")
  /\ Authenticate(attempt.form)
  /\ Uncounted /\ UNCHANGED <<users, expired, store, shown, at, calls>>

\* update_me: the index decides, as for a registration.
Rename(i, name) ==
  LET u == [users[i] EXCEPT !.name = name] IN
  /\ Visit
  /\ users[i].active /\ Free(i, u)
  /\ users' = [users EXCEPT ![i] = u]
  /\ UNCHANGED <<issued, expired, browser>>

\* change_password, with the right current one.  The tokens issued before stay good.
ChangePassword(i, password) ==
  /\ Visit
  /\ users[i].active /\ ~ Verifies(i, password)
  /\ users' = [users EXCEPT ![i].password = password]
  /\ UNCHANGED <<issued, expired, browser>>

\* is_active is cleared by hand, in the table.
Disable(i) ==
  /\ Lapse
  /\ users[i].active
  /\ users' = [users EXCEPT ![i].active = FALSE]
  /\ UNCHANGED <<issued, expired, browser>>

Expire(t) ==
  /\ Lapse
  /\ t \notin expired /\ expired' = expired \cup {t}
  /\ UNCHANGED <<users, issued, browser>>

-----------------------------------------------------------------------------
(* The browser *)

\* A form is filled in and sent off: its button is disabled while the answer is awaited.
Submit(b, kind, f) ==
  /\ Visit
  /\ attempt = None /\ at[b] = kind
  /\ attempt' = [tab |-> b, kind |-> kind, form |-> f, answer |-> "none", token |-> 0]
  /\ UNCHANGED <<accounts, store, shown, at, calls>>

SubmitLogin(b) == \E f \in Logins : Submit(b, "login", f)
SubmitRegistration(b) == \E f \in Forms : Submit(b, "register", f)

\* login, register and persist.
SignedIn ==
  /\ attempt # None /\ attempt.answer = "ok"
  /\ LET t == attempt.token
         b == attempt.tab IN
     /\ store' = [token |-> t, user |-> issued[t]]
     /\ shown' = [shown EXCEPT ![b] = issued[t]]
     /\ at' = [at EXCEPT ![b] = "page"]
  /\ attempt' = None
  /\ Uncounted /\ UNCHANGED <<accounts, calls>>

\* A tab that loads a page drops all it was at.
CallsOf(b) == {c \in calls : c[1] = b}
AttemptWithout(b) == IF attempt # None /\ attempt.tab = b THEN None ELSE attempt

\* Mutant: the 401 clears the store, and the tab stays where it is.
UnauthorizedStays(b) ==
  /\ store' = NoSession
  /\ UNCHANGED <<shown, at>>

\* api() in tab b, at a 401: the store is cleared, and unless the tab is on /login it
\* loads that page.
Unauthorized(b) ==
  /\ store' = NoSession
  /\ at' = [at EXCEPT ![b] = "login"]
  /\ shown' = IF at[b] = "login" THEN shown ELSE [shown EXCEPT ![b] = 0]

\* A wrong password is a 401 like any other, also for a session that was there before.
SignInRefused ==
  /\ attempt # None /\ attempt.answer \in {"401", "403", "409"}
  /\ attempt' = None
  /\ LET b == attempt.tab IN
     \/ /\ attempt.answer = "401" /\ Unauthorized(b)
        /\ calls' = IF at[b] = "login" THEN calls ELSE calls \ CallsOf(b)
     \/ attempt.answer # "401" /\ UNCHANGED <<store, shown, at, calls>>
  /\ Uncounted /\ UNCHANGED accounts

SignInFails ==
  /\ Lapse
  /\ attempt # None /\ attempt' = None
  /\ UNCHANGED <<accounts, store, shown, at, calls>>

\* The navigation bar: it names the user and lets him sign out.
Greets(b) == shown[b] # 0

\* logout: no page is loaded, the tab's calls stay on their way.
Logout(b) ==
  /\ Visit
  /\ Greets(b)
  /\ store' = NoSession
  /\ shown' = [shown EXCEPT ![b] = 0] /\ at' = [at EXCEPT ![b] = "login"]
  /\ UNCHANGED <<accounts, attempt, calls>>

\* Protected: a tab without a user is sent to /login.
Shows(p, user) == IF p = "page" /\ user = 0 THEN "login" ELSE p

\* AuthProvider reads the store when a page is loaded.
LoadPage(b, p) ==
  LET user == IF store.token = 0 THEN 0 ELSE store.user IN
  /\ Visit
  /\ shown' = [shown EXCEPT ![b] = user]
  /\ at' = [at EXCEPT ![b] = Shows(p, user)]
  /\ attempt' = AttemptWithout(b) /\ calls' = calls \ CallsOf(b)
  /\ UNCHANGED <<accounts, store>>

\* A link to another page keeps the tab's state, and a sign-in goes on under it.
Follow(b, p) ==
  /\ Visit
  /\ at[b] # Shows(p, shown[b])
  /\ at' = [at EXCEPT ![b] = Shows(p, shown[b])]
  /\ UNCHANGED <<accounts, store, shown, attempt, calls>>

\* The navigation bar and the bell poll while a user is shown.
Call(b) ==
  /\ Greets(b)
  /\ <<b, store.token>> \notin calls /\ calls' = calls \cup {<<b, store.token>>}
  /\ Uncounted /\ UNCHANGED <<accounts, store, shown, at, attempt>>

\* decode_token, at the gateway and behind it: it does not ask for the account.
Valid(t) == t # 0 /\ t \notin expired

CallAnswered(c) ==
  /\ \/ Valid(c[2]) /\ calls' = calls \ {c} /\ UNCHANGED <<store, shown, at, attempt>>
     \/ /\ ~ Valid(c[2]) /\ Unauthorized(c[1])
        /\ \/ at[c[1]] = "login" /\ calls' = calls \ {c} /\ UNCHANGED attempt
           \/ /\ at[c[1]] # "login" /\ calls' = calls \ CallsOf(c[1])
              /\ attempt' = AttemptWithout(c[1])
  /\ Uncounted /\ UNCHANGED accounts

CallFails(c) ==
  /\ Lapse
  /\ calls' = calls \ {c}
  /\ UNCHANGED <<accounts, store, shown, at, attempt>>

SessionInit ==
  /\ users = <<>> /\ issued = <<>> /\ expired = {}
  /\ store = NoSession
  /\ shown = [b \in Tabs |-> 0] /\ at = [b \in Tabs |-> "login"]
  /\ attempt = None /\ calls = {}
  /\ visits = 0 /\ lapses = 0

\* All but Call and CallAnswered, which go on under every page.
SessionNext ==
  \/ RegisterServed
  \/ LoginServed
  \/ \E i \in DOMAIN users, name \in DOMAIN Lower : Rename(i, name)
  \/ \E i \in DOMAIN users, p \in Passwords : ChangePassword(i, p)
  \/ \E i \in DOMAIN users : Disable(i)
  \/ \E t \in DOMAIN issued : Expire(t)
  \/ \E b \in Tabs : SubmitLogin(b)
  \/ \E b \in Tabs : SubmitRegistration(b)
  \/ SignedIn
  \/ SignInRefused
  \/ SignInFails
  \/ \E b \in Tabs : Logout(b)
  \/ \E b \in Tabs, p \in {"login", "register", "page"} : LoadPage(b, p)
  \/ \E b \in Tabs, p \in {"login", "register", "page"} : Follow(b, p)
  \/ \E c \in calls : CallFails(c)

-----------------------------------------------------------------------------
(* Properties *)

\* Nobody is kept out of his account, or let into another, by what others register or by
\* what they rename themselves to: a sign-in takes the first row that goes by the name or
\* the email (routes_auth.py:43-49), and yet who types the name and the password of an
\* active account gets a token, and it is that account's.
OwnersGetIn ==
  [][\A i \in DOMAIN users :
       /\ Waiting("login") /\ attempt' # None /\ attempt'.answer # "none"
       /\ i \in Find(attempt.form.who)
       /\ Verifies(i, attempt.form.password) /\ users[i].active
       => attempt'.answer = "ok" /\ issued' = Append(issued, i)]_sessionVars

\* No tab shows a user on after the session is over, be it that its token expired or that
\* the other tab signed out or mistyped a password: it finds out by its own calls and goes
\* to /login, unless somebody signs in again.
EndIsNoticed ==
  \A b \in Tabs :
    Greets(b) /\ ~ Valid(store.token)
      ~> ~ Greets(b) \/ at[b] = "login" \/ Valid(store.token)
=============================================================================
