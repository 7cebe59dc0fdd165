--------------------------- MODULE Notifications ---------------------------
(***************************************************************************)
(* services/notification-service and the two places of the frontend that   *)
(* show its alerts to one user: the bell in the navbar, which polls the    *)
(* number of unread alerts, and the notifications page, which loads them   *)
(* page by page.                                                           *)
(*                                                                         *)
(* The consumers are those of EventDelivery: their effect is one           *)
(* transaction per event, and the transactions of two queues overlap.  A   *)
(* request travels, is served, and its answer is applied; the user keeps   *)
(* clicking meanwhile, and answers overtake each other.                    *)
(***************************************************************************)
EXTENDS FaultBudget, Ordering, BagsExt, FiniteSetsExt, SequencesExt

CONSTANTS
  Events,          \* the events the service consumes
  EventOf,         \* the payload of an event
  Me,              \* the user whose browser it is
  NoUser,          \* an id _as_uuid cannot read
  PageSize,        \* PAGE_SIZE
  BellSize,        \* the length of the bell's list
  MaxClicks,       \* bound: what the user does
  MaxPolls,        \* bound: polls in flight at once
  MaxLoads,        \* bound: list requests of the page in flight at once
  NoAnswer             \* no answer yet

VARIABLES
  place,           \* bound: the user works in the bell or on the page
  table,           \* the table notifications, in the order of created_at
  inserted,         \* the events whose rows are inserted, in a transaction perhaps still open
  processed,       \* processed_events: the events whose transaction has committed
  late,            \* history: my alerts that committed after one created later
  count, items,    \* the bell: badge and list
  open, listing,   \* the bell is open; the answer to its list request, or NoAnswer
  polls,           \* bag of the polls' answers on their way
  alerts, unreadOnly, hasMore,   \* the page: its list and its filter
  spinner,         \* the page shows the spinner in place of the list
  loads,           \* the page's list requests: [more, only, base, got]
  posts,           \* mark-as-read requests: [ids, reload, served], ids = {} for all
  source,          \* history: the filter of all requests rows came from, or "mixed"
  clicks

server == <<table, inserted, processed, late>>
bell == <<count, items, open, listing, polls>>
page == <<alerts, unreadOnly, hasMore, spinner, loads, source>>
alertVars == <<place, server, bell, page, posts, clicks, faults>>

ASSUME BoundAssumption ==
  /\ PageSize \in Nat \ {0} /\ BellSize \in Nat \ {0}
  /\ MaxClicks \in Nat /\ MaxPolls \in Nat \ {0} /\ MaxLoads \in Nat \ {0}
ASSUME EventAssumption ==
  \A e \in Events :
    EventOf[e].type \in {"trade.executed", "order.cancelled", "order.rejected"}

Load(only) == [more |-> FALSE, only |-> only, base |-> <<>>, from |-> "none", got |-> NoAnswer]

AlertsInit ==
  /\ place \in {"bell", "page"}
  /\ table = <<>> /\ inserted = {} /\ processed = {} /\ late = {}
  /\ count = 0 /\ items = <<>> /\ open = FALSE /\ listing = NoAnswer /\ polls = EmptyBag
  /\ alerts = <<>> /\ unreadOnly = FALSE /\ hasMore = FALSE
  /\ spinner = (place = "page")
  /\ loads = IF place = "page" THEN {Load(FALSE)} ELSE {}
  /\ source = "none"
  /\ posts = {} /\ clicks = 0 /\ faults = 0

Click == clicks < MaxClicks /\ clicks' = clicks + 1

-----------------------------------------------------------------------------
\* What a filter keeps of s: its elements at the positions in I.
Filtered(s, I) == LET at == InOrder(I) IN [i \in 1..Cardinality(I) |-> s[at[i]]]

-----------------------------------------------------------------------------
(* The service *)

\* The builders: an alert for each side of a trade and one for an order's end, unless
\* nothing was left to cancel.  Title and text are left out; a row whose user id is
\* unusable is dropped.
UsersOf(p) ==
  LET users ==
    CASE p.type = "trade.executed" -> <<p.buyer, p.seller>>
      [] p.type = "order.cancelled" ->
           IF p.reason = "IOC_REMAINDER" /\ p.quantity = 0 THEN <<>> ELSE <<p.user>>
      [] p.type = "order.rejected" -> <<p.user>>
  IN Filtered(users, {i \in DOMAIN users : users[i] # NoUser})

RowsOf(e) ==
  LET users == UsersOf(EventOf[e])
  IN [i \in DOMAIN users |-> [event |-> e, user |-> users[i], is_read |-> FALSE]]

\* _handle in two steps: three consumers overlap, so a transaction may insert its rows,
\* with their created_at, and commit after one that inserted later.  One that is rolled
\* back - a crash, or the primary key of processed_events refuses a second delivery -
\* shows nobody a row, and is left out.
InsertRows(e) ==
  /\ e \notin inserted /\ inserted' = inserted \cup {e}
  /\ table' = table \o RowsOf(e)
  /\ UNCHANGED <<place, processed, late, bell, page, posts, clicks, faults>>

\* My alerts, as a query sees them: the rows of committed transactions.
Mine == {i \in DOMAIN table : table[i].event \in processed /\ table[i].user = Me}

\* The commit of _handle.
CommitRows(e) ==
  /\ e \in inserted \ processed /\ processed' = processed \cup {e}
  /\ late' = late \cup {i \in DOMAIN table :
       table[i].event = e /\ table[i].user = Me /\ \E m \in Mine : i < m}
  /\ UNCHANGED <<place, table, inserted, bell, page, posts, clicks, faults>>

Unread == {i \in Mine : ~ table[i].is_read}

\* list_notifications: newest first.
ListNotifications(only, limit, offset) ==
  LET ids == Reverse(InOrder(IF only THEN Unread ELSE Mine))
  IN [i \in 1..Min({limit, Len(ids) - offset}) |->
        [id |-> ids[offset + i], is_read |-> table[ids[offset + i]].is_read]]

\* mark_read and mark_all_read, of the caller's rows only.
Marked(ids) == IF ids = {} THEN Unread ELSE ids \cap Mine

\* Bound: of equal requests on their way there is one.
Post(ids, reload) ==
  posts' = posts \cup {[ids |-> ids, reload |-> reload, served |-> FALSE]}

\* Only the answer to one that loads again is of any consequence.
PostServed(p) ==
  /\ p \in posts /\ ~ p.served
  /\ posts' = (posts \ {p}) \cup (IF p.reload THEN {[p EXCEPT !.served = TRUE]} ELSE {})
  /\ table' = [i \in DOMAIN table |->
       IF i \in Marked(p.ids) THEN [table[i] EXCEPT !.is_read = TRUE] ELSE table[i]]
  /\ UNCHANGED <<place, inserted, processed, late, bell, page, clicks, faults>>

\* The page's mark-all in the unread view, as it was at the click, loads again.
PostAnswered(p) ==
  /\ p \in posts /\ p.served /\ posts' = posts \ {p}
  /\ Cardinality(loads) < MaxLoads
  /\ loads' = loads \cup {Load(TRUE)} /\ spinner' = TRUE
  /\ UNCHANGED <<place, server, bell, alerts, unreadOnly, hasMore, source, clicks, faults>>

\* The request or its answer is lost.  The error is swallowed, the optimistic mark stays.
PostFails(p) ==
  /\ Fault
  /\ p \in posts /\ posts' = posts \ {p}
  /\ UNCHANGED <<place, server, bell, page, clicks>>

AsRead(s, ids) == [i \in DOMAIN s |-> IF s[i].id \in ids THEN [s[i] EXCEPT !.is_read = TRUE]
                                      ELSE s[i]]
Ids(s) == {s[i].id : i \in DOMAIN s}
UnreadIn(s) == {x \in ToSet(s) : ~ x.is_read}

-----------------------------------------------------------------------------
(* The bell *)

\* Every POLL_MS, whether the answers before have come or not.
Poll ==
  /\ place = "bell" /\ BagCardinality(polls) < MaxPolls
  /\ polls' = BagAdd(polls, Cardinality(Unread))
  /\ UNCHANGED <<place, server, count, items, open, listing, page, posts, clicks, faults>>

\* Mutant: a poll may only raise the badge.
PollOnlyRaises(n) ==
  /\ BagIn(n, polls) /\ polls' = BagRemove(polls, n)
  /\ count' = Max({count, n})
  /\ UNCHANGED <<place, server, items, open, listing, page, posts, clicks, faults>>

PollAnswered(n) ==
  /\ BagIn(n, polls) /\ polls' = BagRemove(polls, n)
  /\ count' = n
  /\ UNCHANGED <<place, server, items, open, listing, page, posts, clicks, faults>>

PollFails(n) ==
  /\ Fault
  /\ BagIn(n, polls) /\ polls' = BagRemove(polls, n)
  /\ UNCHANGED <<place, server, count, items, open, listing, page, posts, clicks>>

\* toggle: opening asks for the list, which the server reads before it is shown.  Bound:
\* one list request of the bell at a time.
Toggle ==
  /\ Click
  /\ place = "bell" /\ listing = NoAnswer /\ open' = ~ open
  /\ listing' = IF open THEN NoAnswer ELSE ListNotifications(FALSE, BellSize, 0)
  /\ UNCHANGED <<place, server, count, items, polls, page, posts, faults>>

Listed ==
  /\ listing # NoAnswer /\ items' = listing /\ listing' = NoAnswer
  /\ UNCHANGED <<place, server, count, open, polls, page, posts, clicks, faults>>

ListFails ==
  /\ Fault
  /\ listing # NoAnswer /\ listing' = NoAnswer
  /\ UNCHANGED <<place, server, count, items, open, polls, page, posts, clicks>>

\* The bell's list stands behind its spinner; a click on a read alert does nothing.
InBell == IF open /\ listing = NoAnswer THEN UnreadIn(items) ELSE {}

BellMarkOne(x) ==
  /\ Click
  /\ x \in InBell
  /\ items' = AsRead(items, {x.id}) /\ count' = Max({0, count - 1})
  /\ Post({x.id}, FALSE)
  /\ UNCHANGED <<place, server, open, listing, polls, page, faults>>

BellMarkAll ==
  /\ Click
  /\ open /\ count > 0
  /\ items' = AsRead(items, Ids(items)) /\ count' = 0
  /\ Post({}, FALSE)
  /\ UNCHANGED <<place, server, open, listing, polls, page, faults>>

-----------------------------------------------------------------------------
(* The page *)

\* The filter changes, and the effect loads again.  Nothing stops a load before.
Filter ==
  /\ Click
  /\ place = "page" /\ Cardinality(loads) < MaxLoads
  /\ unreadOnly' = ~ unreadOnly
  /\ loads' = loads \cup {Load(unreadOnly')} /\ spinner' = TRUE
  /\ UNCHANGED <<place, server, bell, alerts, hasMore, source, posts, faults>>

\* The button is not there while the page loads and disabled while more is on its way.
CanLoadMore == hasMore /\ ~ spinner /\ \A r \in loads : ~ r.more

\* loadMore: the offset and the rows to append to are those of the click.
LoadMore ==
  /\ Click
  /\ Cardinality(loads) < MaxLoads
  /\ CanLoadMore
  /\ loads' = loads \cup
       {[more |-> TRUE, only |-> unreadOnly, base |-> alerts, from |-> source, got |-> NoAnswer]}
  /\ UNCHANGED <<place, server, bell, alerts, unreadOnly, hasMore, spinner, source, posts, faults>>

Offset(r) == Len(r.base)

PageServed(r) ==
  /\ r \in loads /\ r.got = NoAnswer
  /\ loads' = (loads \ {r}) \cup
       {[r EXCEPT !.got = ListNotifications(r.only, PageSize, Offset(r))]}
  /\ UNCHANGED <<place, server, bell, alerts, unreadOnly, hasMore, spinner, source, posts, clicks,
                 faults>>

\* Mutant: the rows are appended as they come.
AppendedAll(r) == r.base \o r.got

\* De-duplicate by id: new alerts shift the offset.
Appended(r) == r.base \o Filtered(r.got, {i \in DOMAIN r.got : r.got[i].id \notin Ids(r.base)})

SourceOf(r) ==
  LET filter == IF r.only THEN "unread" ELSE "all"
  IN IF r.more /\ r.from # filter THEN "mixed" ELSE filter

PageAnswered(r) ==
  /\ r \in loads /\ r.got # NoAnswer /\ loads' = loads \ {r}
  /\ alerts' = Appended(r)
  /\ hasMore' = (Len(r.got) = PageSize)
  /\ spinner' = (spinner /\ r.more)
  /\ source' = SourceOf(r)
  /\ UNCHANGED <<place, server, bell, unreadOnly, posts, clicks, faults>>

PageFails(r) ==
  /\ Fault
  /\ r \in loads /\ loads' = loads \ {r}
  /\ hasMore' = (hasMore /\ ~ r.more)
  /\ spinner' = (spinner /\ r.more)
  /\ UNCHANGED <<place, server, bell, alerts, unreadOnly, source, posts, clicks>>

\* The spinner takes the place of the list.
OnPage == IF spinner THEN {} ELSE UnreadIn(alerts)

PageMarkOne(x) ==
  /\ Click
  /\ x \in OnPage
  /\ alerts' = AsRead(alerts, {x.id})
  /\ Post({x.id}, FALSE)
  /\ UNCHANGED <<place, server, bell, unreadOnly, hasMore, spinner, loads, source, faults>>

PageMarkAll ==
  /\ Click
  /\ UnreadIn(alerts) # {}
  /\ alerts' = AsRead(alerts, Ids(alerts))
  /\ Post({}, unreadOnly)
  /\ UNCHANGED <<place, server, bell, unreadOnly, hasMore, spinner, loads, source, faults>>

-----------------------------------------------------------------------------
AlertsNext ==
  \/ \E e \in Events : InsertRows(e)
  \/ \E e \in Events : CommitRows(e)
  \/ \E p \in posts : PostServed(p)
  \/ \E p \in posts : PostAnswered(p)
  \/ \E p \in posts : PostFails(p)
  \/ Poll
  \/ \E n \in BagToSet(polls) : PollAnswered(n)
  \/ \E n \in BagToSet(polls) : PollFails(n)
  \/ Toggle
  \/ Listed
  \/ ListFails
  \/ \E x \in InBell : BellMarkOne(x)
  \/ BellMarkAll
  \/ Filter
  \/ LoadMore
  \/ \E r \in loads : PageServed(r)
  \/ \E r \in loads : PageAnswered(r)
  \/ \E r \in loads : PageFails(r)
  \/ \E x \in OnPage : PageMarkOne(x)
  \/ PageMarkAll

\* The interval keeps polling and a poll is answered; nothing else has to happen.
AlertsSpec ==
  /\ AlertsInit /\ [][AlertsNext]_alertVars
  /\ WF_alertVars(Poll) /\ WF_alertVars(\E n \in BagToSet(polls) : PollAnswered(n))

-----------------------------------------------------------------------------
(* Properties *)

\* "Optimistic; the next poll corrects the badge" (NotificationBell.tsx:92): whatever the
\* user clicked, in a stale list too, whatever request failed or came late, and although
\* polls overtake each other, the badge ends at the number of unread alerts and stays.
BadgeConverges == place = "bell" => <>[](count = Cardinality(Unread))

\* The list is exact.  No alert is listed twice, although alerts that arrive between two
\* requests shift the offset and several list requests may be on their way.  And
\* "load more" skips nothing and keeps the order: in a list put together from answers for
\* the filter `all` alone the alerts stand newest first, and none between the oldest listed
\* and the first is left out.  Two things it cannot promise.  An alert that committed after
\* one created later (`late`) shows up below rows that are listed already: it may be
\* missing, or stand out of order.  And when more alerts than one page have come above the
\* first row, the offset points above that row.
ListExact ==
  /\ Cardinality(Ids(alerts)) = Len(alerts)
  /\ source = "all" /\ alerts # <<>> /\ Cardinality({m \in Mine : m > alerts[1].id}) <= PageSize
       => /\ \A i, j \in DOMAIN alerts :
               i < j /\ alerts[i].id \notin late /\ alerts[j].id \notin late
                 => alerts[j].id < alerts[i].id
          /\ \A i \in DOMAIN alerts, m \in Mine \ late :
               alerts[i].id < m /\ m < alerts[1].id => m \in Ids(alerts)
=============================================================================
