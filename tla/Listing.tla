------------------------------- MODULE Listing -------------------------------
(***************************************************************************)
(* Reading a list page by page while it changes.  A list function sorts    *)
(* the documents its filter selects, skips the pages before and returns    *)
(* one page with the number of all of them.  The page and the number come  *)
(* from two queries which are on their way at the same time; nothing ties  *)
(* them, or one answer to the next, to one state of the collection, and    *)
(* the sort has no second key.                                             *)
(*                                                                         *)
(* The documents are numbered in the order they come into the list.        *)
(***************************************************************************)
EXTENDS ApiValues

CONSTANTS
  Limit,      \* documents of a page
  MaxShelf,   \* bound: documents ever in the list
  MaxEquals,  \* bound: of them, documents with equal keys
  MaxChanges  \* bound: changes of the list while it is read

ASSUME ListingAssumption ==
  /\ Limit \in Nat \ {0} /\ MaxShelf \in Nat /\ MaxShelf >= 3
  /\ MaxEquals \in Nat /\ MaxChanges \in Nat

VARIABLES
  view,    \* how the list behaves that is read, or None
  equals,  \* the documents that have their sort key in common with another one
  shelf,   \* the documents its filter selects, in the order of its sort
  shelved, \* documents so far
  churn,   \* changes so far
  walk     \* the reader

listVars == <<view, equals, shelf, shelved, churn, walk>>

-----------------------------------------------------------------------------
(* Sort keys: several documents may have one, and a changed one moves its  *)
(* document.  An instant is taken by the process that inserts the          *)
(* document, in milliseconds: overlapping inserts may come with the same   *)
(* one or out of order.                                                    *)

Key(ties, changes) == [ties |-> ties, changes |-> changes]

createdAt  == Key(TRUE, FALSE)
timestamp  == Key(TRUE, FALSE)     \* the metrics of a heartbeat have one
occurredAt == Key(TRUE, FALSE)     \* the instant an activity is recorded for
runAt      == Key(TRUE, FALSE)
updatedAt  == Key(TRUE, TRUE)
unique     == Key(FALSE, TRUE)     \* a name or an address
shared     == Key(TRUE, TRUE)      \* a status, a date, a name given twice

(* The list functions: their keys, and whether documents leave: because    *)
(* they are removed or because a filter is on something that changes.      *)

Pages(keys, leave) == {[key |-> k, leave |-> leave, paged |-> TRUE] : k \in keys}
Whole(keys, leave) == {[key |-> k, leave |-> leave, paged |-> FALSE] : k \in keys}

clients_list       == Pages({createdAt, shared}, TRUE)
contacts_list      == Pages({createdAt, shared}, TRUE)
contracts_list     == Pages({createdAt, shared}, TRUE)
devices_list       == Pages({createdAt, shared}, TRUE)
deviceGroups_list  == Whole({shared}, TRUE)
scripts_list       == Pages({createdAt}, TRUE)
executions_list    == Pages({createdAt}, TRUE)
listScheduledJobs  == Pages({runAt}, FALSE)
automations_list   == Pages({createdAt}, TRUE)
automations_listLogs == Pages({createdAt}, TRUE)
listRules          == Pages({createdAt}, TRUE)
listAlerts         == Pages({createdAt, shared}, TRUE)
tickets_list       == Pages({createdAt, shared}, TRUE)
listForPortalUser  == Pages({createdAt}, TRUE)
listComments       == Whole({createdAt}, FALSE)
listCommentsForPortal == Whole({createdAt}, FALSE)
sla_list           == Pages({shared}, TRUE)
listInvoices       == Pages({createdAt, shared}, TRUE)
listSubscriptions  == Pages({createdAt}, TRUE)
listPatches        == Pages({createdAt}, TRUE)
listPolicies       == Whole({unique}, TRUE)
articles_list      == Pages({updatedAt, shared}, TRUE)
sessions_list      == Pages({createdAt}, TRUE)
integrations_list  == Whole({unique}, TRUE)
apiKeys_list       == Whole({createdAt}, FALSE)
settings_list      == Whole({unique}, FALSE)
permissions_list   == Whole({unique}, FALSE)
findByTenant       == Whole({shared}, FALSE)
listByTenant       == Whole({unique}, FALSE)
listForUser        == Pages({createdAt}, TRUE)
audit_listLogs     == Pages({createdAt}, FALSE)
listDeviceMetrics  == Pages({timestamp}, FALSE)
getDeviceActivity  == Pages({occurredAt}, FALSE)

Lists == UNION
  {clients_list, contacts_list, contracts_list, devices_list, deviceGroups_list, scripts_list,
   executions_list, listScheduledJobs, automations_list, automations_listLogs, listRules,
   listAlerts, tickets_list, listForPortalUser, listComments, listCommentsForPortal, sla_list,
   listInvoices, listSubscriptions, listPatches, listPolicies, articles_list, sessions_list,
   integrations_list, apiKeys_list, settings_list, permissions_list, findByTenant,
   listByTenant, listForUser, audit_listLogs, listDeviceMetrics, getDeviceActivity}

-----------------------------------------------------------------------------
Shelved == {shelf[i] : i \in DOMAIN shelf}

ListingInit ==
  /\ view = None /\ equals = {}
  /\ shelf = <<1, 2, 3>>
  /\ shelved = 3 /\ churn = 0
  /\ walk = [page |-> 1, items |-> None, total |-> None, over |-> FALSE,
             seen |-> {}, there |-> {}, excused |-> {}]

\* A reader opens a list of three documents; some of all that will be in it
\* may have equal keys.
OpenList(v) ==
  /\ view = None
  /\ view' = v
  /\ equals' \in {e \in SUBSET (1..MaxShelf) : e # {} => v.key.ties /\ Cardinality(e) <= MaxEquals}
  /\ walk' = [walk EXCEPT !.there = Shelved, !.excused = equals']
  /\ UNCHANGED <<shelf, shelved, churn>>

\* Mutant of SkipOf: pages counted from zero.
SkipOf_Zero(page) == page * Limit

SkipOf(page) == (page - 1) * Limit

Most(a, b) == IF a > b THEN a ELSE b

\* Math.max(1, Math.ceil(total / limit))
TotalPages(total) == Most(1, (total + Limit - 1) \div Limit)

\* Equal keys leave the order to the query; the others keep their places.  All
\* documents with equal keys are taken to have the same one, which gives more
\* orders than a query has.
Orders ==
  LET tied == {i \in DOMAIN shelf : shelf[i] \in equals}
  IN {[i \in DOMAIN shelf |-> shelf[IF i \in tied THEN p[i] ELSE i]] :
        p \in {p \in [tied -> tied] : \A i, j \in tied : p[i] = p[j] => i = j}}

Reading == view # None /\ ~walk.over

\* find().sort().skip().limit(), or all of them.
ReadItems ==
  /\ Reading /\ walk.items = None
  /\ \E s \in Orders :
       LET first == IF view.paged THEN SkipOf(walk.page) + 1 ELSE 1
           last  == IF view.paged THEN SkipOf(walk.page) + Limit ELSE Len(s)
       IN walk' = [walk EXCEPT !.items = {s[i] : i \in {i \in DOMAIN s : first <= i /\ i <= last}}]
  /\ UNCHANGED <<view, equals, shelf, shelved, churn>>

\* countDocuments()
ReadTotal ==
  /\ Reading /\ walk.total = None
  /\ walk' = [walk EXCEPT !.total = Len(shelf)]
  /\ UNCHANGED <<view, equals, shelf, shelved, churn>>

\* Both have come: the reader asks for the next page as long as there is one.
Answer ==
  /\ Reading /\ walk.items # None /\ walk.total # None
  /\ walk' = [walk EXCEPT !.seen = @ \cup walk.items, !.items = None, !.total = None,
                          !.page = @ + 1,
                          !.over = ~view.paged \/ walk.page >= TotalPages(walk.total)]
  /\ UNCHANGED <<view, equals, shelf, shelved, churn>>

-----------------------------------------------------------------------------
(* The list changes.                                                       *)

InsertAt(s, i, d) == [j \in 1..Len(s) + 1 |-> IF j < i THEN s[j] ELSE IF j = i THEN d ELSE s[j - 1]]
DeleteAt(s, i)    == [j \in 1..Len(s) - 1 |-> IF j < i THEN s[j] ELSE s[j + 1]]

Torn == walk.items # None \/ walk.total # None

Changing == Reading /\ churn < MaxChanges /\ churn' = churn + 1

From(i) == {shelf[j] : j \in {j \in DOMAIN shelf : j >= i}}

\* A document is created, or an old one comes to match the filter: a ticket is
\* reopened or assigned, an alert acknowledged, a patch approved.  Its key puts
\* it anywhere, in a list by createdAt as well.
Add(i) ==
  /\ Changing /\ shelved < MaxShelf
  /\ shelf' = InsertAt(shelf, i, shelved + 1)
  /\ shelved' = shelved + 1
  /\ walk' = [walk EXCEPT !.excused = @ \cup (IF Torn THEN From(i) ELSE {})]
  /\ UNCHANGED <<view, equals>>

\* A document is removed or ceases to match.
Leave(i) ==
  /\ Changing /\ view.leave
  /\ shelf' = DeleteAt(shelf, i)
  /\ walk' = [walk EXCEPT !.there = @ \ {shelf[i]}, !.excused = @ \cup From(i)]
  /\ UNCHANGED <<view, equals, shelved>>

\* An update gives a document another place.
Move(i, k) ==
  /\ Changing /\ view.key.changes /\ i # k
  /\ shelf' = InsertAt(DeleteAt(shelf, i), k, shelf[i])
  /\ walk' = [walk EXCEPT !.excused = @ \cup {shelf[i]}
                                        \cup (IF k > i \/ Torn THEN From(IF k < i THEN k ELSE i) ELSE {})]
  /\ UNCHANGED <<view, equals, shelved>>

ListingNext ==
  \/ \E v \in Lists : OpenList(v)
  \/ ReadItems \/ ReadTotal \/ Answer
  \/ \E i \in 1..Len(shelf) + 1 : Add(i)
  \/ \E i \in DOMAIN shelf : Leave(i) \/ \E k \in DOMAIN shelf : Move(i, k)

-----------------------------------------------------------------------------
ListingTypeOK ==
  /\ view \in Lists \cup {None} /\ equals \subseteq 1..MaxShelf
  /\ shelf \in UNION {[1..n -> 1..MaxShelf] : n \in 0..MaxShelf}
  /\ Cardinality(Shelved) = Len(shelf) /\ shelved \in 3..MaxShelf /\ churn \in 0..MaxChanges
  /\ walk.seen \subseteq 1..MaxShelf /\ walk.there \subseteq Shelved

\* A walk over all the pages shows every document that was in the list all
\* along, whatever comes into the list before or behind the reader, but those
\* behind which one ahead of them left, those that moved themselves, those
\* behind a change between the two queries of one answer, and those that have
\* their key in common with another.
WalkMissesNothing == walk.over => walk.there \subseteq walk.seen \cup walk.excused
=============================================================================
