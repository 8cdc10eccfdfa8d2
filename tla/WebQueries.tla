----------------------------- MODULE WebQueries ------------------------------
(***************************************************************************)
(* The web client's cache of answers.  All pages share one QueryClient; a  *)
(* page that mounts a query is shown the cached answer and has it fetched  *)
(* again if it is invalidated or stale.  A request that changes something  *)
(* invalidates keys when its answer comes, in whatever page the user is by *)
(* then, and a socket event writes into cached answers.                    *)
(*                                                                         *)
(* Entries of the cache do not depend on each other: a behaviour follows   *)
(* one.  What it shows is numbered by the changes the server has made to   *)
(* it.                                                                     *)
(***************************************************************************)
EXTENDS WebPages

CONSTANTS
  Buttons,    \* bound: requests under way at a time
  MaxVersion  \* bound: changes of what is shown

\* A fetch under way: what the server has read for it, and whether it is a retry.
Fetches == [read : 0..MaxVersion \cup {None}, again : BOOLEAN]

ASSUME WebAssumption ==
  MaxVersion \in Nat /\ None \notin (0..MaxVersion) \cup Fetches

VARIABLES
  query,   \* the query followed and what may happen to it, or None
  mounted, \* a page shows it
  entry,   \* the cached answer
  stored,  \* the version at the server
  pressed, \* the requests under way that change something
  due      \* the version the user has been promised

webVars == <<query, mounted, entry, stored, pressed, due>>

-----------------------------------------------------------------------------
\* A key names those that begin with it.
Names(names, q) ==
  \E k \in names : Len(k) <= Len(q.key) /\ \A i \in 1..Len(k) : k[i] = q.key[i]
Shows(p, q)     == \E r \in p.queries : r.key = q.key

\* The test mail stores its outcome with the integration, but the page
\* does not ask for the integrations again.
EmailTest == Change(api_testEmailIntegration, {})

\* A change as it concerns one query: whether it changes what is shown,
\* whether it invalidates it, and whether it is made where it is shown.
Concerns(p, c, q) ==
  [changes |-> c.changes \cap q.shows # {}, names |-> Names(c.names, q),
   own |-> Shows(p, q), promised |-> c # EmailTest]

Followed(q) ==
  [filtered |-> q.key[Len(q.key)] = "filters",
   polls    |-> q.polls,
   clicks   |-> {r \in UNION {{Concerns(p, c, q) : c \in p.changes} : p \in WebPages} :
                   r.changes \/ r.names},
   events   |-> {r \in UNION {{[writes |-> Names(s.writes, q), names |-> Names(s.names, q),
                                own |-> Shows(p, q)] : s \in p.sockets} : p \in WebPages} :
                   r.writes \/ r.names}]

NoFetch  == None
NewFetch == [read |-> None, again |-> FALSE]
NoEntry  == [data |-> None, invalid |-> FALSE, fresh |-> FALSE, fetch |-> NoFetch]

WebInit ==
  /\ query = None
  /\ mounted = FALSE
  /\ entry = NoEntry
  /\ stored = 0 /\ due = 0
  /\ pressed = [b \in Buttons |-> None]

FollowQuery(p, q) ==
  /\ query = None
  /\ query' = Followed(q)
  /\ UNCHANGED <<mounted, entry, stored, pressed, due>>

-----------------------------------------------------------------------------
(* Fetching                                                                *)

Following == query # None /\ UNCHANGED query

Fetching(e) == IF e.fetch = NoFetch THEN [e EXCEPT !.fetch = NewFetch] ELSE e

NeedsFetch(e) == e.data = None \/ e.invalid \/ ~e.fresh

\* A page shows the query: a fetch under way serves it too.
Mount ==
  /\ Following /\ ~mounted
  /\ mounted' = TRUE
  /\ entry' = IF NeedsFetch(entry) THEN Fetching(entry) ELSE entry
  /\ UNCHANGED <<stored, pressed, due>>

\* The page is left or shows another filter; a fetch under way goes on.
Unmount ==
  /\ Following /\ mounted
  /\ mounted' = FALSE
  /\ UNCHANGED <<entry, stored, pressed, due>>

\* refetchInterval, or the network is back.
Refetch ==
  /\ Following /\ mounted /\ (query.polls \/ NeedsFetch(entry))
  /\ entry' = Fetching(entry)
  /\ UNCHANGED <<mounted, stored, pressed, due>>

ServerReads ==
  /\ Following /\ entry.fetch # NoFetch /\ entry.fetch.read = None
  /\ entry' = [entry EXCEPT !.fetch.read = stored]
  /\ UNCHANGED <<mounted, stored, pressed, due>>

AnswerFetch ==
  /\ Following /\ entry.fetch # NoFetch /\ entry.fetch.read # None
  /\ entry' = [data |-> entry.fetch.read, invalid |-> FALSE, fresh |-> TRUE, fetch |-> NoFetch]
  /\ UNCHANGED <<mounted, stored, pressed, due>>

\* retry: 1, unless no page shows the query any more.  An entry whose fetch
\* failed is invalid.
FetchFails ==
  /\ Following /\ entry.fetch # NoFetch
  /\ entry' = IF mounted /\ ~entry.fetch.again
                THEN [entry EXCEPT !.fetch = [read |-> None, again |-> TRUE]]
                ELSE [entry EXCEPT !.fetch = NoFetch, !.invalid = TRUE]
  /\ UNCHANGED <<mounted, stored, pressed, due>>

\* staleTime: 30_000
Ages ==
  /\ Following /\ entry.data # None /\ entry.fresh
  /\ entry' = [entry EXCEPT !.fresh = FALSE]
  /\ UNCHANGED <<mounted, stored, pressed, due>>

\* An entry no page shows is dropped after five minutes.
Collect ==
  /\ Following /\ ~mounted /\ entry.fetch = NoFetch /\ ~entry.fresh
  /\ entry' = NoEntry
  /\ UNCHANGED <<mounted, stored, pressed, due>>

\* The browser loads the application anew.
Reload ==
  /\ Following
  /\ mounted' = FALSE
  /\ entry' = NoEntry
  /\ pressed' = [b \in Buttons |-> None]
  /\ UNCHANGED <<stored, due>>

-----------------------------------------------------------------------------
(* Changing                                                                *)

\* A page is open on which a change or an event happens.
Open(r) == IF r.own THEN mounted \/ query.filtered ELSE ~mounted

Click(b, r) ==
  /\ Following /\ pressed[b] = None
  /\ Open(r)
  /\ pressed' = [pressed EXCEPT ![b] = [of |-> r, version |-> None]]
  /\ UNCHANGED <<mounted, entry, stored, due>>

ServerChanges(b) ==
  /\ Following /\ pressed[b] # None /\ pressed[b].version = None
  /\ pressed[b].of.changes => stored < MaxVersion
  /\ stored' = IF pressed[b].of.changes THEN stored + 1 ELSE stored
  /\ pressed' = [pressed EXCEPT ![b].version = stored']
  /\ UNCHANGED <<mounted, entry, due>>

\* invalidateQueries: an entry that is shown is fetched anew, and a fetch under
\* way is given up for it, but not the first one.
Cancels(e)    == mounted /\ e.data # None
Invalidate(e) == [e EXCEPT !.invalid = TRUE,
                           !.fetch = IF Cancels(e) \/ (mounted /\ @ = NoFetch) THEN NewFetch ELSE @]

\* A fetch that outlives an answer has been read before the change.
Overtaken(version) ==
  /\ ~Cancels(entry) /\ entry.fetch # NoFetch
  /\ entry.fetch.read # None /\ entry.fetch.read < version

\* onSuccess, and what follows the await of a handler.
AnswerRequest(b) ==
  /\ Following /\ pressed[b] # None /\ pressed[b].version # None
  /\ LET r == pressed[b].of
         v == pressed[b].version
     IN /\ entry' = IF r.names THEN Invalidate(entry) ELSE entry
        /\ due' = IF /\ r.changes /\ r.promised /\ (r.own \/ r.names)
                     /\ v > due /\ ~Overtaken(v)
                    THEN v ELSE due
  /\ pressed' = [pressed EXCEPT ![b] = None]
  /\ UNCHANGED <<mounted, stored>>

\* The request or its answer is lost: nothing is invalidated.
RequestFails(b) ==
  /\ Following /\ pressed[b] # None
  /\ pressed' = [pressed EXCEPT ![b] = None]
  /\ UNCHANGED <<mounted, entry, stored, due>>

\* A socket event: setQueriesData makes every entry with data valid and fresh,
\* whatever else it holds.
Event(r) ==
  /\ Following /\ Open(r)
  /\ LET written == r.writes /\ entry.data # None
         e == IF written THEN [entry EXCEPT !.invalid = FALSE, !.fresh = TRUE] ELSE entry
     IN /\ entry' = IF r.names THEN Invalidate(e) ELSE e
        /\ due' = IF written /\ entry.invalid /\ entry.fetch = NoFetch /\ entry.data < due
                    THEN entry.data ELSE due
  /\ UNCHANGED <<mounted, stored, pressed>>

WebNext ==
  \/ \E p \in WebPages : \E q \in p.queries : FollowQuery(p, q)
  \/ Mount \/ Unmount \/ Refetch \/ ServerReads \/ AnswerFetch \/ FetchFails
  \/ Ages \/ Collect \/ Reload
  \/ query # None /\ \E b \in Buttons, r \in query.clicks : Click(b, r)
  \/ \E b \in Buttons : ServerChanges(b) \/ AnswerRequest(b) \/ RequestFails(b)
  \/ query # None /\ \E r \in query.events : Event(r)

-----------------------------------------------------------------------------
WebTypeOK ==
  /\ mounted \in BOOLEAN
  /\ entry.data \in 0..MaxVersion \cup {None}
  /\ {entry.invalid, entry.fresh} \subseteq BOOLEAN
  /\ entry.fetch # NoFetch =>
       entry.fetch \in Fetches /\ entry.fetch.read \in 0..stored \cup {None}
  /\ stored \in 0..MaxVersion /\ due \in 0..stored
  /\ \A b \in Buttons : pressed[b] # None => pressed[b].version \in 0..stored \cup {None}

\* What a page shows, neither loading nor failed, has every change whose
\* answer came that was made on a page showing it or that names its key;
\* but for one that overtook a fetch which could not be given up, for entries
\* a socket event declared valid while they waited to be fetched, and for the
\* test mail.
PagesShowTheirChanges ==
  mounted /\ entry.fetch = NoFetch /\ ~entry.invalid
    => entry.data # None /\ entry.data >= due
=============================================================================
