-------------------------------- MODULE Seeds --------------------------------
(***************************************************************************)
(* The demo tenant: SeedService.run, which is run by hand, may stop        *)
(* anywhere and is run again.  A step is one operation on the database;    *)
(* steps differ in what they do about the documents of an earlier run:     *)
(* some look for them first, some replace them, some add to them, and some *)
(* skip the rest of their part if there are any.                           *)
(*                                                                         *)
(* A loop over many documents is represented by one round, or by two where *)
(* stopping between rounds leaves something of its own behind.             *)
(***************************************************************************)
EXTENDS ApiValues

CONSTANTS
  MaxRuns,  \* bound: runs
  MaxStops, \* bound: runs that stop before their end
  MaxKinds  \* bound: kinds of which the tenant's users create documents

ASSUME SeedsAssumption == MaxRuns \in Nat /\ MaxStops \in Nat /\ MaxKinds \in Nat

VARIABLES
  docs,    \* the documents of the demo tenant that the seed knows of
  step,    \* what the run does next: a position in run, or 0
  found,   \* what the step's query has found, or None
  payer,   \* the client of the contract that is billed, 0 for one of the users' own
           \* clients, or None: no contract with a client
  runs,    \* runs begun
  ending,  \* how the last run ended
  stops,   \* history: runs that did not come to their end
  theirs   \* kinds of which the tenant's users have created documents of their own

seedVars == <<docs, step, found, payer, runs, ending, stops, theirs>>

-----------------------------------------------------------------------------
(* Steps: findOneAndUpdate with upsert; create; a list followed by an      *)
(* update or a create; one followed by a create or nothing; a list that    *)
(* lets the run skip the next steps; deleteMany; the operations that bring *)
(* a document to the state the demo wants it in; and the list of contracts *)
(* to be billed.                                                           *)

Do(op, kind, i) == [op |-> op, kind |-> kind, i |-> i, skip |-> 0]

Upsert(kind)       == Do("upsert", kind, 1)
Create(kind, i)    == Do("create", kind, i)
Put(kind)          == Do("put", kind, 1)
PutNew(kind)       == Do("putNew", kind, 1)
Once(kind, skip)   == [op |-> "once", kind |-> kind, i |-> 1, skip |-> skip]
DeleteAll(kind)    == Do("deleteAll", kind, 1)
Finish(kind, i)    == Do("finish", kind, i)
Bill(skip)         == [op |-> "bill", kind |-> "contract", i |-> 1, skip |-> skip]

seedClients  == <<Create("client", 1)>>
seedContacts == <<Create("contact", 1)>>
seedDevices  == <<Create("device", 1)>>

upsertMany           == Upsert("permission")
createOrUpdateTenant == Upsert("tenant")
upsertRole           == Upsert("role")
createOrUpdateByEmail(kind) == Upsert(kind)
upsertSetting        == Upsert("setting")

createDemoUsers == <<createOrUpdateByEmail("user"), createOrUpdateByEmail("portalUser")>>

seedAgentsAndMonitoring ==
  <<Finish("device", 1), Create("agent", 1), Finish("agent", 1), Create("activity", 1),
    Create("metric", 1)>>

seedSlaPolicies == <<Create("slaPolicy", 1)>>

upsertAlertRule  == <<Put("alertRule")>>
upsertScript     == <<Put("script")>>
upsertAutomation == <<Put("automation")>>

seedAlertsAndTickets ==
  upsertAlertRule \o
  <<Create("alert", 1), Create("ticket", 1), Create("comment", 1), Finish("ticket", 1),
    Finish("alert", 1)>>

seedScripts     == upsertScript
seedAutomations == upsertAutomation
seedExecutions  ==
  <<DeleteAll("execution"), Create("execution", 1), Create("automationLog", 1)>>

seedKnowledgeBase == <<Put("article")>>

seedContracts == <<Put("contract")>>
seedBilling   == <<Bill(2), Put("invoice"), PutNew("subscription")>>

seedPatchManagement ==
  <<Put("patchPolicy"), Once("patch", 4),
    Create("patch", 1), Finish("patch", 1), Create("patch", 2), Finish("patch", 2)>>

seedRemoteAccess ==
  <<Once("session", 4),
    Create("session", 1), Finish("session", 1), Create("session", 2), Finish("session", 2)>>

seedIntegrationsSettingsAndApiKeys ==
  <<PutNew("integration"), upsertSetting, Once("apiKey", 1), Create("apiKey", 1)>>

run ==
  <<upsertMany, createOrUpdateTenant, upsertRole>>
  \o seedClients \o createDemoUsers \o seedContacts \o seedDevices
  \o seedAgentsAndMonitoring \o seedSlaPolicies \o seedAlertsAndTickets
  \o seedScripts \o seedAutomations \o seedExecutions \o seedKnowledgeBase
  \o seedContracts \o seedBilling
  \o seedPatchManagement \o seedRemoteAccess \o seedIntegrationsSettingsAndApiKeys

Finished == {run[n].kind : n \in {n \in DOMAIN run : run[n].op = "finish"}}
With(op) == {run[n].kind : n \in {n \in DOMAIN run : run[n].op = op}}

-----------------------------------------------------------------------------
SeedsInit ==
  /\ docs = {} /\ step = 0 /\ found = None /\ payer = None /\ runs = 0
  /\ ending = "none" /\ stops = 0 /\ theirs = {}

now == run[step]

Copies(kind, i) == {d \in docs : d.kind = kind /\ d.i = i}

\* The kinds that belong to a client, to those of this run or to the one billed.
\* Invoices have the number of their month: all runs are in one.
OfClient == {"portalUser", "contact", "device", "slaPolicy", "contract"}
Billed   == {"invoice", "subscription"}

ClientNow(kind) == IF kind \in OfClient THEN runs ELSE IF kind \in Billed THEN payer ELSE 0

New(s) == [kind |-> s.kind, i |-> s.i, run |-> runs, client |-> ClientNow(s.kind),
           done |-> s.kind \notin Finished]

\* The run goes on n steps, or is over.
Advance(n) ==
  /\ found' = None
  /\ IF step + n <= Len(run)
       THEN step' = step + n /\ UNCHANGED ending
       ELSE step' = 0 /\ ending' = "completed"

Start ==
  /\ step = 0 /\ runs < MaxRuns
  /\ runs' = runs + 1 /\ step' = 1 /\ payer' = None
  /\ UNCHANGED <<docs, found, ending, stops, theirs>>

Known(s) ==
  CASE s.op = "once"           -> (\E d \in docs : d.kind = s.kind) \/ s.kind \in theirs
    [] s.kind = "subscription" -> \E d \in Copies(s.kind, s.i) : d.client = payer
    [] OTHER                   -> Copies(s.kind, s.i) # {}

\* Mutant of Look: subscriptions are found whatever client they belong to.
Look_AnyClient ==
  /\ step # 0 /\ now.op \in {"put", "putNew", "once"} /\ found = None
  /\ found' = (Copies(now.kind, now.i) # {} \/ now.kind \in theirs)
  /\ UNCHANGED <<docs, step, payer, runs, ending, stops, theirs>>

\* The list a step begins with.  Articles are looked for among the hundred
\* changed last, so that those of the users may hide the one of the seed.
Look ==
  /\ step # 0 /\ now.op \in {"put", "putNew", "once"} /\ found = None
  /\ \/ found' = Known(now)
     \/ now.kind = "article" /\ "article" \in theirs /\ found' = FALSE
  /\ UNCHANGED <<docs, step, payer, runs, ending, stops, theirs>>

\* Unique: the collection's index refuses a second document with the key.
Unique == {"permission", "tenant", "role", "user", "portalUser", "agent", "script", "article",
           "invoice", "patchPolicy", "integration", "setting"}

Reseeded(d) == [d EXCEPT !.client = ClientNow(d.kind), !.done = TRUE]

\* Update what was found, create what was not.
Upserting ==
  /\ \/ step # 0 /\ now.op = "upsert"
     \/ found # None /\ now.op = "put" /\ found = (Copies(now.kind, now.i) # {})
  /\ LET mine == Copies(now.kind, now.i)
     IN docs' = IF mine = {} THEN docs \cup {New(now)}
                             ELSE (docs \ mine) \cup {Reseeded(d) : d \in mine}
  /\ Advance(1) /\ UNCHANGED <<payer, runs, stops, theirs>>

\* What a unique index refuses ends the run.
Refused ==
  /\ found = FALSE /\ now.op = "put" /\ now.kind \in Unique /\ Copies(now.kind, now.i) # {}
  /\ step' = 0 /\ found' = None /\ ending' = "refused"
  /\ UNCHANGED <<docs, payer, runs, stops, theirs>>

Creating ==
  /\ \/ step # 0 /\ now.op = "create"
     \/ found = FALSE /\ now.op = "putNew"
  /\ docs' = docs \cup {New(now)}
  /\ Advance(1) /\ UNCHANGED <<payer, runs, stops, theirs>>

Leaving ==
  /\ found # None /\ ((found /\ now.op = "putNew") \/ now.op = "once")
  /\ Advance(IF now.op = "once" /\ found THEN 1 + now.skip ELSE 1)
  /\ UNCHANGED <<docs, payer, runs, stops, theirs>>

Deleting ==
  /\ step # 0 /\ now.op = "deleteAll"
  /\ docs' = {d \in docs : d.kind # now.kind}
  /\ Advance(1) /\ UNCHANGED <<payer, runs, stops, theirs>>

\* The document this run has created; of the alerts, one that a rule of the
\* users' own has raised may be taken for it.
Finishing ==
  /\ step # 0 /\ now.op = "finish"
  /\ \/ LET mine == {d \in Copies(now.kind, now.i) : d.run = runs}
        IN docs' = (docs \ mine) \cup {[d EXCEPT !.done = TRUE] : d \in mine}
     \/ now.kind = "alert" /\ "alert" \in theirs /\ UNCHANGED docs
  /\ Advance(1) /\ UNCHANGED <<payer, runs, stops, theirs>>

\* The contracts that are billed are the newest of the tenant, the users' among
\* them; one whose client is gone is passed over.
Billing ==
  /\ step # 0 /\ now.op = "bill"
  /\ \/ \E d \in Copies("contract", 1) : payer' = d.client /\ Advance(1)
     \/ "contract" \in theirs /\ (\E c \in 0..runs - 1 : payer' = c) /\ Advance(1)
     \/ "contract" \in theirs /\ payer' = None /\ Advance(1 + now.skip)
  /\ UNCHANGED <<docs, runs, stops, theirs>>

\* A call fails or the process is stopped.
Stop ==
  /\ step # 0 /\ stops < MaxStops
  /\ step' = 0 /\ found' = None /\ ending' = "stopped" /\ stops' = stops + 1
  /\ UNCHANGED <<docs, payer, runs, theirs>>

\* Between two runs the tenant is used; of alerts: it has rules of its own.
TenantWorks(kind) ==
  /\ step = 0 /\ docs # {} /\ runs < MaxRuns
  /\ kind \notin theirs /\ Cardinality(theirs) < MaxKinds
  /\ theirs' = theirs \cup {kind}
  /\ UNCHANGED <<docs, step, found, payer, runs, ending, stops>>

SeedsNext ==
  \/ Start \/ Look \/ Upserting \/ Refused \/ Creating \/ Leaving \/ Deleting \/ Finishing \/ Stop
  \/ Billing
  \/ \E kind \in {"alert", "article", "contract", "patch", "session", "apiKey"} : TenantWorks(kind)

-----------------------------------------------------------------------------
SeedsTypeOK ==
  /\ step \in 0..Len(run) /\ found \in BOOLEAN \cup {None} /\ runs \in 0..MaxRuns
  /\ payer \in 0..runs \cup {None}
  /\ ending \in {"none", "completed", "refused", "stopped"} /\ stops \in 0..MaxStops
  /\ \A d \in docs : d.run \in 1..runs /\ d.client \in 0..runs /\ d.done \in BOOLEAN

One(set) == Cardinality(set) = 1

\* However often the seed was run or stopped before: after a run that came to
\* its end there is one document of each kind it looks for or upserts, for the
\* clients of this run; what it only creates is there for this run as the demo
\* wants it, save an alert for which one of the users' was taken; executions are
\* those of this run.  There is one invoice at most; if the contract billed has a
\* client, it is that client's, who has one subscription; without contracts of
\* the users that client is one of this run.  Patches and sessions are never added
\* twice, but are complete only if no run stopped.
SeedsConverge == step = 0 /\ ending = "completed" =>
  /\ \A k \in (With("upsert") \cup With("put") \cup {"integration", "execution"}) \ {"invoice"} :
       One(Copies(k, 1))
  /\ \A k \in {"portalUser", "contract"} : \A d \in Copies(k, 1) : d.client = runs
  /\ \A k \in With("create") \ (With("once") \cup {"execution"}) :
       \E d \in Copies(k, 1) : d.run = runs /\ (d.done \/ (k = "alert" /\ k \in theirs))
  /\ \A d \in Copies("execution", 1) : d.run = runs
  /\ Cardinality(Copies("invoice", 1)) <= 1
  /\ payer # None => /\ \E d \in Copies("invoice", 1) : d.client = payer
                     /\ One({d \in Copies("subscription", 1) : d.client = payer})
  /\ "contract" \notin theirs => payer = runs
  /\ \A k \in {"patch", "session", "apiKey"}, i \in {1, 2} :
       /\ Cardinality(Copies(k, i)) <= 1
       /\ stops = 0 /\ k \notin theirs /\ (k = "apiKey" => i = 1) =>
            \E d \in Copies(k, i) : d.done
=============================================================================
