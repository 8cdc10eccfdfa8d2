# Easyli, verified: TLA+ models of suporteeasy

Easyli is a remote monitoring and management service: agents on customer
machines send heartbeats and metrics and poll for scripts, technicians work on
alerts, tickets and remote sessions in a web client. The NestJS API keeps its
state in MongoDB, defers work to BullMQ queues in Redis and pushes events over
socket.io. Most of what can go wrong lies between two `await`s of two handlers:
Mongoose documents are loaded, changed and saved without a version check (a
`save()` writes the assigned fields whatever the stored ones have become), and
the queue repeats what it cannot prove done.

## 1. Inventory

| Component | State | Operations | Hard behaviour | What makes it correct |
|---|---|---|---|---|
| Script executions (`script-executions/`) | ScriptExecution, AgentCommand, queue jobs | run on a device, process, pull, report | retries, stalled jobs, lost locks, overlapping polls, lost answers, agent restarts | one command per run, results are the agent's, a final status is final and whole, every run ends |
| Scheduled scripts (same service) | ScheduledJob, delayed jobs | schedule, process, run on a group | crash in the middle of a group, double processing, QUEUED saved late | COMPLETED means every device, a finished job is not run again, queued jobs end |
| Monitoring, devices, agents (`monitoring/`, `devices/`, `agents/`, `jobs/`) | onlineStatus, lastHeartbeatAt of Device and Agent | heartbeat, goodbye, ingest, timeout check | check marks what it found earlier, requests of one device overlap, events out of order | silence is noticed, live devices come back, one announcement per change |
| Alerts (`alerts/`) | Alert, rule with cooldown | trigger, acknowledge, resolve, make a ticket, change rules | read-check-write between handlers, failures half way | one active alert, cooldown kept, one ticket per alert, resolved is final, a rule's conditions fit its target |
| Tickets and SLA (`tickets/`, `sla/`) | Ticket, comments, deadlines | create, update, resolve, close, reopen, comment | stale save by a comment, rounding of the SLA clock | transitions and their time stamps agree, a breach is seen |
| Automations (`automations/`) | Automation, AutomationLog | trigger, execute, retry | retry inside a retried job, actions repeated, triggers that cause triggers | a SUCCESS log is complete, logs end |
| Notifications, integrations | Notification, Integration | create (queued or not), mark read, webhooks | duplicates on a retried or stalled job, documents refused silently, webhooks nobody awaits | each user told or none, duplicates explained, deliveries counted |
| Remote access (`remote-access/`) | RemoteSession, socket rooms | request, start, end, join, control, disconnect | status and sockets change independently | control and the input lock follow a live, consented session |
| Authentication (`auth/`, `users/`) | refreshTokenHash, reset tokens | login, refresh, logout, reset | concurrent refreshes of tabs | signing out holds, a reset token serves once, sessions survive |
| Clients, contacts, contracts, billing, devices, groups, scripts, SLA policies, patch policies, rules, automations, articles, integrations | one document each, with references | create, update, remove, list | a reference goes between look-up and write, lists change while read, defaults in update bodies | written references hold, tenants stay apart, walks miss nothing |
| Patches, articles, API keys, alert rules | fields that depend on each other | approve, execute, publish, revoke, authenticate | two handlers on one document, a crash half way | the fields agree |
| Demo data (`seeds/`) | the demo tenant | run | stopped anywhere and run again | runs converge |
| Agents (`tools/agent-simulator`, `tools/windows-agent`) | timers, running executions, session, lock | heartbeat, metrics, poll, run, report, attach | timers do not wait for answers | (modelled with the API) |
| Web client (`apps/web`) | token storage, cache of queries | pages, requests, socket events, refresh | changes answered in another page, fetches overtaken | shows the changes its user made |
| Portal, reports, dashboards, settings, audit, roles | reads, upserts, an append-only log | | little | tenant scope |

Components interact through four channels: HTTP requests (agents and web to the
API), queue jobs (`script-execution`, `automation`, `notification`,
`heartbeat-timeout`), socket events (API to web and remote agents), and direct
service calls inside a handler: Monitoring calls Alerts, Alerts calls Tickets and
Notifications, all of them add automation triggers, Automations call Tickets,
Notifications and script executions.

## 2. Plan

Most important first; each module keeps one action per awaited operation,
parameters as CONSTANTS with a named ASSUME, and no RECURSIVE operator.

1. `ScriptExecutions` implementing `ScriptRun`, with proofs. *Done.*
2. `Presence`, `Alerts` (with `createFromAlert`), `ScheduledJobs`: *done*.
3. `Automations`, a trigger job with its retries: *done*; next, chains of
   triggers with what an action does, using `ScriptRun` as its view of a run.
4. `Tickets` with the operators of `SlaClock`: *done*.
5. `RemoteAccess`: *done* for sessions, relayed control and the Windows agent with
   its consent and input lock; next the operators' sockets and presence, with the
   entry a socket leaves when it disconnects during its join.
6. `AuthSessions`, with the web client's refresh: *done*.
7. `Services`, composed of `Registry`, `Listing`, `Records`, `Notices`, `Seeds`
   and the web client's `WebPages` and `WebQueries`: *done*; next, signing out of
   a browser whose cache lives on.
8. Proofs: every invariant the runs check, and every action property, is *done*;
   next, the new properties of items 5 and 7 together with their models, and
   `OnlineRegister` as a refinement of `Presence`.

`ScriptRun` is the abstract specification stated so far; an abstract
`OnlineRegister` (a device is what its last word or the threshold says) is worth
stating for `Presence`.

## 3. What is modelled

An action is one awaited database or queue operation of one handler; what
happens between two awaits is one step. Handlers have slots (a record with a
program counter and the values the handler keeps across its awaits). Faults are
actions with a bound of their own. Names of variables and values are those of
the schemas. A definition named `X_Something` is a mutant of `X`: a plausible
bug of the code it models, under which one of the properties fails.

* **ScriptExecutions** - `runOnDevice`, `enqueueExecution`,
  `processExecutionJob`, `pullAgentCommands`, `reportResult`, and the agent's
  poll loop. The BullMQ job is modelled from its use: three attempts, a lock, one
  requeue when stalled. `QueueModes` covers deployments with and without queues.
  The data of a script is left out; a result is only *whose* it is.
* **ScriptRun** - the promise: submitted, started, its command issued, ended
  once. `ImplementsScriptRun` maps `phase` to the stored status and `issued` to
  the executions with a command.
* **ScheduledJobs** - one scheduled job; the caller of `schedule` and the workers
  are processes, each with the devices it still has to run. The order of a
  group's devices is free. After the executions are queued ScriptExecutions takes
  over.
* **Presence** - power of the agents, Device and Agent documents, request
  handlers, the check `runHeartbeatTimeoutCheck`, what the web client was shown.
  Time is the age of a time stamp: never, fresh, stale. `account` is a history
  variable that sets changes to OFFLINE against `device_offline` triggers.
* **Alerts** - subjects are pairs of a rule and a device; `rule` holds what the
  rule says of cooldown and tickets and is not edited during a behaviour.
  `overlapped` remembers subjects with two handlers at a time.
* **Automations** - one trigger job, the workers that process it (more than one
  after a lost lock), and the log each worker is writing; `past` keeps the logs
  left behind. An action that was executed is its number in the log's `ran`; it
  may throw instead. `notifyFailed` and `saveFailed` are history variables.
* **Tickets** - one ticket and requests that load, change and save it. A save
  writes what its handler changed of the copy it loaded, so a handler is its
  patch. `firstComment` is a history variable. `SlaClock` has the pure functions
  of deadlines; an instant is a number of half minutes, since the code rounds to
  minutes. Comments made in the portal do not touch the ticket and are left out.
* **RemoteAccess** - the sessions of one device, numbered as they were requested;
  of the gateway the sockets' entries and rooms of the agent and `agent.join`
  handlers at work (`authorizing`); the Windows agent's variables (`agent`), its
  `syncRemoteSessions`, lock requests, dialogs and display inventories under way;
  the events on their way to it (`inbox`, lost when the socket is). `inputLocked`
  is the bridge's, `agent.locked` what the agent believes of it. A failed lock
  request has or has not locked. `allowed` is a history variable. Operators join
  and send what they like to sessions that exist; pointer, keyboard and frames
  are left out. A dialog beyond `MaxDialogs` and a request beyond `MaxCalls` wait.
* **AuthSessions** - one user's document, the storage of each browser, and tabs: a
  tab is one chain of calls (call, refresh when refused, call again, sign in or
  out). `storeRefreshTokenHash` and its neighbours are the single updates of
  UsersService; `issueTokens`, the web client's `refreshSession` and `signOut` are
  split where they await. Access tokens have the period they were issued in,
  refresh tokens a number. `signedOut`, `revoked`, `uses` and `excused` are
  history variables.
* **ApiValues** - null, shared by the modules of `Services`.
* **Registry** - the create, update, remove and read of every collection with the
  references its body may carry, in the order its service looks them up
  (`Collections`, `Operations`); `resolvePolicyForClient` and the tickets of the
  portal. Of the DTOs: which references are required, and whether another field
  has a default. A behaviour follows one document and the request at work on it.
* **Listing** - every list function with its sort keys and whether documents leave
  the list; a reader walks the pages while the list changes, and an answer is two
  queries (page and total). A document comes into the list at any place: it is
  created with its key, or an old one comes to match the filter (a ticket is
  reopened, a patch approved). Instants (`createdAt`, `occurredAt`, `timestamp`) are
  taken before the insert, so they tie and come out of order. All documents with
  equal keys are taken to have the same one (`equals`), which is more than enough
  orders.
* **Records** - patches, articles, API keys and alert rules as records whose
  fields depend on each other, each handler a patch it will save.
* **Notices** - the documents of one notification, the job or request that inserts
  them (`notice`), and its deliveries: runs of `createForUsersNow`, each with the
  `dispatchWebhooks` it starts. A notification is valid or not: `insertMany` with
  `ordered: false` leaves out what the schema refuses and resolves, and all users'
  documents have type, title and body in common. A delivery may lose the lock of its
  job and go on; the queue's check for stalled jobs lets another process deliver it
  again at the same time. A rejection nobody handles ends the process.
* **Seeds** - `SeedService.run` as a sequence of steps, each one way of dealing
  with the documents of earlier runs: upsert, look and leave, look and create,
  create, delete, finish, and the list of the contracts to be billed. Between two
  runs the tenant's users create documents (`theirs`: contracts, articles, patches,
  sessions, keys, alert rules); `payer` is the client of the contract that is billed,
  which may be theirs.
* **WebPages** - what each function of `lib/api/operations.ts` shows or changes, and
  every page with its queries, the changes it makes with the keys they invalidate,
  and what its socket events write and invalidate. Data only.
* **WebQueries** - one query of that data in the QueryClient: cached answer,
  invalidation, staleness, fetches and their cancellation, requests that change
  it, socket events, mounting and unmounting. TanStack Query itself is modelled
  from its use. `stored` numbers the states at the server, `due` is the one the
  user was promised.
* **Services** - the last six side by side. They share no variable: each behaviour
  follows one (`part`), and an interleaving of two would be two behaviours that do
  not touch.

## 4. Runs

| Run | Instance | Shows |
|---|---|---|
| ScriptFaults | 1 execution, 2 workers, 2 pulls, 2 reports, 3 faults of any kind | every safety property, each naming the faults it cannot survive |
| ScriptLife | 2 executions of 1 device, polls of 1 command, mild faults | every execution ends; refinement of ScriptRun |
| Presence | 1 device, 2 overlapping requests and the check, 1 fault | changes are told, silence is noticed, live devices come back |
| AlertsSafety | 1 subject with each kind of rule, 2 handlers, 2 alerts, 2 tickets, 1 fault | no duplicates within a cooldown, each alert with its one ticket, resolved is final |
| AlertsAck | 1 alert, 2 handlers | **violated**: an acknowledgement overwrites RESOLVED |
| Scheduled | 2 devices, 2 workers, 2 crashes or lost locks, 1 rejected call | what COMPLETED means; queued jobs end |
| Automations | 2 automations, one of 2 actions and 2 attempts, one without actions; 2 crashes or lost locks | what the logs say is true and complete; logs end |
| Tickets | 1 ticket with one of 2 policies or none, 2 requests, that ask for two of the statuses beside those they have a route for, a second instant past some deadlines | status, times and SLA agree; a breach stays visible |
| RemoteAccess | 2 sessions, one without consent, 3 operations, 2 lock requests at a time, 1 poll at a time, 1 failure, disconnection or restart | no lock without consent; the agent comes to follow the server |
| RemoteLock | 1 session without consent, no failure | **violated**: a lock answered late outlives its session |
| AuthSessions | 2 tabs in one browser or in two, 2 token periods, 1 password reset, 1 failing call | signing out holds; a reset token serves once; an undisturbed session lives on |
| Services | 2 tenants with 2 portal users, a list of 5 documents, 2 of them with equal keys, and pages of 2, 2 handlers, 2 users, 2 webhooks, 2 processes and 2 troubles, 3 runs of the seed and one kind of the users' documents, 2 requests and 2 changes of a query | references, lists, records, notices, demo data, what pages show |

Why the bounds are enough: all races of this code are between two handlers of
one document (check and save of one against save of the other), so two slots of
each kind show them, and one further fault shows what is left when one of them
dies. ScriptFaults allows three faults since a stalled job needs a crash, a
requeue and a second loss to be given up. A second execution matters only for
the shared poll (ScriptLife); devices or executions otherwise share no state.
Two alerts are what a duplicate needs; tickets likewise. Symmetry is used on
slots, handlers and names, and only in runs without liveness.

Of a ticket's two policies one is breached at the second instant, while the other
is half a minute late for the first response and has its resolution still to come;
two are needed since a change may move the ticket from one to the other. Requests
may ask for any status, and instants be any (`Requested`, `Instants`), in section
6's proofs.

Presence's check marks its devices in one batch, but looks at each for itself:
one device is enough, and the proofs of section 6 are for any number. Automations
has one worker slot, taken again by the next after a crash or a lost lock; its
safety is proved for any number of workers at a time.

Deadlines after 6 and 7 minutes are observed well before both, between them (half
a minute after the first, when it is missed but not shown so yet) and more than
a minute after both: the clock passes through all its states.

Two sessions show the agent switching, with the lock held or asked for; three
operations are a request, a change of mode or a consent, and an end. The run has
one call of `syncRemoteSessions` at a time: its list is stale by the time it is
handled all the same. Setting `MaxPolls = 2` with `MaxSessions = 1` and
`MaxCalls = 1` lets calls overlap, in a run of about the same length.

Two tabs of one browser share its storage, two of two browsers the user's one
refresh token: these are all ways for chains to meet. Two periods are one expiry.

In Services a request carries up to two references (`MaxGiven`), or all its
collection requires, so that each pair of a look-up with a removal and each
order of two look-ups occurs; five documents on pages of two make three pages,
with two changes to move the boundary twice, and two documents with equal keys to
be shuffled over it; a stopped run of the seed, a whole one and another whole one
are what convergence needs, and what the users' documents of one kind (`MaxKinds`)
do to it does not depend on another kind; two troubles and two processes let a
stalled job be delivered twice at a time and one of the deliveries fail - that the
queue gives up after three failures is beyond the run, but not beyond the theorem,
as are more kinds; version 2 of a query lets a request be answered between
two changes of others, and two requests overlap.

Deadlock is checked in Presence, Alerts, Tickets, RemoteAccess and AuthSessions.
ScriptExecutions, ScheduledJobs and Automations follow executions or jobs that
end, and Services bounds its behaviours, so their runs may stop and do not check
it; that nothing stops early is what the liveness properties say.

### The properties of the parts

* `NoDuplicateAlerts` holds of rules whose handlers did not overlap: two
  overlapping ones do create two alerts. `AlertsHaveTheirTicket` excludes
  failures.
* `ChangesAreTold`: one `device_offline` trigger per change the check or a
  goodbye makes, and the web client is shown what is stored once nothing is under
  way.
* `ReportsAreFollowedUp`: after a report its commands are closed and its failure
  announced once, or a fault prevented it.
* `SignOutHolds`: a browser that signed out keeps no tokens, and a logged out user
  has no hash, but for calls that had passed their checks before. `ResetOnce`:
  the password is that of the token used last, and each is used once.
  `SessionsSurvive`: a browser loses its session only by signing out, or after a
  failure, logout or block.
* `ReferencesHold` (of every step of Registry): what is written names documents of
  the same tenant that were there when the request came, wherever the handler
  looks; no request reads or changes another tenant's document, and the portal
  shows a ticket to its requester; what is not carried stays, unless the body has
  a default.
* `WalkMissesNothing`: a reader of all pages sees whatever was in the list all
  along; exempt are documents that a departure ahead pulled over a boundary, that
  moved themselves, that lie behind a change between the two queries of an
  answer, or that share their sort key with others. Documents that come into the
  list, at whatever place, are no excuse.
* `RecordsAgree`: a patch's status, date and result fit, a public article has a
  date, a revoked key stays revoked while it is used, a rule's conditions fit its
  target - each with the overlaps or failures it does not survive.
* `NoticesAreTrue`: before the webhooks are called and the job ends everyone is told,
  if the schema accepts the notification, and nobody ever is if not; duplicates are
  bounded by the failed insertions, deaths and lost locks, repeated webhook calls by
  the last two.
* `SeedsConverge`: after a run that ended there is one of each document the seed
  looks for or upserts, with this run's clients; the invoice, and one subscription,
  are those of the client whose contract was billed, which is one of this run unless
  the tenant's users have contracts.
* `PagesShowTheirChanges`: a page that is neither loading nor failed shows each
  answered change that was made on a page showing the query or whose page names
  its key.

### The findings

`acknowledgeAlert` tests the status it loaded ('Resolved alerts cannot be
acknowledged', `alerts.service.ts:255`) and saves later. If `resolveAlert` saves
between, the alert ends ACKNOWLEDGED with `resolvedAt` set, and counts as active
again. `ResolvedIsFinal`, which holds, is what is left: without overlapping
handlers a resolved alert stays resolved.

The Windows agent's README (line 19) says that remote-only locks the workstation
"until the session mode changes, the session ends, or the agent stops". The
session may end while the request to lock is under way: the agent still believes
the input unlocked, so `releaseLocalInputLock` has nothing to do; it resets its
state, and then the answer arrives. It is attached to no session, so no later
poll releases anything; attaching to another session sets `localInputLocked` to
false, whatever the bridge has. `RemoteLock` needs neither failures nor
overlapping polls for it.

### Behaviour worth knowing, shown by weakened properties

* An execution stays RUNNING for ever if its worker dies between saving RUNNING
  and creating the command, or if the answer to a pull is lost: there is no
  timeout (`EveryExecutionEnds` excludes these faults).
* A check that fails after `updateMany` never announces the devices it marked.
* A failing notification in `triggerAlertForRule` costs the alert its ticket.
* A notification that fails after an automation's SUCCESS was saved counts as a
  failed attempt: its actions are executed again, and the log may end FAILED.
  Repeated attempts repeat actions in any case.
* Two overlapping transitions of a ticket mix their fields (REOPENED with
  `closedAt`), and a comment may put a ticket that was closed meanwhile back to
  IN_PROGRESS. `UpdateTicketDto` inherits the default status OPEN, so an update
  without a status reopens the ticket and keeps `resolvedAt`. The other update
  bodies made by `PartialType` carry their defaults the same way.
* `schedule` may overwrite COMPLETED with QUEUED when the job is due at once.
* A request to the Windows agent's bridge is not repeated: the retry branch of
  `localBridgeRequestWithRetry` calls `log`, which is not defined, and so rejects.
* A join the gateway refuses is not tried again until the socket reconnects, a
  socket that disconnects during its join keeps an entry for ever, and a consent
  dialog answered late counts for the session attached by then. AgentSettles and
  LockNeedsConsent say what holds in spite of it.
* A refresh that had passed its check when the user logged out stores its hash
  afterwards, and the answer of a refresh is stored after another tab signed out
  (`SignOutHolds` exempts both); `portalSignOut` clears the browser only.
* bcrypt reads 72 bytes, and those of a refresh token are its header and the
  beginning of the user's id, so every refresh token of a user matches the hash of
  any other: a refresh with the token before last succeeds, and what ends a session
  is only that the hash is cleared (`Matches`; with it SessionsSurvive holds,
  without it a second tab's refresh signs the browser out).
* A ticket created with a client names its device unchecked, null is taken for a
  required reference in some bodies, and removing a document leaves those that
  name it alone (`ReferencesHold` exempts the first two; of the last it only
  speaks when something is written).
* A patch whose handler dies stays INSTALLING; two overlapping executions may
  leave FAILED with the date of an installation.
* A notification the schema refuses, as one of an automation whose type is unknown
  or whose text is empty once its variables are put in, is stored for nobody:
  `insertMany` resolves, the job completes and the webhooks announce it.
* A notification job whose lock is lost is delivered again while the first delivery
  goes on: users have it twice, and webhooks are called twice.
* A rejected update in `dispatchWebhooks` is unhandled and ends the process; a
  delivery that could not be noted is counted as delivered and as failed.
* The seed bills the first contracts of all the tenant's: one created by its users
  takes the invoice of the month from the client that had it, and gets the
  subscription; one whose client is gone leaves the run without both.
* A run of the seed that stopped among the patches or sessions leaves them
  incomplete for good: later runs find some and skip the rest.
* The test mail stores its outcome with the integration, but `runEmailTest` does not
  invalidate `['integrations']`. A first fetch under way when a change is answered
  is not restarted, so its older answer clears the invalidation. A socket event's
  `setQueriesData` makes inactive entries that waited to be fetched valid and fresh.
  `PagesShowTheirChanges` exempts all three.

## 5. Fairness

Weak fairness is assumed of handlers that have begun (an awaited call settles
unless a fault action ends it), of the queue's workers and its stalled check, of
the repeated timeout job, and of agents' polls and reports, which are timers or
loops. A crash is a fault and never required. Presence needs strong fairness of
each device's heartbeats and metrics: the model has few slots where the API has
no limit, and timers compete for them. In RemoteAccess the poll is an
interval, socket.io delivers and reconnects, bridge requests have a timeout and
the consent dialog closes by itself as denied. Nothing is assumed of users.
Tickets, Alerts, AuthSessions and Services have safety properties only.

## 6. Proofs

`ScriptExecutions_proofs` proves for any executions, devices, workers, slots,
limits and faults:

* `TypeCorrect` - the type invariant, with `HandlersOK` (a busy slot refers to a
  document that exists).
* `CommandsOnlyOfStarted`, `NoJobLost`, `ResultsAreReported` from `SafetyInv`:
  `StartedInv` follows an execution from QUEUED through the worker that holds it,
  `ResultInv` ties outcomes obtained to agents, reports under way and documents.
  The properties alone are not inductive: a worker past its check must be known
  to have seen QUEUED.
* `OneCommand`, `FinalIsWhole` from `LockedInv`: as long as no lock was lost, the
  worker at work on an execution is unique and is the one between RUNNING and
  the command.
* `Finality` from `AnsweredInv`, which adds that one report at a time is under
  way, since the agent waits for its answer.
* `Implementation` - every step is a step of ScriptRun or a stutter, if locks are
  not lost, reports not lost and agents not restarted.
* `OneRun` - `AtMostOneRun`, from `RunInv`: a command that was run is no longer
  PENDING, so that the one poll of the device that still holds commands holds only
  some that were not run. It holds until a lock is lost or polls overlap.
* `FollowedUp` - `ReportsAreFollowedUp`, from `FollowInv` and `SettledInv`: an
  execution has one report at a time, what the report has saved is still there
  when it goes on, and its failure is announced by it and nobody else; commands
  are open only while their execution is not final or its report is under way.

The assumptions are `ConstantsAssumption` of the module, evaluated by every run
of it. Type correctness needs nothing else; the restrictions on faults are hypotheses
in the theorems or guards in the properties.

`AuthSessions_proofs` proves for any tabs, browsers, ways they belong together
and bounds:

* `TypesHold` - the type invariant. `FreshToken`, by counting, shows that the
  tokens of the model never run out, so that issueTokens finds one not in use.
* `SigningOut`, `ResettingOnce` and `SessionsLiveOn` from `Sessions`, which adds to
  the types what the properties leave open: no tab of a browser that is signed out
  is about to store tokens (`OutAndAlone`), no refresh has passed its checks since
  the logout (`OutAtTheApi`), no refresh is refused before the first failure,
  because there is a hash as soon as there are tokens and every one matches
  (`Unrefused`), and the token of the last mail has not been used (`ResetTokens`).
  `ClientMoves`, `ServerMoves` and `StoreMoves` say once what each step does to
  tabs and storage, and the preservation of each part rests on them.

`Presence_proofs` proves for any devices, requests at a time and faults:

* `TypesHold` - the type invariant.
* `AllAreTold` - `ChangesAreTold`, from `Inv`. A handler's view of its device must
  be known to be true (`RequestKnows`, `SweepKnows`: one handler at a time, or the
  account is void), and until the first fault an announcement that is owed, or a
  status not shown yet, has a handler or the check that will see to it
  (`DebtsArePaid`). `Untouched` says once that a step about another device, or a
  failed one, leaves all that alone.

`ScheduledJobs_proofs` proves for any devices, workers, crashes and rejected calls:

* `TypesHold`; `Completed` - `CompletedIsComplete`, with `Progress`: a process at
  work has queued every device it has dealt with, and all of them once it is
  about to save COMPLETED.
* `FinishedForGood` - `FinishedIsNotRerun`, from the types alone.

A process's `pc` is a step or the device it is about to queue, which is why the
assumption has `Devices \cap Steps = {}`.

`Alerts_proofs` proves for any rules and devices, handlers at a time, and faults:

* `TypesHold`; `NoDuplicates` - `NoDuplicateAlerts`; `TicketsTied` -
  `AlertsHaveTheirTicket`; `ResolvedStays` - `ResolvedIsFinal`; all from `Inv`.
  For a subject whose handlers have run one at a time (`Sound`), what its handler
  has read is still so (`Informed`), and a ticket is linked to its alert or about
  to be (`Tied`). Until the first fault an alert not yet announced, or without the
  ticket its rule asks for, has a handler at it (`Owed`). Every action is a case of
  `BeginStep`, `GoStep`, `SaveStep`, or of a lemma of its own, and `OthersSound`
  says once that subjects it is not about stay sound.

`RemoteAccess_proofs` proves for any sessions, polls, lock requests, dialogs and
bounds:

* `TypesHold` - the type invariant, with `Links` (the agent connects anew only
  after a failure or a restart) and `Heard`. `MaxIsIn` shows that the newest open
  session exists whenever there is an open one, because < is well-founded.
* `LocksAreAllowed` - `LockNeedsConsent`, from `Consent`: nothing the agent holds,
  and nothing under way to it, speaks of a consent that was not given.

`TicketAutomations_proofs` proves of Tickets, for any policies, instants, requested
statuses and number of requests at a time:

* `TypesHold`; `StampsHold` - `StampsAreTrue`; both from `Inv`, which says what each
  patch under way will do to the document as it is by then (`Transition`,
  `Comment`, through `After`), and that an answer is stamped or about to be
  (`Answers`).
* `BreachesStay` - `BreachStays`. `Late` is what the rounding SLA clock calls
  breached (`Breached`, `Overdue`, `Overall`); of the steps only those that save
  and time matter (`ChangeKeepsBreach`, `ResponseKeepsBreach`, `TimeKeepsBreach`).
  The condition that no two transitions overlap is needed: with two policies the
  later save sets its deadlines over those the first one set, and with three
  requests a stale reopening leaves an earlier closedAt to count.

and of Automations (whose operators have names of their own, so that one module can
hold both), for any automations, numbers of actions and attempts, workers, crashes
and lost locks:

* `AutomationsTypesHold`, and `TruthOfLogs` - `LogsAreTrue`, from `LogInv`: each
  worker is at a log that has what the worker has done (`Working`), the automations
  it has begun are logged with their outcome, but for the one at hand (`Covered`),
  and a logged automation stays logged, whoever else runs the job (`LoggedStays`).

`Services_proofs` proves, part by part and for all constants:

* `RecordsHold` - `RecordsAgree`, from `RecordsInv`. `Hand` says of each kind of
  document what a handler holds between its read and its save: what it will write
  agrees in itself, and agrees with the document as it is by then unless the
  mishap that breaks it has happened (`Alone`: no two handlers without "overlap").
* `PagesHold` - `PagesShowTheirChanges`, from `WebInv`: `Promised` says that the
  entry of a page has every change due, or is invalid, or is being fetched by a
  request that has not read before the last of them. That a change made on a page
  which shows it names a key of that page (`OwnIsNamed`) is read off the tables of
  `WebPages`, page by page.
* `NoticesTrue` - `NoticesAreTrue`, from `NoticesInv`: deliveries are sound each for
  itself (`DeliveriesSound`: what is left to store, and what its webhook calls have
  counted) and with the job (`JobSound`); a user has no more documents than
  deliveries have told them (`InboxSound`), a webhook no more calls than deliveries
  are past it (`CalledOnce`), and deliveries that did not fail are counted against
  the deaths and lost locks that excuse another one (`Redelivered`), by
  cardinalities of finite sets of deliveries.
* `References` - `ReferencesHold`, an action property, from `RegistryInv`: a request
  has an answer to each reference it carries (`Answered`: it names nothing, it was
  left alone, or it names a target seen in the tenant), and every target that
  lives was seen by it.
* `WalksHold` - `WalkMissesNothing`, from `ListingInv`: a document that was there
  all along and is not excused has been shown or is `StillAhead`, on a page to come
  or among the items just read, and within the total. Adding at any place, moving and
  removing are argued by where the document of each place was before.
* `SeedsHold` - `SeedsConverge`, from `SeedInv`, for any number of runs and stops.
  `RunBegins` computes the 45 places of a run from the parts `run` is put together
  of, and the lemmas `PlacesRenew` to `PlacesFinish` say what each operation occurs
  with. The invariant follows the run by the places it has left behind (`Done`):
  what they renew is there once and for this run's clients (`OneEach`,
  `RenewedOK`), what they create is there and finished (`AddedOK`), old executions
  are gone (`ExecutionsOK`), the client billed is one of this run unless the users
  have contracts (`PayerOK`), and the three parts that skip themselves are all there
  or not begun, unless a run stopped in them (`AskedOK`).
* `TypesHold` - `TypeOK`, from the six invariants together.

These invariants were checked by TLC on the instance of the run Services before they
were proved.

Only model-checked is liveness, since it rests on fairness and ENABLED, which the
prover does not handle: `EveryExecutionEnds`, `SilenceIsNoticed`,
`LiveDevicesComeBack`, `ScheduledJobsEnd`, `LogsEnd` and `AgentSettles`. Every other
property a passing run checks is also a theorem.

## 7. Not modelled

Aggregations (dashboards, reports); validation of requests beyond references and
defaults; guards that compare permissions; contents of scripts, metrics,
messages, activities and the audit log; BullMQ, MongoDB, socket.io and TanStack
Query themselves, beyond what the code relies on (their definitions are marked
external). Presence and Alerts assume a deployment with queues; alert rules and
SLA policies do not change while they are used there. What an automation's
action does and chains of triggers; registering an agent anew; the operators'
sockets, pointer, keyboard, files and frames of remote access; comments made in
the portal; tests of webhooks and mail; tags.

Of the demo data: of the three contracts a run bills only the first is followed, as
of other lists one round or two; the clients of the users are one. Left out are users
who work while the seed runs, who edit or remove the seed's own documents, or who
give theirs the names and numbers by which the seed looks for its own; more than a
hundred documents that match a look-up; and which automations the logs of
`seedExecutions` belong to: they are the three newest of the tenant.

Of the web client: forms and layout, the live bridge of a remote session, and
the legacy remote access page, which no route reaches. A browser's cache outlives
signing out (`user-menu.tsx:20`), so the next user is at first shown fresh answers
of the former; a fetch whose answer was made before a socket event overwrites what
the event wrote. Neither is modelled.
