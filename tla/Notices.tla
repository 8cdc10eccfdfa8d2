------------------------------- MODULE Notices -------------------------------
(***************************************************************************)
(* One notification for several users, and the webhooks that announce it.  *)
(* The documents of all users are inserted by one unordered insertMany, by *)
(* a queue job with three attempts or by the request itself; afterwards    *)
(* the webhooks of the tenant are called one after the other, by a call    *)
(* nobody awaits: when it rejects, the rejection is unhandled and the      *)
(* process ends, with all it was doing.                                    *)
(*                                                                         *)
(* A job is delivered again after a failure, after the death of its        *)
(* process, and when it stalls, its lock lost, while the first delivery    *)
(* goes on: deliveries and their webhook calls may overlap.                *)
(***************************************************************************)
EXTENDS ApiValues

CONSTANTS
  Users,       \* those to be told
  Hooks,       \* the webhooks that are enabled
  Unaddressed, \* those of them without a URL
  Processes,   \* the processes of the API
  MaxTroubles  \* bound: failures of calls, deaths of processes and lost locks

ASSUME NoticesAssumption ==
  IsFiniteSet(Hooks) /\ Unaddressed \subseteq Hooks /\ MaxTroubles \in Nat

VARIABLES
  inbox,      \* the user's documents of this notification: all, and unread
  notice,     \* the notification, and the job or request that stores it; holder:
              \* the delivery that has the lock of the job, or is the request, or 0
  deliveries, \* the runs of createForUsersNow, as begun, and their webhook calls
  hook,       \* what each integration says of its last delivery
  troubles    \* history: how often what went wrong

noticeVars == <<inbox, notice, deliveries, hook, troubles>>

-----------------------------------------------------------------------------
MaxAttempts == 3
MaxStalls   == 1   \* BullMQ's default maxStalledCount

NoticesInit ==
  /\ inbox = [u \in Users |-> [all |-> 0, unread |-> 0]]
  /\ notice = [at |-> "none", valid |-> TRUE, queued |-> FALSE, attempts |-> 0, stalls |-> 0,
               holder |-> 0]
  /\ deliveries = <<>>
  /\ hook = [h \in Hooks |-> [lastDeliveryAt |-> FALSE, lastError |-> FALSE, calls |-> 0]]
  /\ troubles = [insert |-> 0, update |-> 0, death |-> 0, lockLost |-> 0]

Trouble(what) ==
  /\ troubles.insert + troubles.update + troubles.death + troubles.lockLost < MaxTroubles
  /\ troubles' = [troubles EXCEPT ![what] = @ + 1]

\* The documents have type, title and body in common.  If the schema refuses
\* them, an unknown type or an empty text of an automation's, insertMany leaves
\* out all of them and resolves nevertheless.
Delivery(p, valid) ==
  [process |-> p, at |-> "storing", left |-> IF valid THEN Users ELSE {}, call |-> None]

\* The queue takes the job; without a queue the request stores the documents.
createForUsers(p, valid) ==
  /\ notice.at = "none"
  /\ \/ /\ notice' = [notice EXCEPT !.at = "waiting", !.valid = valid, !.queued = TRUE]
        /\ UNCHANGED deliveries
     \/ /\ notice' = [notice EXCEPT !.at = "active", !.valid = valid, !.holder = 1]
        /\ deliveries' = Append(deliveries, Delivery(p, valid))
  /\ UNCHANGED <<inbox, hook, troubles>>

\* The queue refuses the job: the caller's own operation fails with it.
CreateRejects ==
  /\ notice.at = "none"
  /\ notice' = [notice EXCEPT !.at = "failed"]
  /\ UNCHANGED <<inbox, deliveries, hook, troubles>>

\* The worker of a process takes one job at a time.
process(p) ==
  /\ notice.at = "waiting"
  /\ \A d \in DOMAIN deliveries :
       deliveries[d].process = p => deliveries[d].at \notin {"storing", "stored"}
  /\ notice' = [notice EXCEPT !.at = "active", !.holder = Len(deliveries) + 1]
  /\ deliveries' = Append(deliveries, Delivery(p, notice.valid))
  /\ UNCHANGED <<inbox, hook, troubles>>

\* insertMany works through its documents, in any order.
InsertOne(d, u) ==
  /\ deliveries[d].at = "storing" /\ u \in deliveries[d].left
  /\ inbox' = [inbox EXCEPT ![u] = [all |-> @.all + 1, unread |-> @.unread + 1]]
  /\ deliveries' = [deliveries EXCEPT ![d].left = @ \ {u}]
  /\ UNCHANGED <<notice, hook, troubles>>

\* BullMQ: a job that throws is tried again, with all of its documents.
AfterFailure ==
  IF notice.queued /\ notice.attempts + 1 < MaxAttempts
    THEN [notice EXCEPT !.at = "waiting", !.attempts = @ + 1, !.holder = 0]
    ELSE [notice EXCEPT !.at = "failed", !.holder = 0]

\* BullMQ heeds how a delivery ends only if that has the job's lock.
InsertFails(d) ==
  /\ deliveries[d].at = "storing" /\ Trouble("insert")
  /\ deliveries' = [deliveries EXCEPT ![d].at = "broken"]
  /\ notice' = IF notice.holder = d THEN AfterFailure ELSE notice
  /\ UNCHANGED <<inbox, hook>>

FirstCall == [at |-> "find", hook |-> None, left |-> {}, delivered |-> 0, failed |-> 0]

\* Mutant of InsertEnds: the webhooks are called while the documents are stored.
InsertEnds_Early(d) ==
  /\ deliveries[d].at = "storing" /\ deliveries[d].call = None
  /\ deliveries' = [deliveries EXCEPT ![d].call = FirstCall]
  /\ UNCHANGED <<inbox, notice, hook, troubles>>

\* insertMany resolves: createForUsersNow calls dispatchWebhooks and ends.
InsertEnds(d) ==
  /\ deliveries[d].at = "storing" /\ deliveries[d].left = {}
  /\ deliveries' = [deliveries EXCEPT ![d] = [@ EXCEPT !.at = "stored", !.call = FirstCall]]
  /\ UNCHANGED <<inbox, notice, hook, troubles>>

Complete(d) ==
  /\ deliveries[d].at = "stored"
  /\ deliveries' = [deliveries EXCEPT ![d].at = "over"]
  /\ notice' = IF notice.holder = d THEN [notice EXCEPT !.at = "completed", !.holder = 0]
                                    ELSE notice
  /\ UNCHANGED <<inbox, hook, troubles>>

-----------------------------------------------------------------------------
(* Locks and processes.                                                    *)

\* The process is too slow to renew the lock of its job, or the job's completion
\* does not reach the queue; what it was doing it goes on with.
LoseLock ==
  /\ notice.queued /\ notice.holder # 0 /\ Trouble("lockLost")
  /\ notice' = [notice EXCEPT !.holder = 0]
  /\ UNCHANGED <<inbox, deliveries, hook>>

\* Mutant of Stalled: one delivery too many.
Stalled_OneMore ==
  /\ notice.at = "active" /\ notice.holder = 0
  /\ notice' = IF notice.stalls <= MaxStalls
                 THEN [notice EXCEPT !.at = "waiting", !.stalls = @ + 1]
                 ELSE [notice EXCEPT !.at = "failed"]
  /\ UNCHANGED <<inbox, deliveries, hook, troubles>>

\* The queue's check for stalled jobs: nobody has the lock of an active one.
Stalled ==
  /\ notice.at = "active" /\ notice.holder = 0
  /\ notice' = IF notice.stalls < MaxStalls
                 THEN [notice EXCEPT !.at = "waiting", !.stalls = @ + 1]
                 ELSE [notice EXCEPT !.at = "failed"]
  /\ UNCHANGED <<inbox, deliveries, hook, troubles>>

Calling(d) == deliveries[d].call # None /\ deliveries[d].call.at \notin {"done", "dead"}
Storing(d) == deliveries[d].at \in {"storing", "stored"}

Killed(d) ==
  [deliveries[d] EXCEPT !.at = IF @ = "storing" THEN "broken" ELSE IF @ = "stored" THEN "over" ELSE @,
                        !.call = IF Calling(d) THEN [@ EXCEPT !.at = "dead"] ELSE @]

\* A process ends: the lock of a job it had expires, a request of its fails.
Dies(p) ==
  /\ deliveries' = [d \in DOMAIN deliveries |->
                      IF deliveries[d].process = p THEN Killed(d) ELSE deliveries[d]]
  /\ notice' = IF notice.holder # 0 /\ deliveries[notice.holder].process = p
                 THEN [notice EXCEPT !.holder = 0, !.at = IF notice.queued THEN @ ELSE "failed"]
                 ELSE notice
  /\ UNCHANGED <<inbox, hook>>

ApiDies(d) == (Storing(d) \/ Calling(d)) /\ Trouble("death") /\ Dies(deliveries[d].process)

-----------------------------------------------------------------------------
(* dispatchWebhooks, as called at the end of a delivery.                   *)

CallAt(d, at) == deliveries[d].call # None /\ deliveries[d].call.at = at

\* The call of a delivery goes on as c.
Goes(d, c) == deliveries' = [deliveries EXCEPT ![d].call = c]

FindHooks(d) ==
  /\ CallAt(d, "find")
  /\ Goes(d, [deliveries[d].call EXCEPT !.at = "next", !.left = Hooks])
  /\ UNCHANGED <<inbox, notice, hook, troubles>>

Called(h) == hook' = [hook EXCEPT ![h].calls = @ + 1]

\* A hook without a URL, one that accepts, and one that does not.
CallHook(d, h) ==
  LET c == [deliveries[d].call EXCEPT !.left = @ \ {h}]
  IN /\ CallAt(d, "next") /\ h \in deliveries[d].call.left
     /\ \/ h \in Unaddressed /\ Goes(d, [c EXCEPT !.failed = @ + 1]) /\ UNCHANGED hook
        \/ /\ h \notin Unaddressed /\ Called(h)
           /\ \/ Goes(d, [c EXCEPT !.at = "saveDelivered", !.hook = h, !.delivered = @ + 1])
              \/ Goes(d, [c EXCEPT !.at = "saveError", !.hook = h, !.failed = @ + 1])
     /\ UNCHANGED <<inbox, notice, troubles>>

SaveDelivered(d) ==
  /\ CallAt(d, "saveDelivered")
  /\ hook' = [hook EXCEPT ![deliveries[d].call.hook].lastDeliveryAt = TRUE,
                          ![deliveries[d].call.hook].lastError = FALSE]
  /\ Goes(d, [deliveries[d].call EXCEPT !.at = "next"])
  /\ UNCHANGED <<inbox, notice, troubles>>

\* The save is inside the try: what was delivered is counted as failed too.
SaveDeliveredFails(d) ==
  /\ CallAt(d, "saveDelivered") /\ Trouble("update")
  /\ Goes(d, [deliveries[d].call EXCEPT !.at = "saveError", !.failed = @ + 1])
  /\ UNCHANGED <<inbox, notice, hook>>

SaveError(d) ==
  /\ CallAt(d, "saveError")
  /\ hook' = [hook EXCEPT ![deliveries[d].call.hook].lastError = TRUE]
  /\ Goes(d, [deliveries[d].call EXCEPT !.at = "next"])
  /\ UNCHANGED <<inbox, notice, troubles>>

\* find, or the save inside the catch, rejects: nobody handles it.
UnhandledRejection(d) ==
  /\ (CallAt(d, "find") \/ CallAt(d, "saveError"))
  /\ Trouble("death") /\ Dies(deliveries[d].process)

DispatchEnds(d) ==
  /\ CallAt(d, "next") /\ deliveries[d].call.left = {}
  /\ Goes(d, [deliveries[d].call EXCEPT !.at = "done"])
  /\ UNCHANGED <<inbox, notice, hook, troubles>>

-----------------------------------------------------------------------------
markRead(u) ==
  /\ inbox[u].unread > 0
  /\ inbox' = [inbox EXCEPT ![u].unread = @ - 1]
  /\ UNCHANGED <<notice, deliveries, hook, troubles>>

markAllRead(u) ==
  /\ inbox[u].unread > 1
  /\ inbox' = [inbox EXCEPT ![u].unread = 0]
  /\ UNCHANGED <<notice, deliveries, hook, troubles>>

NoticesNext ==
  \/ CreateRejects \/ LoseLock \/ Stalled
  \/ \E p \in Processes : process(p) \/ \E valid \in BOOLEAN : createForUsers(p, valid)
  \/ \E d \in DOMAIN deliveries :
       \/ InsertFails(d) \/ InsertEnds(d) \/ Complete(d) \/ ApiDies(d)
       \/ FindHooks(d) \/ SaveDelivered(d) \/ SaveDeliveredFails(d) \/ SaveError(d)
       \/ UnhandledRejection(d) \/ DispatchEnds(d)
       \/ \E u \in Users : InsertOne(d, u)
       \/ \E h \in Hooks : CallHook(d, h)
  \/ \E u \in Users : markRead(u) \/ markAllRead(u)

-----------------------------------------------------------------------------
NoticesTypeOK ==
  /\ \A u \in Users : inbox[u].all \in Nat /\ inbox[u].unread \in 0..inbox[u].all
  /\ notice.at \in {"none", "waiting", "active", "completed", "failed"}
  /\ notice.attempts < MaxAttempts /\ notice.stalls <= MaxStalls
  /\ notice.holder \in 0..Len(deliveries)
  /\ \A d \in DOMAIN deliveries :
       /\ deliveries[d].at \in {"storing", "stored", "broken", "over"}
       /\ deliveries[d].left \subseteq Users
       /\ deliveries[d].call # None =>
            /\ deliveries[d].call.at \in {"find", "next", "saveDelivered", "saveError", "done", "dead"}
            /\ deliveries[d].call.left \subseteq Hooks

\* Before any webhook is called and before the job is done everyone has been
\* told, if the schema accepts the notification; if not, nobody ever is, though
\* the webhooks are called and the job completes.  A user is told twice only if
\* an insertion failed, a process died or the job lost its lock, and no more
\* often than that; a webhook is called again only after a death or a lost lock.
\* What one dispatchWebhooks counts exceeds the hooks only by the deliveries that
\* could not be noted.
NoticesAreTrue ==
  /\ (\E d \in DOMAIN deliveries : deliveries[d].call # None) \/ notice.at = "completed" =>
       \A u \in Users : inbox[u].all > 0 <=> notice.valid
  /\ \A u \in Users : inbox[u].all <= 1 + troubles.insert + troubles.death + troubles.lockLost
  /\ \A h \in Hooks : hook[h].calls <= 1 + troubles.death + troubles.lockLost
  /\ \A d \in DOMAIN deliveries : CallAt(d, "done") =>
       LET counted == deliveries[d].call.delivered + deliveries[d].call.failed
       IN Cardinality(Hooks) <= counted /\ counted <= Cardinality(Hooks) + troubles.update
=============================================================================
