---------------------------- MODULE Automations ----------------------------
(***************************************************************************)
(* What an automation trigger sets off: the job in the automation queue,   *)
(* AutomationsService.handleTrigger, and executeAutomation with retries of *)
(* its own inside one attempt of the job.                                  *)
(*                                                                         *)
(* One trigger job is followed.  A step is one awaited call, and any of    *)
(* them may reject.  Whether an automation's conditions match the context  *)
(* of the job is an input.                                                 *)
(***************************************************************************)
EXTENDS Naturals

CONSTANTS
  Automations,   \* the tenant's enabled automations for the trigger
  Actions,       \* the number of actions of each automation
  MaxAttempts,   \* retryPolicy.maxAttempts of each automation, at least 1
  Workers,       \* workers of the automation queue
  Nothing,       \* no worker, no automation
  MaxCrashes     \* the bound on crashes and lost locks

ASSUME AutomationsAssumption ==
  /\ Actions \in [Automations -> Nat]
  /\ MaxAttempts \in [Automations -> Nat \ {0}]
  /\ Nothing \notin Workers \cup Automations
  /\ MaxCrashes \in Nat

VARIABLES
  matching,      \* the automations whose conditions match the context
  job,           \* the trigger job in the queue
  worker,        \* the local state of each worker
  log,           \* the AutomationLog document each worker is at
  past,          \* the documents left behind, equal ones counted once
  saveFailed,    \* history: has the last save of a log failed?
  crashes        \* number of crashes and lost locks so far

automationVars == <<matching, job, worker, log, past, saveFailed, crashes>>

history == <<saveFailed, crashes>>

JobAttempts == 3   \* attempts: 3 of those who add the trigger
MaxStalls   == 1   \* BullMQ's default maxStalledCount

AutomationLogStatus == {"running", "success", "failed", "skipped"}
Ended               == AutomationLogStatus \ {"running"}

\* left: automations this attempt of the job has not begun; attempt and done:
\* where it is in the actions of the one it is at.
Idle == [pc |-> "idle", left |-> {}, attempt |-> 0, done |-> 0]

\* A log's ran is the set of the actions executed for it (history).
NoLog == [automation |-> Nothing, status |-> "none", ran |-> {}]

AutomationsInit ==
  /\ matching \in SUBSET Automations
  /\ job    = [state |-> "waiting", tries |-> 0, stalls |-> 0, holder |-> Nothing]
  /\ worker = [w \in Workers |-> Idle]
  /\ log    = [w \in Workers |-> NoLog]
  /\ past   = {}
  /\ saveFailed = FALSE
  /\ crashes = 0

Go(w, pc) == worker' = [worker EXCEPT ![w].pc = pc]

SaveStatus(w, status) ==
  /\ log' = [log EXCEPT ![w].status = status]
  /\ UNCHANGED past

\* The worker goes on to another document, or to none.
Leave(w, next) ==
  /\ log'  = [log EXCEPT ![w] = next]
  /\ past' = past \cup ({log[w]} \ {NoLog})

-----------------------------------------------------------------------------
(* The queue.                                                              *)

Take(w) ==
  /\ job.state = "waiting" /\ worker[w].pc = "idle"
  /\ job' = [job EXCEPT !.state = "active", !.holder = w]
  /\ Go(w, "find")
  /\ UNCHANGED <<matching, log, past, history>>

\* The processor throws: the job waits for its next attempt, or has failed.
Throw(w) ==
  /\ worker' = [worker EXCEPT ![w] = Idle]
  /\ Leave(w, NoLog)
  /\ job' = IF job.holder # w THEN job
            ELSE [job EXCEPT !.tries = @ + 1, !.holder = Nothing, !.state =
                    IF job.tries + 1 < JobAttempts THEN "waiting" ELSE "failed"]

-----------------------------------------------------------------------------
(* handleTrigger *)

Find(w) ==
  /\ worker[w].pc = "find"
  /\ worker' = [worker EXCEPT ![w].pc = "next", ![w].left = Automations]
  /\ UNCHANGED <<matching, job, log, past, history>>

\* Mutant of Finish: the first automation that fails ends the loop.
Finish_Early(w) ==
  /\ worker[w].pc = "next" /\ (worker[w].left = {} \/ log[w].status = "failed")
  /\ worker' = [worker EXCEPT ![w] = Idle]
  /\ Leave(w, NoLog)
  /\ job' = IF job.holder = w THEN [job EXCEPT !.state = "done", !.holder = Nothing] ELSE job
  /\ UNCHANGED <<matching, history>>

\* Every automation has been dealt with; the job is done if the worker still
\* holds it.
Finish(w) ==
  /\ worker[w].pc = "next" /\ worker[w].left = {}
  /\ worker' = [worker EXCEPT ![w] = Idle]
  /\ Leave(w, NoLog)
  /\ job' = IF job.holder = w THEN [job EXCEPT !.state = "done", !.holder = Nothing] ELSE job
  /\ UNCHANGED <<matching, history>>

-----------------------------------------------------------------------------
(* executeAutomation *)

\* The first step of an attempt: there may be no action at all.
FirstStep(a) == IF Actions[a] = 0 THEN "saveSuccess" ELSE "act"

\* A RUNNING log, for the automations in any order.
CreateLog(w, a) ==
  /\ worker[w].pc = "next" /\ a \in worker[w].left
  /\ Leave(w, [automation |-> a, status |-> "running", ran |-> {}])
  /\ worker' = [worker EXCEPT ![w] =
       [pc |-> IF a \in matching THEN FirstStep(a) ELSE "saveSkipped",
        left |-> @.left \ {a}, attempt |-> 1, done |-> 0]]
  /\ UNCHANGED <<matching, job, history>>

SaveSkipped(w) ==
  /\ worker[w].pc = "saveSkipped"
  /\ SaveStatus(w, "skipped")
  /\ Go(w, "next")
  /\ UNCHANGED <<matching, job, history>>

ExecuteAction(w) ==
  LET k == worker[w].done + 1 IN
  /\ worker[w].pc = "act"
  /\ log'    = [log EXCEPT ![w].ran = @ \cup {k}]
  /\ worker' = [worker EXCEPT ![w].done = k, ![w].pc =
                  IF k = Actions[log[w].automation] THEN "saveSuccess" ELSE "act"]
  /\ UNCHANGED <<matching, job, past, history>>

\* The next attempt starts with the first action again.
AttemptFails(w) ==
  LET a == log[w].automation IN
  IF worker[w].attempt < MaxAttempts[a]
    THEN worker' = [worker EXCEPT ![w].attempt = @ + 1, ![w].done = 0, ![w].pc = FirstStep(a)]
    ELSE Go(w, "saveFailed")

\* Mutant of ActionThrows: the error is caught for each action.
ActionThrows_Continue(w) ==
  LET k == worker[w].done + 1 IN
  /\ worker[w].pc = "act"
  /\ worker' = [worker EXCEPT ![w].done = k, ![w].pc =
                  IF k = Actions[log[w].automation] THEN "saveSuccess" ELSE "act"]
  /\ UNCHANGED <<matching, job, log, past, history>>

ActionThrows(w) ==
  /\ worker[w].pc = "act"
  /\ AttemptFails(w)
  /\ UNCHANGED <<matching, job, log, past, history>>

SaveSuccess(w) ==
  /\ worker[w].pc = "saveSuccess"
  /\ \/ SaveStatus(w, "success") /\ Go(w, "notify")
     \/ AttemptFails(w) /\ UNCHANGED <<log, past>>
  /\ UNCHANGED <<matching, job, history>>

\* A notification that rejects is one more failed attempt.
Notify(w) ==
  /\ worker[w].pc = "notify"
  /\ Go(w, "next") \/ AttemptFails(w)
  /\ UNCHANGED <<matching, job, log, past, history>>

\* Mutants of SaveFailed: the job is rejected instead; the message of the last
\* error is stored as the status.
SaveFailed_Rethrow(w) ==
  /\ worker[w].pc = "saveFailed"
  /\ Throw(w)
  /\ UNCHANGED <<matching, history>>
SaveFailed_Error(w) ==
  /\ worker[w].pc = "saveFailed"
  /\ SaveStatus(w, "error")
  /\ Go(w, "next")
  /\ UNCHANGED <<matching, job, history>>

SaveFailed(w) ==
  /\ worker[w].pc = "saveFailed"
  /\ SaveStatus(w, "failed")
  /\ Go(w, "next")
  /\ UNCHANGED <<matching, job, history>>

-----------------------------------------------------------------------------
(* Failures *)

\* A call outside the try block rejects.
CallRejects(w) ==
  /\ \/ worker[w].pc = "find" \/ (worker[w].pc = "next" /\ worker[w].left # {})
     \/ worker[w].pc \in {"saveSkipped", "saveFailed"}
  /\ Throw(w)
  /\ saveFailed' = (saveFailed \/ worker[w].pc \in {"saveSkipped", "saveFailed"})
  /\ UNCHANGED <<matching, crashes>>

Crash(w) ==
  /\ crashes < MaxCrashes /\ crashes' = crashes + 1
  /\ worker[w].pc # "idle"
  /\ worker' = [worker EXCEPT ![w] = Idle]
  /\ job' = IF job.holder = w THEN [job EXCEPT !.holder = Nothing] ELSE job
  /\ Leave(w, NoLog)
  /\ UNCHANGED <<matching, saveFailed>>

\* A slow worker's lock expires while it works on.
LoseLock ==
  /\ crashes < MaxCrashes /\ crashes' = crashes + 1
  /\ job.holder # Nothing
  /\ job' = [job EXCEPT !.holder = Nothing]
  /\ UNCHANGED <<matching, worker, log, past, saveFailed>>

\* The queue's check for stalled jobs.
Stalled ==
  /\ job.state = "active" /\ job.holder = Nothing
  /\ job' = IF job.stalls < MaxStalls
              THEN [job EXCEPT !.state = "waiting", !.stalls = @ + 1]
              ELSE [job EXCEPT !.state = "failed"]
  /\ UNCHANGED <<matching, worker, log, past, history>>

-----------------------------------------------------------------------------
Step(w) ==
  \/ Find(w) \/ (\E a \in Automations : CreateLog(w, a)) \/ Finish(w)
  \/ SaveSkipped(w) \/ ExecuteAction(w) \/ ActionThrows(w)
  \/ SaveSuccess(w) \/ Notify(w) \/ SaveFailed(w)

AutomationsNext ==
  \/ \E w \in Workers : Take(w) \/ Step(w) \/ CallRejects(w) \/ Crash(w)
  \/ LoseLock \/ Stalled

AutomationsSpec == AutomationsInit /\ [][AutomationsNext]_automationVars

\* Workers are polled, awaited calls settle, the stalled check is a timer.
Fairness ==
  /\ WF_automationVars(\E w \in Workers : Take(w))
  /\ \A w \in Workers : WF_automationVars(Step(w))
  /\ WF_automationVars(Stalled)

FairSpec == AutomationsSpec /\ Fairness

-----------------------------------------------------------------------------
Log == [automation : Automations, status : AutomationLogStatus, ran : SUBSET Nat]

JobType == [state : {"waiting", "active", "done", "failed"}, tries : 0..JobAttempts,
            stalls : 0..MaxStalls, holder : Workers \cup {Nothing}]
Steps == {"idle", "find", "next", "saveSkipped", "act", "saveSuccess", "notify", "saveFailed"}
WorkerType == [pc : Steps, left : SUBSET Automations, attempt : Nat, done : Nat]

\* Type invariant.
AutomationsTypeOK ==
  /\ matching \in SUBSET Automations
  /\ job      \in JobType
  /\ worker   \in [Workers -> WorkerType]
  /\ log      \in [Workers -> Log \cup {NoLog}]
  /\ past     \in SUBSET Log
  /\ saveFailed \in BOOLEAN
  /\ crashes  \in Nat

Logs == past \cup {log[w] : w \in Workers}

\* A log that says SUCCESS has executed all actions of its automation, however
\* many attempts it took and whoever else processes the job.
SuccessIsComplete ==
  \A l \in Logs : l.status = "success" => l.ran = 1..Actions[l.automation]

\* A job that is done has a log of its outcome for every automation: SKIPPED if
\* the conditions did not match, otherwise SUCCESS or FAILED - also if earlier
\* attempts were given up or another worker still runs them.
DoneIsLogged ==
  job.state = "done" =>
    \A a \in Automations : \E l \in Logs :
      /\ l.automation = a
      /\ l.status \in IF a \in matching THEN {"success", "failed"} ELSE {"skipped"}

\* What the logs say of a trigger is true and nothing is missing.
LogsAreTrue == SuccessIsComplete /\ DoneIsLogged

\* No log stays RUNNING, unless its worker dies or its last save fails.
LogsEnd ==
  \A a \in Automations :
    (\E l \in Logs : l.automation = a /\ l.status = "running")
      ~> \/ \A l \in Logs : l.automation = a => l.status \in Ended
         \/ saveFailed \/ crashes > 0
=============================================================================
