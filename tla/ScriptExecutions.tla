-------------------------- MODULE ScriptExecutions --------------------------
(***************************************************************************)
(* One script run from the HTTP request that creates it to the result the  *)
(* agent reports: ScriptExecutionsService (the API), its BullMQ queue and  *)
(* worker, the AgentCommand documents the agents poll, and the agent loop. *)
(*                                                                         *)
(* An action is one awaited database or queue operation of one handler, so *)
(* two handlers interleave wherever the code awaits.  A document's save()  *)
(* writes the assigned fields whatever the stored ones are (Mongoose keeps *)
(* no optimistic lock here).                                               *)
(***************************************************************************)
EXTENDS Naturals, Sequences, FiniteSets

CONSTANTS
  Executions,    \* identifiers of ScriptExecution documents
  Devices,       \* devices, each with at most one Agent document
  Target,        \* the device of each execution (deviceId is never updated)
  Workers,       \* processing slots: BullMQ workers, or requests if no queue
  Pulls,         \* handlers of commands/pull that may run at the same time
  Reports,       \* handlers of report that may run at the same time
  None,          \* no worker, no execution, no device
  QueueModes,    \* whether queues are enabled, in the deployments considered
  PullLimit,     \* the .limit(10) of pullAgentCommands
  Faults,        \* the kinds of fault that may happen
  MaxFaults      \* the bound on the number of faults

FaultKinds == {"enqueueLost", "attemptFails", "workerCrash", "lockLost", "pollOverlap",
               "pullLost", "reportLost", "reportDies", "agentRestart"}

ASSUME ConstantsAssumption ==
  /\ Target \in [Executions -> Devices]
  /\ None \notin Workers \cup Executions \cup Devices
  /\ QueueModes \subseteq BOOLEAN
  /\ PullLimit \in Nat \ {0}
  /\ Faults \subseteq FaultKinds
  /\ MaxFaults \in Nat

MaxAttempts == 3          \* attempts: 3 of enqueueExecution
MaxStalls   == 1          \* BullMQ's default maxStalledCount

VARIABLES
  status,      \* ScriptExecution.status; "none" before the document exists
  finished,    \* is ScriptExecution.finishedAt set?
  result,      \* what ScriptExecution.result holds
  request,     \* how far runOnDevice got for each execution
  job,         \* the BullMQ job of each execution
  worker,      \* the local state of processExecutionJob in each slot
  commands,    \* AgentCommand documents in the order of createdAt
  registered,  \* devices with an Agent document
  running,     \* the agents' runningExecutions sets
  pull,        \* the local state of each pullAgentCommands handler
  report,      \* the local state of each reportResult handler
  triggers,    \* script_failed jobs added to the automation queue
  outcomes,    \* history: the outcomes agents obtained
  starts,      \* history: how often an agent began to run the script
  queueEnabled,\* queuesEnabled: does this deployment inject the queues?
  faults,      \* number of faults so far
  happened     \* the kinds of fault so far

execVars  == <<status, finished, result>>
agentVars == <<running, outcomes, starts>>
faultVars == <<faults, happened>>
vars == <<status, finished, result, request, job, worker, commands, registered,
          running, pull, report, triggers, outcomes, starts, queueEnabled, faults, happened>>

ExecutionStatus == {"queued", "running", "success", "failed"}
Terminal        == {"success", "failed"}
CommandStatus   == {"pending", "dispatched", "completed", "failed"}
OpenCommand     == {"pending", "dispatched"}

Fault(kind) ==
  /\ kind \in Faults
  /\ faults < MaxFaults
  /\ faults'   = faults + 1
  /\ happened' = happened \cup {kind}

IdleWorker == [pc |-> "idle", exec |-> None]
IdlePull   == [pc |-> "idle", device |-> None, batch |-> {}, client |-> FALSE]
IdleReport == [pc |-> "idle", exec |-> None, outcome |-> "success", client |-> FALSE]

Init ==
  /\ status   = [e \in Executions |-> "none"]
  /\ finished = [e \in Executions |-> FALSE]
  /\ result   = [e \in Executions |-> "none"]
  /\ request  = [e \in Executions |-> "none"]
  /\ job      = [e \in Executions |->
                   [state |-> "absent", failures |-> 0, stalls |-> 0, holder |-> None]]
  /\ worker   = [w \in Workers |-> IdleWorker]
  /\ commands = <<>>
  /\ registered \in SUBSET Devices
  /\ running  = {}
  /\ pull     = [p \in Pulls |-> IdlePull]
  /\ report   = [r \in Reports |-> IdleReport]
  /\ triggers = [e \in Executions |-> 0]
  /\ outcomes = [e \in Executions |-> {}]
  /\ starts   = [e \in Executions |-> 0]
  /\ queueEnabled \in QueueModes
  /\ faults   = 0
  /\ happened = {}

-----------------------------------------------------------------------------
(* runOnDevice: create the document, then hand it to the queue, or process *)
(* it in the request itself when there is no queue.                        *)

CreateExecution(e) ==
  /\ request[e] = "none"
  /\ request'  = [request EXCEPT ![e] = "created"]
  /\ status'   = [status EXCEPT ![e] = "queued"]
  /\ result'   = [result EXCEPT ![e] = "parameters"]
  /\ UNCHANGED <<finished, job, worker, commands, registered, agentVars, pull,
                 report, triggers, queueEnabled, faultVars>>

\* Mutant of EnqueueExecution: the job is not added.
EnqueueExecution_Dropped(e) ==
  /\ queueEnabled
  /\ request[e] = "created"
  /\ request' = [request EXCEPT ![e] = "handedOver"]
  /\ UNCHANGED <<execVars, job, worker, commands, registered, agentVars, pull,
                 report, triggers, queueEnabled, faultVars>>

EnqueueExecution(e) ==
  /\ queueEnabled
  /\ request[e] = "created"
  /\ request' = [request EXCEPT ![e] = "handedOver"]
  /\ job'     = [job EXCEPT ![e].state = "waiting"]
  /\ UNCHANGED <<execVars, worker, commands, registered, agentVars, pull,
                 report, triggers, queueEnabled, faultVars>>

\* queue.add fails or the API dies after create: the document stays QUEUED.
EnqueueLost(e) ==
  /\ request[e] = "created"
  /\ Fault("enqueueLost")
  /\ request' = [request EXCEPT ![e] = "lost"]
  /\ UNCHANGED <<execVars, job, worker, commands, registered, agentVars, pull,
                 report, triggers, queueEnabled>>

\* Without a queue the request calls processExecutionJob, which loads the
\* document it has just created.
ProcessInline(w, e) ==
  /\ ~queueEnabled
  /\ request[e] = "created"
  /\ worker[w].pc = "idle"
  /\ request' = [request EXCEPT ![e] = "handedOver"]
  /\ worker'  = [worker EXCEPT ![w] =
                   IF status[e] = "queued" THEN [pc |-> "loaded", exec |-> e] ELSE IdleWorker]
  /\ UNCHANGED <<execVars, job, commands, registered, agentVars, pull, report,
                 triggers, queueEnabled, faultVars>>

-----------------------------------------------------------------------------
(* processExecutionJob in a worker.  job[e].holder is the worker whose lock *)
(* BullMQ honours: a worker that lost its lock still runs to the end, but   *)
(* what it says about the job is ignored.                                   *)

Holds(w, e) == job[e].state = "active" /\ job[e].holder = w

\* What becomes of the job when the attempt of worker w ends well.
JobAfter(w, e) ==
  IF Holds(w, e) THEN [job EXCEPT ![e].state = "done", ![e].holder = None] ELSE job

\* Mutant of JobAfterFailure: the error is swallowed.
JobAfterFailure_Swallowed(w, e) == JobAfter(w, e)
\* ... and when it throws: another attempt while there are some left.
JobAfterFailure(w, e) ==
  IF ~Holds(w, e) THEN job
  ELSE [job EXCEPT ![e] =
          [state    |-> IF job[e].failures + 1 < MaxAttempts THEN "waiting" ELSE "failed",
           failures |-> job[e].failures + 1, stalls |-> job[e].stalls, holder |-> None]]

\* Mutant of TakeJob: no early return for a status other than QUEUED.
TakeJob_Unchecked(w, e) ==
  /\ worker[w].pc = "idle"
  /\ job[e].state = "waiting"
  /\ worker' = [worker EXCEPT ![w] = [pc |-> "loaded", exec |-> e]]
  /\ job'    = [job EXCEPT ![e].state = "active", ![e].holder = w]
  /\ UNCHANGED <<execVars, request, commands, registered, agentVars, pull,
                 report, triggers, queueEnabled, faultVars>>

\* The worker takes the job and loads the document; not QUEUED means no work.
TakeJob(w, e) ==
  /\ worker[w].pc = "idle"
  /\ job[e].state = "waiting"
  /\ IF status[e] = "queued"
       THEN /\ worker' = [worker EXCEPT ![w] = [pc |-> "loaded", exec |-> e]]
            /\ job'    = [job EXCEPT ![e].state = "active", ![e].holder = w]
       ELSE /\ job'    = [job EXCEPT ![e].state = "done"]
            /\ UNCHANGED worker
  /\ UNCHANGED <<execVars, request, commands, registered, agentVars, pull,
                 report, triggers, queueEnabled, faultVars>>

SaveRunning(w) ==
  /\ worker[w].pc = "loaded"
  /\ status' = [status EXCEPT ![worker[w].exec] = "running"]
  /\ worker' = [worker EXCEPT ![w].pc = "started"]
  /\ UNCHANGED <<finished, result, request, job, commands, registered,
                 agentVars, pull, report, triggers, queueEnabled, faultVars>>

FindAgent(w) ==
  /\ worker[w].pc = "started"
  /\ worker' = [worker EXCEPT ![w].pc =
                  IF Target[worker[w].exec] \in registered THEN "agentFound" ELSE "noAgent"]
  /\ UNCHANGED <<execVars, request, job, commands, registered, agentVars, pull,
                 report, triggers, queueEnabled, faultVars>>

\* Mutant of SaveAgentNotFound: no return after the failed status is saved.
SaveAgentNotFound_NoReturn(w) ==
  LET e == worker[w].exec IN
  /\ worker[w].pc = "noAgent"
  /\ status'   = [status EXCEPT ![e] = "failed"]
  /\ finished' = [finished EXCEPT ![e] = TRUE]
  /\ result'   = [result EXCEPT ![e] = "agent_not_found"]
  /\ worker'   = [worker EXCEPT ![w].pc = "agentFound"]
  /\ UNCHANGED <<request, job, commands, registered, agentVars, pull, report,
                 triggers, queueEnabled, faultVars>>

SaveAgentNotFound(w) ==
  LET e == worker[w].exec IN
  /\ worker[w].pc = "noAgent"
  /\ status'   = [status EXCEPT ![e] = "failed"]
  /\ finished' = [finished EXCEPT ![e] = TRUE]
  /\ result'   = [result EXCEPT ![e] = "agent_not_found"]
  /\ worker'   = [worker EXCEPT ![w].pc = "ended"]
  /\ UNCHANGED <<request, job, commands, registered, agentVars, pull, report,
                 triggers, queueEnabled, faultVars>>

CreateCommand(w) ==
  /\ worker[w].pc = "agentFound"
  /\ commands' = Append(commands, [exec |-> worker[w].exec, status |-> "pending"])
  /\ worker'   = [worker EXCEPT ![w].pc = "ended"]
  /\ UNCHANGED <<execVars, request, job, registered, agentVars, pull, report,
                 triggers, queueEnabled, faultVars>>

FinishJob(w) ==
  /\ worker[w].pc = "ended"
  /\ worker' = [worker EXCEPT ![w] = IdleWorker]
  /\ job'    = JobAfter(w, worker[w].exec)
  /\ UNCHANGED <<execVars, request, commands, registered, agentVars, pull,
                 report, triggers, queueEnabled, faultVars>>

\* An awaited call of the attempt rejects.
AttemptFails(w) ==
  /\ worker[w].pc # "idle"
  /\ Fault("attemptFails")
  /\ worker' = [worker EXCEPT ![w] = IdleWorker]
  /\ job'    = JobAfterFailure(w, worker[w].exec)
  /\ UNCHANGED <<execVars, request, commands, registered, agentVars, pull,
                 report, triggers, queueEnabled>>

\* The process dies: the job stays active until the queue finds it stalled.
WorkerCrash(w) ==
  /\ worker[w].pc # "idle"
  /\ Fault("workerCrash")
  /\ worker' = [worker EXCEPT ![w] = IdleWorker]
  /\ UNCHANGED <<execVars, request, job, commands, registered, agentVars, pull,
                 report, triggers, queueEnabled>>

AbandonedBy(w, e) == ~(worker[w].pc # "idle" /\ worker[w].exec = e)

\* The queue moves an active job whose lock expired back to waiting, once.
RequeueStalled(e) ==
  job' = [job EXCEPT ![e] =
            [state    |-> IF job[e].stalls + 1 > MaxStalls THEN "failed" ELSE "waiting",
             failures |-> job[e].failures, stalls |-> job[e].stalls + 1, holder |-> None]]

StalledAfterCrash(e) ==
  /\ job[e].state = "active"
  /\ AbandonedBy(job[e].holder, e)
  /\ RequeueStalled(e)
  /\ UNCHANGED <<execVars, request, worker, commands, registered, agentVars,
                 pull, report, triggers, queueEnabled, faultVars>>

\* The lock of a worker that is still running expires.
LockLost(e) ==
  /\ job[e].state = "active"
  /\ ~AbandonedBy(job[e].holder, e)
  /\ Fault("lockLost")
  /\ RequeueStalled(e)
  /\ UNCHANGED <<execVars, request, worker, commands, registered, agentVars,
                 pull, report, triggers, queueEnabled>>

-----------------------------------------------------------------------------
(* The agent registers once; registering again keeps the document.         *)

RegisterAgent(d) ==
  /\ d \notin registered
  /\ registered' = registered \cup {d}
  /\ UNCHANGED <<execVars, request, job, worker, commands, agentVars, pull,
                 report, triggers, queueEnabled, faultVars>>

-----------------------------------------------------------------------------
(* pullAgentCommands and the agent loop that calls it on a timer, whether   *)
(* or not the previous poll has been answered.                              *)

PendingOf(d) == {i \in 1..Len(commands) :
                   commands[i].status = "pending" /\ Target[commands[i].exec] = d}

\* sort({createdAt: 1}).limit(10)
Oldest(S) == {i \in S : Cardinality({j \in S : j < i}) < PullLimit}

\* A poll of the agent that is not answered yet.
Polling(d) == \E p \in Pulls : pull[p].client /\ pull[p].device = d

PullFind(p, d) ==
  /\ pull[p].pc = "idle"
  /\ d \in registered
  /\ PendingOf(d) # {}
  /\ pull' = [pull EXCEPT ![p] =
                [pc |-> "found", device |-> d, batch |-> Oldest(PendingOf(d)), client |-> TRUE]]
  /\ IF Polling(d) THEN Fault("pollOverlap") ELSE UNCHANGED faultVars
  /\ UNCHANGED <<execVars, request, job, worker, commands, registered,
                 agentVars, report, triggers, queueEnabled>>

\* Mutant of PullMark: the commands found are not marked DISPATCHED.
PullMark_Unmarked(p) ==
  /\ pull[p].pc = "found"
  /\ pull' = [pull EXCEPT ![p].pc = "marked"]
  /\ UNCHANGED <<execVars, request, job, worker, commands, registered,
                 agentVars, report, triggers, queueEnabled, faultVars>>

\* updateMany selects by _id only, whatever the status has become.
PullMark(p) ==
  /\ pull[p].pc = "found"
  /\ commands' = [i \in 1..Len(commands) |->
                    IF i \in pull[p].batch
                      THEN [commands[i] EXCEPT !.status = "dispatched"] ELSE commands[i]]
  /\ pull' = [pull EXCEPT ![p].pc = "marked"]
  /\ UNCHANGED <<execVars, request, job, worker, registered, agentVars, report,
                 triggers, queueEnabled, faultVars>>

\* processCommand skips what the agent is already running.
FreshRuns(p) == {commands[i].exec : i \in pull[p].batch} \ running

PullAnswered(p) ==
  /\ pull[p].pc = "marked"
  /\ IF pull[p].client
       THEN /\ running' = running \cup FreshRuns(p)
            /\ starts'  = [e \in Executions |->
                             IF e \in FreshRuns(p) THEN starts[e] + 1 ELSE starts[e]]
       ELSE UNCHANGED <<running, starts>>
  /\ pull' = [pull EXCEPT ![p] = IdlePull]
  /\ UNCHANGED <<execVars, request, job, worker, commands, registered, report,
                 triggers, outcomes, queueEnabled, faultVars>>

\* updateMany fails, or the answer never reaches the agent.
PullLost(p) ==
  /\ pull[p].pc # "idle"
  /\ Fault("pullLost")
  /\ pull' = [pull EXCEPT ![p] = IdlePull]
  /\ UNCHANGED <<execVars, request, job, worker, commands, registered,
                 agentVars, report, triggers, queueEnabled>>

\* The connection breaks while the handler goes on.
PullDisconnected(p) ==
  /\ pull[p].client
  /\ Fault("pullLost")
  /\ pull' = [pull EXCEPT ![p].client = FALSE]
  /\ UNCHANGED <<execVars, request, job, worker, commands, registered,
                 agentVars, report, triggers, queueEnabled>>

\* A restarted agent forgets its runs; the handlers it called go on.
AgentRestart(d) ==
  /\ d \in registered
  /\ Fault("agentRestart")
  /\ running' = {e \in running : Target[e] # d}
  /\ pull'    = [p \in Pulls |-> IF pull[p].device = d
                                   THEN [pull[p] EXCEPT !.client = FALSE] ELSE pull[p]]
  /\ report'  = [r \in Reports |-> IF report[r].client /\ Target[report[r].exec] = d
                                     THEN [report[r] EXCEPT !.client = FALSE] ELSE report[r]]
  /\ UNCHANGED <<execVars, request, job, worker, commands, registered,
                 triggers, outcomes, starts, queueEnabled>>

-----------------------------------------------------------------------------
(* reportResult and the end of processCommand.                             *)

\* The agent runs e and has not sent its result yet.
Executing(e) == e \in running /\ ~\E r \in Reports : report[r].client /\ report[r].exec = e

\* What the agent's finally block leaves in runningExecutions.
RunningAfter(r) == IF report[r].client THEN running \ {report[r].exec} ELSE running

\* Mutant of ReportFind: no early answer for an execution that is final.
ReportFind_Unchecked(r, e, outcome) ==
  /\ report[r].pc = "idle"
  /\ Executing(e)
  /\ outcomes' = [outcomes EXCEPT ![e] = @ \cup {outcome}]
  /\ report' = [report EXCEPT ![r] =
                  [pc |-> "found", exec |-> e, outcome |-> outcome, client |-> TRUE]]
  /\ UNCHANGED <<execVars, request, job, worker, commands, registered, running,
                 pull, triggers, starts, queueEnabled, faultVars>>

\* The agent ends the run and sends the outcome; the handler loads the
\* document and answers at once if it is already final.
ReportFind(r, e, outcome) ==
  /\ report[r].pc = "idle"
  /\ Executing(e)
  /\ outcomes' = [outcomes EXCEPT ![e] = @ \cup {outcome}]
  /\ IF status[e] \in Terminal
       THEN /\ running' = running \ {e}
            /\ UNCHANGED report
       ELSE /\ report' = [report EXCEPT ![r] =
                            [pc |-> "found", exec |-> e, outcome |-> outcome, client |-> TRUE]]
            /\ UNCHANGED running
  /\ UNCHANGED <<execVars, request, job, worker, commands, registered, pull,
                 triggers, starts, queueEnabled, faultVars>>

ReportSave(r) ==
  LET e == report[r].exec IN
  /\ report[r].pc = "found"
  /\ status'   = [status EXCEPT ![e] = report[r].outcome]
  /\ finished' = [finished EXCEPT ![e] = TRUE]
  /\ result'   = [result EXCEPT ![e] = "reported"]
  /\ report'   = [report EXCEPT ![r].pc = "saved"]
  /\ UNCHANGED <<request, job, worker, commands, registered, agentVars, pull,
                 triggers, queueEnabled, faultVars>>

\* Mutants of CloseCommands: the execution's status instead of the command's;
\* dispatched commands left out.
CloseCommands_ExecutionStatus(e, outcome) ==
  [i \in 1..Len(commands) |->
     IF commands[i].exec = e /\ commands[i].status \in OpenCommand
       THEN [commands[i] EXCEPT !.status = outcome] ELSE commands[i]]
CloseCommands_PendingOnly(e, outcome) ==
  [i \in 1..Len(commands) |->
     IF commands[i].exec = e /\ commands[i].status = "pending"
       THEN [commands[i] EXCEPT !.status = IF outcome = "success" THEN "completed" ELSE "failed"]
       ELSE commands[i]]

CloseCommands(e, outcome) ==
  [i \in 1..Len(commands) |->
     IF commands[i].exec = e /\ commands[i].status \in OpenCommand
       THEN [commands[i] EXCEPT !.status = IF outcome = "success" THEN "completed" ELSE "failed"]
       ELSE commands[i]]

ReportCommands(r) ==
  /\ report[r].pc = "saved"
  /\ commands' = CloseCommands(report[r].exec, report[r].outcome)
  /\ report'   = [report EXCEPT ![r].pc = "closed"]
  /\ UNCHANGED <<execVars, request, job, worker, registered, agentVars, pull,
                 triggers, queueEnabled, faultVars>>

\* Mutant of ReportAnswer: script_failed whatever the outcome.
ReportAnswer_AnyOutcome(r) ==
  /\ report[r].pc = "closed"
  /\ triggers' = IF queueEnabled THEN [triggers EXCEPT ![report[r].exec] = @ + 1] ELSE triggers
  /\ running'  = RunningAfter(r)
  /\ report'   = [report EXCEPT ![r] = IdleReport]
  /\ UNCHANGED <<execVars, request, job, worker, commands, registered, pull,
                 outcomes, starts, queueEnabled, faultVars>>

\* Notify and add script_failed for a failed run (if there is an automation
\* queue), then answer the agent.
ReportAnswer(r) ==
  /\ report[r].pc = "closed"
  /\ triggers' = IF report[r].outcome = "failed" /\ queueEnabled
                   THEN [triggers EXCEPT ![report[r].exec] = @ + 1] ELSE triggers
  /\ running'  = RunningAfter(r)
  /\ report'   = [report EXCEPT ![r] = IdleReport]
  /\ UNCHANGED <<execVars, request, job, worker, commands, registered, pull,
                 outcomes, starts, queueEnabled, faultVars>>

\* The request does not reach the API: the agent logs it and forgets the run.
ReportLost(e, outcome) ==
  /\ Executing(e)
  /\ Fault("reportLost")
  /\ outcomes' = [outcomes EXCEPT ![e] = @ \cup {outcome}]
  /\ running'  = running \ {e}
  /\ UNCHANGED <<execVars, request, job, worker, commands, registered, pull,
                 report, triggers, starts, queueEnabled>>

\* The connection breaks while the handler goes on.
ReportDisconnected(r) ==
  /\ report[r].client
  /\ Fault("reportLost")
  /\ running' = RunningAfter(r)
  /\ report'  = [report EXCEPT ![r].client = FALSE]
  /\ UNCHANGED <<execVars, request, job, worker, commands, registered, pull,
                 triggers, outcomes, starts, queueEnabled>>

\* An awaited call of the handler rejects, or the API dies.
ReportDies(r) ==
  /\ report[r].pc # "idle"
  /\ Fault("reportDies")
  /\ running' = RunningAfter(r)
  /\ report'  = [report EXCEPT ![r] = IdleReport]
  /\ UNCHANGED <<execVars, request, job, worker, commands, registered, pull,
                 triggers, outcomes, starts, queueEnabled>>

-----------------------------------------------------------------------------
RequestNext == \E e \in Executions :
  CreateExecution(e) \/ EnqueueExecution(e) \/ EnqueueLost(e)

QueueNext == \E e \in Executions : StalledAfterCrash(e) \/ LockLost(e)

WorkerNext == \E w \in Workers :
  \/ \E e \in Executions : TakeJob(w, e) \/ ProcessInline(w, e)
  \/ SaveRunning(w) \/ FindAgent(w) \/ SaveAgentNotFound(w) \/ CreateCommand(w)
  \/ FinishJob(w) \/ AttemptFails(w) \/ WorkerCrash(w)

AgentNext == \E d \in Devices : RegisterAgent(d) \/ AgentRestart(d)

PullNext == \E p \in Pulls :
  \/ \E d \in Devices : PullFind(p, d)
  \/ PullMark(p) \/ PullAnswered(p) \/ PullLost(p) \/ PullDisconnected(p)

ReportNext ==
  \/ \E r \in Reports, e \in Executions, o \in Terminal : ReportFind(r, e, o)
  \/ \E r \in Reports : ReportSave(r) \/ ReportCommands(r) \/ ReportAnswer(r)
                          \/ ReportDisconnected(r) \/ ReportDies(r)
  \/ \E e \in Executions, o \in Terminal : ReportLost(e, o)

Next == RequestNext \/ QueueNext \/ WorkerNext \/ AgentNext \/ PullNext \/ ReportNext

Spec == Init /\ [][Next]_vars

(* Fairness.  A handler that has been called goes on; BullMQ gives waiting *)
(* jobs to workers and finds stalled ones; the agent polls on a timer and  *)
(* ends every run.  Nothing makes a client create executions or an         *)
(* operator register agents, and faults are never obliged to happen.       *)
Fairness ==
  /\ \A e \in Executions :
       /\ WF_vars(EnqueueExecution(e))
       /\ WF_vars(\E w \in Workers : TakeJob(w, e) \/ ProcessInline(w, e))
       /\ WF_vars(StalledAfterCrash(e))
       /\ WF_vars(\E r \in Reports, o \in Terminal : ReportFind(r, e, o))
  /\ \A w \in Workers :
       WF_vars(SaveRunning(w) \/ FindAgent(w) \/ SaveAgentNotFound(w)
                 \/ CreateCommand(w) \/ FinishJob(w))
  /\ \A d \in Devices : WF_vars(\E p \in Pulls : PullFind(p, d) /\ UNCHANGED faultVars)
  /\ \A p \in Pulls : WF_vars(PullMark(p) \/ PullAnswered(p))
  /\ \A r \in Reports : WF_vars(ReportSave(r) \/ ReportCommands(r) \/ ReportAnswer(r))

FairSpec == Spec /\ Fairness

-----------------------------------------------------------------------------
Command == [exec : Executions, status : CommandStatus]

StatusType   == [Executions -> ExecutionStatus \cup {"none"}]
ResultType   == [Executions -> {"none", "parameters", "agent_not_found", "reported"}]
RequestType  == [Executions -> {"none", "created", "handedOver", "lost"}]
JobType      == [Executions -> [state : {"absent", "waiting", "active", "done", "failed"},
                                failures : Nat, stalls : Nat, holder : Workers \cup {None}]]
WorkerType   == [Workers -> [pc : {"idle", "loaded", "started", "agentFound", "noAgent", "ended"},
                             exec : Executions \cup {None}]]
PullType     == [Pulls -> [pc : {"idle", "found", "marked"}, device : Devices \cup {None},
                           batch : SUBSET Nat, client : BOOLEAN]]
ReportType   == [Reports -> [pc : {"idle", "found", "saved", "closed"},
                             exec : Executions \cup {None}, outcome : Terminal,
                             client : BOOLEAN]]
OutcomesType == [Executions -> SUBSET Terminal]

\* Type invariant.
TypeOK ==
  /\ status     \in StatusType
  /\ finished   \in [Executions -> BOOLEAN]
  /\ result     \in ResultType
  /\ request    \in RequestType
  /\ job        \in JobType
  /\ worker     \in WorkerType
  /\ commands   \in Seq(Command)
  /\ registered \in SUBSET Devices
  /\ running    \in SUBSET Executions
  /\ pull       \in PullType
  /\ report     \in ReportType
  /\ triggers   \in [Executions -> Nat]
  /\ outcomes   \in OutcomesType
  /\ starts     \in [Executions -> Nat]
  /\ queueEnabled \in BOOLEAN
  /\ faults     \in Nat
  /\ happened   \in SUBSET Faults

HasCommand(e) == \E i \in 1..Len(commands) : commands[i].exec = e
Reported(e)   == \E r \in Reports : report[r].pc # "idle" /\ report[r].exec = e
Without(kinds) == happened \cap kinds = {}

\* No command reaches an agent for an execution that a worker has not taken
\* out of the queue (processExecutionJob saves RUNNING before it creates one),
\* whatever fails, crashes or is processed twice.
CommandImpliesStarted ==
  \A i \in 1..Len(commands) : status[commands[i].exec] \in {"running"} \cup Terminal

\* A final status is never invented: SUCCESS and FAILED repeat an outcome that
\* an agent obtained for this execution, or FAILED says that the device had no
\* agent - also when reports race, workers run twice and agents restart.
NoInventedResult ==
  \A e \in Executions :
    /\ status[e] = "success" => "success" \in outcomes[e]
    /\ status[e] = "failed"  => "failed" \in outcomes[e] \/ result[e] = "agent_not_found"

\* The queue never counts a job as done while its execution still waits as
\* QUEUED: the early return for a status other than QUEUED, the three attempts
\* and the requeueing of stalled jobs leave no way to lose it silently.
JobConsumedMeansStarted ==
  \A e \in Executions : job[e].state = "done" => status[e] # "queued"

\* The attempts of one job create at most one command for the agent: a retry
\* or a requeued job finds the execution no longer QUEUED and stops.  (It needs
\* the lock: a job requeued while its worker still runs is processed twice.)
AtMostOneCommand ==
  Without({"lockLost"}) =>
    \A i, j \in 1..Len(commands) : commands[i].exec = commands[j].exec => i = j

\* A report is answered before the agent runs the same execution again.
OneReportAtATime == Without({"lockLost", "reportLost", "agentRestart"})

\* A final execution is never changed again, although reportResult and
\* processExecutionJob both read the status in one step and save it in another.
TerminalIsFinal ==
  [][\A e \in Executions : OneReportAtATime /\ status[e] \in Terminal =>
       status'[e] = status[e] /\ finished'[e] = finished[e] /\ result'[e] = result[e]]_vars

\* finishedAt and result are there exactly when the status is final: no saved
\* mixture of two handlers (such as RUNNING with a finishedAt) is left.
FinalDocumentIsWhole ==
  Without({"lockLost"}) =>
    \A e \in Executions :
      status[e] \in Terminal <=> finished[e] /\ result[e] \in {"reported", "agent_not_found"}

\* With polls that do not overlap the script of an execution is run at most
\* once, through lost answers, lost reports and agent restarts.
AtMostOneRun ==
  Without({"lockLost", "pollOverlap"}) => \A e \in Executions : starts[e] <= 1

\* Once an execution is final and its report has been dealt with, no command
\* of it is left for, or with, the agent.
SettledCommands ==
  Without({"lockLost", "pollOverlap", "pullLost", "reportDies", "agentRestart"}) =>
    \A i \in 1..Len(commands) :
      status[commands[i].exec] \in Terminal /\ ~Reported(commands[i].exec)
        => commands[i].status \notin OpenCommand

\* A failure reported by the agent raises script_failed once, and only then.
FailureAnnouncedOnce ==
  Without({"lockLost", "pollOverlap", "reportDies"}) /\ queueEnabled =>
    \A e \in Executions :
      LET announceable == status[e] = "failed" /\ result[e] = "reported" IN
      /\ triggers[e] <= 1
      /\ triggers[e] = 1 => announceable
      /\ announceable /\ ~Reported(e) => triggers[e] = 1

\* A report is followed up: both of the above, which one save, one update and
\* one notification of reportResult have to bring about together.
ReportsAreFollowedUp == SettledCommands /\ FailureAnnouncedOnce

\* Every execution created comes to an end when nothing fails, even if polls
\* overlap: it is processed, pulled, run and reported, or refused because the
\* device has no agent.
EveryExecutionEnds ==
  \A e \in Executions :
    status[e] = "queued" ~> status[e] \in Terminal \/ ~Without(FaultKinds \ {"pollOverlap"})

-----------------------------------------------------------------------------
(* Refinement of the abstract life of a run.                                *)

Issued == {e \in Executions : HasCommand(e)}

Promise == INSTANCE ScriptRun WITH Runs <- Executions, phase <- status, issued <- Issued

\* Polls, retries, crashes and reports together keep the promise of ScriptRun,
\* as long as no job is processed twice at a time and no report outlives the
\* request that carried it.
ImplementsScriptRun == Promise!Spec
=============================================================================
