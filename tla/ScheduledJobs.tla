--------------------------- MODULE ScheduledJobs ---------------------------
(***************************************************************************)
(* A script scheduled for later: ScriptExecutionsService.schedule and the  *)
(* worker's processScheduledJob with runOnGroup and runOnDevice, up to the *)
(* queueing of one execution for each target device.  What becomes of an   *)
(* execution is the subject of ScriptExecutions.                           *)
(*                                                                         *)
(* One scheduled job is followed.  Every await is a point where the other  *)
(* processes run: the caller of schedule, and the queue's workers.         *)
(***************************************************************************)
EXTENDS Naturals, FiniteSets

CONSTANTS
  Devices,      \* the devices of the target group, or the one target device
  Workers,      \* workers of the script-execution queue
  Caller,       \* the process that serves the schedule request
  None,         \* no process
  MaxCrashes,   \* the bound on crashes and lost locks
  MaxRejects    \* the bound on database and queue calls that reject

Processes == Workers \cup {Caller}

\* What a process is about to do; it may also be about to queue the execution of a
\* device.
Steps == {"idle", "load", "saveRunning", "run", "saveCompleted", "saveFailed", "finish"}

ASSUME ScheduledAssumption ==
  /\ Devices # {} /\ Devices \cap Steps = {}
  /\ None \notin Processes /\ Caller \notin Workers
  /\ MaxCrashes \in Nat /\ MaxRejects \in Nat

VARIABLES
  status,       \* status of the ScheduledJob document, "none" before it exists
  request,      \* progress of the schedule request
  bull,         \* the delayed job in the queue
  holder,       \* the worker that holds the queue job's lock
  stalls,       \* times the queue job was found stalled
  pc, left,     \* for each process: its step, and the devices it has not run
  created,      \* executions created, for each device
  queued,       \* executions queued, for each device
  crashes, rejects

vars == <<status, request, bull, holder, stalls, pc, left, created, queued, crashes, rejects>>

job   == <<bull, holder, stalls>>
local == <<pc, left>>
runs  == <<created, queued>>

Final == {"completed", "failed"}

Init ==
  /\ status = "none" /\ request = "idle"
  /\ bull = "absent" /\ holder = None /\ stalls = 0
  /\ pc   = [p \in Processes |-> "idle"]
  /\ left = [p \in Processes |-> {}]
  /\ created = [d \in Devices |-> 0]
  /\ queued  = [d \in Devices |-> 0]
  /\ crashes = 0 /\ rejects = 0

-----------------------------------------------------------------------------
(* schedule *)

CreateScheduled ==
  /\ request = "idle"
  /\ status' = "pending" /\ request' = "created"
  /\ UNCHANGED <<job, local, runs, crashes, rejects>>

\* No queue, or runAt is not in the future: the request processes the job.
RunInline ==
  /\ request = "created"
  /\ request' = "inline"
  /\ pc' = [pc EXCEPT ![Caller] = "load"]
  /\ UNCHANGED <<status, job, left, runs, crashes, rejects>>

\* The delay is up as soon as the queue's timer says so, perhaps at once.
Enqueue ==
  /\ request = "created"
  /\ request' = "added" /\ bull' = "waiting"
  /\ UNCHANGED <<status, holder, stalls, local, runs, crashes, rejects>>

\* The document of the request is saved whatever the worker has done since.
SaveQueued ==
  /\ request = "added"
  /\ status' = "queued" /\ request' = "done"
  /\ UNCHANGED <<job, local, runs, crashes, rejects>>

-----------------------------------------------------------------------------
(* processScheduledJob *)

\* A worker takes the job with attempts 1.
Take(w) ==
  /\ bull = "waiting" /\ pc[w] = "idle"
  /\ bull' = "active" /\ holder' = w
  /\ pc' = [pc EXCEPT ![w] = "load"]
  /\ UNCHANGED <<status, request, stalls, left, runs, crashes, rejects>>

\* The processor returned or threw: a worker still holding the lock ends the
\* queue job either way, the request is answered.
End(p) ==
  /\ pc'   = [pc EXCEPT ![p] = "idle"]
  /\ left' = [left EXCEPT ![p] = {}]
  /\ request' = IF p = Caller THEN "done" ELSE request
  /\ bull'    = IF p = holder THEN "gone" ELSE bull
  /\ holder'  = IF p = holder THEN None ELSE holder

\* Mutant of Load: a finished job is not recognised.
Load_NoCheck(p) ==
  /\ pc[p] = "load"
  /\ pc'   = [pc EXCEPT ![p] = "saveRunning"]
  /\ left' = [left EXCEPT ![p] = Devices]
  /\ UNCHANGED <<status, request, job, runs, stalls, crashes, rejects>>

\* Mutant of Load: a job that is RUNNING is left to whoever runs it.
Load_NotTwice(p) ==
  /\ pc[p] = "load"
  /\ IF status \in Final \cup {"running"}
       THEN End(p)
       ELSE /\ pc'   = [pc EXCEPT ![p] = "saveRunning"]
            /\ left' = [left EXCEPT ![p] = Devices]
            /\ UNCHANGED <<request, bull, holder>>
  /\ UNCHANGED <<status, runs, stalls, crashes, rejects>>

\* COMPLETED and FAILED jobs are left alone, RUNNING ones are run again.
Load(p) ==
  /\ pc[p] = "load"
  /\ IF status \in Final
       THEN End(p)
       ELSE /\ pc'   = [pc EXCEPT ![p] = "saveRunning"]
            /\ left' = [left EXCEPT ![p] = Devices]
            /\ UNCHANGED <<request, bull, holder>>
  /\ UNCHANGED <<status, runs, stalls, crashes, rejects>>

SaveRunning(p) ==
  /\ pc[p] = "saveRunning"
  /\ status' = "running"
  /\ pc' = [pc EXCEPT ![p] = "run"]
  /\ UNCHANGED <<request, job, left, runs, crashes, rejects>>

\* runOnDevice for the next device of runOnGroup, in any order of the group.
CreateExecution(p, d) ==
  /\ pc[p] = "run" /\ d \in left[p]
  /\ created' = [created EXCEPT ![d] = @ + 1]
  /\ left' = [left EXCEPT ![p] = @ \ {d}]
  /\ pc'   = [pc EXCEPT ![p] = d]
  /\ UNCHANGED <<status, request, job, queued, crashes, rejects>>

EnqueueExecution(p, d) ==
  /\ pc[p] = d
  /\ queued' = [queued EXCEPT ![d] = @ + 1]
  /\ pc' = [pc EXCEPT ![p] = IF left[p] = {} THEN "saveCompleted" ELSE "run"]
  /\ UNCHANGED <<status, request, job, left, created, crashes, rejects>>

\* Mutant of RunThrows: the catch is around each device.
RunThrows_Continue(p) ==
  /\ pc[p] = "run"
  /\ \E d \in left[p] :
       /\ left' = [left EXCEPT ![p] = @ \ {d}]
       /\ pc' = [pc EXCEPT ![p] = IF left[p] = {d} THEN "saveCompleted" ELSE "run"]
  /\ UNCHANGED <<status, request, job, runs, crashes, rejects>>

\* The script was disabled or deleted, or the device or the group deleted.
RunThrows(p) ==
  /\ pc[p] = "run"
  /\ pc' = [pc EXCEPT ![p] = "saveFailed"]
  /\ UNCHANGED <<status, request, job, left, runs, crashes, rejects>>

SaveCompleted(p) ==
  /\ pc[p] = "saveCompleted"
  /\ status' = "completed"
  /\ pc' = [pc EXCEPT ![p] = "finish"]
  /\ UNCHANGED <<request, job, left, runs, crashes, rejects>>

\* Mutant of SaveFailed: the error is stored in place of the status.
SaveFailed_Error(p) ==
  /\ pc[p] = "saveFailed"
  /\ status' = "error"
  /\ pc' = [pc EXCEPT ![p] = "finish"]
  /\ UNCHANGED <<request, job, left, runs, crashes, rejects>>

SaveFailed(p) ==
  /\ pc[p] = "saveFailed"
  /\ status' = "failed"
  /\ pc' = [pc EXCEPT ![p] = "finish"]
  /\ UNCHANGED <<request, job, left, runs, crashes, rejects>>

\* The worker reports to the queue, schedule to its caller.
Finish(p) ==
  /\ pc[p] = "finish"
  /\ End(p)
  /\ UNCHANGED <<status, stalls, runs, crashes, rejects>>

-----------------------------------------------------------------------------
(* Failures *)

\* A call of the process rejects: within the try block the job is FAILED, also
\* when it is the save of COMPLETED that rejects; outside it the status stays.
CallRejects(p) ==
  /\ rejects < MaxRejects /\ rejects' = rejects + 1
  /\ \/ /\ pc[p] \in Devices \cup {"run", "saveCompleted"}
        /\ pc' = [pc EXCEPT ![p] = "saveFailed"]
        /\ UNCHANGED <<request, bull, holder, left>>
     \/ pc[p] \in {"load", "saveRunning", "saveFailed"} /\ End(p)
  /\ UNCHANGED <<status, stalls, runs, crashes>>

\* The queue does not take the job, or the save of QUEUED rejects.
RequestRejects ==
  /\ rejects < MaxRejects /\ rejects' = rejects + 1
  /\ request \in {"created", "added"} /\ request' = "done"
  /\ UNCHANGED <<status, job, local, runs, crashes>>

\* A process dies; the lock of its queue job expires.
Crash(p) ==
  /\ crashes < MaxCrashes /\ crashes' = crashes + 1
  /\ pc[p] # "idle" \/ (p = Caller /\ request \in {"created", "added"})
  /\ pc'   = [pc EXCEPT ![p] = "idle"]
  /\ left' = [left EXCEPT ![p] = {}]
  /\ request' = IF p = Caller THEN "done" ELSE request
  /\ holder'  = IF p = holder THEN None ELSE holder
  /\ UNCHANGED <<status, bull, stalls, runs, rejects>>

\* A slow worker's lock expires while it works on.
LoseLock ==
  /\ crashes < MaxCrashes /\ crashes' = crashes + 1
  /\ holder # None /\ holder' = None
  /\ UNCHANGED <<status, request, bull, stalls, local, runs, rejects>>

\* The queue's check for stalled jobs (external: maxStalledCount is 1).
Stalled ==
  /\ bull = "active" /\ holder = None
  /\ IF stalls < 1 THEN bull' = "waiting" /\ stalls' = stalls + 1
                   ELSE bull' = "gone" /\ UNCHANGED stalls
  /\ UNCHANGED <<status, request, holder, local, runs, crashes, rejects>>

-----------------------------------------------------------------------------
Step(p) ==
  \/ Load(p) \/ SaveRunning(p)
  \/ \E d \in Devices : CreateExecution(p, d) \/ EnqueueExecution(p, d)
  \/ RunThrows(p) \/ SaveCompleted(p) \/ SaveFailed(p) \/ Finish(p)

Faults ==
  \/ \E p \in Processes : CallRejects(p) \/ Crash(p)
  \/ RequestRejects \/ LoseLock

Next ==
  \/ CreateScheduled \/ RunInline \/ Enqueue \/ SaveQueued
  \/ \E w \in Workers : Take(w)
  \/ \E p \in Processes : Step(p)
  \/ Stalled \/ Faults

Spec == Init /\ [][Next]_vars

\* Workers are polled, awaited calls settle, the stalled check is a timer.
Fairness ==
  /\ WF_vars(\E w \in Workers : Take(w))
  /\ \A p \in Processes : WF_vars(Step(p))
  /\ WF_vars(Stalled)

FairSpec == Spec /\ Fairness

-----------------------------------------------------------------------------
\* Type invariant.
TypeOK ==
  /\ status  \in {"none", "pending", "queued", "running"} \cup Final
  /\ request \in {"idle", "created", "inline", "added", "done"}
  /\ bull    \in {"absent", "waiting", "active", "gone"}
  /\ holder  \in Workers \cup {None}
  /\ stalls  \in 0..1
  /\ pc      \in [Processes -> Steps \cup Devices]
  /\ left    \in [Processes -> SUBSET Devices]
  /\ created \in [Devices -> Nat]
  /\ queued  \in [Devices -> Nat]
  /\ crashes \in Nat /\ rejects \in Nat

\* A job shown as COMPLETED has queued the script on every device of its
\* target, whatever was interrupted, repeated or run twice on the way.
CompletedIsComplete ==
  status = "completed" => \A d \in Devices : queued[d] >= 1

\* A job that has ended runs its script on no further device: neither the
\* redelivery of its queue job nor a second worker starts it again.
NotRunning == \A p \in Processes : pc[p] \in {"idle", "load", "finish"}
FinishedIsNotRerun == [][NotRunning /\ status \in Final => NotRunning']_vars

\* A job in the queue ends COMPLETED or FAILED, also when its worker dies or
\* loses its lock once.  (A second time the queue gives it up, and a rejected
\* save leaves it RUNNING.)
ScheduledJobsEnd ==
  bull = "waiting" ~> (status \in Final \/ crashes > 1 \/ rejects > 0)
=============================================================================
