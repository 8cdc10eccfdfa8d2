----------------------- MODULE ScheduledJobs_proofs ------------------------
(***************************************************************************)
(* Theorems about ScheduledJobs, for any target devices and workers, and   *)
(* any number of crashes, lost locks and rejected calls.                   *)
(***************************************************************************)
EXTENDS ScheduledJobs, TLAPS

\* The steps of the queue and of the request that are not those of a process
\* at work.
Aside ==
  \/ CreateScheduled \/ RunInline \/ Enqueue \/ SaveQueued \/ Stalled
  \/ RequestRejects \/ LoseLock \/ \E w \in Workers : Take(w)

\* No device is queued by a process that stops.
LEMMA EndType ==
  ASSUME TypeOK, NEW p \in Processes, End(p)
  PROVE  /\ pc' \in [Processes -> Steps \cup Devices] /\ left' \in [Processes -> SUBSET Devices]
         /\ request' \in {"idle", "created", "inline", "added", "done"}
         /\ bull' \in {"absent", "waiting", "active", "gone"}
         /\ holder' \in Workers \cup {None}
BY DEF TypeOK, End, Steps

-----------------------------------------------------------------------------
(* The type invariant.                                                     *)

LEMMA AsideType == TypeOK /\ Aside => TypeOK'
<1> SUFFICES ASSUME TypeOK, Aside PROVE TypeOK'
  OBVIOUS
<1> USE DEF job, local, runs
<1>1. CASE CreateScheduled \/ Enqueue \/ SaveQueued \/ RequestRejects
  BY <1>1 DEF CreateScheduled, Enqueue, SaveQueued, RequestRejects, TypeOK
<1>2. CASE RunInline
  BY <1>2 DEF RunInline, TypeOK, Processes, Steps
<1>3. ASSUME NEW w \in Workers, Take(w) PROVE TypeOK'
  BY <1>3 DEF Take, TypeOK, Processes, Steps
<1>4. CASE Stalled
  BY <1>4 DEF Stalled, TypeOK
<1>5. CASE LoseLock
  BY <1>5 DEF LoseLock, TypeOK
<1> QED BY <1>1, <1>2, <1>3, <1>4, <1>5 DEF Aside

LEMMA StepType ==
  ASSUME TypeOK, NEW p \in Processes, Step(p) \/ CallRejects(p) \/ Crash(p)
  PROVE  TypeOK'
<1> USE DEF job, local, runs
<1>1. CASE Load(p)
  <2>1. CASE End(p)
    BY <1>1, <2>1, EndType DEF Load, TypeOK
  <2>2. CASE ~End(p)
    BY <1>1, <2>2 DEF Load, TypeOK, Steps
  <2> QED BY <2>1, <2>2
<1>2. CASE SaveRunning(p) \/ SaveCompleted(p) \/ SaveFailed(p) \/ RunThrows(p)
  BY <1>2 DEF SaveRunning, SaveCompleted, SaveFailed, RunThrows, TypeOK, Steps, Final
<1>3. ASSUME NEW d \in Devices, CreateExecution(p, d) PROVE TypeOK'
  BY <1>3 DEF CreateExecution, TypeOK
<1>4. ASSUME NEW d \in Devices, EnqueueExecution(p, d) PROVE TypeOK'
  BY <1>4 DEF EnqueueExecution, TypeOK, Steps
<1>5. CASE Finish(p)
  BY <1>5, EndType DEF Finish, TypeOK
<1>6. CASE CallRejects(p)
  <2>1. CASE End(p)
    BY <1>6, <2>1, EndType, ScheduledAssumption DEF CallRejects, TypeOK
  <2>2. CASE ~End(p)
    BY <1>6, <2>2, ScheduledAssumption DEF CallRejects, TypeOK, Steps
  <2> QED BY <2>1, <2>2
<1>7. CASE Crash(p)
  BY <1>7, ScheduledAssumption DEF Crash, TypeOK, Steps
<1> QED BY <1>1, <1>2, <1>3, <1>4, <1>5, <1>6, <1>7 DEF Step

LEMMA TypeInit == Init => TypeOK
BY DEF Init, TypeOK, Steps

\* Every step is a process's at work, or one of the others, or stutters.
LEMMA Moves ==
  ASSUME [Next]_vars
  PROVE  \/ Aside \/ UNCHANGED vars
         \/ \E p \in Processes : Step(p) \/ CallRejects(p) \/ Crash(p)
BY Zenon DEF Next, Faults, Aside

\* The scheduled job, its queue job and the processes keep their types.
THEOREM TypesHold == Spec => []TypeOK
<1>1. TypeOK /\ UNCHANGED vars => TypeOK'
  BY DEF TypeOK, vars
<1>2. TypeOK /\ [Next]_vars => TypeOK'
  BY <1>1, AsideType, StepType, Moves
<1> QED BY <1>2, TypeInit, PTL DEF Spec

-----------------------------------------------------------------------------
(* What COMPLETED means.                                                   *)

\* The devices a process has dealt with: those it has not left, but for the one
\* it is about to queue.
Dealt(p) == Devices \ (left[p] \cup {pc[p]})

\* Whoever runs the job has queued the devices dealt with, and all of them if
\* it is about to save COMPLETED.  Nothing takes a queued execution back.
Progress ==
  \A p \in Processes :
    /\ pc[p] = "saveRunning" => left[p] = Devices
    /\ pc[p] \in {"run"} \cup Devices => \A d \in Dealt(p) : queued[d] >= 1
    /\ pc[p] = "saveCompleted" => \A d \in Devices : queued[d] >= 1

Completion == CompletedIsComplete /\ Progress

\* A process that stops has nothing to show, and the others are as they were.
LEMMA StopProgress ==
  ASSUME TypeOK, Progress, NEW p \in Processes, UNCHANGED queued,
         pc' = [pc EXCEPT ![p] = "idle"], left' = [left EXCEPT ![p] = {}]
  PROVE  Progress'
BY ScheduledAssumption DEF TypeOK, Progress, Dealt, Steps

LEMMA AsideCompletion ==
  ASSUME TypeOK, Completion, Aside
  PROVE  Completion'
<1> USE DEF job, local, runs
<1>1. CASE CreateScheduled \/ Enqueue \/ SaveQueued \/ RequestRejects \/ Stalled \/ LoseLock
  BY <1>1 DEF CreateScheduled, Enqueue, SaveQueued, RequestRejects, Stalled, LoseLock,
     Completion, CompletedIsComplete, Progress, Dealt
<1>2. ASSUME NEW p \in Processes, pc' = [pc EXCEPT ![p] = "load"],
             UNCHANGED <<status, left, queued>>
      PROVE  Completion'
  BY <1>2, ScheduledAssumption
     DEF TypeOK, Completion, CompletedIsComplete, Progress, Dealt, Steps
<1>3. CASE RunInline
  BY <1>2, <1>3 DEF RunInline, Processes
<1>4. ASSUME NEW w \in Workers, Take(w) PROVE Completion'
  BY <1>2, <1>4 DEF Take, Processes
<1> QED BY <1>1, <1>3, <1>4 DEF Aside

LEMMA StepCompletion ==
  ASSUME TypeOK, Completion, NEW p \in Processes, Step(p) \/ CallRejects(p) \/ Crash(p)
  PROVE  Completion'
<1> USE DEF job, local, runs
<1> USE ScheduledAssumption
<1>s. ASSUME UNCHANGED <<status, queued>>,
             pc' = [pc EXCEPT ![p] = "idle"], left' = [left EXCEPT ![p] = {}]
      PROVE  Completion'
  BY <1>s, StopProgress DEF Completion, CompletedIsComplete
<1>m. ASSUME NEW s \in {"run", "saveFailed", "finish"}, s # "run" \/ left[p] = Devices,
             pc' = [pc EXCEPT ![p] = s], UNCHANGED <<left, queued>>
      PROVE  Progress'
  BY <1>m DEF TypeOK, Completion, Progress, Dealt, Steps
<1>1. CASE Load(p)
  <2>1. CASE End(p)
    BY <1>1, <1>s, <2>1 DEF Load, End
  <2>2. CASE ~End(p)
    BY <1>1, <2>2 DEF Load, TypeOK, Completion, CompletedIsComplete, Progress, Dealt, Steps
  <2> QED BY <2>1, <2>2
<1>2. CASE SaveRunning(p)
  BY <1>2, <1>m DEF SaveRunning, Completion, CompletedIsComplete, Progress
<1>3. ASSUME NEW d \in Devices, CreateExecution(p, d) PROVE Completion'
  <2>1. \A e \in Dealt(p)' : queued'[e] >= 1
    <3>1. \A e \in Dealt(p) : queued[e] >= 1
      BY <1>3 DEF CreateExecution, Completion, Progress
    <3>2. pc[p] = "run" /\ pc'[p] = d /\ left'[p] = left[p] \ {d} /\ UNCHANGED queued
      BY <1>3 DEF CreateExecution, TypeOK
    <3>3. Dealt(p)' \subseteq Dealt(p)
      BY <3>2 DEF Dealt, Steps
    <3> QED BY <3>1, <3>2, <3>3
  <2>2. \A q \in Processes \ {p} : pc'[q] = pc[q] /\ left'[q] = left[q]
    BY <1>3 DEF CreateExecution, TypeOK
  <2>3. pc'[p] = d /\ d \notin Steps
    BY <1>3 DEF CreateExecution, TypeOK
  <2>4. UNCHANGED <<status, queued>>
    BY <1>3 DEF CreateExecution
  <2>5. Progress'
    BY <2>1, <2>2, <2>3, <2>4 DEF Completion, Progress, Dealt, Steps
  <2> QED BY <2>4, <2>5 DEF Completion, CompletedIsComplete
<1>4. ASSUME NEW d \in Devices, EnqueueExecution(p, d) PROVE Completion'
  <2>1. /\ queued'[d] >= 1 /\ \A e \in Devices : queued[e] >= 1 => queued'[e] >= 1
        /\ \A q \in Processes \ {p} : pc'[q] = pc[q] /\ left'[q] = left[q]
        /\ UNCHANGED <<status, left>>
    BY <1>4 DEF EnqueueExecution, TypeOK
  <2>2. pc[p] = d /\ pc'[p] = IF left[p] = {} THEN "saveCompleted" ELSE "run"
    BY <1>4 DEF EnqueueExecution, TypeOK
  <2>3. \A e \in Devices \ left[p] : queued'[e] >= 1
    BY <2>1, <2>2 DEF Completion, Progress, Dealt
  <2>4. Progress'
    BY <2>1, <2>2, <2>3 DEF Completion, Progress, Dealt, Steps
  <2> QED BY <2>1, <2>4 DEF Completion, CompletedIsComplete
<1>5. CASE RunThrows(p)
  BY <1>5, <1>m DEF RunThrows, Completion, CompletedIsComplete
<1>6. CASE SaveCompleted(p)
  BY <1>6, <1>m DEF SaveCompleted, Completion, CompletedIsComplete, Progress
<1>7. CASE SaveFailed(p)
  BY <1>7, <1>m DEF SaveFailed, Completion, CompletedIsComplete
<1>8. CASE Finish(p)
  BY <1>8, <1>s DEF Finish, End
<1>9. CASE CallRejects(p)
  <2>1. CASE End(p)
    BY <1>9, <1>s, <2>1 DEF CallRejects, End
  <2>2. CASE ~End(p)
    BY <1>9, <1>m, <2>2 DEF CallRejects, Completion, CompletedIsComplete
  <2> QED BY <2>1, <2>2
<1>10. CASE Crash(p)
  BY <1>10, <1>s DEF Crash
<1> QED
  BY <1>1, <1>2, <1>3, <1>4, <1>5, <1>6, <1>7, <1>8, <1>9, <1>10 DEF Step

\* processScheduledJob: a job shown as COMPLETED has queued its script on every
\* device of its target, however often it was interrupted or run twice.
THEOREM Completed == Spec => []CompletedIsComplete
<1>1. Init => Completion
  BY ScheduledAssumption DEF Init, Completion, CompletedIsComplete, Progress, Steps
<1>2. Completion /\ UNCHANGED vars => Completion'
  BY DEF vars, Completion, CompletedIsComplete, Progress, Dealt
<1>3. TypeOK /\ Completion /\ [Next]_vars => Completion'
  BY <1>2, AsideCompletion, StepCompletion, Moves
<1>4. Completion => CompletedIsComplete
  BY DEF Completion
<1> QED BY <1>1, <1>3, <1>4, TypesHold, PTL DEF Spec

-----------------------------------------------------------------------------
(* A job that has ended.                                                   *)

\* Once the job has ended and nobody runs it, nobody runs it again: not the
\* worker that is given its queue job once more, nor the request.
THEOREM FinishedForGood == Spec => FinishedIsNotRerun
<1> USE DEF job, local, runs
<1> DEFINE A == NotRunning /\ status \in Final => NotRunning'
<1>1. ASSUME TypeOK, NotRunning, status \in Final, [Next]_vars PROVE NotRunning'
  <2>1. ASSUME NEW p \in Processes, NEW s \in {"idle", "load"}, pc' = [pc EXCEPT ![p] = s]
        PROVE  NotRunning'
    BY <1>1, <2>1 DEF NotRunning, TypeOK
  <2>2. CASE Aside
    <3>1. CASE UNCHANGED pc
      BY <1>1, <3>1 DEF NotRunning
    <3>2. CASE RunInline
      BY <2>1, <3>2 DEF RunInline, Processes
    <3>3. ASSUME NEW w \in Workers, Take(w) PROVE NotRunning'
      BY <2>1, <3>3 DEF Take, Processes
    <3> QED
      BY <2>2, <3>1, <3>2, <3>3, Zenon DEF Aside, CreateScheduled, Enqueue, SaveQueued, Stalled,
         RequestRejects, LoseLock
  <2>3. ASSUME NEW p \in Processes, Step(p) \/ CallRejects(p) \/ Crash(p) PROVE NotRunning'
    <3>1. pc[p] \in {"idle", "load", "finish"} /\ pc[p] \notin Devices
      BY <1>1, ScheduledAssumption DEF NotRunning, Steps
    <3>2. pc' = [pc EXCEPT ![p] = "idle"]
      BY <1>1, <2>3, <3>1 DEF Step, Load, SaveRunning, CreateExecution, EnqueueExecution,
         RunThrows, SaveCompleted, SaveFailed, Finish, CallRejects, Crash, End
    <3> QED BY <2>1, <3>2
  <2>4. CASE UNCHANGED vars
    BY <1>1, <2>4 DEF vars, NotRunning
  <2> QED BY <1>1, <2>2, <2>3, <2>4, Moves
<1>2. TypeOK /\ [Next]_vars => [A]_vars
  BY <1>1
<1> QED BY <1>2, TypesHold, PTL DEF Spec, FinishedIsNotRerun
=============================================================================
