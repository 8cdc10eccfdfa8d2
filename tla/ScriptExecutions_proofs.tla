----------------------- MODULE ScriptExecutions_proofs -----------------------
(***************************************************************************)
(* Theorems about ScriptExecutions, for every set of executions, devices   *)
(* and handlers, every limit and every bound on the faults.                *)
(***************************************************************************)
EXTENDS ScriptExecutions, TLAPS, SequenceTheorems

-----------------------------------------------------------------------------
(* Sequences of commands.                                                  *)

\* A function over 1..n with values in S is a sequence of length n.
LEMMA FunctionIsSeq ==
  ASSUME NEW S, NEW n \in Nat, NEW f \in [1..n -> S]
  PROVE  f \in Seq(S) /\ Len(f) = n
<1>1. f \in Seq(S)
  BY SeqDef
<1>2. Len(f) \in Nat /\ DOMAIN f = 1..Len(f)
  BY <1>1, LenProperties
<1>3. 1..Len(f) = 1..n
  BY <1>2
<1> QED BY <1>1, <1>2, <1>3

\* The commands there are, each with its execution.
LEMMA CommandsAre ==
  ASSUME commands \in Seq(Command)
  PROVE  /\ Len(commands) \in Nat
         /\ \A i \in 1..Len(commands) :
              /\ commands[i] \in Command /\ commands[i].exec \in Executions
              /\ HasCommand(commands[i].exec)
<1>1. Len(commands) \in Nat /\ \A i \in 1..Len(commands) : commands[i] \in Command
  BY ElementOfSeq, LenProperties
<1>2. \A i \in 1..Len(commands) : commands[i].exec \in Executions
  BY <1>1 DEF Command
<1> QED BY <1>1, <1>2 DEF HasCommand

\* CreateCommand's append keeps the commands there are and adds one.
LEMMA AppendCommand ==
  ASSUME commands \in Seq(Command), NEW c \in Command, commands' = Append(commands, c)
  PROVE  /\ commands' \in Seq(Command)
         /\ Len(commands) \in Nat
         /\ Len(commands') = Len(commands) + 1
         /\ \A i \in 1..Len(commands) : commands'[i] = commands[i]
         /\ commands'[Len(commands) + 1] = c
  BY AppendProperties, LenProperties

\* updateMany rewrites statuses only: the commands and their executions stay.
LEMMA UpdateCommands ==
  ASSUME commands \in Seq(Command),
         \/ \E p \in Pulls : PullMark(p)
         \/ \E r \in Reports : ReportCommands(r) /\ report[r].outcome \in Terminal
  PROVE  /\ commands' \in Seq(Command)
         /\ Len(commands') = Len(commands)
         /\ Len(commands) \in Nat
         /\ \A i \in 1..Len(commands) : commands'[i].exec = commands[i].exec
<1>1. Len(commands) \in Nat /\ commands \in [1..Len(commands) -> Command]
  BY LenProperties
<1>2. ASSUME NEW i \in 1..Len(commands), NEW s \in CommandStatus
      PROVE  /\ [commands[i] EXCEPT !.status = s] \in Command
             /\ [commands[i] EXCEPT !.status = s].exec = commands[i].exec
             /\ commands[i] \in Command
  BY <1>1 DEF Command
<1>3. ASSUME NEW p \in Pulls, PullMark(p)
      PROVE  /\ commands' \in [1..Len(commands) -> Command]
             /\ \A i \in 1..Len(commands) : commands'[i].exec = commands[i].exec
  <2>1. "dispatched" \in CommandStatus
    BY DEF CommandStatus
  <2> QED BY <1>1, <1>2, <1>3, <2>1 DEF PullMark
<1>4. ASSUME NEW r \in Reports, ReportCommands(r)
      PROVE  /\ commands' \in [1..Len(commands) -> Command]
             /\ \A i \in 1..Len(commands) : commands'[i].exec = commands[i].exec
  <2>1. "completed" \in CommandStatus /\ "failed" \in CommandStatus
    BY DEF CommandStatus
  <2> QED BY <1>1, <1>2, <1>4, <2>1 DEF ReportCommands, CloseCommands
<1>5. /\ commands' \in [1..Len(commands) -> Command]
      /\ \A i \in 1..Len(commands) : commands'[i].exec = commands[i].exec
  BY <1>3, <1>4
<1> QED BY <1>1, <1>5, FunctionIsSeq

-----------------------------------------------------------------------------
(* Type correctness.                                                       *)

\* The types of what the actions with alternatives assign.
LEMMA TakeJobType ==
  ASSUME job \in JobType, worker \in WorkerType,
         NEW w \in Workers, NEW e \in Executions, TakeJob(w, e)
  PROVE  job' \in JobType /\ worker' \in WorkerType
<1>1. job' \in JobType
  BY DEF TakeJob, JobType
<1>2. worker' \in WorkerType
  BY DEF TakeJob, WorkerType
<1> QED BY <1>1, <1>2

\* Ending an attempt well leaves the jobs well-typed.
LEMMA JobAfterType ==
  ASSUME job \in JobType, NEW w \in Workers, NEW e \in Executions
  PROVE  JobAfter(w, e) \in JobType
<1>1. CASE ~Holds(w, e)
  BY <1>1 DEF JobAfter
<1>2. CASE Holds(w, e)
  BY <1>2 DEF JobAfter, JobType
<1> QED BY <1>1, <1>2

LEMMA JobAfterFailureType ==
  ASSUME job \in JobType, NEW w \in Workers, NEW e \in Executions
  PROVE  JobAfterFailure(w, e) \in JobType
<1>1. CASE ~Holds(w, e)
  BY <1>1 DEF JobAfterFailure
<1>2. CASE Holds(w, e)
  BY <1>2 DEF JobAfterFailure, JobType
<1> QED BY <1>1, <1>2

LEMMA ReportFindType ==
  ASSUME report \in ReportType, NEW r \in Reports, NEW e \in Executions,
         NEW o \in Terminal, ReportFind(r, e, o)
  PROVE  report' \in ReportType
<1>1. CASE status[e] \in Terminal
  BY <1>1 DEF ReportFind
<1>2. CASE status[e] \notin Terminal
  <2>1. report' = [report EXCEPT ![r] =
                     [pc |-> "found", exec |-> e, outcome |-> o, client |-> TRUE]]
    BY <1>2 DEF ReportFind
  <2> QED BY <2>1 DEF ReportType
<1> QED BY <1>1, <1>2

LEMMA PullAnsweredType ==
  ASSUME commands \in Seq(Command), running \in SUBSET Executions,
         starts \in [Executions -> Nat], NEW p \in Pulls,
         pull[p].batch \subseteq 1..Len(commands), PullAnswered(p)
  PROVE  running' \in SUBSET Executions /\ starts' \in [Executions -> Nat]
<1>1. \A i \in pull[p].batch : commands[i] \in Command
  BY ElementOfSeq
<1>2. FreshRuns(p) \subseteq Executions
  BY <1>1 DEF FreshRuns, Command
<1>3. running' \in SUBSET Executions
  BY <1>2 DEF PullAnswered
<1>4. starts' \in [Executions -> Nat]
  BY DEF PullAnswered
<1> QED BY <1>3, <1>4

LEMMA ReportAnswerType ==
  ASSUME triggers \in [Executions -> Nat], NEW r \in Reports,
         report[r].exec \in Executions, ReportAnswer(r)
  PROVE  triggers' \in [Executions -> Nat]
  BY DEF ReportAnswer

LEMMA TypeInit == Init => TypeOK
<1> SUFFICES ASSUME Init PROVE TypeOK
  OBVIOUS
<1>1. commands \in Seq(Command)
  BY DEF Init
<1> QED
  BY <1>1, ConstantsAssumption DEF Init, TypeOK, StatusType, ResultType, RequestType, JobType, WorkerType, PullType,
              ReportType, OutcomesType, IdleWorker, IdlePull, IdleReport, Terminal

\* What the types leave open: a handler at work has an execution, and what a
\* poll has found exists.
HandlersOK ==
  /\ \A w \in Workers : worker[w].pc # "idle" => worker[w].exec \in Executions
  /\ \A r \in Reports : report[r].pc # "idle" => report[r].exec \in Executions
  /\ \A r \in Reports : report[r].client => report[r].pc # "idle"
  /\ \A p \in Pulls : pull[p].batch \subseteq 1..Len(commands)

\* One step of a handler keeps the types: commands by the lemmas on sequences,
\* the rest by the form of each action.
LEMMA TypeNext == TypeOK /\ HandlersOK /\ [Next]_vars => TypeOK'
<1> SUFFICES ASSUME TypeOK, HandlersOK, [Next]_vars PROVE TypeOK'
  OBVIOUS
<1> USE DEF execVars, agentVars, faultVars
<1>1. ASSUME NEW e \in Executions, CreateExecution(e) PROVE TypeOK'
  BY <1>1 DEF TypeOK, CreateExecution, StatusType, ExecutionStatus, ResultType, RequestType
<1>2. ASSUME NEW e \in Executions, EnqueueExecution(e) PROVE TypeOK'
  BY <1>2 DEF TypeOK, EnqueueExecution, RequestType, JobType
<1>3. ASSUME NEW e \in Executions, EnqueueLost(e) PROVE TypeOK'
  BY <1>3 DEF TypeOK, EnqueueLost, RequestType, Fault
<1>4. ASSUME NEW e \in Executions, StalledAfterCrash(e) PROVE TypeOK'
  BY <1>4 DEF TypeOK, StalledAfterCrash, RequeueStalled, JobType
<1>5. ASSUME NEW e \in Executions, LockLost(e) PROVE TypeOK'
  BY <1>5 DEF TypeOK, LockLost, RequeueStalled, JobType, Fault
<1>6. ASSUME NEW w \in Workers, NEW e \in Executions, TakeJob(w, e) PROVE TypeOK'
  BY <1>6, TakeJobType DEF TypeOK, TakeJob
<1>7. ASSUME NEW w \in Workers, NEW e \in Executions, ProcessInline(w, e) PROVE TypeOK'
  BY <1>7 DEF TypeOK, ProcessInline, RequestType, WorkerType, IdleWorker
<1>8. ASSUME NEW w \in Workers, SaveRunning(w) PROVE TypeOK'
  BY <1>8 DEF TypeOK, SaveRunning, StatusType, ExecutionStatus, WorkerType
<1>9. ASSUME NEW w \in Workers, FindAgent(w) PROVE TypeOK'
  BY <1>9 DEF TypeOK, FindAgent, WorkerType
<1>10. ASSUME NEW w \in Workers, SaveAgentNotFound(w) PROVE TypeOK'
  BY <1>10 DEF TypeOK, SaveAgentNotFound, StatusType, ExecutionStatus, ResultType, WorkerType
<1>11. ASSUME NEW w \in Workers, CreateCommand(w) PROVE TypeOK'
  <2>1. worker' \in WorkerType
    BY <1>11 DEF TypeOK, CreateCommand, WorkerType
  <2>2. worker[w].exec \in Executions
    BY <1>11 DEF TypeOK, CreateCommand, HandlersOK
  <2>3. commands' \in Seq(Command)
    BY <1>11, <2>2, AppendCommand DEF TypeOK, CreateCommand, Command, CommandStatus
  <2> QED BY <1>11, <2>1, <2>2, <2>3 DEF TypeOK, CreateCommand
<1>12. ASSUME NEW w \in Workers, FinishJob(w) PROVE TypeOK'
  <2>1. job' \in JobType
    <3>1. CASE worker[w].exec \in Executions
      BY <1>12, <3>1, JobAfterType DEF TypeOK, FinishJob
    <3> QED BY <1>12, <3>1 DEF HandlersOK, FinishJob
  <2>2. worker' \in WorkerType
    BY <1>12 DEF TypeOK, FinishJob, WorkerType, IdleWorker
  <2> QED BY <1>12, <2>1, <2>2 DEF TypeOK, FinishJob
<1>13. ASSUME NEW w \in Workers, AttemptFails(w) PROVE TypeOK'
  <2>1. job' \in JobType
    <3>1. CASE worker[w].exec \in Executions
      BY <1>13, <3>1, JobAfterFailureType DEF TypeOK, AttemptFails
    <3> QED BY <1>13, <3>1 DEF HandlersOK, AttemptFails
  <2>2. worker' \in WorkerType
    BY <1>13 DEF TypeOK, AttemptFails, WorkerType, IdleWorker
  <2> QED BY <1>13, <2>1, <2>2 DEF TypeOK, AttemptFails, Fault
<1>14. ASSUME NEW w \in Workers, WorkerCrash(w) PROVE TypeOK'
  BY <1>14 DEF TypeOK, WorkerCrash, WorkerType, IdleWorker, Fault
<1>15. ASSUME NEW d \in Devices, RegisterAgent(d) PROVE TypeOK'
  BY <1>15 DEF TypeOK, RegisterAgent
<1>16. ASSUME NEW d \in Devices, AgentRestart(d) PROVE TypeOK'
  <2>1. running' \in SUBSET Executions
    BY <1>16 DEF TypeOK, AgentRestart
  <2>2. pull' \in PullType
    <3>1. pull \in PullType
      BY DEF TypeOK
    <3>2. \A p \in Pulls : [pull[p] EXCEPT !.client = FALSE] \in
            [pc : {"idle", "found", "marked"}, device : Devices \cup {None},
             batch : SUBSET Nat, client : BOOLEAN]
      BY <3>1 DEF PullType
    <3> QED BY <1>16, <3>1, <3>2 DEF AgentRestart, PullType
  <2>3. report' \in ReportType
    <3>1. report \in ReportType
      BY DEF TypeOK
    <3>2. \A r \in Reports : [report[r] EXCEPT !.client = FALSE] \in
            [pc : {"idle", "found", "saved", "closed"}, exec : Executions \cup {None},
             outcome : Terminal, client : BOOLEAN]
      BY <3>1 DEF ReportType
    <3> QED BY <1>16, <3>1, <3>2 DEF AgentRestart, ReportType
  <2> QED BY <1>16, <2>1, <2>2, <2>3 DEF TypeOK, AgentRestart, Fault
<1>17. ASSUME NEW p \in Pulls, NEW d \in Devices, PullFind(p, d) PROVE TypeOK'
  <2>1. pull' \in PullType
    BY <1>17 DEF TypeOK, PullFind, PullType, Oldest, PendingOf
  <2> QED BY <1>17, <2>1 DEF TypeOK, PullFind, Fault
<1>18. ASSUME NEW p \in Pulls, PullMark(p) PROVE TypeOK'
  <2>1. pull' \in PullType
    BY <1>18 DEF TypeOK, PullMark, PullType
  <2>2. commands' \in Seq(Command)
    BY <1>18, UpdateCommands DEF TypeOK
  <2> QED BY <1>18, <2>1, <2>2 DEF TypeOK, PullMark
<1>19. ASSUME NEW p \in Pulls, PullAnswered(p) PROVE TypeOK'
  <2>1. pull' \in PullType
    BY <1>19 DEF TypeOK, PullAnswered, PullType, IdlePull
  <2>2. running' \in SUBSET Executions /\ starts' \in [Executions -> Nat]
    BY <1>19, PullAnsweredType DEF TypeOK, HandlersOK
  <2> QED BY <1>19, <2>1, <2>2 DEF TypeOK, PullAnswered
<1>20. ASSUME NEW p \in Pulls, PullLost(p) PROVE TypeOK'
  BY <1>20 DEF TypeOK, PullLost, PullType, IdlePull, Fault
<1>21. ASSUME NEW r \in Reports, NEW e \in Executions, NEW o \in Terminal, ReportFind(r, e, o) PROVE TypeOK'
  <2>1. report' \in ReportType
    BY <1>21, ReportFindType DEF TypeOK
  <2>2. outcomes' \in OutcomesType
    BY <1>21 DEF TypeOK, ReportFind, OutcomesType
  <2>3. running' \in SUBSET Executions
    BY <1>21 DEF TypeOK, ReportFind
  <2> QED BY <1>21, <2>1, <2>2, <2>3 DEF TypeOK, ReportFind
<1>22. ASSUME NEW r \in Reports, ReportSave(r) PROVE TypeOK'
  BY <1>22 DEF TypeOK, ReportSave, StatusType, ExecutionStatus, Terminal, ResultType, ReportType
<1>23. ASSUME NEW r \in Reports, ReportCommands(r) PROVE TypeOK'
  <2>1. report' \in ReportType
    BY <1>23 DEF TypeOK, ReportCommands, ReportType
  <2>2. commands' \in Seq(Command)
    BY <1>23, UpdateCommands DEF TypeOK, ReportType
  <2> QED BY <1>23, <2>1, <2>2 DEF TypeOK, ReportCommands
<1>24. ASSUME NEW r \in Reports, ReportAnswer(r) PROVE TypeOK'
  <2>1. report' \in ReportType
    BY <1>24 DEF TypeOK, ReportAnswer, ReportType, IdleReport, Terminal
  <2>2. running' \in SUBSET Executions
    BY <1>24 DEF TypeOK, ReportAnswer, RunningAfter
  <2>3. triggers' \in [Executions -> Nat]
    BY <1>24, ReportAnswerType DEF TypeOK, HandlersOK, ReportAnswer
  <2> QED BY <1>24, <2>1, <2>2, <2>3 DEF TypeOK, ReportAnswer
<1>25. ASSUME NEW r \in Reports, ReportDisconnected(r) PROVE TypeOK'
  <2>1. report' \in ReportType
    BY <1>25 DEF TypeOK, ReportDisconnected, ReportType
  <2>2. running' \in SUBSET Executions
    BY <1>25 DEF TypeOK, ReportDisconnected, RunningAfter
  <2> QED BY <1>25, <2>1, <2>2 DEF TypeOK, ReportDisconnected, Fault
<1>26. ASSUME NEW r \in Reports, ReportDies(r) PROVE TypeOK'
  BY <1>26 DEF TypeOK, ReportDies, ReportType, IdleReport, RunningAfter, Terminal, Fault
<1>27. ASSUME NEW e \in Executions, NEW o \in Terminal, ReportLost(e, o) PROVE TypeOK'
  BY <1>27 DEF TypeOK, ReportLost, OutcomesType, Fault
<1>29. ASSUME NEW p \in Pulls, PullDisconnected(p) PROVE TypeOK'
  <2>1. pull' \in PullType
    BY <1>29 DEF TypeOK, PullDisconnected, PullType
  <2> QED BY <1>29, <2>1 DEF TypeOK, PullDisconnected, Fault
<1>28. CASE UNCHANGED vars
  BY <1>28 DEF TypeOK, vars
<1> QED
  BY <1>1, <1>2, <1>3, <1>4, <1>5, <1>6, <1>7, <1>8, <1>9, <1>10, <1>11, <1>12, <1>13, <1>14, <1>15, <1>16, <1>17, <1>18, <1>19, <1>20, <1>21, <1>22, <1>23, <1>24, <1>25, <1>26, <1>27, <1>28, <1>29
  DEF Next, RequestNext, QueueNext, WorkerNext, AgentNext, PullNext, ReportNext

\* Handlers stay attached to their executions, polls to existing commands.
LEMMA HandlersNext == TypeOK /\ HandlersOK /\ [Next]_vars => HandlersOK'
<1> SUFFICES ASSUME TypeOK, HandlersOK, [Next]_vars PROVE HandlersOK'
  OBVIOUS
<1> USE DEF HandlersOK, execVars, agentVars, faultVars
<1>0. worker \in WorkerType /\ report \in ReportType /\ pull \in PullType
  BY DEF TypeOK
<1>1. ASSUME NEW w \in Workers, NEW e \in Executions, TakeJob(w, e) PROVE HandlersOK'
  BY <1>1, <1>0 DEF TakeJob, WorkerType, IdleWorker
<1>2. ASSUME NEW w \in Workers, NEW e \in Executions, ProcessInline(w, e) PROVE HandlersOK'
  BY <1>2, <1>0 DEF ProcessInline, WorkerType, IdleWorker
<1>3. ASSUME NEW w \in Workers, SaveRunning(w) PROVE HandlersOK'
  BY <1>3, <1>0 DEF SaveRunning, WorkerType, IdleWorker
<1>4. ASSUME NEW w \in Workers, FindAgent(w) PROVE HandlersOK'
  BY <1>4, <1>0 DEF FindAgent, WorkerType, IdleWorker
<1>5. ASSUME NEW w \in Workers, SaveAgentNotFound(w) PROVE HandlersOK'
  BY <1>5, <1>0 DEF SaveAgentNotFound, WorkerType, IdleWorker
<1>6. ASSUME NEW w \in Workers, CreateCommand(w) PROVE HandlersOK'
  <2>1. Len(commands) \in Nat /\ Len(commands') = Len(commands) + 1
    BY <1>6, AppendCommand DEF TypeOK, CreateCommand, Command, CommandStatus
  <2>2. 1..Len(commands) \subseteq 1..Len(commands')
    BY <2>1
  <2> QED BY <1>6, <1>0, <2>2 DEF CreateCommand, WorkerType
<1>7. ASSUME NEW w \in Workers, FinishJob(w) PROVE HandlersOK'
  BY <1>7, <1>0 DEF FinishJob, WorkerType, IdleWorker
<1>8. ASSUME NEW w \in Workers, AttemptFails(w) PROVE HandlersOK'
  BY <1>8, <1>0 DEF AttemptFails, WorkerType, IdleWorker
<1>9. ASSUME NEW w \in Workers, WorkerCrash(w) PROVE HandlersOK'
  BY <1>9, <1>0 DEF WorkerCrash, WorkerType, IdleWorker
<1>10. ASSUME NEW d \in Devices, AgentRestart(d) PROVE HandlersOK'
  BY <1>10, <1>0 DEF AgentRestart, PullType, ReportType
<1>11. ASSUME NEW p \in Pulls, NEW d \in Devices, PullFind(p, d) PROVE HandlersOK'
  BY <1>11, <1>0 DEF PullFind, PendingOf, Oldest, PullType, IdlePull
<1>12. ASSUME NEW p \in Pulls, PullMark(p) PROVE HandlersOK'
  <2>1. Len(commands') = Len(commands)
    BY <1>12, UpdateCommands DEF TypeOK
  <2> QED BY <1>12, <1>0, <2>1 DEF PullMark, PullType
<1>13. ASSUME NEW p \in Pulls, PullAnswered(p) PROVE HandlersOK'
  BY <1>13, <1>0 DEF PullAnswered, PullType, IdlePull
<1>14. ASSUME NEW p \in Pulls, PullLost(p) PROVE HandlersOK'
  BY <1>14, <1>0 DEF PullLost, PullType, IdlePull
<1>15. ASSUME NEW p \in Pulls, PullDisconnected(p) PROVE HandlersOK'
  BY <1>15, <1>0 DEF PullDisconnected, PullType, IdlePull
<1>16. ASSUME NEW r \in Reports, NEW e \in Executions, NEW o \in Terminal, ReportFind(r, e, o) PROVE HandlersOK'
  BY <1>16, <1>0 DEF ReportFind, ReportType, IdleReport
<1>17. ASSUME NEW r \in Reports, ReportSave(r) PROVE HandlersOK'
  BY <1>17, <1>0 DEF ReportSave, ReportType, IdleReport
<1>18. ASSUME NEW r \in Reports, ReportCommands(r) PROVE HandlersOK'
  <2>1. Len(commands') = Len(commands)
    BY <1>18, <1>0, UpdateCommands DEF TypeOK, ReportType
  <2> QED BY <1>18, <1>0, <2>1 DEF ReportCommands, ReportType
<1>19. ASSUME NEW r \in Reports, ReportAnswer(r) PROVE HandlersOK'
  BY <1>19, <1>0 DEF ReportAnswer, ReportType, IdleReport
<1>20. ASSUME NEW r \in Reports, ReportDisconnected(r) PROVE HandlersOK'
  BY <1>20, <1>0 DEF ReportDisconnected, ReportType, IdleReport
<1>21. ASSUME NEW r \in Reports, ReportDies(r) PROVE HandlersOK'
  BY <1>21, <1>0 DEF ReportDies, ReportType, IdleReport
<1>22. CASE UNCHANGED <<worker, report, pull, commands>>
  BY <1>22 DEF HandlersOK
<1> QED
  BY <1>1, <1>2, <1>3, <1>4, <1>5, <1>6, <1>7, <1>8, <1>9, <1>10, <1>11, <1>12,
     <1>13, <1>14, <1>15, <1>16, <1>17, <1>18, <1>19, <1>20, <1>21, <1>22
  DEF Next, RequestNext, QueueNext, WorkerNext, AgentNext, PullNext, ReportNext,
      vars, execVars, agentVars, faultVars, CreateExecution, EnqueueExecution,
      EnqueueLost, StalledAfterCrash, LockLost, RegisterAgent, ReportLost

LEMMA HandlersInit == Init => HandlersOK
  BY DEF Init, HandlersOK, IdleWorker, IdlePull, IdleReport

\* Every variable keeps its type and every handler its execution.
THEOREM TypeCorrect == Spec => [](TypeOK /\ HandlersOK)
<1>1. Init => TypeOK /\ HandlersOK
  BY TypeInit, HandlersInit
<1>2. TypeOK /\ HandlersOK /\ [Next]_vars => (TypeOK /\ HandlersOK)'
  BY TypeNext, HandlersNext
<1> QED BY <1>1, <1>2, PTL DEF Spec

-----------------------------------------------------------------------------
(* Nothing is lost or started behind the queue's back, whatever fails.      *)

\* Everything that refers to an execution refers to one that was created, and
\* a worker past its first save refers to one that is no longer QUEUED.
StartedInv ==
  /\ \A e \in Executions : request[e] = "none" <=> status[e] = "none"
  /\ \A e \in Executions : job[e].state # "absent" => status[e] # "none"
  /\ \A e \in running : status[e] # "none"
  /\ \A r \in Reports : report[r].pc # "idle" => status[report[r].exec] # "none"
  /\ \A w \in Workers : worker[w].pc # "idle" => status[worker[w].exec] # "none"
  /\ \A w \in Workers : worker[w].pc \in {"started", "agentFound", "noAgent", "ended"}
                          => status[worker[w].exec] \in {"running"} \cup Terminal
  /\ CommandImpliesStarted
  /\ JobConsumedMeansStarted

LEMMA StartedInit == Init => StartedInv
<1> SUFFICES ASSUME Init PROVE StartedInv
  OBVIOUS
<1>1. Len(commands) = 0
  BY EmptySeq DEF Init
<1> QED
  BY <1>1 DEF Init, StartedInv, IdleWorker, IdleReport, CommandImpliesStarted,
              JobConsumedMeansStarted

LEMMA StartedNext == TypeOK /\ HandlersOK /\ StartedInv /\ [Next]_vars => StartedInv'
<1> SUFFICES ASSUME TypeOK, HandlersOK, StartedInv, [Next]_vars PROVE StartedInv'
  OBVIOUS
<1> USE DEF StartedInv, CommandImpliesStarted, JobConsumedMeansStarted, HandlersOK,
            execVars, agentVars, faultVars
<1>0. /\ worker \in WorkerType /\ report \in ReportType
      /\ job \in JobType /\ status \in StatusType /\ request \in RequestType
      /\ \A i \in 1..Len(commands) : commands[i].exec \in Executions
  <2>1. \A i \in 1..Len(commands) : commands[i] \in Command
    BY ElementOfSeq DEF TypeOK
  <2> QED BY <2>1 DEF TypeOK, Command
<1>1. ASSUME NEW e \in Executions, CreateExecution(e) PROVE StartedInv'
  <2>1. status[e] = "none" /\ job[e].state = "absent"
    BY <1>1, <1>0 DEF CreateExecution, JobType
  <2>2. \A x \in Executions : /\ x # e => status'[x] = status[x]
                              /\ status'[x] = "none" => status[x] = "none"
    BY <1>1, <1>0 DEF CreateExecution, StatusType
  <2>3. CommandImpliesStarted'
    BY <1>1, <1>0, <2>1, <2>2 DEF CreateExecution, Terminal
  <2>4. JobConsumedMeansStarted'
    BY <1>1, <2>1, <2>2 DEF CreateExecution
  <2>5. \A x \in Executions : request'[x] = "none" <=> status'[x] = "none"
    BY <1>1, <1>0 DEF CreateExecution, StatusType, RequestType
  <2>6. \A w \in Workers : worker[w].pc \in {"started", "agentFound", "noAgent", "ended"}
                             => status'[worker[w].exec] \in {"running"} \cup Terminal
    BY <1>0, <2>1, <2>2 DEF Terminal
  <2> QED BY <1>1, <1>0, <2>2, <2>3, <2>4, <2>5, <2>6 DEF CreateExecution
<1>2. ASSUME NEW e \in Executions, EnqueueExecution(e) PROVE StartedInv'
  BY <1>2, <1>0 DEF EnqueueExecution, JobType, RequestType, StatusType
<1>3. ASSUME NEW e \in Executions, EnqueueLost(e) PROVE StartedInv'
  BY <1>3, <1>0 DEF EnqueueLost, RequestType
<1>4. ASSUME NEW e \in Executions, StalledAfterCrash(e) PROVE StartedInv'
  BY <1>4, <1>0 DEF StalledAfterCrash, RequeueStalled, JobType
<1>5. ASSUME NEW e \in Executions, LockLost(e) PROVE StartedInv'
  BY <1>5, <1>0 DEF LockLost, RequeueStalled, JobType
<1>6. ASSUME NEW w \in Workers, NEW e \in Executions, TakeJob(w, e) PROVE StartedInv'
  <2>1. CASE status[e] = "queued"
    <3>1. \A x \in Executions : job'[x].state \in {job[x].state, "active"}
                               /\ (job'[x].state # "absent" => job[x].state # "absent")
      BY <1>6, <1>0, <2>1 DEF TakeJob, JobType
    <3>2. \A x \in Workers : worker'[x] = IF x = w THEN [pc |-> "loaded", exec |-> e] ELSE worker[x]
      BY <1>6, <1>0, <2>1 DEF TakeJob, WorkerType
    <3>3. UNCHANGED <<status, request, running, report, commands>>
      BY <1>6 DEF TakeJob
    <3> QED BY <2>1, <3>1, <3>2, <3>3
  <2>2. CASE status[e] # "queued"
    BY <1>6, <1>0, <2>2 DEF TakeJob, JobType
  <2> QED BY <2>1, <2>2
<1>7. ASSUME NEW w \in Workers, NEW e \in Executions, ProcessInline(w, e) PROVE StartedInv'
  BY <1>7, <1>0 DEF ProcessInline, RequestType, StatusType, WorkerType, IdleWorker
<1>8. ASSUME NEW w \in Workers, SaveRunning(w) PROVE StartedInv'
  BY <1>8, <1>0 DEF SaveRunning, StatusType, ExecutionStatus, WorkerType
<1>9. ASSUME NEW w \in Workers, FindAgent(w) PROVE StartedInv'
  BY <1>9, <1>0 DEF FindAgent, StatusType, WorkerType, IdleWorker
<1>10. ASSUME NEW w \in Workers, SaveAgentNotFound(w) PROVE StartedInv'
  BY <1>10, <1>0 DEF SaveAgentNotFound, StatusType, ExecutionStatus, WorkerType, Terminal
<1>11. ASSUME NEW w \in Workers, CreateCommand(w) PROVE StartedInv'
  <2>1. /\ Len(commands) \in Nat /\ Len(commands') = Len(commands) + 1
        /\ \A i \in 1..Len(commands) : commands'[i] = commands[i]
        /\ commands'[Len(commands) + 1] = [exec |-> worker[w].exec, status |-> "pending"]
    BY <1>11, AppendCommand DEF TypeOK, CreateCommand, Command, CommandStatus
  <2>2. CommandImpliesStarted'
    BY <1>11, <1>0, <2>1 DEF CreateCommand
  <2> QED BY <1>11, <1>0, <2>2 DEF CreateCommand, WorkerType
<1>12. ASSUME NEW w \in Workers, FinishJob(w) PROVE StartedInv'
  <2>1. CASE Holds(w, worker[w].exec)
    BY <1>12, <1>0, <2>1 DEF FinishJob, JobAfter, Holds, JobType, WorkerType, IdleWorker, Terminal
  <2>2. CASE ~Holds(w, worker[w].exec)
    BY <1>12, <1>0, <2>2 DEF FinishJob, JobAfter, WorkerType, IdleWorker
  <2> QED BY <2>1, <2>2
<1>13. ASSUME NEW w \in Workers, AttemptFails(w) PROVE StartedInv'
  BY <1>13, <1>0 DEF AttemptFails, JobAfterFailure, Holds, JobType, WorkerType, IdleWorker
<1>14. ASSUME NEW w \in Workers, WorkerCrash(w) PROVE StartedInv'
  BY <1>14, <1>0 DEF WorkerCrash, StatusType, WorkerType, IdleWorker
<1>15. ASSUME NEW d \in Devices, AgentRestart(d) PROVE StartedInv'
  BY <1>15, <1>0 DEF AgentRestart, ReportType
<1>16. ASSUME NEW p \in Pulls, PullMark(p) PROVE StartedInv'
  <2>1. /\ Len(commands') = Len(commands)
        /\ \A i \in 1..Len(commands) : commands'[i].exec = commands[i].exec
    BY <1>16, UpdateCommands DEF TypeOK
  <2> QED BY <1>16, <1>0, <2>1 DEF PullMark
<1>17. ASSUME NEW p \in Pulls, PullAnswered(p) PROVE StartedInv'
  <2>1. \A e \in FreshRuns(p) : status[e] # "none"
    BY <1>17, <1>0 DEF FreshRuns, Terminal
  <2> QED BY <1>17, <2>1 DEF PullAnswered
<1>18. ASSUME NEW r \in Reports, NEW e \in Executions, NEW o \in Terminal, ReportFind(r, e, o) PROVE StartedInv'
  <2>1. CASE status[e] \in Terminal
    BY <1>18, <2>1 DEF ReportFind
  <2>2. CASE status[e] \notin Terminal
    BY <1>18, <1>0, <2>2 DEF ReportFind, Executing, ReportType
  <2> QED BY <2>1, <2>2
<1>19. ASSUME NEW r \in Reports, ReportSave(r) PROVE StartedInv'
  BY <1>19, <1>0 DEF ReportSave, StatusType, ReportType, IdleReport, Terminal, ExecutionStatus
<1>20. ASSUME NEW r \in Reports, ReportCommands(r) PROVE StartedInv'
  <2>1. /\ Len(commands') = Len(commands)
        /\ \A i \in 1..Len(commands) : commands'[i].exec = commands[i].exec
    BY <1>20, <1>0, UpdateCommands DEF TypeOK, ReportType
  <2> QED BY <1>20, <1>0, <2>1 DEF ReportCommands, ReportType
<1>21. ASSUME NEW r \in Reports, ReportAnswer(r) PROVE StartedInv'
  BY <1>21, <1>0 DEF ReportAnswer, RunningAfter, StatusType, ReportType, IdleReport, Terminal
<1>22. ASSUME NEW r \in Reports, ReportDisconnected(r) PROVE StartedInv'
  BY <1>22, <1>0 DEF ReportDisconnected, RunningAfter, StatusType, ReportType, IdleReport, Terminal
<1>23. ASSUME NEW r \in Reports, ReportDies(r) PROVE StartedInv'
  BY <1>23, <1>0 DEF ReportDies, RunningAfter, StatusType, ReportType, IdleReport, Terminal
<1>24. ASSUME NEW e \in Executions, NEW o \in Terminal, ReportLost(e, o) PROVE StartedInv'
  BY <1>24 DEF ReportLost
<1>25. CASE UNCHANGED <<status, request, job, worker, report, running, commands>>
  BY <1>25 DEF StartedInv
<1> QED
  BY <1>1, <1>2, <1>3, <1>4, <1>5, <1>6, <1>7, <1>8, <1>9, <1>10, <1>11, <1>12,
     <1>13, <1>14, <1>15, <1>16, <1>17, <1>18, <1>19, <1>20, <1>21, <1>22, <1>23,
     <1>24, <1>25
  DEF Next, RequestNext, QueueNext, WorkerNext, AgentNext, PullNext, ReportNext,
      vars, execVars, agentVars, faultVars, RegisterAgent, PullFind, PullLost,
      PullDisconnected

\* An outcome on its way into the document is one that an agent obtained.
ResultInv ==
  /\ \A r \in Reports : report[r].pc # "idle" => report[r].outcome \in outcomes[report[r].exec]
  /\ NoInventedResult

LEMMA ResultInit == Init => ResultInv
  BY SMTT(30) DEF Init, ResultInv, NoInventedResult, IdleReport

LEMMA ResultNext == TypeOK /\ HandlersOK /\ ResultInv /\ [Next]_vars => ResultInv'
<1> SUFFICES ASSUME TypeOK, HandlersOK, ResultInv, [Next]_vars PROVE ResultInv'
  OBVIOUS
<1> USE DEF ResultInv, NoInventedResult, HandlersOK, execVars, agentVars, faultVars
<1>0. /\ report \in ReportType /\ status \in StatusType /\ result \in ResultType
      /\ outcomes \in OutcomesType
  BY DEF TypeOK
<1>1. ASSUME NEW e \in Executions, CreateExecution(e) PROVE ResultInv'
  BY <1>1, <1>0 DEF CreateExecution, StatusType, ResultType
<1>2. ASSUME NEW w \in Workers, SaveRunning(w) PROVE ResultInv'
  BY <1>2, <1>0 DEF SaveRunning, StatusType
<1>3. ASSUME NEW w \in Workers, SaveAgentNotFound(w) PROVE ResultInv'
  BY <1>3, <1>0 DEF SaveAgentNotFound, StatusType, ResultType
<1>4. ASSUME NEW d \in Devices, AgentRestart(d) PROVE ResultInv'
  BY <1>4, <1>0 DEF AgentRestart, ReportType
<1>5. ASSUME NEW r \in Reports, NEW e \in Executions, NEW o \in Terminal, ReportFind(r, e, o) PROVE ResultInv'
  <2>1. \A x \in Executions : outcomes[x] \subseteq outcomes'[x]
    BY <1>5, <1>0 DEF ReportFind, OutcomesType
  <2>2. CASE status[e] \in Terminal
    BY <1>5, <2>1, <2>2 DEF ReportFind
  <2>3. CASE status[e] \notin Terminal
    <3>1. o \in outcomes'[e]
      BY <1>5, <1>0 DEF ReportFind, OutcomesType
    <3>2. \A x \in Reports : report'[x] = IF x # r THEN report[x] ELSE
             [pc |-> "found", exec |-> e, outcome |-> o, client |-> TRUE]
      BY <1>5, <1>0, <2>3 DEF ReportFind, ReportType
    <3>3. UNCHANGED <<status, result>>
      BY <1>5 DEF ReportFind
    <3> QED BY <2>1, <3>1, <3>2, <3>3
  <2> QED BY <2>2, <2>3
<1>6. ASSUME NEW r \in Reports, ReportSave(r) PROVE ResultInv'
  BY <1>6, <1>0 DEF ReportSave, StatusType, ResultType, ReportType, Terminal
<1>7. ASSUME NEW r \in Reports, ReportCommands(r) PROVE ResultInv'
  BY <1>7, <1>0 DEF ReportCommands, ReportType, IdleReport
<1>8. ASSUME NEW r \in Reports, ReportAnswer(r) PROVE ResultInv'
  BY <1>8, <1>0 DEF ReportAnswer, ReportType, IdleReport
<1>9. ASSUME NEW r \in Reports, ReportDisconnected(r) PROVE ResultInv'
  BY <1>9, <1>0 DEF ReportDisconnected, ReportType, IdleReport
<1>10. ASSUME NEW r \in Reports, ReportDies(r) PROVE ResultInv'
  BY <1>10, <1>0 DEF ReportDies, ReportType, IdleReport
<1>11. ASSUME NEW e \in Executions, NEW o \in Terminal, ReportLost(e, o) PROVE ResultInv'
  <2>1. \A x \in Executions : outcomes[x] \subseteq outcomes'[x]
    BY <1>11, <1>0 DEF ReportLost, OutcomesType
  <2> QED BY <1>11, <2>1 DEF ReportLost
<1>12. CASE UNCHANGED <<status, result, outcomes, report>>
  BY <1>12 DEF ResultInv
<1> QED
  BY <1>1, <1>2, <1>3, <1>4, <1>5, <1>6, <1>7, <1>8, <1>9, <1>10, <1>11, <1>12
  DEF Next, RequestNext, QueueNext, WorkerNext, AgentNext, PullNext, ReportNext,
      vars, execVars, agentVars, faultVars, EnqueueExecution, EnqueueLost,
      StalledAfterCrash, LockLost, TakeJob, ProcessInline, FindAgent,
      CreateCommand, FinishJob, AttemptFails, WorkerCrash, RegisterAgent, PullFind,
      PullMark, PullAnswered, PullLost, PullDisconnected

\* What holds whatever fails.
SafetyInv == TypeOK /\ HandlersOK /\ StartedInv /\ ResultInv

LEMMA SafetyNext == SafetyInv /\ [Next]_vars => SafetyInv'
  BY TypeNext, HandlersNext, StartedNext, ResultNext DEF SafetyInv

LEMMA Safety == Spec => []SafetyInv
<1>1. Init => SafetyInv
  BY TypeInit, HandlersInit, StartedInit, ResultInit DEF SafetyInv
<1> QED BY <1>1, SafetyNext, PTL DEF Spec

\* Whatever fails and whoever processes a job twice, a command is created only
\* for an execution that has been taken out of the queue.
THEOREM CommandsOnlyOfStarted == Spec => []CommandImpliesStarted
<1>1. SafetyInv => CommandImpliesStarted
  BY DEF SafetyInv, StartedInv
<1> QED BY <1>1, Safety, PTL

\* No sequence of failures, retries, crashes and stalls makes the queue count
\* a job as done while its execution is still QUEUED.
THEOREM NoJobLost == Spec => []JobConsumedMeansStarted
<1>1. SafetyInv => JobConsumedMeansStarted
  BY DEF SafetyInv, StartedInv
<1> QED BY <1>1, Safety, PTL

\* SUCCESS and FAILED are the outcome of an agent's run of this execution, or
\* the worker's statement that the device has no agent.
THEOREM ResultsAreReported == Spec => []NoInventedResult
<1>1. SafetyInv => NoInventedResult
  BY DEF SafetyInv, ResultInv
<1> QED BY <1>1, Safety, PTL

-----------------------------------------------------------------------------
(* One job is processed by one worker at a time, as long as no worker loses *)
(* the lock of its job.                                                     *)

BeforeCommand == {"started", "agentFound", "noAgent"}

OneCommandEach ==
  \A i, j \in 1..Len(commands) : commands[i].exec = commands[j].exec => i = j

OwnerInv ==
  /\ \A w \in Workers : worker[w].pc # "idle" /\ queueEnabled => Holds(w, worker[w].exec)
  /\ \A e \in Executions : job[e].state # "absent" => queueEnabled /\ request[e] = "handedOver"
  /\ \A w, x \in Workers :
       worker[w].pc # "idle" /\ worker[x].pc # "idle" /\ worker[w].exec = worker[x].exec => w = x
  /\ \A w \in Workers : worker[w].pc # "idle" => request[worker[w].exec] = "handedOver"
  /\ \A w \in Workers : worker[w].pc = "loaded" => status[worker[w].exec] = "queued"
  /\ \A w \in Workers : worker[w].pc \in BeforeCommand =>
       status[worker[w].exec] = "running" /\ ~HasCommand(worker[w].exec)
  /\ \A e \in running : HasCommand(e)
  /\ \A r \in Reports : report[r].pc # "idle" => HasCommand(report[r].exec)
  /\ OneCommandEach

LEMMA OwnerInit == Init => OwnerInv
<1> SUFFICES ASSUME Init PROVE OwnerInv
  OBVIOUS
<1>1. Len(commands) = 0
  BY EmptySeq DEF Init
<1> QED
  BY <1>1 DEF Init, OwnerInv, IdleWorker, IdleReport, BeforeCommand, OneCommandEach

\* Rewriting the statuses of commands leaves their executions as they are.
LEMMA UpdateKeepsCommands ==
  ASSUME Len(commands) \in Nat, Len(commands') = Len(commands),
         \A i \in 1..Len(commands) : commands'[i].exec = commands[i].exec
  PROVE  /\ \A e : HasCommand(e)' <=> HasCommand(e)
         /\ OneCommandEach => OneCommandEach'
  BY DEF HasCommand, OneCommandEach

LEMMA OwnerNext ==
  SafetyInv /\ OwnerInv /\ [Next]_vars /\ "lockLost" \notin happened' => OwnerInv'
<1> SUFFICES ASSUME SafetyInv, OwnerInv, [Next]_vars, "lockLost" \notin happened'
             PROVE  OwnerInv'
  OBVIOUS
<1> USE DEF OwnerInv, HandlersOK, BeforeCommand, execVars, agentVars, faultVars
<1>0. /\ worker \in WorkerType /\ report \in ReportType /\ job \in JobType
      /\ status \in StatusType /\ request \in RequestType /\ commands \in Seq(Command)
      /\ HandlersOK /\ None \notin Workers
  BY ConstantsAssumption DEF SafetyInv, TypeOK
<1>s. /\ \A e \in Executions : request[e] = "none" <=> status[e] = "none"
      /\ \A e \in Executions : HasCommand(e) => status[e] \in {"running"} \cup Terminal
  BY DEF SafetyInv, StartedInv, CommandImpliesStarted, HasCommand
<1>c. UNCHANGED commands => /\ \A e : HasCommand(e)' <=> HasCommand(e)
                            /\ OneCommandEach'
  BY DEF HasCommand, OneCommandEach
<1> HIDE DEF OwnerInv
<1>1. ASSUME NEW e \in Executions, CreateExecution(e) PROVE OwnerInv'
  BY <1>1, <1>0, <1>s, <1>c DEF OwnerInv, Holds, CreateExecution, StatusType, RequestType, Terminal, JobType, WorkerType, IdleWorker
<1>2. ASSUME NEW e \in Executions, EnqueueExecution(e) PROVE OwnerInv'
  BY <1>2, <1>0, <1>s, <1>c DEF OwnerInv, Holds, EnqueueExecution, RequestType, JobType, WorkerType, IdleWorker
<1>3. ASSUME NEW e \in Executions, EnqueueLost(e) PROVE OwnerInv'
  BY <1>3, <1>0, <1>s, <1>c DEF OwnerInv, Holds, EnqueueLost, RequestType, JobType, WorkerType, IdleWorker
<1>4. ASSUME NEW e \in Executions, StalledAfterCrash(e) PROVE OwnerInv'
  BY <1>4, <1>0, <1>s, <1>c DEF OwnerInv, Holds, StalledAfterCrash, AbandonedBy, RequeueStalled, JobType, WorkerType, IdleWorker
<1>5. ASSUME NEW e \in Executions, LockLost(e) PROVE OwnerInv'
  BY <1>5 DEF LockLost, Fault
<1>6. ASSUME NEW w \in Workers, NEW e \in Executions, TakeJob(w, e) PROVE OwnerInv'
  <2>1. CASE status[e] = "queued"
    <3>1. \A x \in Workers : worker'[x] = IF x = w THEN [pc |-> "loaded", exec |-> e] ELSE worker[x]
      BY <1>6, <1>0, <2>1 DEF TakeJob, WorkerType
    <3>2. \A x \in Executions :
            job'[x] = IF x = e THEN [job[e] EXCEPT !.state = "active", !.holder = w] ELSE job[x]
      BY <1>6, <1>0, <2>1 DEF TakeJob, JobType
    <3>3. job'[e].state = "active" /\ job'[e].holder = w
      BY <1>0, <3>2 DEF JobType
    <3>4. \A x \in Workers : worker[x].pc # "idle" => worker[x].exec # e
      BY <1>6, <1>0 DEF TakeJob, OwnerInv, Holds
    <3>5. UNCHANGED <<queueEnabled, status, request, running, report, commands>> /\ job[e].state = "waiting"
      BY <1>6 DEF TakeJob
    <3> QED BY <1>0, <1>c, <2>1, <3>1, <3>2, <3>3, <3>4, <3>5 DEF OwnerInv, Holds
  <2>2. CASE status[e] # "queued"
    <3>1. \A x \in Executions : x # e => job'[x] = job[x]
      BY <1>6, <1>0, <2>2 DEF TakeJob, JobType
    <3>2. \A x \in Workers : worker[x].pc # "idle" => worker[x].exec # e
      BY <1>6, <1>0 DEF TakeJob, OwnerInv, Holds
    <3>3. /\ UNCHANGED <<queueEnabled, status, request, worker, running, report, commands>>
          /\ job[e].state = "waiting"
      BY <1>6, <2>2 DEF TakeJob
    <3> QED BY <1>0, <1>c, <3>1, <3>2, <3>3 DEF OwnerInv, Holds
  <2> QED BY <2>1, <2>2
<1>7. ASSUME NEW w \in Workers, NEW e \in Executions, ProcessInline(w, e) PROVE OwnerInv'
  BY <1>7, <1>0, <1>s, <1>c DEF OwnerInv, Holds, ProcessInline, RequestType, JobType, WorkerType, IdleWorker
<1>8. ASSUME NEW w \in Workers, SaveRunning(w) PROVE OwnerInv'
  <2>1. worker[w].pc = "loaded" /\ status[worker[w].exec] = "queued"
    BY <1>8 DEF SaveRunning, OwnerInv
  <2>2. ~HasCommand(worker[w].exec)
    BY <1>0, <1>s, <2>1 DEF Terminal
  <2>3. \A x \in Executions : status'[x] = IF x = worker[w].exec THEN "running" ELSE status[x]
    BY <1>8, <1>0 DEF SaveRunning, StatusType
  <2>4. \A x \in Workers : /\ worker'[x].exec = worker[x].exec
                           /\ worker'[x].pc = IF x = w THEN "started" ELSE worker[x].pc
    BY <1>8, <1>0 DEF SaveRunning, WorkerType
  <2>5. UNCHANGED <<queueEnabled, job, request, running, report, commands>>
    BY <1>8 DEF SaveRunning
  <2> QED BY <1>0, <1>c, <2>1, <2>2, <2>3, <2>4, <2>5 DEF OwnerInv, Holds
<1>9. ASSUME NEW w \in Workers, FindAgent(w) PROVE OwnerInv'
  BY <1>9, <1>0, <1>s, <1>c DEF OwnerInv, Holds, FindAgent, JobType, WorkerType, IdleWorker
<1>10. ASSUME NEW w \in Workers, SaveAgentNotFound(w) PROVE OwnerInv'
  BY <1>10, <1>0, <1>s, <1>c DEF OwnerInv, Holds, SaveAgentNotFound, StatusType, JobType, WorkerType, IdleWorker
<1>11. ASSUME NEW w \in Workers, CreateCommand(w) PROVE OwnerInv'
  <2> DEFINE e == worker[w].exec
  <2>1. /\ worker[w].pc = "agentFound" /\ ~HasCommand(e)
        /\ \A x \in Workers : worker[x].pc # "idle" /\ worker[x].exec = e => x = w
    BY <1>11 DEF CreateCommand, OwnerInv
  <2>2. /\ Len(commands) \in Nat /\ Len(commands') = Len(commands) + 1
        /\ \A i \in 1..Len(commands) : commands'[i] = commands[i]
        /\ commands'[Len(commands) + 1] = [exec |-> e, status |-> "pending"]
    BY <1>11, <1>0, AppendCommand DEF CreateCommand, Command, CommandStatus
  <2>3. \A x : HasCommand(x)' <=> HasCommand(x) \/ x = e
    BY <2>2 DEF HasCommand
  <2>4. \A i \in 1..Len(commands) : commands'[i].exec # e
    BY <2>1, <2>2 DEF HasCommand
  <2>5. OneCommandEach
    BY DEF OwnerInv
  <2>6. OneCommandEach'
    BY <2>2, <2>4, <2>5 DEF OneCommandEach
  <2>7. \A x \in Workers : /\ worker'[x].exec = worker[x].exec
                           /\ worker'[x].pc = IF x = w THEN "ended" ELSE worker[x].pc
    BY <1>11, <1>0 DEF CreateCommand, WorkerType
  <2>8. UNCHANGED <<queueEnabled, job, status, request, running, report>>
    BY <1>11 DEF CreateCommand
  <2> HIDE DEF e
  <2> QED BY <1>0, <2>1, <2>3, <2>6, <2>7, <2>8 DEF OwnerInv, Holds, e
<1>12. ASSUME NEW w \in Workers, FinishJob(w) PROVE OwnerInv'
  BY <1>12, <1>0, <1>s, <1>c DEF OwnerInv, Holds, FinishJob, JobAfter, JobType, WorkerType, IdleWorker
<1>13. ASSUME NEW w \in Workers, AttemptFails(w) PROVE OwnerInv'
  BY <1>13, <1>0, <1>s, <1>c DEF OwnerInv, Holds, AttemptFails, JobAfterFailure, JobType, WorkerType, IdleWorker
<1>14. ASSUME NEW w \in Workers, WorkerCrash(w) PROVE OwnerInv'
  BY <1>14, <1>0, <1>s, <1>c DEF OwnerInv, Holds, WorkerCrash, JobType, WorkerType, IdleWorker
<1>15. ASSUME NEW d \in Devices, AgentRestart(d) PROVE OwnerInv'
  BY <1>15, <1>0, <1>s, <1>c DEF OwnerInv, Holds, AgentRestart, ReportType, IdleReport
<1>16. ASSUME NEW p \in Pulls, PullMark(p) PROVE OwnerInv'
  <2>1. /\ Len(commands) \in Nat /\ Len(commands') = Len(commands)
        /\ \A i \in 1..Len(commands) : commands'[i].exec = commands[i].exec
    BY <1>16, <1>0, UpdateCommands DEF ReportType
  <2>2. /\ \A e : HasCommand(e)' <=> HasCommand(e)
        /\ OneCommandEach'
    BY <2>1, UpdateKeepsCommands DEF OwnerInv
  <2> QED BY <1>16, <1>0, <2>2 DEF OwnerInv, Holds, PullMark, ReportType
<1>17. ASSUME NEW p \in Pulls, PullAnswered(p) PROVE OwnerInv'
  <2>1. \A e \in FreshRuns(p) : HasCommand(e)
    BY <1>0 DEF FreshRuns, HasCommand
  <2>2. running' \subseteq running \cup FreshRuns(p)
    BY <1>17 DEF PullAnswered
  <2>3. UNCHANGED <<queueEnabled, job, status, request, worker, report, commands>>
    BY <1>17 DEF PullAnswered
  <2> QED BY <1>c, <2>1, <2>2, <2>3 DEF OwnerInv, Holds
<1>18. ASSUME NEW r \in Reports, NEW e \in Executions, NEW o \in Terminal, ReportFind(r, e, o) PROVE OwnerInv'
  BY <1>18, <1>0, <1>s, <1>c DEF OwnerInv, Holds, ReportFind, Executing, ReportType, IdleReport
<1>19. ASSUME NEW r \in Reports, ReportSave(r) PROVE OwnerInv'
  <2>1. HasCommand(report[r].exec) /\ report[r].exec \in Executions
    BY <1>19, <1>0 DEF ReportSave, OwnerInv
  <2>2. status[report[r].exec] \in {"running"} \cup Terminal
    BY <1>s, <2>1
  <2>3. \A x \in Executions : x # report[r].exec => status'[x] = status[x]
    BY <1>19, <1>0 DEF ReportSave, StatusType
  <2>4. \A x \in Reports : /\ report'[x].exec = report[x].exec
                           /\ report'[x].pc # "idle" => report[x].pc # "idle"
    BY <1>19, <1>0 DEF ReportSave, ReportType
  <2>5. UNCHANGED <<queueEnabled, job, request, worker, running, commands>>
    BY <1>19 DEF ReportSave
  <2> QED BY <1>0, <1>c, <2>1, <2>2, <2>3, <2>4, <2>5 DEF OwnerInv, Holds, Terminal
<1>20. ASSUME NEW r \in Reports, ReportCommands(r) PROVE OwnerInv'
  <2>1. /\ Len(commands) \in Nat /\ Len(commands') = Len(commands)
        /\ \A i \in 1..Len(commands) : commands'[i].exec = commands[i].exec
    BY <1>20, <1>0, UpdateCommands DEF ReportType
  <2>2. /\ \A e : HasCommand(e)' <=> HasCommand(e)
        /\ OneCommandEach'
    BY <2>1, UpdateKeepsCommands DEF OwnerInv
  <2> QED BY <1>20, <1>0, <2>2 DEF OwnerInv, Holds, ReportCommands, ReportType
<1>21. ASSUME NEW r \in Reports, ReportAnswer(r) PROVE OwnerInv'
  BY <1>21, <1>0, <1>s, <1>c DEF OwnerInv, Holds, ReportAnswer, RunningAfter, ReportType, IdleReport
<1>22. ASSUME NEW r \in Reports, ReportDisconnected(r) PROVE OwnerInv'
  BY <1>22, <1>0, <1>s, <1>c DEF OwnerInv, Holds, ReportDisconnected, RunningAfter, ReportType, IdleReport
<1>23. ASSUME NEW r \in Reports, ReportDies(r) PROVE OwnerInv'
  BY <1>23, <1>0, <1>s, <1>c DEF OwnerInv, Holds, ReportDies, RunningAfter, ReportType, IdleReport
<1>24. ASSUME NEW e \in Executions, NEW o \in Terminal, ReportLost(e, o) PROVE OwnerInv'
  BY <1>24, <1>0, <1>s, <1>c DEF OwnerInv, Holds, ReportLost, ReportType, IdleReport
<1>25. CASE UNCHANGED <<queueEnabled, status, request, job, worker, report, running, commands>>
  BY <1>25, SMTT(30) DEF OwnerInv, Holds, HasCommand, OneCommandEach
<1> QED
  BY <1>1, <1>2, <1>3, <1>4, <1>5, <1>6, <1>7, <1>8, <1>9, <1>10, <1>11, <1>12,
     <1>13, <1>14, <1>15, <1>16, <1>17, <1>18, <1>19, <1>20, <1>21, <1>22, <1>23,
     <1>24, <1>25
  DEF Next, RequestNext, QueueNext, WorkerNext, AgentNext, PullNext, ReportNext,
      vars, execVars, agentVars, faultVars, RegisterAgent, PullFind, PullLost,
      PullDisconnected

\* A final document is whole: finishedAt and a result, exactly when final.
DocumentIsWhole ==
  \A e \in Executions :
    status[e] \in Terminal <=> finished[e] /\ result[e] \in {"reported", "agent_not_found"}

LEMMA WholeNext == SafetyInv /\ OwnerInv /\ DocumentIsWhole /\ [Next]_vars => DocumentIsWhole'
<1> SUFFICES ASSUME SafetyInv, OwnerInv, DocumentIsWhole, [Next]_vars PROVE DocumentIsWhole'
  OBVIOUS
<1> USE DEF DocumentIsWhole, execVars, agentVars, faultVars
<1>0. /\ report \in ReportType /\ status \in StatusType
      /\ finished \in [Executions -> BOOLEAN] /\ result \in ResultType
      /\ HandlersOK
  BY DEF SafetyInv, TypeOK
<1>1. ASSUME NEW e \in Executions, CreateExecution(e) PROVE DocumentIsWhole'
  <2>1. status[e] = "none"
    BY <1>1 DEF SafetyInv, StartedInv, CreateExecution
  <2> QED BY <1>1, <1>0, <2>1 DEF CreateExecution, StatusType, ResultType, Terminal
<1>2. ASSUME NEW w \in Workers, SaveRunning(w) PROVE DocumentIsWhole'
  <2>1. worker[w].exec \in Executions /\ status[worker[w].exec] = "queued"
    BY <1>2, <1>0 DEF SaveRunning, OwnerInv, HandlersOK
  <2> QED BY <1>2, <1>0, <2>1 DEF SaveRunning, StatusType, Terminal
<1>3. ASSUME NEW w \in Workers, SaveAgentNotFound(w) PROVE DocumentIsWhole'
  BY <1>3, <1>0 DEF SaveAgentNotFound, StatusType, ResultType, Terminal
<1>4. ASSUME NEW r \in Reports, ReportSave(r) PROVE DocumentIsWhole'
  BY <1>4, <1>0 DEF ReportSave, StatusType, ResultType, ReportType, Terminal
<1>5. CASE UNCHANGED <<status, finished, result>>
  BY <1>5, SMTT(30) DEF DocumentIsWhole
<1> QED
  BY <1>1, <1>2, <1>3, <1>4, <1>5
  DEF Next, RequestNext, QueueNext, WorkerNext, AgentNext, PullNext, ReportNext,
      vars, execVars, agentVars, faultVars, EnqueueExecution, EnqueueLost,
      StalledAfterCrash, LockLost, TakeJob, ProcessInline, FindAgent,
      CreateCommand, FinishJob, AttemptFails, WorkerCrash, RegisterAgent,
      AgentRestart, PullFind, PullMark, PullAnswered, PullLost, PullDisconnected,
      ReportFind, ReportCommands, ReportAnswer, ReportDisconnected, ReportDies,
      ReportLost

\* What holds until a worker loses the lock of a job it is still processing.
LockedInv == "lockLost" \notin happened => OwnerInv /\ DocumentIsWhole

LEMMA HappenedGrows == TypeOK /\ [Next]_vars => happened \subseteq happened'
  BY DEF Next, RequestNext, QueueNext, WorkerNext, AgentNext, PullNext, ReportNext, Fault,
         CreateExecution, EnqueueExecution, EnqueueLost, StalledAfterCrash, LockLost, TakeJob,
         ProcessInline, SaveRunning, FindAgent, SaveAgentNotFound, CreateCommand, FinishJob,
         AttemptFails, WorkerCrash, RegisterAgent, AgentRestart, PullFind, PullMark,
         PullAnswered, PullLost, PullDisconnected, ReportFind, ReportSave, ReportCommands,
         ReportAnswer, ReportDisconnected, ReportDies, ReportLost, vars, faultVars

LEMMA Locked == Spec => [](SafetyInv /\ LockedInv)
<1>1. Init => SafetyInv /\ LockedInv
  <2>1. Init => DocumentIsWhole
    BY DEF Init, DocumentIsWhole, Terminal
  <2> QED BY <2>1, TypeInit, HandlersInit, StartedInit, ResultInit, OwnerInit
          DEF SafetyInv, LockedInv
<1>2. SafetyInv /\ LockedInv /\ [Next]_vars => (SafetyInv /\ LockedInv)'
  <2>1. SafetyInv /\ [Next]_vars => happened \subseteq happened'
    BY HappenedGrows DEF SafetyInv
  <2> QED BY <2>1, SafetyNext, OwnerNext, WholeNext DEF LockedInv
<1> QED BY <1>1, <1>2, PTL DEF Spec

\* The attempts of a job, its retries and its requeueing after a crash create
\* at most one command, for any number of workers and faults, until a worker
\* loses the lock of a job it is still processing.
THEOREM OneCommand == Spec => []AtMostOneCommand
<1>1. LockedInv => AtMostOneCommand
  BY DEF LockedInv, OwnerInv, OneCommandEach, AtMostOneCommand, Without
<1> QED BY <1>1, Locked, PTL

\* Until then, finishedAt and result are set exactly when the status is final.
THEOREM FinalIsWhole == Spec => []FinalDocumentIsWhole
<1>1. LockedInv => FinalDocumentIsWhole
  BY DEF LockedInv, DocumentIsWhole, FinalDocumentIsWhole, Without
<1> QED BY <1>1, Locked, PTL

-----------------------------------------------------------------------------
(* A final status stays, as long as no report outlives its request.         *)

FinalInv ==
  /\ \A r \in Reports : report[r].pc # "idle" => report[r].client /\ report[r].exec \in running
  /\ \A r, x \in Reports :
       report[r].pc # "idle" /\ report[x].pc # "idle" /\ report[r].exec = report[x].exec => r = x
  /\ \A r \in Reports : report[r].pc = "found" => status[report[r].exec] = "running"

LEMMA FinalInit == Init => FinalInv
  BY DEF Init, FinalInv, IdleReport

\* The execution of a report is neither QUEUED nor worked on before its command.
LEMMA ReportedIsPastCommand ==
  ASSUME SafetyInv, OwnerInv, NEW r \in Reports, report[r].pc # "idle"
  PROVE  /\ report[r].exec \in Executions
         /\ status[report[r].exec] \in {"running"} \cup Terminal
         /\ \A w \in Workers : worker[w].pc \in BeforeCommand \cup {"loaded"} =>
              worker[w].exec # report[r].exec
<1>1. report[r].exec \in Executions /\ HasCommand(report[r].exec)
  BY DEF SafetyInv, HandlersOK, OwnerInv
<1>2. status[report[r].exec] \in {"running"} \cup Terminal
  BY <1>1 DEF SafetyInv, StartedInv, CommandImpliesStarted, HasCommand
<1>3. \A w \in Workers : worker[w].pc \in BeforeCommand \cup {"loaded"} =>
        worker[w].exec # report[r].exec
  BY <1>1, <1>2, SMTT(30) DEF OwnerInv, BeforeCommand, Terminal
<1> QED BY <1>1, <1>2, <1>3

LEMMA FinalNext ==
  SafetyInv /\ OwnerInv /\ FinalInv /\ [Next]_vars /\ OneReportAtATime' => FinalInv'
<1> SUFFICES ASSUME SafetyInv, OwnerInv, FinalInv, [Next]_vars,
                    happened' \cap {"lockLost", "reportLost", "agentRestart"} = {}
             PROVE  FinalInv'
  BY DEF OneReportAtATime, Without
<1> USE DEF FinalInv, execVars, agentVars, faultVars
<1>0. /\ worker \in WorkerType /\ report \in ReportType /\ status \in StatusType
      /\ finished \in [Executions -> BOOLEAN] /\ result \in ResultType
      /\ HandlersOK
  BY DEF SafetyInv, TypeOK
<1>past. \A r \in Reports : report[r].pc # "idle" =>
        /\ report[r].exec \in Executions
        /\ status[report[r].exec] \in {"running"} \cup Terminal
        /\ \A w \in Workers : worker[w].pc \in BeforeCommand \cup {"loaded"} =>
             worker[w].exec # report[r].exec
  BY ReportedIsPastCommand
<1>1. ASSUME NEW e \in Executions, CreateExecution(e) PROVE FinalInv'
  <2>1. status[e] = "none"
    BY <1>1 DEF SafetyInv, StartedInv, CreateExecution
  <2> QED BY <1>1, <1>0, <1>past, <2>1 DEF CreateExecution, StatusType, ResultType, Terminal
<1>2. ASSUME NEW w \in Workers, SaveRunning(w) PROVE FinalInv'
  <2>1. worker[w].exec \in Executions /\ status[worker[w].exec] = "queued"
    BY <1>2, <1>0 DEF SaveRunning, OwnerInv, HandlersOK
  <2> QED BY <1>2, <1>0, <1>past, <2>1 DEF SaveRunning, StatusType, Terminal
<1>3. ASSUME NEW w \in Workers, SaveAgentNotFound(w) PROVE FinalInv'
  <2>1. worker[w].exec \in Executions /\ worker[w].pc \in BeforeCommand
    BY <1>3, <1>0 DEF SaveAgentNotFound, HandlersOK, BeforeCommand
  <2>2. \A x \in Executions : x # worker[w].exec =>
          status'[x] = status[x] /\ finished'[x] = finished[x] /\ result'[x] = result[x]
    BY <1>3, <1>0 DEF SaveAgentNotFound, StatusType, ResultType
  <2>3. /\ status'[worker[w].exec] = "failed" /\ finished'[worker[w].exec]
        /\ result'[worker[w].exec] = "agent_not_found"
    BY <1>3, <1>0, <2>1 DEF SaveAgentNotFound, StatusType, ResultType
  <2>4. UNCHANGED <<running, report>>
    BY <1>3 DEF SaveAgentNotFound
  <2>6. \A x \in Reports : report[x].pc # "idle" => report[x].exec # worker[w].exec
    BY <2>1, ReportedIsPastCommand
  <2>7. ASSUME NEW x \in Reports, report'[x].pc = "found"
        PROVE  status'[report'[x].exec] = "running"
    <3>1. report[x].pc = "found" /\ report'[x] = report[x] /\ report[x].exec \in Executions
      BY <1>0, <2>4, <2>7 DEF HandlersOK
    <3> QED BY <2>2, <2>6, <3>1
  <2> QED BY <2>4, <2>7
<1>4. ASSUME NEW d \in Devices, AgentRestart(d) PROVE FinalInv'
  BY <1>4 DEF AgentRestart, Fault
<1>5. ASSUME NEW p \in Pulls, PullAnswered(p) PROVE FinalInv'
  <2>1. running \subseteq running'
    BY <1>5 DEF PullAnswered
  <2> QED BY <1>5, <2>1 DEF PullAnswered
<1>6. ASSUME NEW r \in Reports, NEW e \in Executions, NEW o \in Terminal, ReportFind(r, e, o) PROVE FinalInv'
  <2>1. \A x \in Reports : report[x].pc # "idle" => report[x].exec # e
    BY <1>6 DEF ReportFind, Executing
  <2>2. CASE status[e] \in Terminal
    BY <1>6, <2>1, <2>2 DEF ReportFind
  <2>3. CASE status[e] \notin Terminal
    <3>1. HasCommand(e)
      BY <1>6 DEF ReportFind, Executing, OwnerInv
    <3>2. status[e] = "running"
      BY <2>3, <3>1 DEF SafetyInv, StartedInv, CommandImpliesStarted, HasCommand
    <3>3. \A x \in Reports : report'[x] = IF x # r THEN report[x] ELSE
             [pc |-> "found", exec |-> e, outcome |-> o, client |-> TRUE]
      BY <1>6, <1>0, <2>3 DEF ReportFind, ReportType
    <3>4. UNCHANGED <<status, finished, result, running>> /\ e \in running
      BY <1>6, <2>3 DEF ReportFind, Executing
    <3> QED BY <2>1, <3>2, <3>3, <3>4
  <2> QED BY <2>2, <2>3
<1>7. ASSUME NEW r \in Reports, ReportSave(r) PROVE FinalInv'
  <2> DEFINE e == report[r].exec
  <2>1. e \in Executions
    BY <1>7, <1>0 DEF ReportSave, HandlersOK
  <2>2. \A x \in Executions : x # e =>
          status'[x] = status[x] /\ finished'[x] = finished[x] /\ result'[x] = result[x]
    BY <1>7, <1>0 DEF ReportSave, StatusType, ResultType
  <2>3. status'[e] \in Terminal /\ finished'[e] /\ result'[e] = "reported"
    BY <1>7, <1>0, <2>1 DEF ReportSave, StatusType, ResultType, ReportType
  <2>4. \A x \in Reports : /\ report'[x].exec = report[x].exec
                           /\ report'[x].client = report[x].client
                           /\ report'[x].pc = IF x = r THEN "saved" ELSE report[x].pc
    BY <1>7, <1>0 DEF ReportSave, ReportType
  <2>5. UNCHANGED running /\ report[r].pc = "found"
    BY <1>7 DEF ReportSave
  <2>7. ASSUME NEW x \in Reports, report'[x].pc = "found"
        PROVE  status'[report'[x].exec] = "running"
    <3>1. x # r /\ report[x].pc = "found" /\ report'[x].exec = report[x].exec
      BY <2>4, <2>7
    <3>2. report[x].exec # e
      BY <2>5, <3>1
    <3>3. report[x].exec \in Executions
      BY <1>0, <3>1 DEF HandlersOK
    <3> QED BY <2>2, <3>1, <3>2, <3>3
  <2>8. \A x \in Reports : report'[x].pc # "idle" => report[x].pc # "idle"
    BY <2>4, <2>5
  <2> HIDE DEF e
  <2> QED BY <2>4, <2>5, <2>7, <2>8
<1>8. ASSUME NEW r \in Reports, ReportCommands(r) PROVE FinalInv'
  BY <1>8, <1>0 DEF ReportCommands, ReportType
<1>9. ASSUME NEW r \in Reports, ReportAnswer(r) PROVE FinalInv'
  BY <1>9, <1>0 DEF ReportAnswer, RunningAfter, ReportType, IdleReport
<1>10. ASSUME NEW r \in Reports, ReportDisconnected(r) PROVE FinalInv'
  BY <1>10 DEF ReportDisconnected, Fault
<1>11. ASSUME NEW r \in Reports, ReportDies(r) PROVE FinalInv'
  BY <1>11, <1>0 DEF ReportDies, RunningAfter, ReportType, IdleReport
<1>12. ASSUME NEW e \in Executions, NEW o \in Terminal, ReportLost(e, o) PROVE FinalInv'
  BY <1>12 DEF ReportLost, Fault
<1>13. CASE UNCHANGED <<status, report, running>>
  BY <1>13 DEF FinalInv
<1> QED
  BY <1>1, <1>2, <1>3, <1>4, <1>5, <1>6, <1>7, <1>8, <1>9, <1>10, <1>11, <1>12,
     <1>13, Zenon
  DEF Next, RequestNext, QueueNext, WorkerNext, AgentNext, PullNext, ReportNext,
      vars, execVars, agentVars, faultVars, EnqueueExecution, EnqueueLost,
      StalledAfterCrash, LockLost, TakeJob, ProcessInline, FindAgent,
      CreateCommand, FinishJob, AttemptFails, WorkerCrash, RegisterAgent, PullFind,
      PullMark, PullLost, PullDisconnected

\* What holds until a report may outlive its request.
AnsweredInv == OneReportAtATime => FinalInv

LEMMA Answered == Spec => [](SafetyInv /\ LockedInv /\ AnsweredInv)
<1>1. Init => AnsweredInv
  BY FinalInit DEF AnsweredInv
<1>2. SafetyInv /\ LockedInv /\ AnsweredInv /\ [Next]_vars => AnsweredInv'
  <2> SUFFICES ASSUME SafetyInv, LockedInv, AnsweredInv, [Next]_vars, OneReportAtATime'
               PROVE  FinalInv'
    BY DEF AnsweredInv
  <2>1. happened \subseteq happened'
    BY HappenedGrows DEF SafetyInv
  <2>2. OneReportAtATime /\ "lockLost" \notin happened
    BY <2>1 DEF OneReportAtATime, Without
  <2> QED BY <2>2, FinalNext DEF LockedInv, AnsweredInv
<1> QED BY <1>1, <1>2, Locked, PTL DEF Spec

-----------------------------------------------------------------------------
(* The promise of ScriptRun: each step of the service is a step of the life *)
(* of one run, or leaves it alone.                                          *)

LEMMA PromiseInit == Init => Promise!Init
<1> SUFFICES ASSUME Init PROVE Promise!Init
  OBVIOUS
<1>1. Len(commands) = 0
  BY EmptySeq DEF Init
<1> QED BY <1>1 DEF Init, Promise!Init, Issued, HasCommand

LEMMA PromiseNext ==
  SafetyInv /\ OwnerInv /\ FinalInv /\ [Next]_vars => [Promise!Next]_<<status, Issued>>
<1> SUFFICES ASSUME SafetyInv, OwnerInv, FinalInv, [Next]_vars
             PROVE  [Promise!Next]_<<status, Issued>>
  OBVIOUS
<1> USE DEF execVars, agentVars, faultVars
<1>0. /\ status \in StatusType /\ report \in ReportType /\ commands \in Seq(Command)
      /\ HandlersOK
  BY DEF SafetyInv, TypeOK
<1>c. UNCHANGED commands => UNCHANGED Issued
  BY DEF Issued, HasCommand
<1>1. ASSUME NEW e \in Executions, CreateExecution(e) PROVE [Promise!Next]_<<status, Issued>>
  <2>1. status[e] = "none"
    BY <1>1 DEF SafetyInv, StartedInv, CreateExecution
  <2>2. Promise!Submit(e)
    BY <1>1, <1>c, <2>1 DEF CreateExecution, Promise!Submit
  <2> QED BY <2>2 DEF Promise!Next
<1>2. ASSUME NEW w \in Workers, SaveRunning(w) PROVE [Promise!Next]_<<status, Issued>>
  <2>1. worker[w].exec \in Executions /\ status[worker[w].exec] = "queued"
    BY <1>2, <1>0 DEF SaveRunning, OwnerInv, HandlersOK
  <2>2. Promise!Start(worker[w].exec)
    BY <1>2, <1>c, <2>1 DEF SaveRunning, Promise!Start
  <2> QED BY <2>1, <2>2 DEF Promise!Next
<1>3. ASSUME NEW w \in Workers, SaveAgentNotFound(w) PROVE [Promise!Next]_<<status, Issued>>
  <2>1. /\ worker[w].exec \in Executions /\ status[worker[w].exec] = "running"
        /\ worker[w].exec \notin Issued
    BY <1>3, <1>0 DEF SaveAgentNotFound, OwnerInv, HandlersOK, BeforeCommand, Issued
  <2>2. Promise!Refuse(worker[w].exec)
    BY <1>3, <1>c, <2>1 DEF SaveAgentNotFound, Promise!Refuse
  <2> QED BY <2>1, <2>2 DEF Promise!Next
<1>4. ASSUME NEW w \in Workers, CreateCommand(w) PROVE [Promise!Next]_<<status, Issued>>
  <2> DEFINE e == worker[w].exec
  <2>1. e \in Executions /\ status[e] = "running" /\ e \notin Issued
    BY <1>4, <1>0 DEF CreateCommand, OwnerInv, HandlersOK, BeforeCommand, Issued
  <2>2. /\ Len(commands) \in Nat /\ Len(commands') = Len(commands) + 1
        /\ \A i \in 1..Len(commands) : commands'[i] = commands[i]
        /\ commands'[Len(commands) + 1] = [exec |-> e, status |-> "pending"]
    BY <1>4, <1>0, <2>1, AppendCommand DEF CreateCommand, Command, CommandStatus
  <2>3. \A x : HasCommand(x)' <=> HasCommand(x) \/ x = e
    BY <2>2 DEF HasCommand
  <2>4. Issued' = Issued \cup {e}
    BY <2>1, <2>3 DEF Issued
  <2>5. Promise!Issue(e)
    BY <1>4, <2>1, <2>4 DEF CreateCommand, Promise!Issue
  <2> QED BY <2>1, <2>5 DEF Promise!Next
<1>5. ASSUME NEW p \in Pulls, PullMark(p) PROVE [Promise!Next]_<<status, Issued>>
  <2>1. /\ Len(commands) \in Nat /\ Len(commands') = Len(commands)
        /\ \A i \in 1..Len(commands) : commands'[i].exec = commands[i].exec
    BY <1>5, <1>0, UpdateCommands DEF ReportType
  <2>2. UNCHANGED Issued
    BY <2>1, UpdateKeepsCommands DEF Issued
  <2> QED BY <1>5, <2>2 DEF PullMark
<1>6. ASSUME NEW r \in Reports, ReportSave(r) PROVE [Promise!Next]_<<status, Issued>>
  <2> DEFINE e == report[r].exec
  <2>1. e \in Executions /\ report[r].outcome \in Terminal
    BY <1>6, <1>0 DEF ReportSave, HandlersOK, ReportType
  <2>2. status[e] = "running" /\ HasCommand(e)
    BY <1>6 DEF ReportSave, FinalInv, OwnerInv
  <2>3. e \in Issued
    BY <2>1, <2>2 DEF Issued
  <2>4. status' = [status EXCEPT ![e] = report[r].outcome] /\ UNCHANGED commands
    BY <1>6 DEF ReportSave
  <2>5. Promise!End(e, report[r].outcome)
    BY <1>c, <2>2, <2>3, <2>4 DEF Promise!End
  <2> QED BY <2>1, <2>5 DEF Promise!Next, Terminal
<1>7. ASSUME NEW r \in Reports, ReportCommands(r) PROVE [Promise!Next]_<<status, Issued>>
  <2>1. /\ Len(commands) \in Nat /\ Len(commands') = Len(commands)
        /\ \A i \in 1..Len(commands) : commands'[i].exec = commands[i].exec
    BY <1>7, <1>0, UpdateCommands DEF ReportType
  <2>2. UNCHANGED Issued
    BY <2>1, UpdateKeepsCommands DEF Issued
  <2> QED BY <1>7, <2>2 DEF ReportCommands
<1>8. CASE UNCHANGED <<status, commands>>
  BY <1>8 DEF Issued, HasCommand
<1> QED
  BY <1>1, <1>2, <1>3, <1>4, <1>5, <1>6, <1>7, <1>8
  DEF Next, RequestNext, QueueNext, WorkerNext, AgentNext, PullNext, ReportNext,
      vars, execVars, agentVars, faultVars, EnqueueExecution, EnqueueLost,
      StalledAfterCrash, LockLost, TakeJob, ProcessInline, FindAgent, FinishJob,
      AttemptFails, WorkerCrash, RegisterAgent, AgentRestart, PullFind,
      PullAnswered, PullLost, PullDisconnected, ReportFind, ReportAnswer,
      ReportDisconnected, ReportDies, ReportLost

\* Polls, retries, crashes, requeued jobs and dying handlers implement the
\* abstract life of a run, step by step.
THEOREM Implementation ==
  ASSUME "lockLost" \notin Faults, "reportLost" \notin Faults, "agentRestart" \notin Faults
  PROVE  Spec => ImplementsScriptRun
<1>1. SafetyInv /\ LockedInv /\ AnsweredInv /\ [Next]_vars => [Promise!Next]_<<status, Issued>>
  <2>1. TypeOK => OneReportAtATime /\ "lockLost" \notin happened
    BY DEF TypeOK, OneReportAtATime, Without
  <2> QED BY <2>1, PromiseNext DEF SafetyInv, LockedInv, AnsweredInv
<1> QED BY <1>1, PromiseInit, Answered, PTL DEF Spec, ImplementsScriptRun, Promise!Spec

\* In such a state no step changes a final document.
LEMMA FinalStep ==
  ASSUME SafetyInv, OwnerInv, FinalInv, [Next]_vars,
         NEW x \in Executions, status[x] \in Terminal
  PROVE  status'[x] = status[x] /\ finished'[x] = finished[x] /\ result'[x] = result[x]
<1> DEFINE Same == status'[x] = status[x] /\ finished'[x] = finished[x] /\ result'[x] = result[x]
<1> USE DEF execVars, agentVars, faultVars
<1>0. /\ status \in StatusType /\ finished \in [Executions -> BOOLEAN] /\ result \in ResultType
      /\ HandlersOK
  BY DEF SafetyInv, TypeOK
<1>1. ASSUME NEW e \in Executions, CreateExecution(e) PROVE Same
  <2>1. x # e
    BY <1>1 DEF SafetyInv, StartedInv, CreateExecution, Terminal
  <2> QED BY <1>1, <1>0, <2>1 DEF CreateExecution, StatusType, ResultType
<1>2. ASSUME NEW w \in Workers, SaveRunning(w) PROVE Same
  <2>1. x # worker[w].exec
    BY <1>2 DEF SaveRunning, OwnerInv, Terminal
  <2> QED BY <1>2, <1>0, <2>1 DEF SaveRunning, StatusType
<1>3. ASSUME NEW w \in Workers, SaveAgentNotFound(w) PROVE Same
  <2>1. x # worker[w].exec
    BY <1>3 DEF SaveAgentNotFound, OwnerInv, BeforeCommand, Terminal
  <2> QED BY <1>3, <1>0, <2>1 DEF SaveAgentNotFound, StatusType, ResultType
<1>4. ASSUME NEW r \in Reports, ReportSave(r) PROVE Same
  <2>1. x # report[r].exec
    BY <1>4 DEF ReportSave, FinalInv, Terminal
  <2> QED BY <1>4, <1>0, <2>1 DEF ReportSave, StatusType, ResultType
<1>5. CASE UNCHANGED <<status, finished, result>>
  BY <1>5 DEF Same
<1> QED
  BY <1>1, <1>2, <1>3, <1>4, <1>5
  DEF Next, RequestNext, QueueNext, WorkerNext, AgentNext, PullNext, ReportNext,
      vars, execVars, agentVars, faultVars, EnqueueExecution, EnqueueLost,
      StalledAfterCrash, LockLost, TakeJob, ProcessInline, FindAgent,
      CreateCommand, FinishJob, AttemptFails, WorkerCrash, RegisterAgent,
      AgentRestart, PullFind, PullMark, PullAnswered, PullLost, PullDisconnected,
      ReportFind, ReportCommands, ReportAnswer, ReportDisconnected, ReportDies,
      ReportLost

\* Whatever other handlers do between its reads and its saves, no handler
\* changes a final document.
THEOREM Finality == Spec => TerminalIsFinal
<1>1. SafetyInv /\ LockedInv /\ AnsweredInv /\ [Next]_vars =>
        [\A e \in Executions : OneReportAtATime /\ status[e] \in Terminal =>
           status'[e] = status[e] /\ finished'[e] = finished[e] /\ result'[e] = result[e]]_vars
  BY FinalStep DEF LockedInv, AnsweredInv, OneReportAtATime, Without
<1> QED BY <1>1, Answered, PTL DEF Spec, TerminalIsFinal

-----------------------------------------------------------------------------
(* A script is run once, as long as polls do not overlap either.            *)

\* A command that was run is no longer PENDING, so the poll that may still
\* have it run is the only one that has found it.
RunInv ==
  /\ \A e \in Executions : starts[e] <= 1 /\ (starts[e] >= 1 => HasCommand(e))
  /\ \A i \in 1..Len(commands) :
       starts[commands[i].exec] >= 1 => commands[i].status # "pending"
  /\ \A p \in Pulls : pull[p].client => pull[p].pc # "idle"
  /\ \A p, q \in Pulls :
       pull[p].client /\ pull[q].client /\ pull[p].device = pull[q].device => p = q
  /\ \A p \in Pulls : pull[p].pc = "marked" =>
       \A i \in pull[p].batch : commands[i].status # "pending"
  /\ \A p \in Pulls : pull[p].client =>
       \A i \in pull[p].batch :
         starts[commands[i].exec] = 0 /\ Target[commands[i].exec] = pull[p].device

LEMMA RunInit == Init => RunInv
<1> SUFFICES ASSUME Init PROVE RunInv
  OBVIOUS
<1>1. Len(commands) = 0
  BY EmptySeq DEF Init
<1> QED BY <1>1 DEF Init, RunInv, IdlePull

\* What updateMany and the update of reportResult do to the statuses.
LEMMA StatusesAfter ==
  ASSUME commands \in Seq(Command),
         \/ \E p \in Pulls : PullMark(p)
         \/ \E r \in Reports : ReportCommands(r) /\ report[r].outcome \in Terminal
  PROVE  \A i \in 1..Len(commands) : commands'[i].status # "pending" \/ commands'[i] = commands[i]
<1>1. Len(commands) \in Nat /\ commands \in [1..Len(commands) -> Command]
  BY LenProperties
<1>2. ASSUME NEW i \in 1..Len(commands), NEW s \in CommandStatus \ {"pending"}
      PROVE  [commands[i] EXCEPT !.status = s].status # "pending"
  BY <1>1, <1>2 DEF Command
<1>3. CASE \E p \in Pulls : PullMark(p)
  BY <1>2, <1>3 DEF PullMark, CommandStatus
<1>4. CASE \E r \in Reports : ReportCommands(r) /\ report[r].outcome \in Terminal
  BY <1>2, <1>4 DEF ReportCommands, CloseCommands, CommandStatus
<1> QED BY <1>3, <1>4

\* Rewriting statuses leaves the runs as they are.
LEMMA RunUpdate ==
  ASSUME SafetyInv, RunInv, UNCHANGED starts,
         \/ UNCHANGED pull /\ \E r \in Reports : ReportCommands(r)
         \/ \E p \in Pulls : PullMark(p)
  PROVE  RunInv'
<1>0. /\ commands \in Seq(Command) /\ report \in ReportType /\ pull \in PullType /\ HandlersOK
      /\ starts \in [Executions -> Nat]
  BY DEF SafetyInv, TypeOK
<1>1. /\ Len(commands) \in Nat /\ Len(commands') = Len(commands)
      /\ \A i \in 1..Len(commands) : commands'[i].exec = commands[i].exec
  BY <1>0, UpdateCommands DEF ReportType
<1>2. \A e : HasCommand(e)' <=> HasCommand(e)
  BY <1>1 DEF HasCommand
<1>3. \A i \in 1..Len(commands) : commands'[i].status # "pending" \/ commands'[i] = commands[i]
  BY <1>0, StatusesAfter DEF ReportType
<1>4. \A p \in Pulls : /\ pull'[p].client = pull[p].client /\ pull'[p].device = pull[p].device
                       /\ pull'[p].batch = pull[p].batch
                       /\ pull'[p].pc = "idle" <=> pull[p].pc = "idle"
  BY <1>0 DEF PullMark, PullType
<1>5. \A p \in Pulls : pull'[p].pc = "marked" =>
        \A i \in pull[p].batch : commands'[i].status # "pending"
  <2>1. SUFFICES ASSUME NEW p \in Pulls, pull'[p].pc = "marked", NEW i \in pull[p].batch
                 PROVE  commands'[i].status # "pending"
    OBVIOUS
  <2>2. i \in 1..Len(commands)
    BY <1>0, <2>1 DEF HandlersOK
  <2>3. CASE pull[p].pc = "marked"
    BY <1>3, <2>2, <2>3 DEF RunInv
  <2>4. CASE pull[p].pc # "marked"
    <3>1. PullMark(p)
      BY <1>0, <2>1, <2>4 DEF PullMark, PullType
    <3>2. commands'[i] = [commands[i] EXCEPT !.status = "dispatched"] /\ commands[i] \in Command
      BY <1>0, <2>2, <3>1, ElementOfSeq DEF PullMark
    <3> QED BY <3>2 DEF Command
  <2> QED BY <2>3, <2>4
<1>6. \A p \in Pulls : pull[p].batch \subseteq 1..Len(commands)
  BY <1>0 DEF HandlersOK
<1> QED BY <1>1, <1>2, <1>3, <1>4, <1>5, <1>6 DEF RunInv

\* The answer of a poll starts what the agent does not run already, once.
LEMMA RunAnswered ==
  ASSUME SafetyInv, OwnerInv, RunInv, NEW p \in Pulls, PullAnswered(p)
  PROVE  RunInv'
<1>0. /\ commands \in Seq(Command) /\ pull \in PullType /\ HandlersOK
      /\ starts \in [Executions -> Nat]
  BY DEF SafetyInv, TypeOK
<1>1. \A q \in Pulls : pull'[q] = IF q = p THEN IdlePull ELSE pull[q]
  BY <1>0 DEF PullAnswered, PullType
<1>2. /\ UNCHANGED commands /\ \A e : HasCommand(e)' <=> HasCommand(e)
      /\ pull[p].pc = "marked"
  BY DEF PullAnswered, HasCommand
<1>3. CASE ~pull[p].client
  BY <1>1, <1>2, <1>3 DEF PullAnswered, RunInv, IdlePull
<1>4. CASE pull[p].client
  <2>1. \A e \in Executions : starts'[e] = IF e \in FreshRuns(p) THEN starts[e] + 1 ELSE starts[e]
    BY <1>0, <1>4 DEF PullAnswered
  <2>2. \A i \in pull[p].batch : i \in 1..Len(commands) /\ commands[i].exec \in Executions
    BY <1>0, CommandsAre DEF HandlersOK
  <2>3. ASSUME NEW e \in FreshRuns(p)
        PROVE  /\ starts[e] = 0 /\ HasCommand(e) /\ Target[e] = pull[p].device
               /\ \A i \in 1..Len(commands) :
                    commands[i].exec = e => commands[i].status # "pending"
    <3>1. PICK j \in pull[p].batch : e = commands[j].exec
      BY <2>3 DEF FreshRuns
    <3>2. \A i \in 1..Len(commands) : commands[i].exec = e => i = j
      BY <2>2, <3>1 DEF OwnerInv, OneCommandEach
    <3> QED BY <1>2, <1>4, <2>2, <3>1, <3>2 DEF RunInv, HasCommand
  <2>4. \A e \in Executions : starts'[e] <= 1 /\ (starts'[e] >= 1 => HasCommand(e))
    BY <2>1, <2>3 DEF RunInv
  <2>5. \A i \in 1..Len(commands) : commands[i].exec \in Executions
    BY <1>0, CommandsAre
  <2>6. \A i \in 1..Len(commands) :
          starts'[commands[i].exec] >= 1 => commands[i].status # "pending"
    BY <1>0, <2>1, <2>3, <2>5 DEF RunInv
  <2>7. ASSUME NEW q \in Pulls, pull'[q].client, NEW i \in pull'[q].batch
        PROVE  starts'[commands[i].exec] = 0 /\ Target[commands[i].exec] = pull'[q].device
    <3>1. q # p /\ pull'[q] = pull[q]
      BY <1>1, <2>7 DEF IdlePull
    <3>2. pull[q].device # pull[p].device
      BY <1>4, <2>7, <3>1 DEF RunInv
    <3>3. /\ starts[commands[i].exec] = 0 /\ Target[commands[i].exec] = pull[q].device
          /\ commands[i].exec \in Executions
      BY <1>0, <2>5, <2>7, <3>1 DEF RunInv, HandlersOK
    <3>4. commands[i].exec \notin FreshRuns(p)
      BY <2>3, <3>2, <3>3
    <3> QED BY <2>1, <3>1, <3>3, <3>4
  <2> QED BY <1>1, <1>2, <2>4, <2>6, <2>7 DEF RunInv, IdlePull
<1> QED BY <1>3, <1>4

\* Polls begin and end: the one that has just begun is the only one the
\* device waits for, and its commands were not run.
LEMMA RunNext ==
  ASSUME SafetyInv, OwnerInv, RunInv, [Next]_vars, "pollOverlap" \notin happened'
  PROVE  RunInv'
<1> USE DEF execVars, agentVars, faultVars
<1>0. /\ commands \in Seq(Command) /\ pull \in PullType /\ HandlersOK
      /\ starts \in [Executions -> Nat] /\ worker \in WorkerType
  BY DEF SafetyInv, TypeOK
<1>e. /\ \A i \in 1..Len(commands) : commands[i] \in Command /\ commands[i].exec \in Executions
      /\ Len(commands) \in Nat
  BY <1>0, CommandsAre
<1>1. ASSUME NEW w \in Workers, CreateCommand(w) PROVE RunInv'
  <2> DEFINE e == worker[w].exec
  <2>1. e \in Executions /\ ~HasCommand(e)
    BY <1>0, <1>1 DEF CreateCommand, HandlersOK, OwnerInv, BeforeCommand
  <2>2. /\ Len(commands') = Len(commands) + 1
        /\ \A i \in 1..Len(commands) : commands'[i] = commands[i]
        /\ commands'[Len(commands) + 1].exec = e
    BY <1>1, <1>0, <2>1, AppendCommand DEF CreateCommand, Command, CommandStatus
  <2>3. \A x : HasCommand(x) => HasCommand(x)'
    BY <1>e, <2>2 DEF HasCommand
  <2>4. starts[e] = 0
    BY <1>0, <2>1 DEF RunInv
  <2>5. \A p \in Pulls : \A i \in pull[p].batch : i \in 1..Len(commands) /\ commands'[i] = commands[i]
    BY <1>0, <2>2 DEF HandlersOK
  <2>6. UNCHANGED <<starts, pull>>
    BY <1>1 DEF CreateCommand
  <2> QED BY <1>e, <2>2, <2>3, <2>4, <2>5, <2>6 DEF RunInv
<1>2. ASSUME NEW d \in Devices, AgentRestart(d) PROVE RunInv'
  <2>1. \A p \in Pulls : /\ pull'[p].client => pull[p].client
                         /\ pull'[p].pc = pull[p].pc /\ pull'[p].batch = pull[p].batch
                         /\ pull'[p].device = pull[p].device
    BY <1>0, <1>2 DEF AgentRestart, PullType
  <2>2. UNCHANGED <<commands, starts>>
    BY <1>2 DEF AgentRestart
  <2> QED BY <2>1, <2>2 DEF RunInv, HasCommand
<1>3. ASSUME NEW p \in Pulls, NEW d \in Devices, PullFind(p, d) PROVE RunInv'
  <2>1. ~Polling(d)
    BY <1>3 DEF PullFind, Fault
  <2>2. \A q \in Pulls : pull'[q] = IF q # p THEN pull[q] ELSE
          [pc |-> "found", device |-> d, batch |-> Oldest(PendingOf(d)), client |-> TRUE]
    BY <1>0, <1>3 DEF PullFind, PullType
  <2>3. \A i \in Oldest(PendingOf(d)) :
          starts[commands[i].exec] = 0 /\ Target[commands[i].exec] = d
    BY <1>0, <1>e DEF Oldest, PendingOf, RunInv
  <2>4. UNCHANGED <<commands, starts>>
    BY <1>3 DEF PullFind
  <2> QED BY <2>1, <2>2, <2>3, <2>4 DEF RunInv, HasCommand, Polling
<1>4. ASSUME NEW p \in Pulls, PullLost(p) PROVE RunInv'
  BY <1>0, <1>4 DEF PullLost, RunInv, HasCommand, PullType, IdlePull
<1>5. ASSUME NEW p \in Pulls, PullDisconnected(p) PROVE RunInv'
  BY <1>0, <1>5 DEF PullDisconnected, RunInv, HasCommand, PullType
<1>6. ASSUME NEW p \in Pulls, PullMark(p) PROVE RunInv'
  BY <1>6, RunUpdate DEF PullMark
<1>7. ASSUME NEW r \in Reports, ReportCommands(r) PROVE RunInv'
  BY <1>7, RunUpdate DEF ReportCommands
<1>8. ASSUME NEW p \in Pulls, PullAnswered(p) PROVE RunInv'
  BY <1>8, RunAnswered
<1>9. CASE UNCHANGED <<commands, pull, starts>>
  BY <1>9 DEF RunInv, HasCommand
<1> QED
  BY <1>1, <1>2, <1>3, <1>4, <1>5, <1>6, <1>7, <1>8, <1>9
  DEF Next, RequestNext, QueueNext, WorkerNext, AgentNext, PullNext, ReportNext,
      vars, execVars, agentVars, faultVars, CreateExecution, EnqueueExecution,
      EnqueueLost, StalledAfterCrash, LockLost, TakeJob, ProcessInline, SaveRunning,
      FindAgent, SaveAgentNotFound, FinishJob, AttemptFails, WorkerCrash,
      RegisterAgent, ReportFind, ReportSave, ReportAnswer, ReportDisconnected,
      ReportDies, ReportLost

-----------------------------------------------------------------------------
(* A report is followed up.                                                *)

Announceable(e) == status[e] = "failed" /\ result[e] = "reported"

\* An execution is reported once: the agent forgets a run with its request, and
\* does not start it again.  What a report under way has saved is still there,
\* and its failure is not yet announced.
FollowInv ==
  /\ \A e \in running : starts[e] >= 1 /\ (status[e] = "running" \/ Reported(e))
  /\ \A e \in Executions : HasCommand(e) /\ starts[e] = 0 => status[e] = "running"
  /\ \A r \in Reports : report[r].pc # "idle" =>
       /\ starts[report[r].exec] >= 1
       /\ report[r].client <=> report[r].exec \in running
       /\ triggers[report[r].exec] = 0
       /\ IF report[r].pc = "found" THEN status[report[r].exec] = "running"
          ELSE status[report[r].exec] = report[r].outcome /\ result[report[r].exec] = "reported"
  /\ \A r, x \in Reports :
       report[r].pc # "idle" /\ report[x].pc # "idle" /\ report[r].exec = report[x].exec => r = x
  /\ \A e \in Executions :
       /\ triggers[e] <= 1
       /\ triggers[e] = 1 => Announceable(e)
       /\ queueEnabled /\ "reportDies" \notin happened /\ Announceable(e) /\ ~Reported(e)
            => triggers[e] = 1

LEMMA FollowInit == Init => FollowInv
<1> SUFFICES ASSUME Init PROVE FollowInv
  OBVIOUS
<1>1. Len(commands) = 0
  BY EmptySeq DEF Init
<1> QED BY <1>1 DEF Init, FollowInv, IdleReport, Announceable, HasCommand

\* The five parts of FollowInv in turn, for the steps that disturb several.
LEMMA FollowNext ==
  ASSUME SafetyInv, OwnerInv, RunInv, FollowInv, [Next]_vars
  PROVE  FollowInv'
<1> USE DEF execVars, agentVars, faultVars, Announceable
<1>0. /\ status \in StatusType /\ result \in ResultType /\ report \in ReportType
      /\ triggers \in [Executions -> Nat] /\ starts \in [Executions -> Nat]
      /\ running \in SUBSET Executions /\ HandlersOK /\ commands \in Seq(Command)
      /\ pull \in PullType
  BY DEF SafetyInv, TypeOK
<1>r. /\ \A r \in Reports : report[r].pc # "idle" => report[r].exec \in Executions
      /\ \A r \in Reports : report[r].pc \in {"idle", "found", "saved", "closed"}
      /\ \A r \in Reports : report[r].client => report[r].pc # "idle"
  BY <1>0 DEF HandlersOK, ReportType
<1>z. \A e \in Executions : starts[e] >= 1 => HasCommand(e)
  BY DEF RunInv
<1>c. UNCHANGED commands => \A e : HasCommand(e)' <=> HasCommand(e)
  BY DEF HasCommand
<1>n. ASSUME NEW e \in Executions, ~HasCommand(e)
      PROVE  /\ starts[e] = 0 /\ e \notin running
             /\ \A r \in Reports : report[r].pc # "idle" => report[r].exec # e
  BY <1>0, <1>z, <1>n DEF OwnerInv
<1>s. ASSUME NEW e \in Executions, ~HasCommand(e), ~Announceable(e), ~Announceable(e)',
             \A x \in Executions : x # e => status'[x] = status[x] /\ result'[x] = result[x],
             UNCHANGED <<report, running, starts, triggers, commands, happened, queueEnabled>>
      PROVE  FollowInv'
  <2>1. /\ \A x : HasCommand(x)' <=> HasCommand(x)
        /\ \A x : Reported(x)' <=> Reported(x)
    BY <1>c, <1>s DEF Reported
  <2>2. /\ \A x \in running : x \in Executions /\ x # e
        /\ \A r \in Reports : report[r].pc # "idle" => report[r].exec \in Executions \ {e}
    BY <1>0, <1>r, <1>n, <1>s
  <2>3. triggers[e] = 0
    BY <1>0, <1>s DEF FollowInv
  <2>4. /\ \A x \in running' : starts'[x] >= 1 /\ (status'[x] = "running" \/ Reported(x)')
        /\ \A x \in Executions : HasCommand(x)' /\ starts'[x] = 0 => status'[x] = "running"
    BY <1>s, <2>1, <2>2 DEF FollowInv
  <2>5. \A r \in Reports : report'[r].pc # "idle" =>
          /\ starts'[report'[r].exec] >= 1
          /\ report'[r].client <=> report'[r].exec \in running'
          /\ triggers'[report'[r].exec] = 0
          /\ IF report'[r].pc = "found" THEN status'[report'[r].exec] = "running"
             ELSE status'[report'[r].exec] = report'[r].outcome
                    /\ result'[report'[r].exec] = "reported"
    BY <1>s, <2>2 DEF FollowInv
  <2>6. \A x \in Executions :
          /\ triggers'[x] <= 1
          /\ triggers'[x] = 1 => Announceable(x)'
          /\ queueEnabled' /\ "reportDies" \notin happened' /\ Announceable(x)' /\ ~Reported(x)'
               => triggers'[x] = 1
    BY <1>s, <2>1, <2>3 DEF FollowInv
  <2> QED BY <1>s, <2>4, <2>5, <2>6 DEF FollowInv
<1>1. ASSUME NEW e \in Executions, CreateExecution(e) PROVE FollowInv'
  <2>1. status[e] = "none" /\ ~HasCommand(e)
    BY <1>1 DEF SafetyInv, StartedInv, CreateExecution, CommandImpliesStarted, HasCommand,
                Terminal
  <2>2. status'[e] = "queued"
    BY <1>1, <1>0 DEF CreateExecution, StatusType
  <2> QED BY <1>0, <1>1, <1>s, <2>1, <2>2 DEF CreateExecution, StatusType, ResultType
<1>2. ASSUME NEW w \in Workers, SaveRunning(w) PROVE FollowInv'
  <2>1. worker[w].exec \in Executions /\ status[worker[w].exec] = "queued"
    BY <1>2, <1>0 DEF SaveRunning, OwnerInv, HandlersOK
  <2>2. ~HasCommand(worker[w].exec)
    BY <2>1 DEF SafetyInv, StartedInv, CommandImpliesStarted, HasCommand, Terminal
  <2>3. status'[worker[w].exec] = "running"
    BY <1>2, <1>0, <2>1 DEF SaveRunning, StatusType
  <2> QED BY <1>0, <1>2, <1>s, <2>1, <2>2, <2>3 DEF SaveRunning, StatusType
<1>3. ASSUME NEW w \in Workers, SaveAgentNotFound(w) PROVE FollowInv'
  <2>1. /\ worker[w].exec \in Executions /\ status[worker[w].exec] = "running"
        /\ ~HasCommand(worker[w].exec)
    BY <1>3, <1>0 DEF SaveAgentNotFound, OwnerInv, HandlersOK, BeforeCommand
  <2>2. result'[worker[w].exec] = "agent_not_found"
    BY <1>3, <1>0, <2>1 DEF SaveAgentNotFound, ResultType
  <2> QED BY <1>0, <1>3, <1>s, <2>1, <2>2 DEF SaveAgentNotFound, StatusType, ResultType
<1>4. ASSUME NEW w \in Workers, CreateCommand(w) PROVE FollowInv'
  <2> DEFINE e == worker[w].exec
  <2>1. e \in Executions /\ status[e] = "running"
    BY <1>4, <1>0 DEF CreateCommand, OwnerInv, HandlersOK, BeforeCommand
  <2>2. /\ Len(commands) \in Nat /\ Len(commands') = Len(commands) + 1
        /\ \A i \in 1..Len(commands) : commands'[i] = commands[i]
        /\ commands'[Len(commands) + 1].exec = e
    BY <1>4, <1>0, <2>1, AppendCommand DEF CreateCommand, Command, CommandStatus
  <2>3. \A x : HasCommand(x)' => HasCommand(x) \/ x = e
    BY <2>2 DEF HasCommand
  <2>4. UNCHANGED <<status, result, report, running, starts, triggers, happened, queueEnabled>>
    BY <1>4 DEF CreateCommand
  <2> HIDE DEF e
  <2> QED BY <2>1, <2>3, <2>4 DEF FollowInv, Reported
<1>5. ASSUME NEW d \in Devices, AgentRestart(d) PROVE FollowInv'
  <2>1. \A r \in Reports :
          /\ report'[r].pc = report[r].pc /\ report'[r].exec = report[r].exec
          /\ report'[r].outcome = report[r].outcome
          /\ report'[r].client <=> report[r].client /\ Target[report[r].exec] # d
    BY <1>5, <1>0 DEF AgentRestart, ReportType
  <2>2. \A e : Reported(e)' <=> Reported(e)
    BY <2>1 DEF Reported
  <2>3. \A e : e \in running' <=> e \in running /\ Target[e] # d
    BY <1>5 DEF AgentRestart
  <2>4. /\ UNCHANGED <<status, result, starts, triggers, commands, queueEnabled>>
        /\ happened \subseteq happened'
    BY <1>5 DEF AgentRestart, Fault
  <2> QED BY <1>c, <2>1, <2>2, <2>3, <2>4 DEF FollowInv
<1>6. ASSUME NEW p \in Pulls, PullMark(p) PROVE FollowInv'
  <2>1. \A e : HasCommand(e)' <=> HasCommand(e)
    BY <1>6, <1>0, UpdateCommands, UpdateKeepsCommands
  <2>2. UNCHANGED <<status, result, report, running, starts, triggers, happened, queueEnabled>>
    BY <1>6 DEF PullMark
  <2> QED BY <2>1, <2>2 DEF FollowInv, Reported
<1>7. ASSUME NEW p \in Pulls, PullAnswered(p) PROVE FollowInv'
  <2>0. UNCHANGED <<status, result, report, triggers, commands, happened, queueEnabled>>
    BY <1>7 DEF PullAnswered
  <2>1. CASE ~pull[p].client
    BY <1>7, <1>c, <2>0, <2>1 DEF PullAnswered, FollowInv, Reported
  <2>2. CASE pull[p].client
    <3>1. \A i \in pull[p].batch : /\ i \in 1..Len(commands) /\ commands[i].exec \in Executions
                                   /\ starts[commands[i].exec] = 0
      BY <1>0, <2>2, CommandsAre DEF HandlersOK, RunInv
    <3>2. \A e \in FreshRuns(p) : e \in Executions /\ starts[e] = 0 /\ HasCommand(e)
      BY <3>1 DEF FreshRuns, HasCommand
    <3>3. /\ running' = running \cup FreshRuns(p)
          /\ \A e \in Executions : starts'[e] = IF e \in FreshRuns(p) THEN 1 ELSE starts[e]
      BY <1>7, <1>0, <2>2, <3>2 DEF PullAnswered
    <3>4. \A e \in FreshRuns(p) : status[e] = "running" /\ ~Reported(e)
      BY <1>0, <3>2 DEF FollowInv, Reported
    <3> QED BY <1>0, <1>r, <1>c, <2>0, <3>2, <3>3, <3>4 DEF FollowInv, Reported
  <2> QED BY <2>1, <2>2
<1>8. ASSUME NEW r \in Reports, NEW e \in Executions, NEW o \in Terminal, ReportFind(r, e, o)
      PROVE  FollowInv'
  <2>1. \A x \in Reports : report[x].pc # "idle" => report[x].exec # e
    BY <1>8 DEF ReportFind, Executing, FollowInv
  <2>2. e \in running /\ status[e] = "running" /\ starts[e] >= 1
    BY <1>8, <2>1 DEF ReportFind, Executing, FollowInv, Reported
  <2>3. triggers[e] = 0
    BY <1>0, <2>2 DEF FollowInv
  <2>4. \A x \in Reports : report'[x] = IF x # r THEN report[x] ELSE
           [pc |-> "found", exec |-> e, outcome |-> o, client |-> TRUE]
    BY <1>8, <1>0, <2>2 DEF ReportFind, ReportType, Terminal
  <2>5. UNCHANGED <<status, result, running, starts, triggers, commands, happened, queueEnabled>>
    BY <1>8, <2>2 DEF ReportFind, Terminal
  <2>6. report[r].pc = "idle" /\ \A x : Reported(x)' <=> Reported(x) \/ x = e
    BY <1>8, <2>4 DEF ReportFind, Reported
  <2> QED BY <1>r, <1>c, <2>1, <2>2, <2>3, <2>4, <2>5, <2>6 DEF FollowInv
<1>9. ASSUME NEW r \in Reports, ReportSave(r) PROVE FollowInv'
  <2> DEFINE e == report[r].exec
  <2>1. e \in Executions /\ report[r].pc = "found" /\ report[r].outcome \in Terminal
    BY <1>9, <1>0, <1>r DEF ReportSave, ReportType
  <2>2. \A x \in Executions : x # e => status'[x] = status[x] /\ result'[x] = result[x]
    BY <1>9, <1>0 DEF ReportSave, StatusType, ResultType
  <2>3. status'[e] = report[r].outcome /\ result'[e] = "reported"
    BY <1>9, <1>0, <2>1 DEF ReportSave, StatusType, ResultType
  <2>4. \A x \in Reports : /\ report'[x].exec = report[x].exec
                           /\ report'[x].client = report[x].client
                           /\ report'[x].outcome = report[x].outcome
                           /\ report'[x].pc = IF x = r THEN "saved" ELSE report[x].pc
    BY <1>9, <1>0 DEF ReportSave, ReportType
  <2>5. UNCHANGED <<running, starts, triggers, commands, happened, queueEnabled>>
    BY <1>9 DEF ReportSave
  <2>6. \A x : Reported(x)' <=> Reported(x)
    BY <2>1, <2>4 DEF Reported
  <2>7. Reported(e) /\ starts[e] >= 1 /\ triggers[e] = 0
    BY <2>1 DEF Reported, FollowInv
  <2>8. \A x \in Reports : x # r /\ report[x].pc # "idle" => report[x].exec # e
    BY <2>1 DEF FollowInv
  <2> HIDE DEF e
  <2>9. \A x \in Reports : report'[x].pc # "idle" =>
          /\ starts'[report'[x].exec] >= 1
          /\ report'[x].client <=> report'[x].exec \in running'
          /\ triggers'[report'[x].exec] = 0
          /\ IF report'[x].pc = "found" THEN status'[report'[x].exec] = "running"
             ELSE status'[report'[x].exec] = report'[x].outcome
                    /\ result'[report'[x].exec] = "reported"
    <3>1. SUFFICES ASSUME NEW x \in Reports, report'[x].pc # "idle"
                   PROVE  /\ starts'[report'[x].exec] >= 1
                          /\ report'[x].client <=> report'[x].exec \in running'
                          /\ triggers'[report'[x].exec] = 0
                          /\ IF report'[x].pc = "found" THEN status'[report'[x].exec] = "running"
                             ELSE status'[report'[x].exec] = report'[x].outcome
                                    /\ result'[report'[x].exec] = "reported"
      OBVIOUS
    <3>2. CASE x = r
      BY <2>1, <2>3, <2>4, <2>5, <2>7, <3>2 DEF FollowInv, e
    <3>3. CASE x # r
      BY <1>r, <2>2, <2>4, <2>5, <2>8, <3>1, <3>3 DEF FollowInv
    <3> QED BY <3>2, <3>3
  <2>10. \A x \in running : x \in Executions
    BY <1>0
  <2>11. \A x \in Executions :
           /\ triggers'[x] <= 1
           /\ triggers'[x] = 1 => Announceable(x)'
           /\ queueEnabled' /\ "reportDies" \notin happened' /\ Announceable(x)' /\ ~Reported(x)'
                => triggers'[x] = 1
    BY <2>2, <2>5, <2>6, <2>7 DEF FollowInv
  <2>12. \A x, y \in Reports : report'[x].pc # "idle" /\ report'[y].pc # "idle"
           /\ report'[x].exec = report'[y].exec => x = y
    BY <2>1, <2>4 DEF FollowInv
  <2>13. /\ \A x \in running' : starts'[x] >= 1 /\ (status'[x] = "running" \/ Reported(x)')
         /\ \A x \in Executions : HasCommand(x)' /\ starts'[x] = 0 => status'[x] = "running"
    BY <1>0, <1>c, <2>2, <2>5, <2>6, <2>7, <2>10 DEF FollowInv
  <2> QED BY <2>9, <2>11, <2>12, <2>13 DEF FollowInv
<1>10. ASSUME NEW r \in Reports, ReportCommands(r) PROVE FollowInv'
  <2>1. \A e : HasCommand(e)' <=> HasCommand(e)
    BY <1>10, <1>0, UpdateCommands, UpdateKeepsCommands DEF ReportType
  <2>2. UNCHANGED <<status, result, running, starts, triggers, happened, queueEnabled>>
    BY <1>10 DEF ReportCommands
  <2>3. \A x \in Reports : /\ report'[x].exec = report[x].exec
                           /\ report'[x].client = report[x].client
                           /\ report'[x].outcome = report[x].outcome
                           /\ report'[x].pc = IF x = r THEN "closed" ELSE report[x].pc
    BY <1>10, <1>0 DEF ReportCommands, ReportType
  <2>4. report[r].pc = "saved"
    BY <1>10 DEF ReportCommands
  <2>5. \A x : Reported(x)' <=> Reported(x)
    BY <2>3, <2>4 DEF Reported
  <2> QED BY <2>1, <2>2, <2>3, <2>4, <2>5 DEF FollowInv
<1>e. ASSUME NEW r \in Reports, report[r].pc # "idle", report' = [report EXCEPT ![r] = IdleReport],
             running' = RunningAfter(r)
      PROVE  /\ report[r].exec \in Executions
             /\ \A x \in Reports : report'[x] = IF x = r THEN IdleReport ELSE report[x]
             /\ \A x : Reported(x)' <=> Reported(x) /\ x # report[r].exec
             /\ running' = running \ {report[r].exec}
  <2>1. \A x \in Reports : report'[x] = IF x = r THEN IdleReport ELSE report[x]
    BY <1>0, <1>e DEF ReportType
  <2>2. \A x \in Reports : x # r /\ report[x].pc # "idle" => report[x].exec # report[r].exec
    BY <1>e DEF FollowInv
  <2>3. \A x : Reported(x)' <=> Reported(x) /\ x # report[r].exec
    BY <1>e, <2>1, <2>2 DEF Reported, IdleReport
  <2>4. running' = running \ {report[r].exec}
    BY <1>e DEF RunningAfter, FollowInv
  <2> QED BY <1>e, <1>r, <2>1, <2>3, <2>4
<1>11. ASSUME NEW r \in Reports, ReportAnswer(r) PROVE FollowInv'
  <2> DEFINE e == report[r].exec
  <2>1. /\ report[r].pc = "closed" /\ e \in Executions
        /\ \A x \in Reports : report'[x] = IF x = r THEN IdleReport ELSE report[x]
        /\ \A x : Reported(x)' <=> Reported(x) /\ x # e
        /\ running' = running \ {e}
    BY <1>11, <1>e DEF ReportAnswer
  <2>2. UNCHANGED <<status, result, starts, commands, happened, queueEnabled>>
    BY <1>11 DEF ReportAnswer
  <2>3. \A x \in Executions : x # e => triggers'[x] = triggers[x]
    BY <1>11, <1>0 DEF ReportAnswer
  <2>4. triggers[e] = 0 /\ status[e] = report[r].outcome /\ result[e] = "reported"
    BY <2>1 DEF FollowInv
  <2>5. triggers'[e] = IF Announceable(e) /\ queueEnabled THEN 1 ELSE 0
    BY <1>11, <1>0, <2>1, <2>4 DEF ReportAnswer
  <2>6. \A x \in Reports : x # r /\ report[x].pc # "idle" => report[x].exec # e
    BY <2>1 DEF FollowInv
  <2> HIDE DEF e
  <2> QED BY <1>r, <1>c, <2>1, <2>2, <2>3, <2>5, <2>6 DEF FollowInv, IdleReport
<1>12. ASSUME NEW r \in Reports, ReportDies(r) PROVE FollowInv'
  <2> DEFINE e == report[r].exec
  <2>1. /\ e \in Executions
        /\ \A x \in Reports : report'[x] = IF x = r THEN IdleReport ELSE report[x]
        /\ \A x : Reported(x)' <=> Reported(x) /\ x # e
        /\ running' = running \ {e}
    BY <1>12, <1>e DEF ReportDies
  <2>2. /\ UNCHANGED <<status, result, starts, triggers, commands, queueEnabled>>
        /\ "reportDies" \in happened'
    BY <1>12 DEF ReportDies, Fault
  <2>3. \A x \in Reports : x # r /\ report[x].pc # "idle" => report[x].exec # e
    BY <1>12 DEF FollowInv, ReportDies
  <2> HIDE DEF e
  <2> QED BY <1>r, <1>c, <2>1, <2>2, <2>3 DEF FollowInv, IdleReport
<1>13. ASSUME NEW r \in Reports, ReportDisconnected(r) PROVE FollowInv'
  <2>1. report[r].pc # "idle" /\ report[r].client
    BY <1>13, <1>r DEF ReportDisconnected
  <2>2. \A x \in Reports : /\ report'[x].exec = report[x].exec
                           /\ report'[x].pc = report[x].pc
                           /\ report'[x].outcome = report[x].outcome
                           /\ report'[x].client <=> report[x].client /\ x # r
    BY <1>13, <1>0 DEF ReportDisconnected, ReportType
  <2>3. \A x : Reported(x)' <=> Reported(x)
    BY <2>2 DEF Reported
  <2>4. /\ UNCHANGED <<status, result, starts, triggers, commands, queueEnabled>>
        /\ happened \subseteq happened' /\ running' = running \ {report[r].exec}
    BY <1>13, <2>1 DEF ReportDisconnected, Fault, RunningAfter
  <2>5. \A x \in Reports : x # r /\ report[x].pc # "idle" => report[x].exec # report[r].exec
    BY <2>1 DEF FollowInv
  <2> QED BY <1>c, <2>1, <2>2, <2>3, <2>4, <2>5 DEF FollowInv
<1>14. ASSUME NEW e \in Executions, NEW o \in Terminal, ReportLost(e, o) PROVE FollowInv'
  <2>1. /\ UNCHANGED <<status, result, report, starts, triggers, commands, queueEnabled>>
        /\ happened \subseteq happened' /\ running' = running \ {e}
    BY <1>14 DEF ReportLost, Fault
  <2>2. \A r \in Reports : report[r].pc # "idle" => report[r].exec # e
    BY <1>14 DEF ReportLost, Executing, FollowInv
  <2> QED BY <1>c, <2>1, <2>2 DEF FollowInv, Reported
<1>15. CASE /\ UNCHANGED <<status, result, report, running, starts, triggers, commands, queueEnabled>>
            /\ happened \subseteq happened'
  BY <1>c, <1>15 DEF FollowInv, Reported
<1> QED
  BY <1>1, <1>2, <1>3, <1>4, <1>5, <1>6, <1>7, <1>8, <1>9, <1>10, <1>11, <1>12,
     <1>13, <1>14, <1>15, Zenon
  DEF Next, RequestNext, QueueNext, WorkerNext, AgentNext, PullNext, ReportNext,
      vars, execVars, agentVars, faultVars, EnqueueExecution, EnqueueLost, Fault,
      StalledAfterCrash, LockLost, TakeJob, ProcessInline, FindAgent, FinishJob,
      AttemptFails, WorkerCrash, RegisterAgent, PullFind, PullLost, PullDisconnected

\* As long as no handler dies and every poll is answered, a command is open
\* only while its execution is not final, or its report is under way.
SettledInv ==
  /\ \A p \in Pulls : pull[p].pc # "idle" => pull[p].client
  /\ \A i \in 1..Len(commands) :
       /\ status[commands[i].exec] \in Terminal /\ ~Reported(commands[i].exec)
            => commands[i].status \notin OpenCommand
       /\ \A r \in Reports : report[r].pc = "closed" /\ report[r].exec = commands[i].exec
            => commands[i].status \notin OpenCommand

LEMMA SettledInit == Init => SettledInv
<1> SUFFICES ASSUME Init PROVE SettledInv
  OBVIOUS
<1>1. Len(commands) = 0
  BY EmptySeq DEF Init
<1> QED BY <1>1 DEF Init, SettledInv, IdlePull

\* A poll marks commands of executions that were not run: those are not final
\* and have no report.  A report closes the commands of its own execution.
LEMMA SettledNext ==
  ASSUME SafetyInv, OwnerInv, RunInv, FollowInv, SettledInv, [Next]_vars,
         happened' \cap {"pullLost", "reportDies", "agentRestart"} = {}
  PROVE  SettledInv'
<1> USE DEF execVars, agentVars, faultVars
<1>0. /\ status \in StatusType /\ report \in ReportType /\ pull \in PullType
      /\ commands \in Seq(Command) /\ HandlersOK /\ starts \in [Executions -> Nat]
  BY DEF SafetyInv, TypeOK
<1>i. /\ \A i \in 1..Len(commands) : commands[i] \in Command /\ commands[i].exec \in Executions
                                     /\ HasCommand(commands[i].exec)
      /\ Len(commands) \in Nat
  BY <1>0, CommandsAre
<1>s. ASSUME NEW e \in Executions, ~HasCommand(e), UNCHANGED <<report, pull, commands>>,
             \A x \in Executions : x # e => status'[x] = status[x]
      PROVE  SettledInv'
  <2>1. \A i \in 1..Len(commands) : status'[commands[i].exec] = status[commands[i].exec]
    BY <1>i, <1>s
  <2> QED BY <1>s, <2>1 DEF SettledInv, Reported
<1>1. ASSUME NEW e \in Executions, CreateExecution(e) PROVE SettledInv'
  <2>1. ~HasCommand(e)
    BY <1>1 DEF SafetyInv, StartedInv, CreateExecution, CommandImpliesStarted, HasCommand,
                Terminal
  <2> QED BY <1>0, <1>1, <1>s, <2>1 DEF CreateExecution, StatusType
<1>2. ASSUME NEW w \in Workers, SaveRunning(w) PROVE SettledInv'
  <2>1. worker[w].exec \in Executions /\ ~HasCommand(worker[w].exec)
    BY <1>2, <1>0 DEF SaveRunning, OwnerInv, HandlersOK, SafetyInv, StartedInv,
                      CommandImpliesStarted, HasCommand, Terminal
  <2> QED BY <1>0, <1>2, <1>s, <2>1 DEF SaveRunning, StatusType
<1>3. ASSUME NEW w \in Workers, SaveAgentNotFound(w) PROVE SettledInv'
  <2>1. worker[w].exec \in Executions /\ ~HasCommand(worker[w].exec)
    BY <1>3, <1>0 DEF SaveAgentNotFound, OwnerInv, HandlersOK, BeforeCommand
  <2> QED BY <1>0, <1>3, <1>s, <2>1 DEF SaveAgentNotFound, StatusType
<1>4. ASSUME NEW w \in Workers, CreateCommand(w) PROVE SettledInv'
  <2> DEFINE e == worker[w].exec
  <2>1. e \in Executions /\ status[e] = "running" /\ ~HasCommand(e)
    BY <1>4, <1>0 DEF CreateCommand, OwnerInv, HandlersOK, BeforeCommand
  <2>2. /\ Len(commands') = Len(commands) + 1
        /\ \A i \in 1..Len(commands) : commands'[i] = commands[i]
        /\ commands'[Len(commands) + 1].exec = e
    BY <1>4, <1>0, <2>1, AppendCommand DEF CreateCommand, Command, CommandStatus
  <2>3. \A r \in Reports : report[r].pc # "idle" => report[r].exec # e
    BY <2>1 DEF OwnerInv
  <2>4. UNCHANGED <<status, report, pull>>
    BY <1>4 DEF CreateCommand
  <2>5. \A i \in 1..Len(commands') : i = Len(commands) + 1 \/ i \in 1..Len(commands)
    BY <1>i, <2>2
  <2> HIDE DEF e
  <2> QED BY <2>1, <2>2, <2>3, <2>4, <2>5 DEF SettledInv, Reported, Terminal
<1>5. ASSUME NEW d \in Devices, AgentRestart(d) PROVE SettledInv'
  BY <1>5 DEF AgentRestart, Fault
<1>6. ASSUME NEW p \in Pulls, PullMark(p) PROVE SettledInv'
  <2>1. /\ Len(commands') = Len(commands)
        /\ \A i \in 1..Len(commands) : commands'[i].exec = commands[i].exec
    BY <1>0, <1>6, UpdateCommands
  <2>2. UNCHANGED <<status, report>> /\ pull[p].client
    BY <1>6 DEF PullMark, SettledInv
  <2>3. ASSUME NEW i \in pull[p].batch, i \in 1..Len(commands)
        PROVE  /\ status[commands[i].exec] = "running"
               /\ \A r \in Reports : report[r].pc # "idle" => report[r].exec # commands[i].exec
    <3>1. starts[commands[i].exec] = 0
      BY <2>2 DEF RunInv
    <3> QED BY <1>i, <2>3, <3>1 DEF FollowInv
  <2>4. \A i \in 1..Len(commands) : i \notin pull[p].batch => commands'[i] = commands[i]
    BY <1>6 DEF PullMark
  <2>5. \A q \in Pulls : pull'[q].client = pull[q].client
                         /\ (pull'[q].pc # "idle" => pull[q].pc # "idle")
    BY <1>0, <1>6 DEF PullMark, PullType
  <2> QED BY <2>1, <2>2, <2>3, <2>4, <2>5 DEF SettledInv, Reported, Terminal
<1>7. ASSUME NEW p \in Pulls, NEW d \in Devices, PullFind(p, d) PROVE SettledInv'
  BY <1>0, <1>7 DEF PullFind, SettledInv, Reported, PullType
<1>8. ASSUME NEW p \in Pulls, PullLost(p) \/ PullDisconnected(p) PROVE SettledInv'
  BY <1>8 DEF PullLost, PullDisconnected, Fault
<1>9. ASSUME NEW p \in Pulls, PullAnswered(p) PROVE SettledInv'
  BY <1>0, <1>9 DEF PullAnswered, SettledInv, Reported, PullType, IdlePull
<1>10. ASSUME NEW r \in Reports, NEW e \in Executions, NEW o \in Terminal, ReportFind(r, e, o)
       PROVE  SettledInv'
  <2>1. \A x \in Reports : report'[x] = report[x] \/ (report[x].pc = "idle" /\ report'[x].pc = "found")
    BY <1>0, <1>10 DEF ReportFind, ReportType
  <2>2. \A x : Reported(x) => Reported(x)'
    BY <2>1 DEF Reported
  <2>3. UNCHANGED <<status, pull, commands>>
    BY <1>10 DEF ReportFind
  <2> QED BY <2>1, <2>2, <2>3 DEF SettledInv
<1>11. ASSUME NEW r \in Reports, ReportSave(r) PROVE SettledInv'
  <2> DEFINE e == report[r].exec
  <2>1. e \in Executions /\ report[r].pc = "found"
    BY <1>11, <1>0 DEF ReportSave, HandlersOK
  <2>2. \A x \in Executions : x # e => status'[x] = status[x]
    BY <1>11, <1>0 DEF ReportSave, StatusType
  <2>3. \A x \in Reports : /\ report'[x].exec = report[x].exec
                           /\ report'[x].pc = IF x = r THEN "saved" ELSE report[x].pc
    BY <1>11, <1>0 DEF ReportSave, ReportType
  <2>4. /\ Reported(e) /\ (\A x : Reported(x)' <=> Reported(x))
        /\ \A x \in Reports : report'[x].pc = "closed" => report[x].pc = "closed"
    BY <2>1, <2>3 DEF Reported
  <2>5. UNCHANGED <<commands, pull>>
    BY <1>11 DEF ReportSave
  <2> HIDE DEF e
  <2>6. ASSUME NEW i \in 1..Len(commands), status'[commands[i].exec] \in Terminal,
               ~Reported(commands[i].exec)'
        PROVE  commands[i].status \notin OpenCommand
    <3>1. commands[i].exec # e /\ ~Reported(commands[i].exec)
      BY <2>4, <2>5, <2>6 DEF Reported
    <3>2. status'[commands[i].exec] = status[commands[i].exec]
      BY <1>i, <2>2, <3>1
    <3> QED BY <2>6, <3>1, <3>2 DEF SettledInv
  <2>7. ASSUME NEW i \in 1..Len(commands), NEW x \in Reports, report'[x].pc = "closed",
               report'[x].exec = commands[i].exec
        PROVE  commands[i].status \notin OpenCommand
    BY <2>3, <2>4, <2>7 DEF SettledInv
  <2> QED BY <2>1, <2>3, <2>5, <2>6, <2>7 DEF SettledInv
<1>12. ASSUME NEW r \in Reports, ReportCommands(r) PROVE SettledInv'
  <2> DEFINE e == report[r].exec
  <2>1. /\ Len(commands') = Len(commands)
        /\ \A i \in 1..Len(commands) : commands'[i].exec = commands[i].exec
    BY <1>0, <1>12, UpdateCommands DEF ReportType
  <2>2. \A x \in Reports : /\ report'[x].exec = report[x].exec
                           /\ report'[x].pc = IF x = r THEN "closed" ELSE report[x].pc
    BY <1>12, <1>0 DEF ReportCommands, ReportType
  <2>3. \A x : Reported(x)' <=> Reported(x)
    BY <1>12, <2>2 DEF ReportCommands, Reported
  <2>4. \A i \in 1..Len(commands) :
          IF commands[i].exec = e THEN commands'[i].status \notin OpenCommand
                                  ELSE commands'[i] = commands[i]
    BY <1>i, <1>12 DEF ReportCommands, CloseCommands, OpenCommand, Command
  <2>5. UNCHANGED <<status, pull>>
    BY <1>12 DEF ReportCommands
  <2> QED BY <2>1, <2>2, <2>3, <2>4, <2>5 DEF SettledInv
<1>13. ASSUME NEW r \in Reports, ReportAnswer(r) PROVE SettledInv'
  <2> DEFINE e == report[r].exec
  <2>1. \A x \in Reports : report'[x] = IF x = r THEN IdleReport ELSE report[x]
    BY <1>0, <1>13 DEF ReportAnswer, ReportType
  <2>2. report[r].pc = "closed" /\ UNCHANGED <<status, pull, commands>>
    BY <1>13 DEF ReportAnswer
  <2>3. \A x : x # e /\ Reported(x) => Reported(x)'
    BY <2>1 DEF Reported, IdleReport
  <2>4. \A i \in 1..Len(commands) : commands[i].exec = e => commands[i].status \notin OpenCommand
    BY <2>2 DEF SettledInv
  <2> HIDE DEF e
  <2> QED BY <2>1, <2>2, <2>3, <2>4 DEF SettledInv, IdleReport
<1>14. ASSUME NEW r \in Reports, ReportDies(r) PROVE SettledInv'
  BY <1>14 DEF ReportDies, Fault
<1>15. ASSUME NEW r \in Reports, ReportDisconnected(r) PROVE SettledInv'
  <2>1. \A x \in Reports : report'[x].exec = report[x].exec /\ report'[x].pc = report[x].pc
    BY <1>0, <1>15 DEF ReportDisconnected, ReportType
  <2>2. UNCHANGED <<status, pull, commands>>
    BY <1>15 DEF ReportDisconnected
  <2> QED BY <2>1, <2>2 DEF SettledInv, Reported
<1>16. CASE UNCHANGED <<status, pull, commands, report>>
  BY <1>16 DEF SettledInv, Reported
<1> QED
  BY <1>1, <1>2, <1>3, <1>4, <1>5, <1>6, <1>7, <1>8, <1>9, <1>10, <1>11, <1>12,
     <1>13, <1>14, <1>15, <1>16, Zenon
  DEF Next, RequestNext, QueueNext, WorkerNext, AgentNext, PullNext, ReportNext,
      vars, execVars, agentVars, faultVars, EnqueueExecution, EnqueueLost,
      StalledAfterCrash, LockLost, TakeJob, ProcessInline, FindAgent, FinishJob,
      AttemptFails, WorkerCrash, RegisterAgent, ReportLost

\* What holds until polls overlap, and until an answer of the API is lost too.
SingleInv   == Without({"lockLost", "pollOverlap"}) => RunInv /\ FollowInv
FollowedInv == Without({"lockLost", "pollOverlap", "pullLost", "reportDies", "agentRestart"})
                 => SettledInv

LEMMA Followed == Spec => [](SafetyInv /\ LockedInv /\ SingleInv /\ FollowedInv)
<1>1. Init => SingleInv /\ FollowedInv
  BY RunInit, FollowInit, SettledInit DEF SingleInv, FollowedInv
<1>2. ASSUME SafetyInv, LockedInv, SingleInv, FollowedInv, [Next]_vars
      PROVE  SingleInv' /\ FollowedInv'
  <2>1. happened \subseteq happened'
    BY <1>2, HappenedGrows DEF SafetyInv
  <2>2. SingleInv'
    <3> SUFFICES ASSUME "lockLost" \notin happened', "pollOverlap" \notin happened'
                 PROVE  (RunInv /\ FollowInv)'
      BY DEF SingleInv, Without
    <3>1. OwnerInv /\ RunInv /\ FollowInv
      BY <1>2, <2>1 DEF LockedInv, SingleInv, Without
    <3> QED BY <1>2, <3>1, RunNext, FollowNext
  <2>3. FollowedInv'
    <3> SUFFICES ASSUME happened' \cap {"lockLost", "pollOverlap", "pullLost", "reportDies",
                                        "agentRestart"} = {}
                 PROVE  SettledInv'
      BY DEF FollowedInv, Without
    <3>1. OwnerInv /\ RunInv /\ FollowInv /\ SettledInv
      BY <1>2, <2>1 DEF LockedInv, SingleInv, FollowedInv, Without
    <3> QED BY <1>2, <3>1, SettledNext
  <2> QED BY <2>2, <2>3
<1> QED BY <1>1, <1>2, Locked, PTL DEF Spec

\* However answers and reports are lost and agents restart, the agents run the
\* script of an execution at most once, as long as polls do not overlap.
THEOREM OneRun == Spec => []AtMostOneRun
<1>1. SingleInv => AtMostOneRun
  BY DEF SingleInv, RunInv, AtMostOneRun
<1> QED BY <1>1, Followed, PTL

\* A final execution that is not being reported has no command left, and a
\* reported failure has raised script_failed exactly once, as long as the
\* handlers concerned live to their end.
THEOREM FollowedUp == Spec => []ReportsAreFollowedUp
<1>1. SingleInv /\ FollowedInv => ReportsAreFollowedUp
  <2> SUFFICES ASSUME SingleInv, FollowedInv PROVE ReportsAreFollowedUp
    OBVIOUS
  <2>1. SettledCommands
    BY DEF FollowedInv, SettledInv, SettledCommands
  <2>2. FailureAnnouncedOnce
    BY DEF SingleInv, FollowInv, FailureAnnouncedOnce, Without, Announceable
  <2> QED BY <2>1, <2>2 DEF ReportsAreFollowedUp
<1> QED BY <1>1, Followed, PTL
=============================================================================
