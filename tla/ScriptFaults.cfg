SPECIFICATION Spec
CONSTANTS
  e1 = e1
  e2 = e2
  d1 = d1
  w1 = w1
  w2 = w2
  p1 = p1
  p2 = p2
  r1 = r1
  r2 = r2
  None = None
  Executions = {e1}
  Devices = {d1}
  Target <- Target_ScriptFaults
  Workers = {w1, w2}
  Pulls = {p1, p2}
  Reports = {r1, r2}
  QueueModes = {TRUE, FALSE}
  PullLimit = 10
  Faults <- FaultKinds
  MaxFaults = 3
SYMMETRY SlotSymmetry
INVARIANTS
  TypeOK
  JobConsumedMeansStarted
  AtMostOneCommand
  AtMostOneRun
  ReportsAreFollowedUp
PROPERTIES
  TerminalIsFinal
\* Every execution may be final: then nothing is left to do.
CHECK_DEADLOCK FALSE
