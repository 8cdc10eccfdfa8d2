SPECIFICATION FairSpec
\* The one job that is followed comes to an end.
CHECK_DEADLOCK FALSE
CONSTANTS
  d1 = d1
  d2 = d2
  w1 = w1
  w2 = w2
  Caller = Caller
  None = None
  Devices = {d1, d2}
  Workers = {w1, w2}
  MaxCrashes = 2
  MaxRejects = 1
INVARIANTS
  TypeOK
  CompletedIsComplete
PROPERTIES
  FinishedIsNotRerun
  ScheduledJobsEnd
