SPECIFICATION FairSpec
\* The one job that is followed comes to an end.
CHECK_DEADLOCK FALSE
CONSTANTS
  a1 = a1
  a2 = a2
  w1 = w1
  w2 = w2
  Nothing = Nothing
  Automations = {a1, a2}
  Actions <- Actions_Two
  MaxAttempts <- MaxAttempts_Two
  Workers = {w1}
  MaxCrashes = 2
INVARIANTS
  AutomationsTypeOK
  LogsAreTrue
PROPERTIES
  LogsEnd
