SPECIFICATION FairSpec
\* No failure is needed: one unattended session, its lock and its end.
CONSTANTS
  Unattended = {1}
  MaxSessions = 1
  Modes = {"remote-only"}
  MaxPolls = 1
  MaxCalls = 2
  MaxDialogs = 1
  MaxOperations = 2
  MaxFaults = 0
PROPERTIES
  LockEndsWithSession
