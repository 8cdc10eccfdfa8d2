SPECIFICATION FairSpec
CONSTANTS
  Unattended = {2}
  MaxSessions = 2
  Modes = {"remote-only"}
  MaxPolls = 1
  MaxCalls = 2
  MaxDialogs = 1
  MaxOperations = 3
  MaxFaults = 1
INVARIANTS
  TypeOK
  LockNeedsConsent
PROPERTIES
  AgentSettles
