SPECIFICATION Spec
CONSTANTS
  t1 = t1
  t2 = t2
  b1 = b1
  b2 = b2
  None = None
  Tabs = {t1, t2}
  Browsers = {b1, b2}
  Homes <- Homes_TwoTabs
  MaxPeriods = 2
  MaxResets = 1
  MaxFaults = 1
INVARIANTS
  TypeOK
  SignOutHolds
  ResetOnce
PROPERTIES
  SessionsSurvive
