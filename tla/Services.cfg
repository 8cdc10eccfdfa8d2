SPECIFICATION Spec
CONSTANTS
  None = None
  Absent = Absent
  NoDocument = NoDocument
  Tenants = {t1, t2}
  Requesters = {u1, u2}
  MaxRemovals = 1
  MaxGiven = 2
  Limit = 2
  MaxShelf = 5
  MaxChanges = 2
  MaxEquals = 2
  Handlers = {h1, h2}
  Users = {n1, n2}
  Hooks = {k1, k2}
  Unaddressed = {k2}
  Processes = {a1, a2}
  MaxTroubles = 2
  MaxRuns = 3
  MaxStops = 1
  MaxKinds = 1
  Buttons = {b1, b2}
  MaxVersion = 2
INVARIANTS
  TypeOK
  WalkMissesNothing
  RecordsAgree
  NoticesAreTrue
  SeedsConverge
  PagesShowTheirChanges
PROPERTIES
  ReferencesHold
SYMMETRY Symmetry
CHECK_DEADLOCK FALSE
