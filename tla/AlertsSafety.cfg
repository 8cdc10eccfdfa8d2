SPECIFICATION Spec
CONSTANTS
  s1 = s1
  h1 = h1
  h2 = h2
  None = None
  Subjects = {s1}
  Handlers = {h1, h2}
  MaxAlerts = 2
  MaxTickets = 2
  MaxFaults = 1
SYMMETRY HandlerSymmetry
INVARIANTS
  TypeOK
  NoDuplicateAlerts
  AlertsHaveTheirTicket
PROPERTIES
  ResolvedIsFinal
