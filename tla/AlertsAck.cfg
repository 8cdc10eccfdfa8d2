SPECIFICATION Spec
CONSTANTS
  s1 = s1
  h1 = h1
  h2 = h2
  None = None
  Subjects = {s1}
  Handlers = {h1, h2}
  MaxAlerts = 1
  MaxTickets = 1
  MaxFaults = 0
PROPERTIES
  ResolvedNotAcknowledged
