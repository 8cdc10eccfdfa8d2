SPECIFICATION Spec
CONSTANTS
  p1 = p1
  p2 = p2
  h1 = h1
  h2 = h2
  None = None
  Keep = Keep
  Now = Now
  Handlers = {h1, h2}
  Policies = {p1, p2}
  FirstResponseMinutes <- FirstResponseMinutes_SixEight
  ResolutionMinutes <- ResolutionMinutes_SevenNine
  Instants <- Instants_Late
  Requested = {"open", "closed"}
SYMMETRY HandlerSymmetry
INVARIANTS
  TypeOK
  StampsAreTrue
PROPERTIES
  BreachStays
