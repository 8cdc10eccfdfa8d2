SPECIFICATION FairSpec
CONSTANTS
  d1 = d1
  d2 = d2
  h1 = h1
  h2 = h2
  None = None
  Devices = {d1}
  Requests = {h1, h2}
  MaxFaults = 1
INVARIANTS
  TypeOK
  ChangesAreTold
PROPERTIES
  SilenceIsNoticed
  LiveDevicesComeBack
