SPECIFICATION FairSpec
CONSTANTS
  None = None
  Calls = {c1}
  Peers = {}
  Parent = None
  Keys = {k1, k2}
  Probes = {i1, i2}
  Persistent = TRUE
  MemoryLimited = TRUE
  MayBeKilled = FALSE
  DiskFaults = FALSE
INVARIANTS UpdatesSurvive
PROPERTIES OutageIsNoticed
