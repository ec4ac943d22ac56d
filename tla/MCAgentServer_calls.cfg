SPECIFICATION FairSpec
CONSTANTS
  None = None
  Calls = {c1, c2}
  Peers = {p1, p2}
  Parent = p1
  Keys = {}
  Probes = {}
  Persistent = FALSE
  MemoryLimited = TRUE
  MayBeKilled = TRUE
  DiskFaults = FALSE
INVARIANTS TypeOK AtMostOneReply NoCallForgotten
PROPERTIES CallIsAnswered DeadPeerIsForgotten
