SPECIFICATION FairSpec
CONSTANTS
  None = None
  b1 = b1
  b2 = b2
  m1 = m1
  r1 = r1
  r2 = r2
  r3 = r3
  Procs = {m1, b1, b2}
  Main = {m1}
  Mortal = {m1, b1, b2}
  Killable = {m1, b1, b2}
  Refs = {r1, r2, r3}
  MaxTries = 2
INVARIANT TypeOK
INVARIANT NoLeakedLock
INVARIANT HolderIsWatched
CHECK_DEADLOCK FALSE
PROPERTY CrashedHolderIsReleased
PROPERTY ContenderReclaimsDeadRow
