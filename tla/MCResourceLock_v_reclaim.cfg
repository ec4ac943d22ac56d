SPECIFICATION Spec
CONSTANTS
  None = None
  b1 = b1
  b2 = b2
  b3 = b3
  r1 = r1
  r2 = r2
  r3 = r3
  Procs = {b1, b2, b3}
  Main = {}
  Mortal = {b1, b2, b3}
  Killable = {}
  Refs = {r1, r2, r3}
  MaxTries = 2
INVARIANT Exclusive
CHECK_DEADLOCK FALSE
