CONSTANTS
  p = p
  q = q
  b = b
  a = a
  t = t
  Clients = {c1, c2}
  Visitors <- TheVisitors
  c1 = c1
  c2 = c2
  Workers = {p, q, b, t}
  DoorOf <- TheDoors
  MAX_PAIR_ATTEMPTS = 1
  MAX_TRACKED_CLIENTS = 1
  MaxRestarts = 1
  None = None
SPECIFICATION LiveSpec
INVARIANTS TypeOK GuessesBounded OneAdmissionPerStart
PROPERTIES CodesAreUsed
CHECK_DEADLOCK FALSE
