SPECIFICATION Spec
CONSTANTS
  None = None
  Keys = {k1, k2}
  Handlers = {h1, h2}
  Sessions = {s1, s2}
  max_sessions = 1
  CRASH_COOLDOWN_MAX = 1
  STDIN_CHANNEL_BUFFER = 1
  PipeRoom = 0
  UsizeValues = 2
INVARIANTS TypeOK ReaderOwnsEntry BoundMeansServed StaleIsDead CapOvershoot
SYMMETRY BridgeSymmetry
