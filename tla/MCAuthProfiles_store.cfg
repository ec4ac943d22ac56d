CONSTANTS
  d1 = d1
  d2 = d2
  c1 = c1
  daemon = daemon
  terminal = terminal
  home = home
  other = other
  Processes = {daemon, terminal}
  Workers = {d1, d2, c1}
  ProcessOf <- InProcess
  Calls <- TheCalls
  Profiles = {home, other}
  DefaultProfile = home
  MaxIssued = 3
  OAUTH_REFRESH_MAX_ATTEMPTS = 2
  None = None
SPECIFICATION LiveSpec
INVARIANTS TypeOK StoredTokenIsLive NoDuplicateRefresh BackoffRespected
PROPERTIES Serialised EveryOperationEnds
CHECK_DEADLOCK FALSE
