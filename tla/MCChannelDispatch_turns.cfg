SPECIFICATION LiveSpec
CONSTANTS
  None = None
  Tasks = {1, 2, 3}
  Scopes = {s1, s2}
  Keys = {"k1"}
  Texts = {"x", "y"}
  KeyOf <- SameKey
  TextOf <- FirstTwoAlike
  InFlightLimits = {2, 3}
  MAX_CHANNEL_HISTORY = 3
  CHANNEL_HISTORY_COMPACT_KEEP_MESSAGES = 2
INVARIANTS TypeOK OnePerScope OwnTurnLast EveryTurnClosed FreshSession
PROPERTIES EveryMessageSettles ServedInOrder
CHECK_DEADLOCK FALSE
