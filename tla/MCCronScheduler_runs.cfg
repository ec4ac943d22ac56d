SPECIFICATION FairSpec
CONSTANTS
  Jobs = {j1, j2}
  Callers = {c1}
  Schedules <- MCSchedules
  max_tasks = 2
  max_concurrent = 1
  MaxTime = 2
  MaxPatches = 1
  MaxFaults = 1
INVARIANT TypeOK
PROPERTIES RunsOncePerOccurrence OneShotSettles
CHECK_DEADLOCK FALSE
