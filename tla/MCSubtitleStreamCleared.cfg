SPECIFICATION Spec
CONSTANTS
  Threads = {t1, t2}
  t1 = t1
  t2 = t2
  SUBTITLE_BASELINE_LIMIT = 1
  MaxCues = 2
  MaxChanges = 2
  MaxSnapshots = 1
  MaxEvents = 2
  MaxFaults = 0
INVARIANT
  ClearedStaysCleared
SYMMETRY Exchange
CHECK_DEADLOCK FALSE
