SPECIFICATION Spec
CONSTANTS
  Threads = {t1, t2}
  t1 = t1
  t2 = t2
  SUBTITLE_BASELINE_LIMIT = 2
  MaxCues = 3
  MaxChanges = 2
  MaxSnapshots = 1
  MaxEvents = 2
  MaxFaults = 1
INVARIANTS
  TypeOK
  ViewMatchesCursor
  QuietViewIsCurrent
SYMMETRY Exchange
CHECK_DEADLOCK FALSE
