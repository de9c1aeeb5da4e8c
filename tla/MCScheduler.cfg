SPECIFICATION Spec
CONSTANTS
  Jobs <- MCJobs
  Cues <- MCCues
  ConcurrencyLevels = {1, 2}
  MaxConcurrentForced = 1
  MAX_QUEUED_TRANSLATIONS = 3
  MAX_QUEUED_TRANSLATIONS_PER_CUE = 2
  FORCED_TRANSLATION_DEADLINE = 1
  FINAL_TRANSLATION_DEADLINE = 2
  RATE_LIMIT_RETRY_INTERVAL = 1
  MaxNow = 3
  MaxArrivals = 4
INVARIANTS
  TypeOK
  IndexesMirrorQueue
  WorkOwnedOnce
  QueueWithinLimits
  ForcedSlotsWithinShare
  OverflowLeavesQueue
  OverflowMeansNoPreview
PROPERTIES
  DispatchRespectsCap
  TerminalWorkAccounted
