SPECIFICATION FairSpec
CONSTANTS
  CueIds = {"c1"}
  Texts <- MCTexts
  SameLanguage <- MCSameLanguage
  CuesReturn = FALSE
  Workers = {1, 2}
  RequestCaps = {1, 2}
  MaxConcurrentForced = 0
  MAX_QUEUED_TRANSLATIONS = 2
  MAX_QUEUED_TRANSLATIONS_PER_CUE = 1
  FORCED_TRANSLATION_DEADLINE = 1
  FINAL_TRANSLATION_DEADLINE = 1
  RATE_LIMIT_RETRY_INTERVAL = 1
  MAX_UNFINISHED_SUBTITLE_CUES = 1
  SUBTITLE_BASELINE_LIMIT = 2
  MAX_PROCESSED_CUES = 1
  MAX_RETRIABLE_SENTENCE_ATTEMPTS = 1
  MAX_RATE_LIMIT_ATTEMPTS = 1
  MaxNow = 1
  MaxEdits = 2
  MaxArrivals = 2
  MaxReconnects = 0
  MaxSequence = 2
INVARIANTS
  OutcomeMatchesSource
CHECK_DEADLOCK FALSE
