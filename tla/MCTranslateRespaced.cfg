SPECIFICATION FairSpec
CONSTANTS
  CueIds = {"c1"}
  Texts <- RespacedTexts
  SameLanguage = {}
  CuesReturn = FALSE
  Workers = {1}
  RequestCaps = {1}
  MaxConcurrentForced = 0
  MAX_QUEUED_TRANSLATIONS = 2
  MAX_QUEUED_TRANSLATIONS_PER_CUE = 1
  FORCED_TRANSLATION_DEADLINE = 1
  FINAL_TRANSLATION_DEADLINE = 2
  RATE_LIMIT_RETRY_INTERVAL = 1
  MAX_UNFINISHED_SUBTITLE_CUES = 1
  SUBTITLE_BASELINE_LIMIT = 2
  MAX_PROCESSED_CUES = 2
  MAX_RETRIABLE_SENTENCE_ATTEMPTS = 2
  MAX_RATE_LIMIT_ATTEMPTS = 2
  MaxNow = 2
  MaxEdits = 2
  MaxArrivals = 3
  MaxReconnects = 0
  MaxSequence = 2
PROPERTIES
  CommittedCuesSettle
CHECK_DEADLOCK FALSE
