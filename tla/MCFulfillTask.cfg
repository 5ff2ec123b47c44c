CONSTANTS
  Unit = 2
  Modulus = 16
  TTL = 4
  SkewUnits = 1
  MAX_ATTEMPTS = 4
  PURGE_RETRY_MAX_SLOTS = 4
  PURGE_SHIFT_MAX = 3
  BACKOFF_SHIFT_MAX = 1
  SkipPreflight = TRUE
  Births <- MCBirths
  Delays <- MCDelays
  MaxAge = 8
  Steps = {1}
  Drifts <- MCDrifts
  MaxLead = 2
SPECIFICATION TaskSpec
CHECK_DEADLOCK FALSE
INVARIANTS TaskTypeOK PurgesPastTTL PurgeFindsExpired
PROPERTIES TaskEnds
