CONSTANTS
  Unit = 4
  Modulus = 65536
  TTL = 120
  SkewUnits = 15
  MAX_ATTEMPTS = 2
  PURGE_RETRY_MAX_SLOTS = 1
  PURGE_SHIFT_MAX = 0
  BACKOFF_SHIFT_MAX = 0
  SkipPreflight = TRUE
  Births <- LateBirth
  Delays <- LateStart
  MaxAge = 130
  Steps = {1}
  Drifts <- NoDrift
  MaxLead = 0
SPECIFICATION TaskSpec
CHECK_DEADLOCK FALSE
INVARIANTS WaitThenPurge
