CONSTANTS
  EARLY_SEND_DIVISOR = 2
  EARLY_SEND_MAX = 1
  NON_ER_EARLY_SEND_BONUS = 2
  NON_ER_MIN_SLOT_DURATION = 2
  MIN_SLOT_SAMPLE = 1
  MIN_SLOT_SAMPLES = 2
  SamplesMax = 3
  Target = 5
  MaxSlot = 6
  MaxTime = 7
SPECIFICATION FairTrackerSpec
INVARIANTS SleepsOnCurrentEstimate
PROPERTIES EarlyOnlyOnEvidence WaitEnds
CHECK_DEADLOCK FALSE
