CONSTANTS
  Unit = 2
  Modulus = 4
  TTL = 2
  SkewUnits = 0
  Oracle = {o1}
  Index = {0}
  Key = {k1, k2}
  Seed = {s1}
  Position = {16, 120}
  Exempt <- NoQueues
  Targets = {1}
  Gifts = {}
  TimeSteps = {1, 3}
  MAX_EXTRA_BYTES = 2
  MAX_QUEUE_ACCOUNT_SIZE = 6
  MinSize = 1
  RentBase = 3
  VRF_LAMPORTS_COST = 2
  VRF_HIGH_PRIORITY_LAMPORTS_COST = 3
  MaxSlot = 3
  MaxGift = 0
  Chunk = 2
CHECK_DEADLOCK FALSE
SPECIFICATION SetupSpec
PROPERTIES RegisteredLongEnough
