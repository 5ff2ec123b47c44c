CONSTANTS
  Unit = 2
  Modulus = 4
  TTL = 2
  SkewUnits = 0
  Oracle = {o1}
  Index = {0, 1}
  Key = {k1, k2}
  Seed = {s1}
  Position = {16, 120}
  Exempt <- LastQueue
  Targets = {1, 5, 7}
  Gifts = {2}
  TimeSteps = {1, 3}
  MAX_EXTRA_BYTES = 2
  MAX_QUEUE_ACCOUNT_SIZE = 6
  MinSize = 1
  RentBase = 3
  VRF_LAMPORTS_COST = 2
  VRF_HIGH_PRIORITY_LAMPORTS_COST = 3
  MaxSlot = 2
  MaxGift = 2
  Chunk = 2
SPECIFICATION SetupSpec
INVARIANTS TypeOK Solvent OpenQueuesExact KeyCommitted AccountsConsistent ResolvedOnce PurgedOnlyWhenExpired
PROPERTIES KeepsRequestLife SetupSucceeds
CHECK_DEADLOCK FALSE
SYMMETRY KeySymmetry
CONSTRAINT FewRequests
