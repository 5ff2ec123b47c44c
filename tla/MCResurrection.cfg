CONSTANTS
  r1 = r1
  r2 = r2
  Id <- MCId
  Worker <- MCWorker
  MaxSlot = 3
SPECIFICATION Spec
INVARIANTS NoResurrection
