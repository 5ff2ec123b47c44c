CONSTANTS
  r1 = r1
  Id <- OneId
  Worker <- MCWorker
  MaxSlot = 0
SPECIFICATION LiveSpec
PROPERTIES Served Forgotten
