CONSTANTS
  MaxWaiting = 2
  Queue = {q1}
SPECIFICATION FilterSpec
INVARIANTS ScanTypeOK GapCovered OnlyDelegatedServed
PROPERTIES GapScanned PeriodicScans DelegatedServed
