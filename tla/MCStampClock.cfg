CONSTANTS
  Unit = 4
  Modulus = 64
  TTL = 120
  SkewUnits = 15
  Births <- MCBirths
  Steps <- MCSteps
  Drifts <- MCDrifts
  MaxAge = 600
SPECIFICATION Spec
INVARIANTS PurgeNeverEarly FreshOnlyAfterWrap OracleNeverGivesUpEarly
