SPECIFICATION Spec
CONSTANTS
  Samples <- MCSamples
  Stats <- MCStats
  DevexFigures <- MCDevexFigures
  Series <- MCSeries
INVARIANTS
  MissingDataClaimsNothing
CHECK_DEADLOCK FALSE
