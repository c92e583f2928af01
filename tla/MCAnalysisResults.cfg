SPECIFICATION Spec
CONSTANTS
  Samples <- MCSamples
  Stats <- MCStats
  DevexFigures <- MCDevexFigures
  Series <- MCSeries
INVARIANTS
  VerdictSound
  DevexAgrees
  WindowsSplitSeries
  RecoveryNotOverstated
CHECK_DEADLOCK FALSE
