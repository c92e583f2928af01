SPECIFICATION Spec
CONSTANTS
  TotalRuns = 2
  MaxTries = 2
  MaxAttempts = 2
  MaxInvocations = 2
  MaxTrouble = 3
INVARIANTS
  MeasuredAsNamed
  ResultsBelongTogether
PROPERTIES
  InvocationEnds
  GoComesUp
CHECK_DEADLOCK FALSE
