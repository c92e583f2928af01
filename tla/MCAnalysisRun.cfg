SPECIFICATION Spec
CONSTANTS
  MaxRuns = 2
  MaxFaults = 2
INVARIANTS
  NoMixedExport
  StaleOnlyIfFailed
PROPERTIES
  FiguresLeadOn
CHECK_DEADLOCK FALSE
