SPECIFICATION Spec
CONSTANTS
    Partitions = {p1, p2}
    LogLength = 2
    MaxDisruptions = 0
    MaxRequestFailures = 0
SYMMETRY Symmetry
INVARIANTS
    DeadLettersFailed
CHECK_DEADLOCK FALSE
