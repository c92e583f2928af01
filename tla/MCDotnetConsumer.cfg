SPECIFICATION FairSpec
CONSTANTS
    Partitions = {p1}
    LogLength = 3
    MaxDisruptions = 2
    MaxRequestFailures = 1
INVARIANTS
    CommittedAccounted
    NoOvertaking
    CalmExactlyOnce
    CountedOnce
PROPERTIES
    EveryMessageEnds
    ImplementsDelivery
CHECK_DEADLOCK FALSE
