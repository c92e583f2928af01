SPECIFICATION FairSpec
CONSTANTS
    Partitions = {p1}
    LogLength = 2
    MaxDisruptions = 2
INVARIANTS
    CommittedAccounted
    NoOvertaking
    CalmExactlyOnce
PROPERTIES
    EveryMessageEnds
    ImplementsDelivery
CHECK_DEADLOCK FALSE
