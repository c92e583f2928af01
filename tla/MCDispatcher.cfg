SPECIFICATION FairSpec
CONSTANTS
    Jobs = {j1, j2, j3}
    Workers = {w1, w2}
    Stoppers = {s1, s2}
    SlotsPerWorker = 1
    NoJob = NoJob
INVARIANTS
    JobConservation
    DrainedWhenNil
    ClosedOnce
    NoJobLeftBehind
PROPERTIES
    WorkersReturn
    AcceptedRuns
    NoLateAdmission
    ImplementsJobPool
CHECK_DEADLOCK FALSE
