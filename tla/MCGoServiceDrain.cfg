SPECIFICATION Spec
CONSTANTS
    Orders = {o1, o2}
    Workers = {w1, w2}
    SlotsPerWorker = 1
    NoOrder = NoOrder
    MaxConsumerFailures = 0
SYMMETRY Symmetry
INVARIANTS
    DrainCompletes
CHECK_DEADLOCK FALSE
