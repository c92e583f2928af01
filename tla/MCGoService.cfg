SPECIFICATION Spec
CONSTANTS
    Orders = {o1, o2, o3}
    Workers = {w1, w2}
    SlotsPerWorker = 1
    NoOrder = NoOrder
    MaxConsumerFailures = 1
SYMMETRY Symmetry
INVARIANTS
    RefusedNeverPlaced
    ClosedOnlyAfterTimeout
    ProducerOutlivesJobs
    MetricsBalance
    CountersMeanTopic
PROPERTIES
    ImplementsDispatcher
CHECK_DEADLOCK FALSE
