SPECIFICATION Spec
CONSTANTS
  Orders = {o1, o2, o3}
  MaxConsumerFailures = 2
SYMMETRY Symmetry
INVARIANTS
  AnswersMeanTopic
  MetricsBalance
CHECK_DEADLOCK FALSE
