\* Two queues that share four nodes, whose links start with any value.
CONSTANTS
  FifoNode = {n1, n2, n3, n4}
  Queue = {ready, waiting}
  NULL = NULL
SPECIFICATION FifoSpec
INVARIANTS
  WellLinked
