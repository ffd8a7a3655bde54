\* The smallest buffered channel that loses the value of a suspended sender.
CONSTANTS
  Task = {t1, t2}
  NoTask = NoTask
  Capacity = 1
  MaxSends = 2
SPECIFICATION Spec
INVARIANTS
  SuccessMeansDelivered
CHECK_DEADLOCK FALSE
