\* channel(): no storage, so every transfer is a meeting of two tasks.
CONSTANTS
  Task = {t1, t2, t3}
  NoTask = NoTask
  Capacity = 0
  MaxSends = 4
SPECIFICATION FairSpec
INVARIANTS
  NodesLinkedOnce
  NoTaskForgotten
  ReceiverGetsWhatItIsTold
  SuccessMeansDelivered
PROPERTIES
  ImplementsMailbox
  CloseReleases
CHECK_DEADLOCK FALSE
