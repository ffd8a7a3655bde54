\* channel(storage) with one entry: three tasks and the main loop fill it.
CONSTANTS
  Task = {t1, t2, t3}
  NoTask = NoTask
  Capacity = 1
  MaxSends = 4
SPECIFICATION FairSpec
INVARIANTS
  NoCrossWaiting
  AtMostOnce
  PromptSendsArrive
  CanceledNeverArrives
  PromptSendsInOrder
PROPERTIES
  ReadyTaskRuns
CHECK_DEADLOCK FALSE
