\* A reader with a timeout and one without, requests of up to two bytes, a ring
\* that holds two, three bytes in all.
CONSTANTS
  Task = {t1, t2}
  None = None
  Forever = {t2}
  RingSize = 2
  MaxLen = 2
  MaxBytes = 3
SPECIFICATION FairSpec
INVARIANTS
  SuccessMeansFilled
  BytesOnceInOrder
  TimerIsForActive
PROPERTIES
  OnlyUntimedRequestsBlock
