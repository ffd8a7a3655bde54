\* Three tasks, one of which sets no timeout; requests of up to two chunks.
CONSTANTS
  Task = {t1, t2, t3}
  None = None
  Forever = {t3}
  MaxChunks = 2
SPECIFICATION FairSpec
INVARIANTS
  BufferOutlivesTransfer
  SuccessMeansSent
  ReadyMeansIdle
  TimerIsForActive
PROPERTIES
  OnlyUntimedRequestsBlock
