\* A buffer of three bytes that the DMA fills more than twice.
CONSTANTS
  BufferSize = 3
  NotRead = NotRead
  DmaBytes = 7
SPECIFICATION DmaFairSpec
INVARIANTS
  ForwardedInOrder
PROPERTIES
  EveryByteForwarded
