\* Four slots, three of them usable, and requests longer than that: every push
\* and pop can be cut short, and copies wrap at every position.
CONSTANTS
  Capacity = 4
  MaxLen = 5
  MaxBytes = 12
SPECIFICATION FairSpec
INVARIANTS
  NoDataRace
  InOrder
  SizeIsKept
PROPERTIES
  ImplementsFifo
  EveryByteArrives
CHECK_DEADLOCK FALSE
