\* Two queue objects, each with a storage of up to three entries or with none.
CONSTANTS
  Queue = {q1, q2}
  NULL = NULL
  Capacity = 3
  Value = {v1, v2}
SPECIFICATION Spec
INVARIANTS
  TypeOK
PROPERTIES
  ImplementsRecentQueue
