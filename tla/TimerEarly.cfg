\* The smallest case: one timer, submitted one tick after the last run.
CONSTANTS
  Node = {n1}
  Ticks = 8
  Duration = {2}
  Rearm = {1}
  Millisecs = {}
  Freq = 1000
  MaxGap = 3
  MaxTime = 6
SPECIFICATION Spec
PROPERTIES
  NeverEarly
CHECK_DEADLOCK FALSE
