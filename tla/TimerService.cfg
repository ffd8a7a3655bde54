\* A tick counter of five values that wraps within the time modelled, three
\* timers that may be due at the same time, a service that may run two ticks late.
CONSTANTS
  Node = {n1, n2, n3}
  Ticks = 5
  Duration = {0, 2, 4}
  Rearm = {1}
  Millisecs = {3}
  Freq = 1000
  MaxGap = 2
  MaxTime = 6
SPECIFICATION FairSpec
INVARIANTS
  EarlyByAtMostTheGap
PROPERTIES
  ImplementsAlarmClock
  NothingOverdueAfterRun
  RunEnds
CHECK_DEADLOCK FALSE
