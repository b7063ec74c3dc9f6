SPECIFICATION Spec
CONSTANTS
  Timers = {t1}
  Milli = 2
  MaxTime = 6
  Requests <- Repeated
CHECK_DEADLOCK FALSE
INVARIANTS
  StopStopsTheTimer
