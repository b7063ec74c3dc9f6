SPECIFICATION FairSpec
CONSTANTS
  Timers = {t1, t2}
  Milli = 2
  MaxTime = 5
  Requests <- Asked
CHECK_DEADLOCK FALSE
INVARIANTS
  TypeOK
  NoDrift
  NeverEarly
PROPERTIES
  FoundStopIsFinal
  EveryPeriodServed
