SPECIFICATION FairSpec
CONSTANTS
  Callers = {c1, c2, c3}
  None = None
  MaxCalls = 4
  Disciplines = {TRUE, FALSE}
CHECK_DEADLOCK FALSE
INVARIANTS
  TypeOK
  NoOrphanQueue
  MainQueueRuns
  DisciplinedUseIsSafe
PROPERTIES
  EveryCallReturns
