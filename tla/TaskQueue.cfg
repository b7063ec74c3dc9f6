SPECIFICATION FairSpec
CONSTANTS
  c1 = c1
  c2 = c2
  Clients = {c1, c2}
  Manager = manager
  Worker = worker
  None = None
  MaxTasks = 4
  Scenarios <- Sound
CHECK_DEADLOCK FALSE
INVARIANTS
  TypeOK
  HandlersMatchTasks
  TasksUnderMutex
  NoUseAfterDestroy
  ShutdownStopsExecution
PROPERTIES
  ServesInOrder
  EveryTaskSettled
  EndingReturns
