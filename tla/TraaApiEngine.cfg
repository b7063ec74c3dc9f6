SPECIFICATION Spec
CONSTANTS
  Callers = {c1, c2, c3}
  None = None
  MaxCalls = 4
  Disciplines = {FALSE}
CHECK_DEADLOCK FALSE
INVARIANTS
  EngineThereWhenUsed
