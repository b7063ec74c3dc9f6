SPECIFICATION FairSpec
CONSTANTS
  Handles = {h1, h2, h3}
INVARIANTS
  TypeOK
  CountMatchesHolders
  FreedExactlyWhenUnheld
  NoLostWakeup
PROPERTIES
  OneResultForAll
  EveryCallReturns
CHECK_DEADLOCK FALSE
