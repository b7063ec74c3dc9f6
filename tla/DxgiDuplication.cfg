SPECIFICATION FairSpec
CONSTANTS
  f1 = f1
  f2 = f2
  m = m
  gone = gone
  Full = Full
  Absent = Absent
  None = None
  Frames = {f1, f2, m, gone}
  Outputs = {1, 2}
  Blocks = {1, 2}
  OutputOf <- TwoOutputs
  SourceOf <- Sources
  MaxRounds = 2
INVARIANTS
  TypeOK
PROPERTIES
  DeliveredIsCurrent
  RegionCoversFrame
  EveryCaptureReturns
