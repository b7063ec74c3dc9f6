SPECIFICATION Spec
CONSTANTS
  d1 = d1
  d2 = d2
  d3 = d3
  Displays = {d1, d2, d3}
  SizeOf <- Sizes
  First = d1
  Contents <- AnyContent
  None = None
  MaxPending = 2
SYMMETRY Others
INVARIANTS
  TypeOK
  LatestIsShown
  SelectionFollowed
  EndIsQuiet
PROPERTIES
  RegionTellsOfChange
