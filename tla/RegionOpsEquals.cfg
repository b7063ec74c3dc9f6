SPECIFICATION Spec
CONSTANTS
  Sizes <- Screens
  BlockSize = 2
  Arguments <- AllRegions
INVARIANTS
  EqualsIsSameArea
