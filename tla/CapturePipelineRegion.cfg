SPECIFICATION Spec
CONSTANTS
  Sources = {s1, s2}
  NoFrame = NoFrame
  Sizes <- BothSizes
  Sampled = {1, 2}
  Scenarios <- OneFailure
SYMMETRY Screens
PROPERTIES
  RegionCoversChanges
