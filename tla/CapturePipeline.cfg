SPECIFICATION Spec
CONSTANTS
  Sources = {s1, s2}
  NoFrame = NoFrame
  Sizes <- BothSizes
  Sampled = {1, 2}
  Scenarios <- AllScenarios
SYMMETRY Screens
INVARIANTS
  TypeOK
PROPERTIES
  ViewFollowsFrames
  BlankFramesHeld
  SelectedIsDelivered
