SPECIFICATION Spec
CONSTANTS
  TimerEvery = 2
  PlanEvery = 3
  Depth = 2
  Grid = 2
  Names = {1, 2, 3, 4, 5, 6}
  MayRaise = FALSE
  Channels = {"arena", "device"}
INVARIANTS
  OwnInv
  ArmedInv
  StableUntilRead
PROPERTIES
  OnlyItsStep
  FoldedOnce
