SPECIFICATION FairSpec
CONSTANTS
  TimerEvery = 2
  PlanEvery = 3
  Depth = 2
  Grid = 1
  Names = {1, 2, 3, 4, 5, 6}
  MayRaise = TRUE
  Channels = {"device"}
INVARIANTS
  QuietInv
PROPERTIES
  ProbeIsRead
