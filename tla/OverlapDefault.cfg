SPECIFICATION Spec
CONSTANTS
  MaxTasks = 3
  MaxGrid = 3
  Depth = 2
  Clc = "auto"
  EnvR = 0
  OccR = 1
  MayRaise = FALSE
  Channels = {"device"}
INVARIANTS
  NoTileTwice
