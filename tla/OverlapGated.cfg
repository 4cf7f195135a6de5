SPECIFICATION Spec
CONSTANTS
  MaxTasks = 3
  MaxGrid = 4
  Depth = 2
  Clc = "off"
  EnvR = 0
  OccR = 2
  MayRaise = FALSE
  Channels = {"arena", "device"}
INVARIANTS
  GatedInv
  NoTileTwice
PROPERTIES
  FrozenWhileExecuting
  ServesExactlyOnce
