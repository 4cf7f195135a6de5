SPECIFICATION Spec
CONSTANTS
  MaxTasks = 3
  MaxGrid = 3
  Depth = 2
  Clc = "auto"
  EnvR = 0
  OccR = 2
  MayRaise = TRUE
  Channels = {"arena", "device"}
INVARIANTS
  FaultFree
  QuietLaunchesServeOnce
  PlaneCoherent
  LiveOrderRemembered
