SPECIFICATION FairSpec
CONSTANTS
  MaxTasks = 2
  MaxGrid = 2
  Modes = {"ticket", "clc"}
  Channels = {"arena", "device"}
  Api = "plane"
  Rearm = TRUE
INVARIANTS
  QueueInv
PROPERTIES
  LaunchesComplete
