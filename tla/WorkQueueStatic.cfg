SPECIFICATION Spec
CONSTANTS
  MaxTasks = 3
  MaxGrid = 4
  Modes = {"ticket", "clc"}
  Channels = {"arena"}
  Api = "runtime"
  Rearm = FALSE
INVARIANTS
  FaultFree
  NoTaskTwice
  RawOwnedOnce
PROPERTIES
  ServesAll
