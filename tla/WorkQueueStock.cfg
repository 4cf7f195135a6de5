SPECIFICATION Spec
CONSTANTS
  MaxTasks = 3
  MaxGrid = 3
  Modes = {"ticket", "clc"}
  Channels = {"arena"}
  Api = "runtime"
  Rearm = FALSE
INVARIANTS
  StockHonoursOrder
