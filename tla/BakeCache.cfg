SPECIFICATION Spec
CONSTANTS
  Procs = {p1, p2}
  Bases = {va, other}
  Canonical = va
  Modes = {tk}
  Timers = {TRUE}
  Orders = {FALSE, TRUE}
  EarlyImport = FALSE
  Stock = stock
  None = none
INVARIANTS
  AgreeInv
  KernelsMatchPlane
  ArmedIsWoven
  DirsHoldTheirKey
