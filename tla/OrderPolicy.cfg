SPECIFICATION Spec
CONSTANTS
  Policies = {"lpt", "srpt", "edf", "region"}
  Deadband = 50
  MaxTiles = 4
  Costs = {0, 50, 51}
  Slacks = {0, 60}
  Blocks = {0, 1, 2, 3}
INVARIANTS
  WrittenIsOrder
  SrptNearBest
  RegionTakesExtremes
  BlocksStayTogether
PROPERTY LptNeverReorders
