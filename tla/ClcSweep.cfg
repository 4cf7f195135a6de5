SPECIFICATION FairSpec
CONSTANTS
  MaxUnits = 5
  SMs = 2
  LongRepeats = 2
  Repeats = 1
INVARIANTS
  GridInv
  ExactlyOnce
  DocumentedPasses
  VerdictsTrue
  StitchedRunsAgree
  MappingVerdict
  ReportVouches
PROPERTIES
  RunAllEnds
CHECK_DEADLOCK FALSE
