SPECIFICATION Spec
CONSTANTS
  NumExperts = 3
  TopK = 2
  Tokens = 3
  Envs <- MCEnvs
  MaxWrappers = 2
  MaxForwards = 2
INVARIANTS
  CapKeepsEarliest
  DropsCountedOnce
CHECK_DEADLOCK FALSE
