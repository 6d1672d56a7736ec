SPECIFICATION Spec
CONSTANTS
  Configs <- MCConfigs
  MaxRuns = 2
  MaxBad = 1
INVARIANTS
  
  RunRepairs

  
CHECK_DEADLOCK FALSE
