SPECIFICATION Spec
CONSTANTS
  N = 3
  Lists = 2
  ListOf <- MCListOf
  Group = {1, 3}
  Options <- MCOptions
  Present = {0, 1}
  PresentLinked = {0, 1, 4}
  Cap = 2
  Limit = 2
  FaultyLinks = FALSE
  ReplacedLinks = FALSE
  MinAhead = 1
  MaxEdit = 1
  MaxBad = 1
  MaxErr = 1
INVARIANTS
  TransferSettles
  

  
