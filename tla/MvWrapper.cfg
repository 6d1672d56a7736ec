SPECIFICATION FairSpec
CONSTANTS
  n1 = n1
  n2 = n2
  n3 = n3
  Base = Base
  Names = {n1, n2, n3}
  Jobs <- AllJobs
  Sources = {"absent", "file", "dir"}
  defaultLimtReadDir = 2
  Errnos = {5}
  waitNFSCcliLimit = 2
  NfsLag = 1
  MaxFaults = 1
  MaxRuns = 2
  MaxOthers = 1
INVARIANTS
  SuccessMeansMoved
  RefusalIsReal
PROPERTIES
  DirReplacesNothing
  RunEnds
