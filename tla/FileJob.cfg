SPECIFICATION Spec
CONSTANTS
  c1 = c1
  c2 = c2
  Contents = {c1, c2}
  Absent = Absent
  Broken = Broken
  Directory = Directory
  Errnos = {5}
  Jobs <- AllJobs
  OtherContents = {}
  waitNFSCcliLimit = 2
  NfsLag = 1
  MaxFaults = 2
  MaxRuns = 3
  MaxSrcWrites = 1
SYMMETRY ContentSymmetry
INVARIANTS
  FlagMeansDelivered
  SuccessMeansDelivered
  RefusedOnlyAfterFreshCopy
  UndisturbedRunCompletes
PROPERTIES
  CompletedNeverRedone
  OnlyVerifiedIsPublished
  
