SPECIFICATION FairSpec
CONSTANTS
  m1 = m1
  m2 = m2
  m3 = m3
  n1 = n1
  n2 = n2
  Names = {m1, m2, m3, n1, n2}
  Matching = {m1, m2, m3}
  Jobs <- AllJobs
  reqSize = 2
  Errnos = {5}
  waitNFSCcliLimit = 2
  NfsLag = 1
  MaxFaults = 1
INVARIANTS
  SuccessMeansRemoved
  NothingIsSkipped
PROPERTIES
  UnfilteredRunEnds
