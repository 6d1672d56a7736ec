SPECIFICATION FairSpec
CONSTANTS
  c1 = c1
  c2 = c2
  Contents = {c1, c2}
  Absent = Absent
  Broken = Broken
  Directory = Directory
  Errnos = {5}
  Jobs <- LiveJobs
  OtherContents = {c1}
  waitNFSCcliLimit = 2
  NfsLag = 1
  MaxFaults = 1
  MaxRuns = 2
  MaxSrcWrites = 1
PROPERTIES
  RunEnds
