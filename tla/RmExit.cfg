SPECIFICATION Spec
CONSTANTS
  m1 = m1
  m2 = m2
  m3 = m3
  n1 = n1
  n2 = n2
  Names = {m1}
  Matching = {m1}
  Jobs <- EmptyDir
  reqSize = 2
  Errnos = {5}
  waitNFSCcliLimit = 2
  NfsLag = 1
  MaxFaults = 0
INVARIANTS
  SuccessMeansEmptied
