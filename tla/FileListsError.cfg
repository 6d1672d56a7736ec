SPECIFICATION ListingSpec
CONSTANTS
  CurrDir <- MCCurrDir
  Class <- MCClass
  Setups = {}
  Dirs <- MCDirs
  Leaves <- MCLeaves
  Mounts <- MCMounts
  RawPaths = {}
  Globs = {}
  Tree <- MCTree
  Plainfiles <- MCPlainfiles
  Unseen <- MCUnseen
  ModuleDir <- MCModuleDir
  MaxMoves = 4
  ListSetups <- MCOneSetup
  Disks <- MCDisks
  Universe <- MCUniverse
  MaxFaults = 2
  OpenFails = TRUE
  ExtentSizes = {2, 7}
  Quanta = {1, 2}
  HeaderSize = 2
  Lengths = {0, 2, 3}
  BoundaryLen = 2
  MaxAllocs = 5
  MaxLists = 3
  Victims <- MCVictims
  deldelay_size = 6
  MaxFailures = 1
  Data <- MCData
  Hash <- MCHash
  LeastSize = 8
  SizeWanted = {1, 9}
  IntBits = 2
  SlotInts = 2
  MaxBit = 10
  MaxPushes = 5
  SIZE_MAX = 15
  ItemSizes = {1, 2, 3}
  Increments <- MCIncrements
  FuzzyNames <- MCFuzzyNames
  Candidates <- MCCandidates
INVARIANT DeletesOnlyMissing
CHECK_DEADLOCK FALSE
