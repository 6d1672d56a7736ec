SPECIFICATION ListingSpec
CONSTANTS
  CurrDir <- MCCurrDir
  Class <- MCClass
  Setups <- MCSetups
  Dirs <- MCDirs
  Leaves <- MCLeaves
  Mounts <- MCMounts
  RawPaths <- MCRawPaths
  Globs <- MCGlobs
  Tree <- MCTree
  Plainfiles <- MCPlainfiles
  Unseen <- MCUnseen
  ModuleDir <- MCModuleDir
  MaxMoves = 4
  ListSetups <- MCListSetups
  Disks <- MCDisks
  Universe <- MCUniverse
  MaxFaults = 1
  OpenFails = FALSE
  ExtentSizes = {2, 7}
  Quanta = {1, 2}
  HeaderSize = 2
  Lengths = {0, 2, 3}
  BoundaryLen = 2
  MaxAllocs = 5
  MaxLists = 3
  Victims <- MCVictims
  deldelay_size = 6
  MaxFailures = 1
  Data <- MCData
  Hash <- MCHash
  LeastSize = 8
  SizeWanted = {1, 9}
  IntBits = 2
  SlotInts = 2
  MaxBit = 10
  MaxPushes = 5
  SIZE_MAX = 15
  ItemSizes = {1, 2, 3}
  Increments <- MCIncrements
  FuzzyNames <- MCFuzzyNames
  Candidates <- MCCandidates
INVARIANTS
  RulesHold
  PathsHold
  
  ContainersSound
PROPERTIES
  ProtectedSurvives
CHECK_DEADLOCK FALSE
