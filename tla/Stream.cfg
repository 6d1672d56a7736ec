SPECIFICATION StreamSpec
CONSTANTS
  MaxSame = 2
  MaxShort = 1
  MaxPath = 9
  Parts = {"number", "index", "flist", "xattr", "acl", "fake", "bytes", "delta"}
  Numbers <- MCNumbers
  Longs <- MCLongs
  Strings <- MCStrings
  Indices <- MCIndices
  Options <- MCOptions
  Files <- MCFiles
  AttrCases <- MCAttrCases
  AclFiles <- MCAclFiles
  StatFiles <- MCStatFiles
  AclRoots <- MCAclRoots
  LocalId <- MCLocalId
  MaxItems = 3
  MaxBase = 1
  Hdr = 2
  Unit = 2
  OutSize = 4
  MsgSize = 6
  InSize = 4
  PipeCap = 1
  MaxLen = 2
  MaxRaw = 2
  MaxMsg = 3
  MaxWork = 4
  MaxFlush = 1
  AmReceiver = {TRUE, FALSE}
  ChunkSize = 1
  MaxRel = 1
  MaxRun = 2
  MaxInsert = 1
  MaxDataCount = 2
  AlignBoundary = 1
  WriteBufSize = 2
  SparseSize = 2
  SumMod = 2
  BLOCK_SIZE = 2
  MaxBlockSize = 2
  MaxMapSize = 4
  RecvMapSize = 2
  MaxChanges = 1
  Changed <- MCChanged
  Sources <- MCSources
  Bases <- MCBases
  DeltaConfigs <- MCDeltaConfigs
INVARIANTS
  BytesArrive
  
  
  
