SPECIFICATION Spec
CONSTANTS
  Clients = {c1, c2, c3}
  Requests = {1, 3, 6}
  kMinAllocationSize = 2
  kNumBins = 3
  kMaxInternalFragmentation = 100
  FirstRegion = 4
  BackpedalNum = 2
  BackpedalDen = 3
  SizeBits = 5
  MemoryLimit = 10
  DeviceSize = 8
  Setups <- MCSetups
  MaxCount = 3
SYMMETRY Symmetry
CHECK_DEADLOCK FALSE
INVARIANTS
  ChunksTileRegions
  BlocksDisjoint
  FreedBeforeUse
PROPERTY
  NoFalseOom
