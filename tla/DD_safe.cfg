SPECIFICATION DrivesSpec
CHECK_DEADLOCK FALSE
CONSTANTS
  Sector = {0, 1, 2}
  Value = {v1, v2}
  Ranges = {{1}, {0, 1, 2}}
  MAX_CACHE_SECTORS = 2
  MaxRelListSize = 2
  FlushCount = 1
  MaxFailed = 1
  None = None
  Proc = {p, q}
  Names = {"a", "b"}
  Sectors = 4
  Slots = 2
  MaxCalls = 3
  MaxPath = 2
  DiskSize = 13
  DEF_START_SEC = 2
  Sizes = {1, 3, 4, 7}
  Modulus = 64
  MaxCommands = 6
SYMMETRY ValueSymmetry
INVARIANT DrivesTypeOK
INVARIANT NoLostWrite
INVARIANT ReadsLastWrite
INVARIANT TreeIsSound
INVARIANT PartitionsAreDisjoint
PROPERTY PartitionsKeep
PROPERTY UnmountFlushes
