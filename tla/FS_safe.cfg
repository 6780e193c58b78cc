SPECIFICATION VolumesSpec
CHECK_DEADLOCK FALSE
CONSTANTS
  Node = {f, g}
  Blocks = 3
  Entries = 2
  Batch = 2
  MaxCache = 2
  MaxPool = 2
  MaxCalls = 6
  NoNode = NoNode
  Controllers = {"ehci", "uhci"}
  MaxPackets = 2
  MaxSends = 6
  NumPorts = 2
  NumFrames = 24
  QueueSize = 24
  HeapBlocks = 115
  BulkTDs = 2
  DescriptorReads = {2}
  HeldBefore = {0, 70}
  MaxUses = 2
CONSTRAINT Followed
INVARIANTS OneChainEach FreeSectorsAreKnown UnmountedIsSaved
INVARIANT DiskAndDriverAgree
INVARIANT FramesHaveOneUser
PROPERTY FramesAreNotLost
