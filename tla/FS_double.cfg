SPECIFICATION Spec
CONSTANTS
  Node = {f, g}
  Blocks = 3
  Entries = 2
  Batch = 2
  MaxCache = 3
  MaxPool = 2
  MaxCalls = 6
  NoNode = NoNode
INVARIANT NeverShared
