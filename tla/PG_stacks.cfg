SPECIFICATION PagesSpec
CHECK_DEADLOCK FALSE
CONSTANTS
  Page = {1, 2, 3, 4, 5, 6, 7, 8, 9, 10, 11}
  UserProc = {u1}
  StackBlocks = {}
  Forgotten = {{}}
  KernelStackPages = 1
  MaxCreated = 1
INVARIANT StacksGrow
