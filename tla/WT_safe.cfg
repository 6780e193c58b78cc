SPECIFICATION KernelSpec
CHECK_DEADLOCK FALSE
CONSTANTS
  Proc = {p1, p2}
  IRQ = {i1}
  MaxPending = 1
  MaxTicks = 3
  ClockPeriod = 8
  Boot = 5
  Durations = {2}
  None = None
  HeapSize = 12
  HeaderSize = 1
  Requests = {1, 2}
  Aligns = {0, 4}
  Threads = {t1, t2}
  Nobody = Nobody
  Page = {1, 2, 3, 4, 5, 6, 7, 8, 9, 10, 11}
  UserProc = {u1, u2}
  StackBlocks = {0}
  Forgotten = {{}, {9, 10, 11}}
  KernelStackPages = 1
  MaxCreated = 2
  User = {a, b}
  Root = Root
  MaxFd = 3
  MaxOpen = 3
INVARIANT KernelTypeOK
INVARIANT SwitchLockIsExclusive
INVARIANT HeapTiles
INVARIANT PagesAreHeld
INVARIANT CountsCoverRedirects
PROPERTY NeverEarly
PROPERTY SignalsAreConsumed
