SPECIFICATION ProgressSpec
CHECK_DEADLOCK FALSE
CONSTANTS
  Proc = {p1, p2}
  Server = {s1, s2}
  MaxRequests = 2
  Kinds = {"fault", "exec"}
  Killable = {p1}
  None = None
  IRQ = {}
  MaxPending = 1
  MaxTicks = 1
  ClockPeriod = 100
  Boot = 0
  Durations = {1}
INVARIANT NoUseAfterDelete
INVARIANT OneOwner
INVARIANT ServerIsItself
PROPERTY ImplementsPromise
PROPERTY EveryFaultEnds
PROPERTY SleepEnds
PROPERTY EventWaitEnds
