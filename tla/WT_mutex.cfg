SPECIFICATION Spec
CONSTANTS
  Proc = {p1, p2}
  IRQ = {}
  MaxPending = 1
  MaxTicks = 0
  ClockPeriod = 100
  Boot = 0
  Durations = {}
  None = None
INVARIANT MutualExclusion
