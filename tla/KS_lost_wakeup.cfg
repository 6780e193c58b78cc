SPECIFICATION FairSpec
CONSTANTS
  Proc = {p1, p2}
  Server = {s1, s2}
  MaxRequests = 1
  Kinds = {"exec"}
  Killable = {}
  None = None
PROPERTY EveryWaitEnds
