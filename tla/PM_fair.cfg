SPECIFICATION CalmFairSpec
CONSTANTS
  MaxPid = 3
  MaxPidOfKills = 0
  MAX_NO_PROCESS = 3
  Killers = {}
  Servers = {1}
  CalmServers = {1}
  Detached = TRUE
  CalmDetached = TRUE
PROPERTY NoStarvation
PROPERTY ChildWaitEnds
PROPERTY ZombiesAreReaped
