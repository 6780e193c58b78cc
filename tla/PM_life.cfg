SPECIFICATION ProcessesSpec
CONSTANTS
  MaxPid = 4
  MaxPidOfKills = 3
  MAX_NO_PROCESS = 3
  Killers = {0, 1, 2}
  Servers = {1}
  CalmServers = {0, 1}
  Detached = TRUE
  CalmDetached = FALSE
INVARIANT NoDanglingSchedule
INVARIANT OrphansHaveAParent
INVARIANT EndsLeakNothing
PROPERTY DeathIsFinalUnlessKilled
