SPECIFICATION Spec
CONSTANTS
  MaxPid = 4
  MAX_NO_PROCESS = 4
  Killers = {0}
  Servers = {1}
  Detached = FALSE
INVARIANT ThreadsDieFirst
