SPECIFICATION Spec
CONSTANTS
  MAX_THREADS = 4
  NumCPUs = 1
  VMM_MAX_USER_SPACES = 2
  MaxId = 4
  MaxSleep = 2
INVARIANT SleeperOffCpu
