SPECIFICATION Spec
CONSTANTS
  MAX_THREADS = 5
  NumCPUs = 2
  VMM_MAX_USER_SPACES = 2
  MaxId = 4
  MaxSleep = 1
INVARIANTS TypeOK CurrentIsLive RunningIsCurrent IdleAlwaysRunnable NoLostWakeup LoadedSpaceLive SpaceRefsExact KernelStackInUse
PROPERTIES ZombieStaysDead WakeHasCause
