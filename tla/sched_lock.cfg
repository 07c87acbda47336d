SPECIFICATION FairSpec
CONSTANTS
  CPUs = {0, 1}
  kloggerCpu = 1
PROPERTY TickReturns
