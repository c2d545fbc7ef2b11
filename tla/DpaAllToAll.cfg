SPECIFICATION A2aSpec
CONSTANTS
  N = 2
  MaxThreads = 2
  None = None
  Environments <- MCEnvironments
CHECK_DEADLOCK FALSE
INVARIANT Received
INVARIANT TargetsLive
PROPERTY EveryoneEnds
