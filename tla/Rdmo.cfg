SPECIFICATION MixedSpec
CONSTANTS
  e1 = e1
  e2 = e2
  c1 = c1
  q1 = q1
  q2 = q2
  Unknown = Unknown
  OutOfBounds = OutOfBounds
  Eps <- MCEps
  Clients <- MCClients
  Queues <- TwoQueues
  Owner <- MCOwner
  SmQueues <- SecondQueue
  MemhQueues = {}
  Shapes <- MixedShapes
  MaxReqs = 4
  Cap = 4
  MayFail = FALSE
  Waits = TRUE
INVARIANTS AppendsDisjoint FlushDurable FreedIsQuiet
PROPERTY ImplementsRecvQueue EveryRequestFreed
CHECK_DEADLOCK FALSE
