SPECIFICATION WorkerSpec
CONSTANTS
  e1 = e1
  e2 = e2
  c1 = c1
  q1 = q1
  q2 = q2
  Unknown = Unknown
  OutOfBounds = OutOfBounds
  Eps <- MCEps
  Clients <- MCClients
  Queues <- OneQueue
  Owner <- MCOwner
  SmQueues = {}
  MemhQueues <- OneQueue
  Shapes <- AnyShapes
  MaxReqs = 3
  Cap = 2
  MayFail = TRUE
  Waits = FALSE
INVARIANTS FenceRespected StartsInOrder FencedHeld PausedHeld
CHECK_DEADLOCK FALSE
SYMMETRY ConnectionSymmetry
