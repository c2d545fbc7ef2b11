SPECIFICATION FairScSpec
CONSTANT Envs <- AllEnvs
INVARIANTS EpOutlivesThreads SendsHavePeer
PROPERTIES CancelsWaiting InterruptEnds AllArrive
CHECK_DEADLOCK FALSE
