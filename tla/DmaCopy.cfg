SPECIFICATION FairDmaSpec
CONSTANTS
  Sizes = {0, 1, 2, 3}
  MaxBuf = 2
  Envs = {{"local"}, {"local", "channel", "reset"}}
INVARIANTS DmaOverLiveBuffers HostFaithful DpuFaithful
PROPERTIES HostTold BothEnd
CHECK_DEADLOCK FALSE
