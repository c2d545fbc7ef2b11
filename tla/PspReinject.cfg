SPECIFICATION PspSpec
CONSTANTS
  ga = ga
  gb = gb
  Gateways = {ga, gb}
  None = None
  MaxTunnels = 2
  MaxSpi = 3
  MaxCalls = 2
  Environments <- MCFailing
CHECK_DEADLOCK FALSE
INVARIANT ReinjectedIsEncrypted
