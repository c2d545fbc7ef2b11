SPECIFICATION PspSpec
CONSTANTS
  ga = ga
  gb = gb
  Gateways = {ga, gb}
  None = None
  MaxTunnels = 2
  MaxSpi = 3
  MaxCalls = 2
  Environments <- MCEnvironments
CHECK_DEADLOCK FALSE
INVARIANT TunnelsAccepted
PROPERTY StartupConnects
PROPERTY OnDemandConnects
