SPECIFICATION SwSpec
CONSTANTS
  port0 = port0
  i1 = i1
  i2 = i2
  s1 = s1
  s2 = s2
  p1 = p1
  p2 = p2
  x1 = x1
  x2 = x2
  x3 = x3
  f1 = f1
  f2 = f2
  None = None
  Ports <- MCPorts
  PipeIds <- MCPipeIds
  EntryIds <- MCEntryIds
  Slots <- MCSlots
  Pipes <- MCPipes
  Entries <- MCEntries
  SwitchPort = port0
  Environments <- AllEnvironments
INVARIANT TablesAgree
INVARIANT HandlesLive
INVARIANT EntriesFound
INVARIANT DrainedIsExact
PROPERTY OnlyOwnEntries
CHECK_DEADLOCK FALSE
SYMMETRY SwitchSymmetry
