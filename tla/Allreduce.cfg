CONSTANTS
  c1 = c1
  c2 = c2
  c3 = c3
  d1 = d1
  d2 = d2
  Null = Null
  Topologies <- MCTopologies
SPECIFICATION Spec
CHECK_DEADLOCK FALSE
INVARIANT NothingLeft
PROPERTY ImplementsReduction
PROPERTY SendStable
PROPERTY EveryBatchEnds
