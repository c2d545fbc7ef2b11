SPECIFICATION FairFiSpec
CONSTANTS
  Sizes = {1, 2, 3, 4, 5}
  MaxMsg = 3
  MinBlock = 2
  OldSizes = {0, 1, 4}
  Envs = {{"write", "remove", "memory", "change", "stop"}, {"task", "write", "change", "stop"}}
INVARIANTS VerdictSound RejectsOnlyChanges
PROPERTIES ClientEnds ServerEnds
CHECK_DEADLOCK FALSE
