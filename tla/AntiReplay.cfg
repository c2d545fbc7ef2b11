SPECIFICATION ArSpec
CONSTANTS
  Window = 3
  SnMod = 9
INVARIANTS NoReplay OnlyStaleDropped
