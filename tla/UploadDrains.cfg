SPECIFICATION FairSpec
CONSTANTS
  Sessions = {1, 2}
  Kind <- AllAudio
  Workers = 1
  CondWrites = TRUE
  RemuxMayFail = TRUE
  MaxParts = 2
  MaxRemuxFailures = 1
  MaxKeyRenames = 1
  MaxImmediate = 1
  Faults <- CrashOrForeign
  Nobody = Nobody
PROPERTY Drains
CHECK_DEADLOCK FALSE
