SPECIFICATION Spec
CONSTANTS
  Sessions = {1, 2}
  Kind <- AllAudio
  Workers = 2
  CondWrites = TRUE
  RemuxMayFail = TRUE
  MaxParts = 2
  MaxRemuxFailures = 1
  MaxKeyRenames = 1
  MaxImmediate = 1
  Faults <- Pairs
  Nobody = Nobody
INVARIANT AudioSafe
INVARIANT UploadedIsStored
INVARIANT MergedInOrder
INVARIANT AttemptsDisjoint
PROPERTY PartsKept
PROPERTY ForeignKept
CHECK_DEADLOCK FALSE
