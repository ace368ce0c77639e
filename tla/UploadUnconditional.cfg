SPECIFICATION Spec
CONSTANTS
  Sessions = {1, 2, 3}
  Kind <- JunkSecond
  Workers = 2
  CondWrites = FALSE
  RemuxMayFail = FALSE
  MaxParts = 1
  MaxRemuxFailures = 1
  MaxKeyRenames = 1
  MaxImmediate = 0
  Faults <- Apart
  Nobody = Nobody
INVARIANT AudioSafe
INVARIANT NothingAbandoned
PROPERTY UsesKeyMutex
PROPERTY PartsKept
CHECK_DEADLOCK FALSE
