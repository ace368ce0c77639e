SPECIFICATION Spec
CONSTANTS
  Recorders = {"r1", "r2"}
  Sessions = {1, 2, 3}
  Owner <- TwoAndOne
  Size <- Bits
  PartSize = 1
  ConditionalPut = TRUE
  Endpoints <- MostlyKnown
  MaxTries = 1
  Faults <- OneOfEach
PROPERTY ImplementsGrowingObject
PROPERTY MergesNeverDiscard
CHECK_DEADLOCK FALSE
