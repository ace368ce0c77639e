SPECIFICATION FairSpec
CONSTANTS
  Sessions = {1, 2, 3}
  Captures <- Mixed
  CondWrites = TRUE
  MayDisable = TRUE
  MaxBuildFailures = 2
  MaxShort = 1
  MaxKeyRenames = 1
  Faults <- AllFaults
  MaxFaults = 2
  Nobody = Nobody
INVARIANT AudioKept
INVARIANT VideoAccounted
INVARIANT DocNeverBehind
PROPERTY PicturesRemovedRightly
PROPERTY StoredPicturesStay
PROPERTY ForeignVideoKept
PROPERTY AudioThrough
CHECK_DEADLOCK FALSE
