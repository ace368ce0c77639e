SPECIFICATION Spec
CONSTANTS
  Ids = {a}
  Items <- Windows
  MaxParts = 5
  MaxTime = 2
  MaxSessionDuration = 2
  MaxRecordings = 0
  Faults <- Fetches
  None = None
  Absent = Absent
  Invalid = Invalid
  NoSchedule = NoSchedule
PROPERTY RotationContinues
CHECK_DEADLOCK FALSE
