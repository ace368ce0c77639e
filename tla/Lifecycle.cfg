SPECIFICATION FairSpec
CONSTANTS
  Ids = {a}
  Items <- Windows
  MaxParts = 5
  MaxTime = 2
  MaxSessionDuration = 2
  MaxRecordings = 0
  Faults <- Mixes
  None = None
  Absent = Absent
  Invalid = Invalid
  NoSchedule = NoSchedule
INVARIANT NoOrphan
INVARIANT OneOwner
PROPERTY StopsOnlyWhenDue
PROPERTY CapturesEnd
PROPERTY ItemsCaptured
CHECK_DEADLOCK FALSE
