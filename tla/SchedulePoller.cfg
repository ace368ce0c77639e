SPECIFICATION FairSpec
CONSTANTS
  a = a
  b = b
  c = c
  Ids = {a, b, c}
  Urls = {u1, u2}
  Documents <- Kinds
  NoId = NoId
  Malformed = Malformed
  NoSchedule = NoSchedule
  NoTag = NoTag
  NoAnswer = NoAnswer
  Faults <- OneEach
  MaxVersions = 2
INVARIANT UnmodifiedIsCurrent
INVARIANT InForceWasServed
INVARIANT CacheCurrent
PROPERTY Converges
CHECK_DEADLOCK FALSE
