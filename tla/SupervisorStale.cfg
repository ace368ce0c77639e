SPECIFICATION Spec
CONSTANTS
  plain = plain
  silent = silent
  variant = variant
  foreign = foreign
  Sources = {plain, foreign}
  Trait <- Kinds
  Items <- Unspecified
  RecordVideo = TRUE
  Faults <- Changed
INVARIANT DecisionsFit
CHECK_DEADLOCK FALSE
