SPECIFICATION FairSpec
CONSTANTS
  plain = plain
  silent = silent
  variant = variant
  foreign = foreign
  Sources = {plain, silent, variant, foreign}
  Trait <- Kinds
  Items <- Specified
  RecordVideo = TRUE
  Faults <- Troubled
PROPERTY VideoBlamedRightly
PROPERTY CopyGivenUpRightly
PROPERTY AudioFlows
CHECK_DEADLOCK FALSE
