SPECIFICATION MCSpec
CHECK_DEADLOCK FALSE
CONSTANTS
  Normalized <- MCNormalized
  Sources <- MCSources
  MaxNodes = 17
  MaxDepth = 3
  ComponentLimit = 2
  MaxEdits = 2
  EditedOnce = 14
  EditedTwice = 6
INVARIANTS
  NeverSelfRefuted
  BeliefIsCanonical
  UpdatesAreForced
  DifferenceShows
