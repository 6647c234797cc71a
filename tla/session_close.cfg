SPECIFICATION FairCloseSpec
CONSTANTS
  p1 = p1
  p2 = p2
  Passes = {p1, p2}
  Horizon = 6
  EndsAt = 1
  CloseDrain = 1
  ArchiveRetry = 1
  MaxWrites = 2
  MayBeEmptied = FALSE
  MaxFaults = 4
  Quiet = TRUE
CHECK_DEADLOCK FALSE
INVARIANTS
  ClosedIsWhole
  ManifestVouches
  RepeatsAreIdentical
PROPERTIES
  StoredMovesForward
  
