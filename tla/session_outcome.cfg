SPECIFICATION Spec
CONSTANTS
  p1 = p1
  r1 = r1
  r2 = r2
  Passes = {p1}
  Runners = {r1, r2}
  Jobs = {1}
  Horizon = 3
  EndsAt = 0
  CloseDrain = 0
  ArchiveRetry = 1
  MaxWrites = 1
  MayBeEmptied = FALSE
  MaxFaults = 1
  Retention = 2
  DeleteWindow = 1
  PurgeRetry = 1
  ExportRetry = 0
  MaxAttempts = 2
  MaxClaims = 1
  MaxGenerations = 1
  Quiet = FALSE
CHECK_DEADLOCK FALSE
SYMMETRY Interchangeable
INVARIANTS
  RecoverableIsWhole
  OfferedExists
  PurgedArchiveIsGone
