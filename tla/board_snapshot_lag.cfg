SPECIFICATION Spec
CONSTANTS
  a = a
  b = b
  c1 = c1
  c2 = c2
  c3 = c3
  c4 = c4
  Items = {a, b}
  ClientIds = {c1, c2, c3, c4}
  NoClientId = NoClientId
  MaxItems = 1
  MaxChildren = 2
  Muts <- Crowding
  Torn = Torn
  Blank = Blank
  MaxInstances = 2
  AppendFaults = {}
  CrashEnds = {"newline", "open", "torn"}
  Limit <- Snapshotting
INVARIANTS
  SnapshotNotAhead
  
  LoadedBoardIsAtTheHead
CHECK_DEADLOCK FALSE
