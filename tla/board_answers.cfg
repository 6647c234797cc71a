SPECIFICATION FairSpec
CONSTANTS
  a = a
  b = b
  c1 = c1
  c2 = c2
  c3 = c3
  c4 = c4
  Items = {a, b}
  ClientIds = {c1, c2, c3, c4}
  NoClientId = NoClientId
  MaxItems = 1
  MaxChildren = 2
  Muts <- Stroke
  Torn = Torn
  Blank = Blank
  MaxInstances = 3
  AppendFaults = {"write", "fsync", "short"}
  CrashEnds = {"newline", "open", "torn"}
  Limit <- Overlapping
PROPERTIES
  SentIsAnswered
CHECK_DEADLOCK FALSE
