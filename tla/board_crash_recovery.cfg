SPECIFICATION Spec
CONSTANTS
  a = a
  b = b
  c1 = c1
  c2 = c2
  c3 = c3
  c4 = c4
  Items = {a, b}
  ClientIds = {c1, c2, c3, c4}
  NoClientId = NoClientId
  MaxItems = 1
  MaxChildren = 2
  Muts <- Drawing
  Torn = Torn
  Blank = Blank
  MaxInstances = 3
  AppendFaults = {}
  CrashEnds = {"newline", "open", "torn"}
  Limit <- Crashing
INVARIANTS
  AcceptedIsRecorded
  
  LoadNeverBreaks
  
PROPERTIES
  EntriesAreNeverCut
  SealedIsFinal
CHECK_DEADLOCK FALSE
