SPECIFICATION Spec
CONSTANTS
  ann = ann
  bob = bob
  s1 = s1
  s2 = s2
  c1 = c1
  c2 = c2
  g1 = g1
  NoOne = NoOne
  Accounts = {ann, bob}
  Grants = {g1}
  Sockets = {s1, s2}
  Calls = {c1, c2}
  OwnerOf <- Owners
  MaxFaults = 2
SYMMETRY Symmetric
INVARIANTS
  GrantsAreSpentOnce
  OutlawedStaysOut
  WritersBelong
CHECK_DEADLOCK FALSE
