SPECIFICATION Spec
CONSTANTS
  e1 = e1
  s1 = s1
  s2 = s2
  p1 = p1
  p2 = p2
  Events = {e1}
  Subs = {s1, s2}
  Passes = {p1, p2}
  Horizon = 2
  Retry = 1
  MaxBackoff = 1
  GiveUp = 1
  Keep = 1
  MaxFailures = 2
  MaxFaults = 1
CHECK_DEADLOCK FALSE
SYMMETRY Interchangeable
INVARIANTS
  NothingIsLost
PROPERTIES
  StableOnceStored
