SPECIFICATION Spec

CONSTANTS
  r1 = r1
  r2 = r2
  r3 = r3
  Reservations = {r1, r2, r3}
  Horizon = 3
  Buffer = 1
  SessionLimit = 2
  SeatLimit = 3
  MaxSeats = 2
  MaxDuration = 1

SYMMETRY Interchangeable

INVARIANTS
  NeverOversold
  OneStory

CHECK_DEADLOCK FALSE
