SPECIFICATION StoreSpec

CONSTANTS
  r1 = r1
  r2 = r2
  Reservations = {r1}
  Horizon = 2
  Buffer = 0
  SessionLimit = 1
  SeatLimit = 2
  MaxSeats = 2
  MaxDuration = 1
  Adapters = {"files", "postgres"}
  MaxPending = 2
  MaxFaults = 2

INVARIANTS
  ConfirmedIsStored
  NoOrphanSession
PROPERTIES
  QueueMoves

CHECK_DEADLOCK FALSE
