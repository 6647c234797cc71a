SPECIFICATION FairSpec

CONSTANTS
  a1 = a1
  a2 = a2
  s1 = s1
  s2 = s2
  s3 = s3
  s4 = s4
  Accounts = {a1, a2}
  Sockets = {s1, s2, s3, s4}
  NoSocket = NoSocket
  SeatCount = 1
  Owner <- TwoEach
  Moderatable <- Someone
  Yields = TRUE
  Lockable = TRUE

INVARIANTS
  NeverOversold
  OneWriterEach
  MemberCanWrite
PROPERTIES
  KeepsThePromise
  SeatsComeBack

CHECK_DEADLOCK FALSE
