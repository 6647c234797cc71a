---------------------------- MODULE SeatRegistry ----------------------------
(***************************************************************************)
(* The Participant Seats of one Hosted Event, as the process-local         *)
(* registry of server/hosted_event/admission/seats.mjs keeps them: one     *)
(* seat an account, the live connections that hold it in the order they    *)
(* came, the one that may write, and the grace its last one left behind.   *)
(*                                                                         *)
(* Of the clock only this is kept: a grace runs until some moment after    *)
(* which it is over.                                                       *)
(***************************************************************************)
EXTENDS Integers, Sequences, FiniteSets

LOCAL INSTANCE SequencesExt

CONSTANTS
  Accounts,     \* accounts that are members of the event
  Sockets,      \* connections, by socket id
  NoSocket,     \* nobody holds the writer slot
  SeatCount     \* session.seats: the capacity of the Board Session

Seat == [conns : Seq(Sockets), writer : Sockets \cup {NoSocket},
         grace : {"none", "running", "over"}]

\* What an account without an entry in the map amounts to.
Absent == [conns |-> << >>, writer |-> NoSocket, grace |-> "none"]

-----------------------------------------------------------------------------

Connected(seat, s) == \E i \in DOMAIN seat.conns : seat.conns[i] = s
Place(seat, s)     == CHOOSE i \in DOMAIN seat.conns : seat.conns[i] = s

\* holdsSeat: a live connection, or a grace that still runs.
Holds(seat) == seat.conns # << >> \/ seat.grace = "running"

Occupied(seats) == {a \in Accounts : Holds(seats[a])}
Full(seats)     == Cardinality(Occupied(seats)) >= SeatCount

\* releaseExpiredSeats
Released(seats) ==
  [a \in Accounts |-> IF seats[a].conns = << >> /\ seats[a].grace = "over"
                      THEN Absent ELSE seats[a]]

\* preview, of a registry whose expired seats have been released.
PreviewAdmits(seats, a)   == seats[a] # Absent \/ ~Full(seats)
PreviewWritable(seats, a) == seats[a].conns = << >> \/ seats[a].writer = NoSocket

\* Mutant of ConnectAdmits: the preview's word is taken.
TrustsPreview(seats, a) == TRUE

\* connect re-checks the capacity for an account that holds no seat ...
ConnectAdmits(seats, a) == Holds(seats[a]) \/ ~Full(seats)

\* ... and gives the writer slot to a connection that finds it empty.
Joined(seat, s) ==
  [conns  |-> IF Connected(seat, s) THEN seat.conns ELSE Append(seat.conns, s),
   writer |-> IF seat.writer = NoSocket THEN s ELSE seat.writer,
   grace  |-> "none"]

\* Mutants of Left: no companion is promoted, its place is stored instead of it,
\* or the last one to leave gives the seat up at once.
PromotesNobody(seat, s) ==
  LET rest == RemoveAt(seat.conns, Place(seat, s)) IN
  [conns  |-> rest,
   writer |-> IF seat.writer # s THEN seat.writer ELSE NoSocket,
   grace  |-> IF rest = << >> THEN "running" ELSE seat.grace]

LeavesNoGrace(seat, s) ==
  LET rest == RemoveAt(seat.conns, Place(seat, s)) IN
  [conns  |-> rest,
   writer |-> IF seat.writer # s THEN seat.writer
              ELSE IF rest = << >> THEN NoSocket ELSE rest[1],
   grace  |-> "none"]

\* disconnectBySocketId: the writer's slot goes to the oldest connection left,
\* and the last one to leave starts the grace.
Left(seat, s) ==
  LET rest == RemoveAt(seat.conns, Place(seat, s)) IN
  [conns  |-> rest,
   writer |-> IF seat.writer # s THEN seat.writer
              ELSE IF rest = << >> THEN NoSocket ELSE rest[1],
   grace  |-> IF rest = << >> THEN "running" ELSE seat.grace]
=============================================================================
