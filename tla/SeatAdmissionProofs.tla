------------------------ MODULE SeatAdmissionProofs -------------------------
(***************************************************************************)
(* For every number of seats, accounts and connections, with every         *)
(* interleaving of handshakes, disconnects, graces, locks and refreshes:   *)
(* the seat registry implements the promise of SeatPromise, and so is      *)
(* never oversold, and each account has one writer.                        *)
(*                                                                         *)
(* Everything is proved from one inductive invariant, Registry: the seats  *)
(* are well formed, and the writer of each is one of its connections.      *)
(***************************************************************************)
EXTENDS SeatAdmission, SequenceTheorems, FiniteSetTheorems, TLAPS

LOCAL INSTANCE SequencesExt

\* The writer slot of one seat names one of its connections, if it has any.
Sound(seat) == IF seat.conns = << >> THEN seat.writer = NoSocket
               ELSE Connected(seat, seat.writer)

SeatsSound == seats \in [Accounts -> Seat] /\ \A a \in Accounts : Sound(seats[a])
Registry   == TypeOK /\ SeatsSound

\* What the promise sees of the registry, and a step of it.
Standings == [a \in Accounts |-> Standing(a)]
Kept      == Promise!Next \/ Standings' = Standings

-----------------------------------------------------------------------------
(* The operations of the registry, on one seat.                             *)

\* A seat nobody has is well formed.
LEMMA AbsentSeat == Absent \in Seat /\ Sound(Absent) /\ ~Holds(Absent)
BY DEF Absent, Seat, Sound, Holds

\* The place of a connection of a seat.
LEMMA PlaceOf ==
  ASSUME NEW seat \in Seat, NEW s, Connected(seat, s)
  PROVE  Place(seat, s) \in 1..Len(seat.conns) /\ seat.conns[Place(seat, s)] = s
BY DEF Seat, Connected, Place

\* What is left of a sequence without one of its places.
LEMMA RemovedAt ==
  ASSUME NEW S, NEW c \in Seq(S), NEW p \in 1..Len(c)
  PROVE  /\ RemoveAt(c, p) \in Seq(S)
         /\ Len(RemoveAt(c, p)) = Len(c) - 1
         /\ \A i \in 1..Len(RemoveAt(c, p)) :
              RemoveAt(c, p)[i] = IF i < p THEN c[i] ELSE c[i + 1]
<1> DEFINE u == SubSeq(c, 1, p - 1)
           v == SubSeq(c, p + 1, Len(c))
<1>1. Len(c) \in Nat /\ p \in Int /\ p >= 1 /\ p <= Len(c)
  OBVIOUS
<1>2. /\ u \in Seq(S)
      /\ Len(u) = p - 1
      /\ \A i \in 1..(p - 1) : u[i] = c[i]
  <2>1. \A i \in 1..(p - 1) : c[i] \in S
    OBVIOUS
  <2> QED BY <1>1, <2>1, SubSeqProperties
<1>3. /\ v \in Seq(S)
      /\ Len(v) = Len(c) - p
      /\ \A i \in 1..(Len(c) - p) : v[i] = c[p + i]
  <2>1. \A i \in (p + 1)..Len(c) : c[i] \in S
    OBVIOUS
  <2>2. /\ v \in Seq(S)
        /\ Len(v) = IF p + 1 <= Len(c) THEN Len(c) - (p + 1) + 1 ELSE 0
        /\ \A i \in 1..(Len(c) - (p + 1) + 1) : v[i] = c[(p + 1) + i - 1]
    BY <1>1, <2>1, SubSeqProperties
  <2> QED BY <1>1, <2>2
<1>4. RemoveAt(c, p) = u \o v
  BY DEF RemoveAt
<1> HIDE DEF u, v
<1>5. /\ u \o v \in Seq(S)
      /\ Len(u \o v) = Len(u) + Len(v)
      /\ \A i \in 1..(Len(u) + Len(v)) : (u \o v)[i] = IF i <= Len(u) THEN u[i] ELSE v[i - Len(u)]
  BY <1>2, <1>3, ConcatProperties
<1>6. ASSUME NEW i \in 1..(Len(c) - 1)
      PROVE  (u \o v)[i] = IF i < p THEN c[i] ELSE c[i + 1]
  <2>1. CASE i < p
    BY <1>1, <1>2, <1>3, <1>5, <2>1
  <2>2. CASE i >= p
    <3> DEFINE k == i - (p - 1)
    <3>1. k \in 1..(Len(c) - p) /\ p + k = i + 1
      BY <1>1, <2>2
    <3>2. (u \o v)[i] = v[k]
      BY <1>1, <1>2, <1>3, <1>5, <2>2
    <3>3. v[k] = c[i + 1]
      BY <1>3, <3>1
    <3>4. ~(i < p)
      BY <1>1, <2>2
    <3> QED BY <3>2, <3>3, <3>4
  <2>3. i < p \/ i >= p
    BY <1>1
  <2> QED BY <2>1, <2>2, <2>3
<1> QED BY <1>1, <1>2, <1>3, <1>4, <1>5, <1>6

\* connect leaves a seat with a connection, one of which is the writer.
LEMMA JoinedSeat ==
  ASSUME NEW seat \in Seat, Sound(seat), NEW s \in Sockets
  PROVE  /\ Joined(seat, s) \in Seat
         /\ Sound(Joined(seat, s))
         /\ Joined(seat, s).conns # << >>
<1> DEFINE j == Joined(seat, s)
<1>1. j.conns \in Seq(Sockets) /\ j.conns # << >> /\ Connected(j, s)
  <2>1. CASE Connected(seat, s)
    BY <2>1 DEF Joined, Connected, Seat
  <2>2. CASE ~Connected(seat, s)
    <3>1. seat.conns \in Seq(Sockets) /\ j.conns = Append(seat.conns, s)
      BY <2>2 DEF Joined, Seat
    <3>2. j.conns \in Seq(Sockets) /\ Len(j.conns) = Len(seat.conns) + 1
          /\ j.conns[Len(seat.conns) + 1] = s
      BY <3>1, AppendProperties
    <3>3. Len(seat.conns) + 1 \in DOMAIN j.conns
      BY <3>1, <3>2
    <3> QED BY <3>2, <3>3 DEF Connected
  <2> QED BY <2>1, <2>2
<1>2. j \in Seat
  BY <1>1 DEF Joined, Seat
<1>3. Sound(j)
  <2>1. CASE seat.writer = NoSocket
    BY <1>1, <2>1 DEF Joined, Sound
  <2>2. CASE seat.writer # NoSocket
    <3>1. Connected(seat, seat.writer)
      BY <2>2 DEF Sound
    <3>2. j.writer = seat.writer
      BY <2>2 DEF Joined
    <3>3. Connected(j, seat.writer)
      BY <3>1 DEF Joined, Connected, Seat
    <3> QED BY <1>1, <3>2, <3>3 DEF Sound
  <2> QED BY <2>1, <2>2
<1> QED BY <1>1, <1>2, <1>3

\* disconnectBySocketId leaves a seat whose writer is one of the connections
\* left, or that is in its grace.
LEMMA LeftSeat ==
  ASSUME NEW seat \in Seat, Sound(seat), NEW s \in Sockets, Connected(seat, s)
  PROVE  /\ Left(seat, s) \in Seat
         /\ Sound(Left(seat, s))
         /\ Left(seat, s).conns = << >> => Left(seat, s).grace = "running"
<1> DEFINE p == Place(seat, s)
           rest == RemoveAt(seat.conns, p)
           l == Left(seat, s)
<1>1. p \in 1..Len(seat.conns) /\ seat.conns[p] = s
  BY PlaceOf
<1>2. seat.conns \in Seq(Sockets) /\ seat.writer \in Sockets \cup {NoSocket}
  BY DEF Seat
<1>3. /\ rest \in Seq(Sockets)
      /\ Len(rest) = Len(seat.conns) - 1
      /\ \A i \in 1..Len(rest) : rest[i] = IF i < p THEN seat.conns[i] ELSE seat.conns[i + 1]
  BY <1>1, <1>2, RemovedAt
<1> HIDE DEF rest, p
<1>4. /\ l.conns = rest
      /\ l.writer = IF seat.writer # s THEN seat.writer
                    ELSE IF rest = << >> THEN NoSocket ELSE rest[1]
      /\ l.grace = IF rest = << >> THEN "running" ELSE seat.grace
  BY DEF Left, rest, p
<1>5. l \in Seat
  <2>1. rest # << >> => rest[1] \in Sockets
    BY <1>3
  <2>2. l.writer \in Sockets \cup {NoSocket}
    BY <1>2, <1>4, <2>1
  <2> QED BY <1>3, <1>4, <2>2 DEF Left, Seat, rest, p
<1>6. CASE seat.writer = s
  <2>1. rest # << >> => 1 \in DOMAIN rest
    BY <1>3
  <2> QED BY <1>4, <1>5, <1>6, <2>1 DEF Sound, Connected
<1>7. CASE seat.writer # s
  <2>1. PICK i \in 1..Len(seat.conns) : seat.conns[i] = seat.writer
    BY <1>1, <1>2 DEF Sound, Connected
  <2>2. i # p
    BY <1>1, <1>7, <2>1
  <2>3. \E k \in 1..Len(rest) : rest[k] = seat.writer
    <3>1. CASE i < p
      BY <1>1, <1>2, <1>3, <2>1, <3>1
    <3>2. CASE i > p
      <4>1. i - 1 \in 1..Len(rest) /\ ~(i - 1 < p) /\ (i - 1) + 1 = i
        BY <1>1, <1>2, <1>3, <2>1, <3>2
      <4> QED BY <1>3, <2>1, <4>1
    <3> QED BY <1>1, <1>2, <2>1, <2>2, <3>1, <3>2
  <2>4. rest # << >> /\ DOMAIN rest = 1..Len(rest)
    BY <1>3, <2>3
  <2> QED BY <1>4, <1>5, <1>7, <2>3, <2>4 DEF Sound, Connected
<1> QED BY <1>4, <1>5, <1>6, <1>7

-----------------------------------------------------------------------------
(* The ways in which a step may change the seats.                           *)

\* Releasing the seats whose grace is over changes what nobody holds.
LEMMA ReleasedSeats ==
  ASSUME SeatsSound
  PROVE  /\ Released(seats) \in [Accounts -> Seat]
         /\ \A a \in Accounts : /\ Sound(Released(seats)[a])
                                /\ Holds(Released(seats)[a]) <=> Holds(seats[a])
                                /\ Released(seats)[a].conns = seats[a].conns
                                /\ Holds(Released(seats)[a]) \/ Released(seats)[a].grace # "over"
         /\ Occupied(Released(seats)) = Occupied(seats)
<1>1. ASSUME NEW a \in Accounts
      PROVE  /\ Released(seats)[a] \in Seat
             /\ Sound(Released(seats)[a])
             /\ Holds(Released(seats)[a]) <=> Holds(seats[a])
             /\ Released(seats)[a].conns = seats[a].conns
             /\ Holds(Released(seats)[a]) \/ Released(seats)[a].grace # "over"
  <2>1. seats[a] \in Seat /\ Sound(seats[a])
    BY DEF SeatsSound
  <2>2. CASE seats[a].conns = << >> /\ seats[a].grace = "over"
    BY <2>1, <2>2, AbsentSeat DEF Released, Holds, Absent
  <2>3. CASE ~(seats[a].conns = << >> /\ seats[a].grace = "over")
    BY <2>1, <2>3 DEF Released, Holds
  <2> QED BY <2>2, <2>3
<1>2. Released(seats) \in [Accounts -> Seat]
  BY <1>1 DEF Released
<1> QED BY <1>1, <1>2 DEF Occupied

\* Standings as a function, before and after a step.
LEMMA StandingsAre ==
  /\ Standings = [a \in Accounts |-> IF seats[a].conns # << >> THEN "live"
                     ELSE IF seats[a].grace = "running" THEN "grace" ELSE "free"]
  /\ Standings' = [a \in Accounts |-> IF seats'[a].conns # << >> THEN "live"
                     ELSE IF seats'[a].grace = "running" THEN "grace" ELSE "free"]
BY DEF Standings, Standing

\* The promise counts as everyone does.
LEMMA SameCount == \A S : Promise!Cardinality(S) = Cardinality(S)
BY DEF Promise!Cardinality, Cardinality

\* The promise counts the accounts that hold a seat.
LEMMA SeatedAre == Promise!Seated = Occupied(seats)
BY DEF Promise!Seated, Occupied, Holds, Standing

\* A step that changes no seat, or only releases those that are over.
LEMMA SameSeats ==
  ASSUME SeatsSound, seats' \in {seats, Released(seats)}
  PROVE  SeatsSound' /\ Standings' = Standings
<1>1. ASSUME NEW a \in Accounts
      PROVE  /\ Sound(seats'[a])
             /\ seats'[a].conns = seats[a].conns
             /\ Holds(seats'[a]) <=> Holds(seats[a])
  BY ReleasedSeats DEF SeatsSound
<1>2. seats' \in [Accounts -> Seat]
  BY ReleasedSeats DEF SeatsSound
<1>3. \A a \in Accounts : seats[a].conns = << >> =>
        (seats'[a].grace = "running" <=> seats[a].grace = "running")
  BY <1>1 DEF Holds
<1> QED BY <1>1, <1>2, <1>3, StandingsAre DEF SeatsSound

\* A step in which a connection joins a seat it may have.
LEMMA JoinStep ==
  ASSUME SeatsSound, NEW now \in {seats, Released(seats)},
         NEW a \in Accounts, NEW s \in Sockets, ConnectAdmits(now, a),
         seats' = [now EXCEPT ![a] = Joined(now[a], s)]
  PROVE  SeatsSound' /\ Kept
<1>1. /\ now \in [Accounts -> Seat]
      /\ \A x \in Accounts : /\ Sound(now[x])
                             /\ now[x].conns = seats[x].conns
                             /\ Holds(now[x]) <=> Holds(seats[x])
      /\ Occupied(now) = Occupied(seats)
  BY ReleasedSeats DEF SeatsSound
<1>2. /\ Joined(now[a], s) \in Seat
      /\ Sound(Joined(now[a], s))
      /\ Joined(now[a], s).conns # << >>
  BY <1>1, JoinedSeat
<1>3. seats'[a] = Joined(now[a], s) /\ \A x \in Accounts : x # a => seats'[x] = now[x]
  BY <1>1
<1>4. seats' \in [Accounts -> Seat]
  BY <1>1, <1>2
<1>5. SeatsSound'
  BY <1>1, <1>2, <1>3, <1>4 DEF SeatsSound
<1>6. Standings' = [Standings EXCEPT ![a] = "live"]
  <2>1. \A x \in Accounts : seats[x].conns = << >> =>
          (now[x].grace = "running" <=> seats[x].grace = "running")
    BY <1>1 DEF Holds
  <2> QED BY <1>1, <1>2, <1>3, <2>1, StandingsAre
<1>7. CASE Standings[a] = "live"
  <2>1. Standings' = Standings
    BY <1>6, <1>7 DEF Standings
  <2> QED BY <1>5, <2>1 DEF Kept
<1>8. CASE Standings[a] = "grace"
  BY <1>5, <1>6, <1>8 DEF Kept, Promise!Next, Promise!Return, Standings
<1>9. CASE Standings[a] = "free"
  <2>1. ~Holds(now[a])
    BY <1>1, <1>9, StandingsAre DEF Holds
  <2>2. Cardinality(Occupied(seats)) \in Nat
    BY FS_Subset, FS_CardinalityType, SeatAssumption DEF Occupied
  <2>3. Promise!Cardinality(Promise!Seated) < SeatCount
    BY <1>1, <2>1, <2>2, SameCount, SeatedAre, SeatAssumption DEF ConnectAdmits, Full
  <2>4. Promise!Take(a)
    <3>1. Standings[a] = "free" /\ Standings' = [Standings EXCEPT ![a] = "live"]
      BY <1>6, <1>9
    <3> QED BY <2>3, <3>1 DEF Promise!Take, Standings
  <2> QED BY <1>5, <2>4 DEF Kept, Promise!Next
<1>10. Standings[a] \in {"live", "grace", "free"}
  BY StandingsAre
<1> QED BY <1>7, <1>8, <1>9, <1>10

\* A step in which a connection leaves its seat.
LEMMA LeaveStep ==
  ASSUME SeatsSound, NEW a \in Accounts, NEW s \in Sockets, Connected(seats[a], s),
         seats' = [seats EXCEPT ![a] = Left(seats[a], s)]
  PROVE  SeatsSound' /\ Kept
<1>1. seats \in [Accounts -> Seat] /\ \A x \in Accounts : Sound(seats[x])
  BY DEF SeatsSound
<1>2. /\ Left(seats[a], s) \in Seat
      /\ Sound(Left(seats[a], s))
      /\ Left(seats[a], s).conns = << >> => Left(seats[a], s).grace = "running"
  BY <1>1, LeftSeat
<1>3. seats'[a] = Left(seats[a], s) /\ \A x \in Accounts : x # a => seats'[x] = seats[x]
  BY <1>1
<1>4. SeatsSound'
  BY <1>1, <1>2, <1>3 DEF SeatsSound
<1>5. seats[a].conns # << >>
  BY <1>1 DEF Connected
<1>6. Standings[a] = "live"
  BY <1>5, StandingsAre
<1>7. CASE seats'[a].conns # << >>
  <2>1. Standings' = Standings
    BY <1>3, <1>5, <1>7, StandingsAre
  <2> QED BY <1>4, <2>1 DEF Kept
<1>8. CASE seats'[a].conns = << >>
  <2>1. Standings' = [Standings EXCEPT ![a] = "grace"]
    BY <1>2, <1>3, <1>8, StandingsAre
  <2>2. Promise!Leave(a)
    BY <1>6, <2>1 DEF Promise!Leave, Standings
  <2> QED BY <1>4, <2>2 DEF Kept, Promise!Next
<1> QED BY <1>7, <1>8

\* A step in which a grace is over.
LEMMA ExpireStep ==
  ASSUME SeatsSound, NEW a \in Accounts, Expire(a)
  PROVE  SeatsSound' /\ Kept
<1>1. /\ seats \in [Accounts -> Seat] /\ \A x \in Accounts : Sound(seats[x])
      /\ seats[a].conns = << >> /\ seats[a].grace = "running"
      /\ seats' = [seats EXCEPT ![a].grace = "over"]
  BY DEF SeatsSound, Expire
<1>2. /\ seats'[a] = [seats[a] EXCEPT !.grace = "over"]
      /\ \A x \in Accounts : x # a => seats'[x] = seats[x]
  BY <1>1
<1>3. /\ seats'[a] \in Seat
      /\ seats'[a].conns = << >> /\ seats'[a].grace = "over"
      /\ seats'[a].writer = seats[a].writer
  BY <1>1, <1>2 DEF Seat
<1>4. SeatsSound'
  BY <1>1, <1>2, <1>3 DEF SeatsSound, Sound
<1>5. Standings[a] = "grace" /\ Standings' = [Standings EXCEPT ![a] = "free"]
  BY <1>1, <1>2, <1>3, StandingsAre
<1>6. Promise!GiveUp(a)
  BY <1>5 DEF Promise!GiveUp, Standings
<1> QED BY <1>4, <1>6 DEF Kept, Promise!Next

-----------------------------------------------------------------------------
(* Every step of the system is one of those.                                *)

\* A connection that goes leaves its seat, if it has one.
LEMMA GoneStep ==
  ASSUME SeatsSound, NEW s \in Sockets, Gone(s)
  PROVE  SeatsSound' /\ Kept
<1>1. Owner[s] \in Accounts
  BY SeatAssumption
<1>2. CASE Connected(seats[Owner[s]], s)
  <2>1. seats' = [seats EXCEPT ![Owner[s]] = Left(seats[Owner[s]], s)]
    BY <1>2 DEF Gone
  <2> QED BY <1>1, <1>2, <2>1, LeaveStep
<1>3. CASE ~Connected(seats[Owner[s]], s)
  <2>1. seats' = seats
    BY <1>3 DEF Gone
  <2> QED BY <2>1, SameSeats DEF Kept
<1> QED BY <1>2, <1>3

\* A preview that admits a member finds a seat that connect gives it.
LEMMA PreviewedSeat ==
  ASSUME SeatsSound, NEW a \in Accounts, PreviewAdmits(Released(seats), a)
  PROVE  ConnectAdmits(Released(seats), a)
<1> DEFINE seat == Released(seats)[a]
<1>1. seat \in Seat /\ Sound(seat) /\ (Holds(seat) \/ seat.grace # "over")
  BY ReleasedSeats
<1>2. ~Holds(seat) => seat = Absent
  BY <1>1 DEF Seat, Sound, Holds, Absent
<1> QED BY <1>2 DEF PreviewAdmits, ConnectAdmits

\* So does one connection that is decided about again.
LEMMA RefreshStep ==
  ASSUME SeatsSound, NEW s \in Sockets, RefreshOne(s)
  PROVE  SeatsSound' /\ Kept
<1> DEFINE a == Owner[s]
<1>1. a \in Accounts
  BY SeatAssumption
<1>2. CASE RefreshKeeps(s)
  BY <1>2, SameSeats DEF RefreshKeeps, Kept
<1>3. CASE RefreshRejoins(s)
  <2>1. ~Governs(a) /\ Admits(a)
    BY <1>3 DEF RefreshRejoins, Rejoins, RoleOf
  <2>2. ConnectAdmits(Released(seats), a)
    BY <1>1, <2>1, PreviewedSeat DEF Admits
  <2>3. seats' = [Released(seats) EXCEPT ![a] = Joined(Released(seats)[a], s)]
    BY <1>3 DEF RefreshRejoins
  <2> QED BY <1>1, <2>2, <2>3, JoinStep
<1>4. CASE RefreshDrops(s)
  <2>1. Gone(s) \/ seats' = seats
    BY <1>4 DEF RefreshDrops
  <2> QED BY <2>1, GoneStep, SameSeats DEF Kept
<1> QED BY <1>2, <1>3, <1>4 DEF RefreshOne

\* Every step keeps the seats sound and is a step of the promise, or none.
LEMMA SeatsStep ==
  ASSUME TypeOK, SeatsSound, [Next]_vars
  PROVE  SeatsSound' /\ Kept
<1>1. ASSUME NEW s \in Sockets, Admit(s)
      PROVE  SeatsSound' /\ Kept
  BY <1>1, SameSeats DEF Admit, Kept
<1>2. ASSUME NEW s \in Sockets, Abort(s) \/ ConnectGovernor(s) \/ ConnectRefused(s)
      PROVE  SeatsSound' /\ Kept
  BY <1>2, SameSeats DEF Abort, ConnectGovernor, ConnectRefused, Kept
<1>3. ASSUME NEW s \in Sockets, ConnectMember(s)
      PROVE  SeatsSound' /\ Kept
  <2>1. /\ Owner[s] \in Accounts /\ ConnectAdmits(seats, Owner[s])
        /\ seats' = [seats EXCEPT ![Owner[s]] = Joined(seats[Owner[s]], s)]
    BY <1>3, SeatAssumption DEF ConnectMember
  <2> QED BY <2>1, JoinStep
<1>4. ASSUME NEW s \in Sockets, Disconnect(s)
      PROVE  SeatsSound' /\ Kept
  BY <1>4, GoneStep DEF Disconnect
<1>5. ASSUME NEW a \in Accounts, Expire(a)
      PROVE  SeatsSound' /\ Kept
  BY <1>5, ExpireStep
<1>6. CASE SetLock \/ \E a \in Accounts : Grant(a) \/ Revoke(a)
  BY <1>6, SameSeats DEF SetLock, Grant, Revoke, Kept
<1>7. ASSUME NEW a \in Accounts, BeginRefresh(a)
      PROVE  SeatsSound' /\ Kept
  <2>1. seats' = seats \/ \E s \in active : RefreshOne(s)
    BY <1>7 DEF BeginRefresh
  <2> QED BY <2>1, RefreshStep, SameSeats DEF Kept, TypeOK
<1>8. ASSUME NEW s \in Sockets, Refresh(s)
      PROVE  SeatsSound' /\ Kept
  BY <1>8, RefreshStep DEF Refresh
<1>9. CASE UNCHANGED vars
  BY <1>9, SameSeats DEF vars, Kept
<1> QED BY <1>1, <1>2, <1>3, <1>4, <1>5, <1>6, <1>7, <1>8, <1>9
        DEF Next, Connections, Organizer

-----------------------------------------------------------------------------
(* The type of the rest.                                                    *)

\* What changes in the connections are their fields.
LEMMA ConnectionFields ==
  ASSUME TypeOK, NEW s \in Sockets
  PROVE  /\ Close(s) \in [Sockets -> Connection]
         /\ \A role \in Roles, pinned \in Roles, known \in BOOLEAN, phase \in Phases :
              [sock EXCEPT ![s] = [phase |-> phase, role |-> role, pinned |-> pinned,
                                   known |-> known]] \in [Sockets -> Connection]
         /\ \A t \in Sockets :
              [Close(s) EXCEPT ![t].pinned = "editor"] \in [Sockets -> Connection]
         /\ [sock EXCEPT ![s].phase = "connected", ![s].known = TRUE]
              \in [Sockets -> Connection]
         /\ sock[s].role \in Roles /\ sock[s].phase \in Phases
<1>1. sock \in [Sockets -> Connection]
  BY DEF TypeOK
<1>2. Close(s) \in [Sockets -> Connection]
  BY <1>1 DEF Close, Connection, Phases
<1>3. \A t \in Sockets : [Close(s) EXCEPT ![t].pinned = "editor"] \in [Sockets -> Connection]
  BY <1>2 DEF Connection, Roles
<1>4. [sock EXCEPT ![s].phase = "connected", ![s].known = TRUE] \in [Sockets -> Connection]
  BY <1>1 DEF Connection, Phases
<1> QED BY <1>1, <1>2, <1>3, <1>4 DEF Connection

\* The decision is about a role.
LEMMA RoleType == \A a : RoleOf(a) \in Roles
BY DEF RoleOf, Roles

\* A connection that goes leaves well-formed connections.
LEMMA GoneType ==
  ASSUME TypeOK, SeatsSound, NEW s \in Sockets, Gone(s)
  PROVE  sock' \in [Sockets -> Connection] /\ active' \subseteq Sockets
<1>1. active \subseteq Sockets /\ active' = active \ {s}
  BY DEF TypeOK, Gone
<1>2. CASE sock' = Close(s)
  BY <1>1, <1>2, ConnectionFields
<1>3. ASSUME NEW t \in active, sock' = [Close(s) EXCEPT ![t].pinned = "editor"]
      PROVE  sock' \in [Sockets -> Connection]
  BY <1>1, <1>3, ConnectionFields
<1>4. sock' = Close(s) \/ \E t \in active : sock' = [Close(s) EXCEPT ![t].pinned = "editor"]
  BY DEF Gone
<1> QED BY <1>1, <1>2, <1>3, <1>4

\* So does one that is decided about again.
LEMMA RefreshType ==
  ASSUME TypeOK, SeatsSound, NEW s \in Sockets, RefreshOne(s)
  PROVE  sock' \in [Sockets -> Connection] /\ active' \subseteq Sockets
<1>1. active \subseteq Sockets /\ sock \in [Sockets -> Connection]
  BY DEF TypeOK
<1>2. \A pinned \in Roles : Refreshed(s, pinned) \in [Sockets -> Connection]
  BY RoleType, ConnectionFields DEF Refreshed
<1>3. CASE RefreshKeeps(s)
  BY <1>1, <1>2, <1>3, RoleType DEF RefreshKeeps
<1>4. CASE RefreshRejoins(s)
  <2>1. \E pinned \in Roles : sock' = Refreshed(s, pinned)
    BY <1>4 DEF RefreshRejoins, Roles
  <2> QED BY <1>1, <1>2, <1>4, <2>1 DEF RefreshRejoins
<1>5. CASE RefreshDrops(s)
  <2>1. Gone(s) \/ (sock' = sock /\ active' = active)
    BY <1>5 DEF RefreshDrops
  <2> QED BY <1>1, <2>1, GoneType
<1> QED BY <1>3, <1>4, <1>5 DEF RefreshOne

\* Everything is well formed to begin with, and no one sits.
LEMMA RegistryInit == Init => Registry
<1> SUFFICES ASSUME Init PROVE Registry
  OBVIOUS
<1>1. SeatsSound
  BY AbsentSeat DEF Init, SeatsSound
<1>2. sock \in [Sockets -> Connection]
  BY DEF Init, Fresh, Connection, Phases, Roles
<1> QED BY <1>1, <1>2 DEF Init, Registry, TypeOK, SeatsSound

\* And stays so.
LEMMA RegistryStep ==
  ASSUME Registry, [Next]_vars
  PROVE  Registry' /\ Kept
<1>1. TypeOK /\ SeatsSound
  BY DEF Registry
<1>2. SeatsSound' /\ Kept
  BY <1>1, SeatsStep
<1>3. /\ sock \in [Sockets -> Connection]
      /\ active \subseteq Sockets /\ moderators \subseteq Accounts /\ locked \in BOOLEAN
      /\ revoked \subseteq Accounts /\ refreshing \subseteq Sockets
  BY <1>1 DEF TypeOK
<1> DEFINE Rest == /\ sock' \in [Sockets -> Connection]
                   /\ active' \subseteq Sockets /\ moderators' \subseteq Accounts
                   /\ locked' \in BOOLEAN
                   /\ revoked' \subseteq Accounts /\ refreshing' \subseteq Sockets
<1>4. ASSUME NEW s \in Sockets, Admit(s)
      PROVE  Rest
  <2>1. sock' \in [Sockets -> Connection]
    BY <1>1, <1>4, ConnectionFields, RoleType DEF Admit, Phases
  <2> QED BY <1>3, <1>4, <2>1 DEF Admit
<1>5. ASSUME NEW s \in Sockets, Abort(s)
      PROVE  Rest
  BY <1>1, <1>3, <1>5, ConnectionFields DEF Abort
<1>6. ASSUME NEW s \in Sockets, ConnectGovernor(s)
      PROVE  Rest
  <2>1. sock' \in [Sockets -> Connection]
    BY <1>1, <1>6, ConnectionFields DEF ConnectGovernor
  <2> QED BY <1>3, <1>6, <2>1 DEF ConnectGovernor
<1>7. ASSUME NEW s \in Sockets, ConnectMember(s)
      PROVE  Rest
  <2>1. sock' \in [Sockets -> Connection]
    <3> DEFINE pinned == IF seats[Owner[s]].writer = NoSocket THEN "editor" ELSE "reader"
    <3>1. pinned \in Roles
      BY DEF Roles
    <3>2. sock' = [sock EXCEPT ![s] = [phase |-> "connected", role |-> sock[s].role,
                                       pinned |-> pinned, known |-> TRUE]]
      BY <1>7 DEF ConnectMember
    <3>3. "connected" \in Phases /\ sock[s].role \in Roles
      BY <1>1, ConnectionFields DEF Phases
    <3> HIDE DEF pinned
    <3> QED BY <1>1, <3>1, <3>2, <3>3, ConnectionFields
  <2> QED BY <1>3, <1>7, <2>1 DEF ConnectMember
<1>8. ASSUME NEW s \in Sockets, ConnectRefused(s)
      PROVE  Rest
  <2>1. sock' \in [Sockets -> Connection]
    BY <1>1, <1>8, ConnectionFields DEF ConnectRefused
  <2> QED BY <1>3, <1>8, <2>1 DEF ConnectRefused
<1>9. ASSUME NEW s \in Sockets, Disconnect(s)
      PROVE  Rest
  BY <1>1, <1>3, <1>9, GoneType DEF Disconnect
<1>10. ASSUME NEW a \in Accounts, Expire(a)
       PROVE  Rest
  BY <1>3, <1>10 DEF Expire
<1>11. ASSUME Organizer
       PROVE  Rest
  <2>1. ASSUME SetLock
        PROVE  Rest
    <3>1. locked' \in BOOLEAN
      BY <2>1, Zenon DEF SetLock
    <3>2. sock' = sock /\ active' = active /\ moderators' = moderators
          /\ revoked' = revoked /\ refreshing' = refreshing
      BY <2>1 DEF SetLock
    <3> QED BY <1>3, <3>1, <3>2
  <2>2. ASSUME NEW a \in Accounts, Grant(a)
        PROVE  Rest
    BY <1>3, <2>2 DEF Grant
  <2>3. ASSUME NEW a \in Accounts, Revoke(a)
        PROVE  Rest
    BY <1>3, <2>3 DEF Revoke
  <2>4. ASSUME NEW a \in Accounts, BeginRefresh(a)
        PROVE  Rest
    <3>1. \/ sock' = sock /\ active' = active /\ refreshing' = refreshing
          \/ \E s \in active : /\ RefreshOne(s)
                              /\ refreshing' \subseteq refreshing \cup active
      BY <2>4 DEF BeginRefresh
    <3>2. moderators' = moderators /\ locked' = locked /\ revoked' \subseteq revoked
      BY <2>4 DEF BeginRefresh
    <3> QED BY <1>1, <1>3, <3>1, <3>2, RefreshType
  <2> HIDE DEF Rest
  <2> QED BY <1>11, <2>1, <2>2, <2>3, <2>4 DEF Organizer
<1>12. ASSUME NEW s \in Sockets, Refresh(s)
       PROVE  Rest
  BY <1>1, <1>3, <1>12, RefreshType DEF Refresh
<1>13. ASSUME UNCHANGED vars
       PROVE  Rest
  <2>1. /\ sock' = sock /\ active' = active /\ moderators' = moderators
        /\ locked' = locked /\ revoked' = revoked /\ refreshing' = refreshing
    BY <1>13 DEF vars
  <2> QED BY <1>3, <2>1
<1>14. Rest
  <2> HIDE DEF Rest
  <2> QED BY <1>4, <1>5, <1>6, <1>7, <1>8, <1>9, <1>10, <1>11, <1>12, <1>13
          DEF Next, Connections
<1> QED BY <1>2, <1>14 DEF Registry, TypeOK, SeatsSound

-----------------------------------------------------------------------------

\* The registry, the connections and the grants are always well formed.
THEOREM SeatTypes == Spec => []TypeOK
<1>1. Registry /\ [Next]_vars => Registry'
  BY RegistryStep
<1>2. Registry => TypeOK
  BY DEF Registry
<1> QED BY <1>1, <1>2, RegistryInit, PTL DEF Spec

\* An account with registered connections has exactly one writer, which is one
\* of them: no interleaving of disconnects, promotions and refreshes leaves the
\* slot empty or with a connection that has left.
THEOREM OneWriter == Spec => []OneWriterEach
<1>1. Registry /\ [Next]_vars => Registry'
  BY RegistryStep
<1>2. Registry => OneWriterEach
  BY DEF Registry, SeatsSound, Sound, OneWriterEach
<1> QED BY <1>1, <1>2, RegistryInit, PTL DEF Spec

\* The registry implements the promise: a seat is taken only while one is free,
\* survives its account's absence for the grace, and is given up in no other way.
THEOREM PromiseKept == Spec => KeepsThePromise
<1>1. Registry /\ [Next]_vars => Registry'
  BY RegistryStep
<1>2. Registry /\ [Next]_vars => [Promise!Next]_Standings
  BY RegistryStep DEF Kept
<1>3. Init => Promise!Init
  BY StandingsAre DEF Init, Promise!Init, Standings, Absent
<1> QED BY <1>1, <1>2, <1>3, RegistryInit, PTL
        DEF Spec, KeepsThePromise, Promise!Spec, Standings

-----------------------------------------------------------------------------
(***************************************************************************)
(* No event is oversold, and no account ever writes through two of its     *)
(* connections at once.                                                    *)
(***************************************************************************)

\* Why an account has one editor: a connection that sits is registered, and one
\* that may write though it was admitted as a reader is the registered writer.
\* (One that was admitted as an editor is checked against the slot anyway.)
SitsWell(seat, c, s) ==
  /\ c.phase \in {"admitted", "connected"} => c.role # "none"
  /\ c.phase = "connected" /\ c.role # "governor" =>
       /\ Connected(seat, s)
       /\ c.role = "reader" /\ c.pinned = "editor" => seat.writer = s

Places == \A s \in Sockets : SitsWell(seats[Owner[s]], sock[s], s)

\* The connections of a seat are its account's.
Owned == \A a \in Accounts : \A t : Connected(seats[a], t) => Owner[t] = a

Seating == Owned /\ Places

-----------------------------------------------------------------------------
(* The number of seats.                                                     *)

\* A step of the promise seats an account only while there is room.
LEMMA CountStep ==
  ASSUME NeverOversold, Kept
  PROVE  NeverOversold'
<1> DEFINE O == Occupied(seats)
           P == Occupied(seats)'
<1>1. /\ O = {a \in Accounts : Standings[a] # "free"}
      /\ P = {a \in Accounts : Standings'[a] # "free"}
  BY StandingsAre DEF Occupied, Holds
<1>2. IsFiniteSet(O) /\ IsFiniteSet(P) /\ Cardinality(O) \in Nat /\ Cardinality(P) \in Nat
  BY <1>1, FS_Subset, FS_CardinalityType, SeatAssumption
<1>3. Cardinality(O) <= SeatCount /\ SeatCount \in Nat
  BY SeatAssumption DEF NeverOversold
<1>4. Standings = [a \in Accounts |-> Standing(a)]
  BY DEF Standings
<1>5. CASE P \subseteq O
  <2>1. Cardinality(P) <= Cardinality(O)
    BY <1>2, <1>5, FS_Subset
  <2> QED BY <1>2, <1>3, <2>1 DEF NeverOversold
<1>6. ASSUME NEW a \in Accounts, Promise!Take(a)
      PROVE  NeverOversold'
  <2>1. Cardinality(O) < SeatCount
    BY <1>6, SeatedAre, SameCount DEF Promise!Take
  <2>2. Standings' = [Standings EXCEPT ![a] = "live"]
    BY <1>6 DEF Promise!Take, Standings
  <2>3. P \subseteq O \cup {a}
    BY <1>1, <1>4, <2>2
  <2>4. /\ IsFiniteSet(O \cup {a})
        /\ Cardinality(O \cup {a}) <= Cardinality(O) + 1
    <3> HIDE DEF O
    <3>1. /\ IsFiniteSet(O \cup {a})
          /\ Cardinality(O \cup {a}) = IF a \in O THEN Cardinality(O) ELSE Cardinality(O) + 1
      BY <1>2, FS_AddElement
    <3> QED BY <1>2, <3>1
  <2>5. Cardinality(P) <= Cardinality(O \cup {a}) /\ Cardinality(O \cup {a}) \in Nat
    BY <2>3, <2>4, FS_Subset, FS_CardinalityType
  <2> QED BY <1>2, <1>3, <2>1, <2>4, <2>5 DEF NeverOversold
<1>7. ASSUME NEW a \in Accounts, Promise!Return(a) \/ Promise!Leave(a) \/ Promise!GiveUp(a)
      PROVE  P \subseteq O
  <2>1. /\ Standings[a] # "free"
        /\ \E x : Standings' = [Standings EXCEPT ![a] = x]
    BY <1>7 DEF Promise!Return, Promise!Leave, Promise!GiveUp, Standings
  <2> QED BY <1>1, <1>4, <2>1
<1>8. CASE Standings' = Standings
  <2>1. P \subseteq O
    BY <1>1, <1>8
  <2> QED BY <1>5, <2>1
<1> QED BY <1>5, <1>6, <1>7, <1>8 DEF Kept, Promise!Next

\* Racing handshakes cannot oversubscribe the event.
THEOREM NotOversold == Spec => []NeverOversold
<1>1. Init => NeverOversold
  <2> SUFFICES ASSUME Init PROVE NeverOversold
    OBVIOUS
  <2>1. Occupied(seats) = {}
    BY AbsentSeat DEF Init, Occupied
  <2> QED BY <2>1, FS_EmptySet, SeatAssumption DEF NeverOversold
<1>2. Registry /\ NeverOversold /\ [Next]_vars => Registry' /\ NeverOversold'
  BY RegistryStep, CountStep
<1> QED BY <1>1, <1>2, RegistryInit, PTL DEF Spec

-----------------------------------------------------------------------------
(* What the operations of the registry do to the others on a seat.          *)

\* Somebody on a seat: it has connections and a writer.
LEMMA Company ==
  ASSUME NEW seat \in Seat, Sound(seat), NEW t, Connected(seat, t)
  PROVE  seat.conns # << >> /\ seat.writer # NoSocket
BY SeatAssumption DEF Seat, Sound, Connected

\* connect adds one and moves no one.
LEMMA JoinedOthers ==
  ASSUME NEW seat \in Seat, Sound(seat), NEW s \in Sockets
  PROVE  /\ Connected(Joined(seat, s), s)
         /\ \A t : Connected(seat, t) =>
              Connected(Joined(seat, s), t) /\ Joined(seat, s).writer = seat.writer
         /\ seat.writer = NoSocket => Joined(seat, s).writer = s
         /\ \A t : Connected(Joined(seat, s), t) => Connected(seat, t) \/ t = s
<1> DEFINE j == Joined(seat, s)
<1>1. seat.conns \in Seq(Sockets)
  BY DEF Seat
<1>2. /\ Append(seat.conns, s) \in Seq(Sockets)
      /\ Len(Append(seat.conns, s)) = Len(seat.conns) + 1
      /\ \A i \in 1..Len(seat.conns) : Append(seat.conns, s)[i] = seat.conns[i]
      /\ Append(seat.conns, s)[Len(seat.conns) + 1] = s
  BY <1>1, AppendProperties
<1>3. ASSUME NEW t, Connected(seat, t) \/ t = s
      PROVE  Connected(j, t)
  <2>1. CASE Connected(seat, s)
    BY <1>3, <2>1 DEF Joined, Connected
  <2>2. CASE ~Connected(seat, s)
    <3>1. j.conns = Append(seat.conns, s)
      BY <2>2 DEF Joined
    <3>2. \E i \in 1..(Len(seat.conns) + 1) : j.conns[i] = t
      <4>1. CASE t = s
        BY <1>1, <1>2, <3>1, <4>1
      <4>2. CASE Connected(seat, t)
        <5>1. PICK i \in 1..Len(seat.conns) : seat.conns[i] = t
          BY <1>1, <4>2 DEF Connected
        <5> QED BY <1>1, <1>2, <3>1, <5>1
      <4> QED BY <1>3, <4>1, <4>2
    <3> QED BY <1>2, <3>1, <3>2 DEF Connected
  <2> QED BY <2>1, <2>2
<1>4. \A t : Connected(seat, t) => j.writer = seat.writer
  BY Company DEF Joined
<1>5. seat.writer = NoSocket => j.writer = s
  BY DEF Joined
<1>6. ASSUME NEW t, Connected(j, t), t # s
      PROVE  Connected(seat, t)
  <2>1. CASE Connected(seat, s)
    BY <1>6, <2>1 DEF Joined, Connected
  <2>2. CASE ~Connected(seat, s)
    <3>1. j.conns = Append(seat.conns, s)
      BY <2>2 DEF Joined
    <3>2. PICK i \in 1..(Len(seat.conns) + 1) : j.conns[i] = t
      BY <1>2, <1>6, <3>1 DEF Connected
    <3>3. i \in 1..Len(seat.conns) /\ seat.conns[i] = t
      BY <1>1, <1>2, <1>6, <3>1, <3>2
    <3> QED BY <1>1, <3>3 DEF Connected
  <2> QED BY <2>1, <2>2
<1> QED BY <1>3, <1>4, <1>5, <1>6

\* disconnectBySocketId removes one connection, and moves the writer only if it
\* was the one.
LEMMA LeftOthers ==
  ASSUME NEW seat \in Seat, Sound(seat), NEW s \in Sockets, Connected(seat, s)
  PROVE  /\ \A t : t # s /\ Connected(seat, t) => Connected(Left(seat, s), t)
         /\ seat.writer # s => Left(seat, s).writer = seat.writer
         /\ \A t : Connected(Left(seat, s), t) => Connected(seat, t)
         /\ Left(seat, s).writer = NoSocket \/ Connected(seat, Left(seat, s).writer)
<1> DEFINE p == Place(seat, s)
           rest == RemoveAt(seat.conns, p)
<1>1. p \in 1..Len(seat.conns) /\ seat.conns[p] = s /\ seat.conns \in Seq(Sockets)
  BY PlaceOf DEF Seat
<1>2. /\ rest \in Seq(Sockets)
      /\ Len(rest) = Len(seat.conns) - 1
      /\ \A i \in 1..Len(rest) : rest[i] = IF i < p THEN seat.conns[i] ELSE seat.conns[i + 1]
  BY <1>1, RemovedAt
<1>3. Left(seat, s).conns = rest /\ (seat.writer # s => Left(seat, s).writer = seat.writer)
  BY DEF Left
<1> HIDE DEF p, rest
<1>4. ASSUME NEW t, t # s, Connected(seat, t)
      PROVE  \E k \in 1..Len(rest) : rest[k] = t
  <2>1. PICK i \in 1..Len(seat.conns) : seat.conns[i] = t
    BY <1>1, <1>4 DEF Connected
  <2>2. CASE i < p
    BY <1>1, <1>2, <2>1, <2>2
  <2>3. CASE i > p
    <3>1. i - 1 \in 1..Len(rest) /\ ~(i - 1 < p) /\ (i - 1) + 1 = i
      BY <1>1, <1>2, <2>1, <2>3
    <3> QED BY <1>2, <2>1, <3>1
  <2> QED BY <1>1, <1>4, <2>1, <2>2, <2>3
<1>5. \A t : t # s /\ Connected(seat, t) => Connected(Left(seat, s), t)
  <2>1. DOMAIN rest = 1..Len(rest)
    BY <1>2
  <2>2. ASSUME NEW t, t # s, Connected(seat, t)
        PROVE  \E k \in DOMAIN rest : rest[k] = t
    BY <1>4, <2>1, <2>2
  <2>3. \A t : Connected(Left(seat, s), t) <=> \E k \in DOMAIN rest : rest[k] = t
    BY <1>3 DEF Connected
  <2> QED BY <2>2, <2>3
<1>6. ASSUME NEW t, Connected(Left(seat, s), t)
      PROVE  Connected(seat, t)
  <2>1. PICK k \in 1..Len(rest) : rest[k] = t
    BY <1>2, <1>3, <1>6 DEF Connected
  <2>2. \E i \in 1..Len(seat.conns) : seat.conns[i] = t
    <3>1. k \in 1..Len(seat.conns) /\ k + 1 \in 1..Len(seat.conns)
      BY <1>1, <1>2
    <3> QED BY <1>2, <2>1, <3>1
  <2> QED BY <1>1, <2>2 DEF Connected
<1>7. Left(seat, s).writer = NoSocket \/ Connected(seat, Left(seat, s).writer)
  BY <1>6, LeftSeat DEF Sound
<1> QED BY <1>3, <1>5, <1>6, <1>7

-----------------------------------------------------------------------------
(* Every step keeps the connections seated well.                            *)

\* A connection whose seat keeps its connections and its writer sits as before.
LEMMA Bystander ==
  ASSUME NEW seat, NEW new, NEW c, NEW t, SitsWell(seat, c, t),
         Connected(seat, t) => Connected(new, t) /\ new.writer = seat.writer
  PROVE  SitsWell(new, c, t)
BY DEF SitsWell

\* Releasing seats that are over touches no seat with a connection.
LEMMA ReleasedOthers ==
  ASSUME SeatsSound, NEW now \in {seats, Released(seats)}, NEW a \in Accounts, NEW t,
         Connected(seats[a], t)
  PROVE  now[a] = seats[a]
<1>1. seats[a].conns # << >>
  BY Company DEF SeatsSound, Connected
<1> QED BY <1>1 DEF Released

\* A step that changes no connection, and at most releases seats.
LEMMA SamePlaces ==
  ASSUME SeatsSound, Places, seats' \in {seats, Released(seats)}, NEW t \in Sockets,
         sock'[t] = sock[t]
  PROVE  SitsWell(seats'[Owner[t]], sock'[t], t)
<1>1. Owner[t] \in Accounts /\ SitsWell(seats[Owner[t]], sock[t], t)
  BY SeatAssumption DEF Places
<1>2. Connected(seats[Owner[t]], t) => seats'[Owner[t]] = seats[Owner[t]]
  BY <1>1, ReleasedOthers
<1> QED BY <1>1, <1>2, Bystander

\* A connection joins a seat.
LEMMA JoinPlaces ==
  ASSUME SeatsSound, Places, sock \in [Sockets -> Connection],
         NEW now \in {seats, Released(seats)}, NEW s \in Sockets,
         seats' = [now EXCEPT ![Owner[s]] = Joined(now[Owner[s]], s)],
         NEW phase, NEW role, role # "none", NEW known,
         sock' = [sock EXCEPT ![s] = [phase |-> phase, role |-> role,
                    pinned |-> IF now[Owner[s]].writer = NoSocket THEN "editor" ELSE "reader",
                    known |-> known]]
  PROVE  Places'
<1> DEFINE a == Owner[s]
<1>1. /\ a \in Accounts
      /\ now \in [Accounts -> Seat]
      /\ \A x \in Accounts : Sound(now[x])
  BY ReleasedSeats, SeatAssumption DEF SeatsSound
<1>2. /\ seats'[a] = Joined(now[a], s)
      /\ \A x \in Accounts : x # a => seats'[x] = now[x]
  BY <1>1
<1>3. /\ Connected(Joined(now[a], s), s)
      /\ \A t : Connected(now[a], t) =>
           Connected(Joined(now[a], s), t) /\ Joined(now[a], s).writer = now[a].writer
      /\ now[a].writer = NoSocket => Joined(now[a], s).writer = s
  BY <1>1, JoinedOthers
<1>4. SitsWell(seats'[a], sock'[s], s)
  BY <1>2, <1>3 DEF SitsWell
<1>5. ASSUME NEW t \in Sockets, t # s
      PROVE  SitsWell(seats'[Owner[t]], sock'[t], t)
  <2>1. Owner[t] \in Accounts /\ SitsWell(seats[Owner[t]], sock[t], t) /\ sock'[t] = sock[t]
    BY <1>5, SeatAssumption DEF Places
  <2>2. Connected(seats[Owner[t]], t) => now[Owner[t]] = seats[Owner[t]]
    BY <2>1, ReleasedOthers
  <2>3. Connected(seats[Owner[t]], t) =>
          Connected(seats'[Owner[t]], t) /\ seats'[Owner[t]].writer = seats[Owner[t]].writer
    BY <1>2, <1>3, <2>1, <2>2
  <2> QED BY <2>1, <2>3, Bystander
<1> QED BY <1>4, <1>5 DEF Places

\* A connection goes, and the companion that is promoted is the writer.
LEMMA GonePlaces ==
  ASSUME TypeOK, SeatsSound, Owned, Places, NEW s \in Sockets, Gone(s)
  PROVE  Places'
<1> DEFINE a == Owner[s]
           new == Left(seats[a], s)
<1>1. /\ sock \in [Sockets -> Connection] /\ active \subseteq Sockets
      /\ a \in Accounts /\ seats \in [Accounts -> Seat]
      /\ \A x \in Accounts : seats[x] \in Seat /\ Sound(seats[x])
  BY SeatAssumption DEF TypeOK, SeatsSound
<1>2. Close(s) \in [Sockets -> Connection] /\ Close(s)[s].phase = "closed"
      /\ \A t \in Sockets : t # s => Close(s)[t] = sock[t]
  <2>1. Close(s) \in [Sockets -> Connection]
    BY ConnectionFields
  <2>2. Close(s)[s] = [sock[s] EXCEPT !.phase = "closed"]
        /\ \A t \in Sockets : t # s => Close(s)[t] = sock[t]
    BY <1>1 DEF Close
  <2> QED BY <1>1, <2>1, <2>2 DEF Connection
<1>3. CASE ~Connected(seats[a], s)
  <2>1. seats' = seats /\ sock' = Close(s)
    BY <1>3 DEF Gone
  <2>2. SitsWell(seats'[a], sock'[s], s)
    BY <1>2, <2>1 DEF SitsWell
  <2>3. \A t \in Sockets : t # s => SitsWell(seats'[Owner[t]], sock'[t], t)
    BY <1>2, <2>1, SamePlaces
  <2> QED BY <2>2, <2>3 DEF Places
<1>4. CASE Connected(seats[a], s)
  <2>1. seats' = [seats EXCEPT ![a] = new]
    BY <1>4 DEF Gone
  <2>2. seats'[a] = new /\ \A x \in Accounts : x # a => seats'[x] = seats[x]
    BY <1>1, <2>1
  <2>3. /\ \A t : t # s /\ Connected(seats[a], t) => Connected(new, t)
        /\ seats[a].writer # s => new.writer = seats[a].writer
    BY <1>1, <1>4, LeftOthers
  <2>4. ASSUME NEW t \in Sockets, t # s
        PROVE  SitsWell(seats'[Owner[t]], sock[t], t)
    <3>1. Owner[t] \in Accounts /\ SitsWell(seats[Owner[t]], sock[t], t)
      BY SeatAssumption DEF Places
    <3>2. CASE Owner[t] # a
      BY <2>2, <3>1, <3>2
    <3>3. CASE Owner[t] = a
      BY <2>2, <2>3, <2>4, <3>1, <3>3 DEF SitsWell
    <3> QED BY <3>2, <3>3
  <2>5. CASE sock' = Close(s)
    <3>1. SitsWell(seats'[a], sock'[s], s)
      BY <1>2, <2>5 DEF SitsWell
    <3>2. \A t \in Sockets : t # s => SitsWell(seats'[Owner[t]], sock'[t], t)
      BY <1>2, <2>4, <2>5
    <3> QED BY <3>1, <3>2 DEF Places
  <2>6. CASE sock' = [Close(s) EXCEPT ![new.writer].pinned = "editor"] /\ new.writer \in active
    <3> DEFINE w == new.writer
    <3>1. /\ w \in Sockets
          /\ \A t \in Sockets : t # w => sock'[t] = Close(s)[t]
          /\ sock'[w] = [Close(s)[w] EXCEPT !.pinned = "editor"]
      BY <1>1, <1>2, <2>6
    <3>2. /\ sock'[w].phase = Close(s)[w].phase
          /\ sock'[w].role = Close(s)[w].role
      BY <1>2, <3>1 DEF Connection
    <3>3. SitsWell(seats'[a], sock'[s], s)
      <4>1. sock'[s].phase = "closed"
        BY <1>2, <3>1, <3>2
      <4> QED BY <4>1 DEF SitsWell
    <3>4. ASSUME NEW t \in Sockets, t # s, t # w
          PROVE  SitsWell(seats'[Owner[t]], sock'[t], t)
      BY <1>2, <2>4, <3>1, <3>4
    <3>5. ASSUME w # s
          PROVE  SitsWell(seats'[Owner[w]], sock'[w], w)
      <4>1. SitsWell(seats'[Owner[w]], sock[w], w) /\ Close(s)[w] = sock[w]
        BY <1>2, <2>4, <3>1, <3>5
      <4>2. Owner[w] = a => seats'[Owner[w]].writer = w
        BY <2>2
      <4>3. Owner[w] = a
        BY <1>1, <1>4, <3>1, LeftOthers, SeatAssumption DEF Owned
      <4> QED BY <3>2, <4>1, <4>2, <4>3 DEF SitsWell
    <3> QED BY <3>3, <3>4, <3>5 DEF Places
  <2> QED BY <1>4, <2>5, <2>6 DEF Gone
<1> QED BY <1>3, <1>4

\* A seat is only joined by a connection of its account.
LEMMA OwnedStep ==
  ASSUME SeatsSound, Owned,
         \/ seats' \in {seats, Released(seats)}
         \/ \E now \in {seats, Released(seats)}, s \in Sockets :
              seats' = [now EXCEPT ![Owner[s]] = Joined(now[Owner[s]], s)]
         \/ \E s \in Sockets : /\ Connected(seats[Owner[s]], s)
                              /\ seats' = [seats EXCEPT ![Owner[s]] = Left(seats[Owner[s]], s)]
  PROVE  Owned'
<1>1. \A now \in {seats, Released(seats)} :
        /\ now \in [Accounts -> Seat]
        /\ \A a \in Accounts : /\ Sound(now[a])
                               /\ \A t : Connected(now[a], t) => Owner[t] = a
  BY ReleasedSeats DEF SeatsSound, Owned, Connected
<1>2. CASE seats' \in {seats, Released(seats)}
  BY <1>1, <1>2 DEF Owned
<1>3. ASSUME NEW now \in {seats, Released(seats)}, NEW s \in Sockets,
             seats' = [now EXCEPT ![Owner[s]] = Joined(now[Owner[s]], s)]
      PROVE  Owned'
  <2>1. Owner[s] \in Accounts
    BY SeatAssumption
  <2>2. \A t : Connected(Joined(now[Owner[s]], s), t) => Owner[t] = Owner[s]
    BY <1>1, <2>1, JoinedOthers
  <2> QED BY <1>1, <1>3, <2>1, <2>2 DEF Owned
<1>4. ASSUME NEW s \in Sockets, Connected(seats[Owner[s]], s),
             seats' = [seats EXCEPT ![Owner[s]] = Left(seats[Owner[s]], s)]
      PROVE  Owned'
  <2>1. Owner[s] \in Accounts
    BY SeatAssumption
  <2>2. \A t : Connected(Left(seats[Owner[s]], s), t) => Owner[t] = Owner[s]
    BY <1>1, <1>4, <2>1, LeftOthers
  <2> QED BY <1>1, <1>4, <2>1, <2>2 DEF Owned
<1> QED BY <1>2, <1>3, <1>4

\* What Gone does to the seats.
LEMMA GoneOwned ==
  ASSUME SeatsSound, Owned, NEW s \in Sockets, Gone(s)
  PROVE  Owned'
<1>1. \/ seats' = seats
      \/ /\ Connected(seats[Owner[s]], s)
         /\ seats' = [seats EXCEPT ![Owner[s]] = Left(seats[Owner[s]], s)]
  BY DEF Gone
<1> QED BY <1>1, OwnedStep

\* A connection that is decided about again is seated well.
LEMMA RefreshSeating ==
  ASSUME TypeOK, SeatsSound, Owned, Places, NEW s \in Sockets, RefreshOne(s)
  PROVE  Owned' /\ Places'
<1>1. sock \in [Sockets -> Connection] /\ RoleOf(Owner[s]) \in {"governor", "editor", "reader"}
  BY DEF TypeOK, RoleOf
<1>2. CASE RefreshKeeps(s)
  <2>1. /\ seats' = Released(seats)
        /\ \A t \in Sockets : t # s => sock'[t] = sock[t]
        /\ sock'[s] = [phase |-> sock[s].phase, role |-> RoleOf(Owner[s]),
                       pinned |-> RoleOf(Owner[s]), known |-> FALSE]
    BY <1>1, <1>2 DEF RefreshKeeps, Refreshed
  <2>2. \A t \in Sockets : t # s => SitsWell(seats'[Owner[t]], sock'[t], t)
    BY <2>1, SamePlaces
  <2>3. SitsWell(seats'[Owner[s]], sock'[s], s)
    <3>1. /\ Owner[s] \in Accounts
          /\ SitsWell(seats[Owner[s]], sock[s], s)
          /\ RoleOf(Owner[s]) \in {"governor", sock[s].role}
      BY <1>2, SeatAssumption DEF Places, RefreshKeeps, Rejoins
    <3>2. Connected(seats[Owner[s]], s) => Connected(seats'[Owner[s]], s)
      BY <2>1, <3>1, ReleasedOthers
    <3> QED BY <1>1, <2>1, <3>1, <3>2 DEF SitsWell
  <2>4. Owned'
    BY <2>1, OwnedStep
  <2> QED BY <2>2, <2>3, <2>4 DEF Places
<1>3. CASE RefreshRejoins(s)
  <2> DEFINE now == Released(seats)
  <2>1. /\ seats' = [now EXCEPT ![Owner[s]] = Joined(now[Owner[s]], s)]
        /\ sock' = [sock EXCEPT ![s] = [phase |-> sock[s].phase, role |-> RoleOf(Owner[s]),
             pinned |-> IF now[Owner[s]].writer = NoSocket THEN "editor" ELSE "reader",
             known |-> FALSE]]
    BY <1>3 DEF RefreshRejoins, Refreshed
  <2>2. RoleOf(Owner[s]) # "none"
    BY <1>1
  <2>3. Places'
    BY <1>1, <2>1, <2>2, JoinPlaces
  <2>4. Owned'
    BY <2>1, OwnedStep
  <2> QED BY <2>3, <2>4
<1>4. CASE RefreshDrops(s)
  <2>1. CASE Gone(s)
    BY <2>1, GonePlaces, GoneOwned
  <2>2. CASE seats' = seats /\ sock' = sock
    BY <2>2, OwnedStep DEF Places, Owned
  <2> QED BY <1>4, <2>1, <2>2 DEF RefreshDrops
<1> QED BY <1>2, <1>3, <1>4 DEF RefreshOne

\* Every step keeps the connections seated well.
LEMMA SeatingStep ==
  ASSUME Registry, Seating, [Next]_vars
  PROVE  Seating'
<1>1. /\ TypeOK /\ SeatsSound /\ Owned /\ Places
      /\ sock \in [Sockets -> Connection] /\ active \subseteq Sockets
  BY DEF Registry, Seating, TypeOK
<1>2. ASSUME seats' \in {seats, Released(seats)}, NEW s \in Sockets,
             \A t \in Sockets : t # s => sock'[t] = sock[t],
             SitsWell(seats'[Owner[s]], sock'[s], s)
      PROVE  Seating'
  <2>1. \A t \in Sockets : t # s => SitsWell(seats'[Owner[t]], sock'[t], t)
    BY <1>1, <1>2, SamePlaces
  <2> QED BY <1>1, <1>2, <2>1, OwnedStep DEF Seating, Places
<1>3. ASSUME seats' = seats, sock' = sock
      PROVE  Seating'
  BY <1>1, <1>3, OwnedStep DEF Seating, Places, Owned
<1>4. ASSUME NEW s \in Sockets, Admit(s)
      PROVE  Seating'
  <2>1. /\ seats' = Released(seats)
        /\ \A t \in Sockets : t # s => sock'[t] = sock[t]
    BY <1>1, <1>4 DEF Admit, Close
  <2>2. \/ sock'[s].phase = "closed"
        \/ sock'[s].phase = "admitted" /\ sock'[s].role = RoleOf(Owner[s])
    BY <1>1, <1>4 DEF Admit, Close, Connection
  <2>3. SitsWell(seats'[Owner[s]], sock'[s], s)
    BY <2>2 DEF SitsWell, RoleOf
  <2> QED BY <1>2, <2>1, <2>3
<1>5. ASSUME NEW s \in Sockets, Abort(s) \/ ConnectRefused(s)
      PROVE  Seating'
  <2>1. /\ seats' = seats
        /\ \A t \in Sockets : t # s => sock'[t] = sock[t]
        /\ sock'[s].phase = "closed"
    BY <1>1, <1>5 DEF Abort, ConnectRefused, Close, Connection
  <2>2. SitsWell(seats'[Owner[s]], sock'[s], s)
    BY <2>1 DEF SitsWell
  <2> QED BY <1>2, <2>1, <2>2
<1>6. ASSUME NEW s \in Sockets, ConnectGovernor(s)
      PROVE  Seating'
  <2>1. /\ seats' = seats
        /\ \A t \in Sockets : t # s => sock'[t] = sock[t]
        /\ sock'[s].role = "governor"
    BY <1>1, <1>6 DEF ConnectGovernor, Connection
  <2>2. SitsWell(seats'[Owner[s]], sock'[s], s)
    BY <2>1 DEF SitsWell
  <2> QED BY <1>2, <2>1, <2>2
<1>7. ASSUME NEW s \in Sockets, ConnectMember(s)
      PROVE  Seating'
  <2>1. /\ seats' = [seats EXCEPT ![Owner[s]] = Joined(seats[Owner[s]], s)]
        /\ sock' = [sock EXCEPT ![s] = [phase |-> "connected", role |-> sock[s].role,
             pinned |-> IF seats[Owner[s]].writer = NoSocket THEN "editor" ELSE "reader",
             known |-> TRUE]]
        /\ sock[s].phase = "admitted"
    BY <1>7 DEF ConnectMember
  <2>2. sock[s].role # "none"
    BY <1>1, <2>1 DEF Places, SitsWell
  <2>3. Places'
    BY <1>1, <2>1, <2>2, JoinPlaces
  <2>4. Owned'
    BY <1>1, <2>1, OwnedStep
  <2> QED BY <2>3, <2>4 DEF Seating
<1>8. ASSUME NEW s \in Sockets, Disconnect(s)
      PROVE  Seating'
  BY <1>1, <1>8, GonePlaces, GoneOwned DEF Disconnect, Seating
<1>9. ASSUME NEW a \in Accounts, Expire(a)
      PROVE  Seating'
  <2>1. /\ seats[a].conns = << >> /\ sock' = sock
        /\ seats' = [seats EXCEPT ![a] = [seats[a] EXCEPT !.grace = "over"]]
        /\ seats \in [Accounts -> Seat]
    BY <1>1, <1>9 DEF Expire, TypeOK
  <2>2. \A x \in Accounts : /\ seats'[x].conns = seats[x].conns
                            /\ seats'[x].writer = seats[x].writer
    BY <2>1 DEF Seat
  <2> QED BY <1>1, <2>1, <2>2, SeatAssumption DEF Seating, Owned, Places, SitsWell, Connected
<1>10. ASSUME Organizer
       PROVE  Seating'
  <2>1. ASSUME SetLock \/ \E a \in Accounts : Grant(a) \/ Revoke(a)
        PROVE  Seating'
    <3>1. seats' = seats /\ sock' = sock
      BY <2>1 DEF SetLock, Grant, Revoke
    <3> QED BY <1>3, <3>1
  <2>2. ASSUME NEW a \in Accounts, BeginRefresh(a)
        PROVE  Seating'
    <3>1. (seats' = seats /\ sock' = sock) \/ \E s \in active : RefreshOne(s)
      BY <2>2 DEF BeginRefresh
    <3> QED BY <1>1, <1>3, <3>1, RefreshSeating DEF Seating
  <2> QED BY <1>10, <2>1, <2>2 DEF Organizer
<1>11. ASSUME NEW s \in Sockets, Refresh(s)
       PROVE  Seating'
  BY <1>1, <1>11, RefreshSeating DEF Refresh, Seating
<1>12. ASSUME UNCHANGED vars
       PROVE  Seating'
  BY <1>3, <1>12 DEF vars
<1> QED BY <1>4, <1>5, <1>6, <1>7, <1>8, <1>9, <1>10, <1>11, <1>12 DEF Next, Connections

\* Nobody sits to begin with.
LEMMA SeatingInit == Init => Seating
BY DEF Init, Seating, Owned, Places, SitsWell, Connected, Absent, Fresh

\* Two connections of an account that sit never can both write.
THEOREM OneEditor == Spec => []AtMostOneEditor
<1>1. Registry /\ Seating /\ [Next]_vars => Registry' /\ Seating'
  BY RegistryStep, SeatingStep
<1>2. Registry /\ Seating => AtMostOneEditor
  <2> SUFFICES ASSUME Registry, Seating, NEW a \in Accounts, NEW s \in Members(a), CanWrite(s)
               PROVE  seats[a].writer = s
    BY DEF AtMostOneEditor
  <2>1. /\ s \in Sockets /\ Owner[s] = a
        /\ Connected(seats[a], s)
        /\ sock[s].role = "reader" /\ sock[s].pinned = "editor" => seats[a].writer = s
        /\ sock[s].role \in {"editor", "reader"}
    BY DEF Members, Seating, Places, SitsWell, Registry, TypeOK, Connection, Roles
  <2>2. seats[a] # Absent
    BY <2>1 DEF Absent, Connected
  <2> QED BY <2>1, <2>2 DEF CanWrite, IsWriter, Members
<1> QED BY <1>1, <1>2, RegistryInit, SeatingInit, PTL DEF Spec

-----------------------------------------------------------------------------
(***************************************************************************)
(* An account that is never a moderator and has connections on its seat    *)
(* can write through one of them.                                          *)
(***************************************************************************)

\* A seat lists a connection once.
Distinct(seat) == \A i, j \in DOMAIN seat.conns : seat.conns[i] = seat.conns[j] => i = j

\* Whoever is registered on the seat is connected and knows its socket id, and
\* the registered writer is pinned as an editor.
Manned(b) ==
  /\ Distinct(seats[b])
  /\ \A t : Connected(seats[b], t) =>
       /\ t \in active
       /\ sock[t].phase = "connected" /\ sock[t].role # "governor" /\ sock[t].known = TRUE
       /\ seats[b].writer = t => sock[t].pinned = "editor"

\* Only accounts that may moderate are granted, revoked or refreshed.
Moderated == /\ moderators \subseteq Moderatable /\ revoked \subseteq Moderatable
             /\ \A s \in refreshing : Owner[s] \in Moderatable

Manning == Moderated /\ \A b \in Accounts \ Moderatable : Manned(b)

\* A connection that joins is listed once.
LEMMA JoinedDistinct ==
  ASSUME NEW seat \in Seat, Distinct(seat), NEW s \in Sockets
  PROVE  Distinct(Joined(seat, s))
<1>1. CASE Connected(seat, s)
  BY <1>1 DEF Joined, Distinct
<1>2. CASE ~Connected(seat, s)
  <2> DEFINE c == seat.conns
             d == Append(c, s)
  <2>1. /\ c \in Seq(Sockets) /\ d \in Seq(Sockets) /\ Len(d) = Len(c) + 1
        /\ \A i \in 1..Len(c) : d[i] = c[i]
        /\ d[Len(c) + 1] = s
    BY AppendProperties DEF Seat
  <2>2. \A i \in 1..Len(c) : c[i] # s
    BY <1>2, <2>1 DEF Connected
  <2>3. \A i, j \in 1..Len(c) : c[i] = c[j] => i = j
    BY <2>1 DEF Distinct
  <2>4. \A i \in 1..Len(d) : i \in 1..Len(c) \/ i = Len(c) + 1
    BY <2>1
  <2>5. Joined(seat, s).conns = d /\ DOMAIN d = 1..Len(d)
    BY <1>2, <2>1 DEF Joined
  <2> HIDE DEF c, d
  <2> QED BY <2>1, <2>2, <2>3, <2>4, <2>5 DEF Distinct
<1> QED BY <1>1, <1>2

\* A connection that leaves is off the list.
LEMMA LeftDistinct ==
  ASSUME NEW seat \in Seat, Distinct(seat), NEW s \in Sockets, Connected(seat, s)
  PROVE  Distinct(Left(seat, s)) /\ ~Connected(Left(seat, s), s)
<1> DEFINE c == seat.conns
           p == Place(seat, s)
           rest == RemoveAt(c, p)
           Old(i) == IF i < p THEN i ELSE i + 1
<1>1. p \in 1..Len(c) /\ c[p] = s /\ c \in Seq(Sockets)
  BY PlaceOf DEF Seat
<1>2. /\ rest \in Seq(Sockets)
      /\ Len(rest) = Len(c) - 1
      /\ \A i \in 1..Len(rest) : rest[i] = IF i < p THEN c[i] ELSE c[i + 1]
  BY <1>1, RemovedAt
<1>3. Left(seat, s).conns = rest
  BY DEF Left
<1>4. \A i, j \in 1..Len(c) : c[i] = c[j] => i = j
  BY <1>1 DEF Distinct
<1> HIDE DEF c, p, rest
<1>5. \A i \in 1..Len(rest) : /\ Old(i) \in 1..Len(c) /\ Old(i) # p
                              /\ rest[i] = c[Old(i)]
  BY <1>1, <1>2
<1>6. \A i, j \in 1..Len(rest) : Old(i) = Old(j) => i = j
  BY <1>1, <1>2
<1> HIDE DEF Old
<1>7. DOMAIN rest = 1..Len(rest)
  BY <1>2
<1>8. \A i, j \in DOMAIN rest : rest[i] = rest[j] => i = j
  BY <1>4, <1>5, <1>6, <1>7
<1>9. \A i \in DOMAIN rest : rest[i] # s
  BY <1>1, <1>4, <1>5, <1>7
<1> QED BY <1>3, <1>8, <1>9 DEF Distinct, Connected

\* A seat nobody touches stays manned.
LEMMA MannedStays ==
  ASSUME SeatsSound, NEW b \in Accounts, Manned(b),
         seats'[b] \in {seats[b], Released(seats)[b]},
         \A t : Connected(seats[b], t) => t \in active' /\ sock'[t] = sock[t]
  PROVE  Manned(b)'
<1>1. CASE seats'[b] = seats[b]
  BY <1>1 DEF Manned
<1>2. CASE seats'[b] # seats[b]
  <2>1. seats'[b] = Absent
    BY <1>2 DEF Released
  <2> QED BY <2>1 DEF Manned, Distinct, Connected, Absent
<1> QED BY <1>1, <1>2

\* Nobody registered on another seat is a connection of this account.
LEMMA Strangers ==
  ASSUME Owned, NEW b \in Accounts, NEW s, Owner[s] # b
  PROVE  ~Connected(seats[b], s)
BY DEF Owned

\* A connection that goes leaves its own seat manned and no other one touched.
LEMMA GoneManned ==
  ASSUME TypeOK, SeatsSound, Owned, NEW s \in Sockets, Gone(s), NEW b \in Accounts, Manned(b)
  PROVE  Manned(b)'
<1> DEFINE a == Owner[s]
           new == Left(seats[a], s)
<1>1. /\ sock \in [Sockets -> Connection] /\ a \in Accounts /\ seats \in [Accounts -> Seat]
      /\ \A x \in Accounts : seats[x] \in Seat /\ Sound(seats[x])
      /\ active' = active \ {s}
  BY SeatAssumption DEF TypeOK, SeatsSound, Gone
<1>2. \A t : t # s => Close(s)[t] = sock[t]
  BY <1>1 DEF Close
<1>3. CASE ~Connected(seats[a], s)
  <2>1. seats' = seats /\ sock' = Close(s)
    BY <1>3 DEF Gone
  <2>2. ~Connected(seats[b], s)
    BY <1>3, Strangers
  <2>3. \A t : Connected(seats[b], t) => t # s /\ t \in active
    BY <2>2 DEF Manned
  <2> QED BY <1>1, <1>2, <2>1, <2>3, MannedStays
<1>4. CASE Connected(seats[a], s)
  <2>1. seats' = [seats EXCEPT ![a] = new]
    BY <1>4 DEF Gone
  <2>2. /\ \A t : t # s /\ Connected(seats[a], t) => Connected(new, t)
        /\ seats[a].writer # s => new.writer = seats[a].writer
        /\ \A t : Connected(new, t) => Connected(seats[a], t)
        /\ new.writer = NoSocket \/ Connected(seats[a], new.writer)
    BY <1>1, <1>4, LeftOthers
  <2>3. \A t \in Sockets : t # s /\ t # new.writer => sock'[t] = sock[t]
    <3>1. Close(s) \in [Sockets -> Connection]
      BY ConnectionFields
    <3>2. sock' = Close(s) \/ sock' = [Close(s) EXCEPT ![new.writer].pinned = "editor"]
      BY <1>4 DEF Gone
    <3> QED BY <1>2, <3>1, <3>2
  <2>4. CASE b # a
    <3>1. \A t : Connected(seats[b], t) => t # s /\ t # new.writer /\ t \in active /\ t \in Sockets
      <4>1. ASSUME NEW t, Connected(seats[b], t)
            PROVE  t # s /\ t # new.writer /\ t \in active /\ t \in Sockets
        <5>1. Owner[t] = b /\ t \in active /\ t \in Sockets
          BY <4>1, <1>1 DEF Owned, Manned, TypeOK
        <5>2. t # s
          BY <2>4, <5>1
        <5>3. t # new.writer
          BY <1>1, <2>2, <2>4, <5>1, SeatAssumption DEF Owned
        <5> QED BY <5>1, <5>2, <5>3
      <4> QED BY <4>1
    <3>2. seats'[b] = seats[b]
      BY <1>1, <2>1, <2>4
    <3> QED BY <1>1, <2>3, <3>1, <3>2, MannedStays
  <2>5. CASE b = a
    <3>1. seats'[b] = new /\ Distinct(new) /\ ~Connected(new, s)
      BY <1>1, <1>4, <2>1, <2>5, LeftDistinct DEF Manned
    <3>2. ASSUME NEW t, Connected(new, t)
          PROVE  /\ t \in active'
                 /\ sock'[t].phase = "connected" /\ sock'[t].role # "governor"
                 /\ sock'[t].known = TRUE
                 /\ new.writer = t => sock'[t].pinned = "editor"
      <4>1. t # s /\ Connected(seats[a], t) /\ t \in active /\ t \in Sockets
        BY <2>2, <2>5, <3>1, <3>2 DEF Manned, TypeOK
      <4>2. /\ sock[t].phase = "connected" /\ sock[t].role # "governor" /\ sock[t].known = TRUE
            /\ seats[a].writer = t => sock[t].pinned = "editor"
        BY <2>5, <4>1 DEF Manned
      <4>3. CASE t # new.writer
        BY <1>1, <2>3, <4>1, <4>2, <4>3
      <4>4. CASE t = new.writer /\ seats[a].writer # s
        <5>1. sock' = Close(s)
          BY <1>4, <4>4 DEF Gone
        <5>2. seats[a].writer = t /\ sock'[t] = sock[t]
          BY <1>2, <2>2, <4>1, <4>4, <5>1
        <5> QED BY <1>1, <4>1, <4>2, <5>2
      <4>5. CASE t = new.writer /\ seats[a].writer = s
        <5>1. new.writer # NoSocket
          BY <4>1, <4>5, SeatAssumption
        <5>2. sock' = [Close(s) EXCEPT ![t].pinned = "editor"]
          BY <1>4, <4>1, <4>2, <4>5, <5>1 DEF Gone
        <5>3. Close(s)[t] = sock[t] /\ Close(s) \in [Sockets -> Connection]
          BY <1>2, <4>1, ConnectionFields
        <5>4. sock'[t] = [sock[t] EXCEPT !.pinned = "editor"]
          BY <4>1, <5>2, <5>3
        <5>5. sock[t] \in Connection
          BY <1>1, <4>1
        <5> QED BY <1>1, <4>1, <4>2, <5>4, <5>5 DEF Connection
      <4> QED BY <4>3, <4>4, <4>5
    <3> QED BY <3>1, <3>2 DEF Manned
  <2> QED BY <2>4, <2>5
<1> QED BY <1>3, <1>4

\* Deciding again about a moderator's connection leaves the others manned.
LEMMA RefreshManned ==
  ASSUME TypeOK, SeatsSound, Owned, NEW s \in Sockets, RefreshOne(s),
         NEW b \in Accounts, Owner[s] # b, Manned(b)
  PROVE  Manned(b)'
<1>1. /\ sock \in [Sockets -> Connection] /\ Owner[s] \in Accounts
      /\ \A t : Connected(seats[b], t) => t # s /\ t \in active
  BY Strangers, SeatAssumption DEF TypeOK, Manned
<1>2. CASE RefreshKeeps(s)
  BY <1>1, <1>2, MannedStays DEF RefreshKeeps, Refreshed
<1>3. CASE RefreshRejoins(s)
  <2>1. seats'[b] = Released(seats)[b] /\ active' = active
    BY <1>1, <1>3 DEF RefreshRejoins, Released
  <2>2. \A t : t # s => sock'[t] = sock[t]
    BY <1>1, <1>3 DEF RefreshRejoins, Refreshed
  <2> QED BY <1>1, <2>1, <2>2, MannedStays
<1>4. CASE RefreshDrops(s)
  <2>1. Gone(s) \/ UNCHANGED << seats, sock, active >>
    BY <1>4 DEF RefreshDrops
  <2> QED BY <1>1, <2>1, GoneManned, MannedStays
<1> QED BY <1>2, <1>3, <1>4 DEF RefreshOne

\* Whoever joins a manned seat knows its socket id, and writes if nobody does.
LEMMA ConnectManned ==
  ASSUME TypeOK, SeatsSound, Owned, NEW s \in Sockets, ConnectMember(s),
         NEW b \in Accounts, Manned(b)
  PROVE  Manned(b)'
<1> DEFINE a == Owner[s]
           new == Joined(seats[a], s)
<1>1. /\ sock \in [Sockets -> Connection] /\ a \in Accounts /\ seats \in [Accounts -> Seat]
      /\ \A x \in Accounts : seats[x] \in Seat /\ Sound(seats[x])
  BY SeatAssumption DEF TypeOK, SeatsSound
<1>2. /\ seats' = [seats EXCEPT ![a] = new]
      /\ sock' = [sock EXCEPT ![s] = [phase |-> "connected", role |-> sock[s].role,
                    pinned |-> IF seats[a].writer = NoSocket THEN "editor" ELSE "reader",
                    known |-> TRUE]]
      /\ active' = active \cup {s}
      /\ sock[s].phase = "admitted" /\ sock[s].role # "governor"
  BY DEF ConnectMember
<1>3. ~Connected(seats[b], s)
  BY <1>2 DEF Manned
<1>4. \A t : t # s => sock'[t] = sock[t]
  BY <1>1, <1>2
<1>5. CASE b # a
  <2>1. seats'[b] = seats[b]
    BY <1>1, <1>2, <1>5
  <2>2. \A t : Connected(seats[b], t) => t # s /\ t \in active'
    BY <1>2, <1>3 DEF Manned
  <2> QED BY <1>4, <2>1, <2>2, MannedStays
<1>6. CASE b = a
  <2>1. /\ \A t : Connected(seats[a], t) => new.writer = seats[a].writer
        /\ seats[a].writer = NoSocket => new.writer = s
        /\ \A t : Connected(new, t) => Connected(seats[a], t) \/ t = s
    BY <1>1, JoinedOthers
  <2>2. seats'[b] = new /\ Distinct(new)
    BY <1>1, <1>2, <1>6, JoinedDistinct DEF Manned
  <2>3. ASSUME NEW t, Connected(new, t)
        PROVE  /\ t \in active'
               /\ sock'[t].phase = "connected" /\ sock'[t].role # "governor"
               /\ sock'[t].known = TRUE
               /\ new.writer = t => sock'[t].pinned = "editor"
    <3>1. CASE t = s
      <4>1. sock'[s] = [phase |-> "connected", role |-> sock[s].role,
                        pinned |-> IF seats[a].writer = NoSocket THEN "editor" ELSE "reader",
                        known |-> TRUE]
        BY <1>1, <1>2
      <4>2. new.writer = s => seats[a].writer = NoSocket
        BY <1>1, <1>3, <1>6 DEF Joined, Sound, SeatsSound
      <4> QED BY <1>2, <3>1, <4>1, <4>2
    <3>2. CASE t # s
      <4>1. Connected(seats[a], t)
        BY <2>1, <2>3, <3>2
      <4> QED BY <1>2, <1>4, <1>6, <2>1, <3>2, <4>1 DEF Manned
    <3> QED BY <3>1, <3>2
  <2> QED BY <2>2, <2>3 DEF Manned
<1> QED BY <1>5, <1>6

\* Nobody sits and nobody moderates to begin with.
LEMMA ManningInit == Init => Manning
BY DEF Init, Manning, Moderated, Manned, Distinct, Connected, Absent

\* Every step leaves the seats manned.
LEMMA ManningStep ==
  ASSUME Registry, Seating, Manning, [Next]_vars
  PROVE  Manning'
<1>1. /\ TypeOK /\ SeatsSound /\ Owned /\ Moderated
      /\ sock \in [Sockets -> Connection] /\ active \subseteq Sockets
      /\ refreshing \subseteq Sockets
  BY DEF Registry, Seating, TypeOK, Manning
<1>2. Moderated'
  <2>1. ASSUME NEW a \in Accounts, BeginRefresh(a) PROVE Moderated'
    <3>1. /\ a \in revoked /\ moderators' = moderators /\ revoked' \subseteq revoked
          /\ \A s \in refreshing' : s \in refreshing \/ Owner[s] = a
      BY <2>1 DEF BeginRefresh
    <3> QED BY <1>1, <3>1 DEF Moderated
  <2>2. ASSUME NEW a \in Accounts, Grant(a) \/ Revoke(a) PROVE Moderated'
    BY <1>1, <2>2 DEF Grant, Revoke, Governs, Moderated
  <2>3. ASSUME NEW s \in Sockets, Refresh(s) PROVE Moderated'
    BY <1>1, <2>3 DEF Refresh, Moderated
  <2>4. CASE UNCHANGED << moderators, revoked, refreshing >>
    BY <1>1, <2>4 DEF Moderated
  <2> QED BY <2>1, <2>2, <2>3, <2>4 DEF Next, Connections, Organizer, vars, Admit, Abort,
             ConnectGovernor, ConnectMember, ConnectRefused, Disconnect, SetLock, Expire
<1> SUFFICES ASSUME NEW b \in Accounts, b \notin Moderatable PROVE Manned(b)'
  BY <1>2 DEF Manning
<1>3. Manned(b) /\ \A t : Connected(seats[b], t) => t \in active
  BY DEF Manning, Manned
<1>4. ASSUME seats' \in {seats, Released(seats)}, active \subseteq active',
             NEW s \in Sockets, sock[s].phase # "connected",
             \A t \in Sockets : t # s => sock'[t] = sock[t]
      PROVE  Manned(b)'
  <2>1. \A t : Connected(seats[b], t) => t # s /\ t \in active' /\ t \in Sockets
    BY <1>1, <1>3, <1>4 DEF Manned
  <2> QED BY <1>1, <1>3, <1>4, <2>1, MannedStays
<1>5. ASSUME UNCHANGED << seats, sock, active >> PROVE Manned(b)'
  BY <1>1, <1>3, <1>5, MannedStays
<1>6. ASSUME NEW s \in Sockets, Admit(s) \/ Abort(s) \/ ConnectGovernor(s) \/ ConnectRefused(s)
      PROVE  Manned(b)'
  <2>1. /\ seats' \in {seats, Released(seats)} /\ active \subseteq active'
        /\ sock[s].phase # "connected"
    BY <1>6 DEF Admit, Abort, ConnectGovernor, ConnectRefused
  <2>2. \A t \in Sockets : t # s => sock'[t] = sock[t]
    BY <1>1, <1>6 DEF Admit, Abort, ConnectGovernor, ConnectRefused, Close
  <2> QED BY <1>4, <2>1, <2>2
<1>7. ASSUME NEW s \in Sockets, ConnectMember(s) PROVE Manned(b)'
  BY <1>1, <1>3, <1>7, ConnectManned
<1>8. ASSUME NEW s \in Sockets, Disconnect(s) PROVE Manned(b)'
  BY <1>1, <1>3, <1>8, GoneManned DEF Disconnect
<1>9. ASSUME NEW a \in Accounts, Expire(a) PROVE Manned(b)'
  <2>1. /\ seats \in [Accounts -> Seat] /\ seats[a].conns = << >>
        /\ seats' = [seats EXCEPT ![a] = [seats[a] EXCEPT !.grace = "over"]]
        /\ sock' = sock /\ active' = active
    BY <1>1, <1>9 DEF Expire, TypeOK
  <2>2. seats'[b].conns = seats[b].conns /\ seats'[b].writer = seats[b].writer
    BY <2>1 DEF Seat
  <2> QED BY <1>3, <2>1, <2>2 DEF Manned, Distinct, Connected
<1>10. ASSUME NEW a \in Accounts, BeginRefresh(a) PROVE Manned(b)'
  <2>1. \/ UNCHANGED << seats, sock, active >>
        \/ \E s \in active : Owner[s] = a /\ RefreshOne(s)
    BY <1>10 DEF BeginRefresh
  <2>2. a # b
    BY <1>1, <1>10 DEF BeginRefresh, Moderated
  <2> QED BY <1>1, <1>3, <1>5, <2>1, <2>2, RefreshManned
<1>11. ASSUME NEW s \in Sockets, Refresh(s) PROVE Manned(b)'
  <2>1. s \in refreshing /\ RefreshOne(s) /\ Owner[s] # b
    BY <1>1, <1>11 DEF Refresh, Moderated
  <2> QED BY <1>1, <1>3, <2>1, RefreshManned
<1>12. CASE SetLock \/ (\E a \in Accounts : Grant(a) \/ Revoke(a)) \/ UNCHANGED vars
  <2>1. UNCHANGED << seats, sock, active >>
    BY <1>12 DEF SetLock, Grant, Revoke, vars
  <2> QED BY <1>5, <2>1
<1> QED BY <1>6, <1>7, <1>8, <1>9, <1>10, <1>11, <1>12 DEF Next, Connections, Organizer

\* An account that is never a moderator and has connections on its seat can write
\* through one of them: no order of handshakes, disconnects, promotions and
\* refreshes of other accounts leaves its writer without the role, or the role with
\* a connection that is not the writer.
THEOREM MembersCanWrite == Spec => []MemberCanWrite
<1>1. Registry /\ Seating /\ Manning /\ [Next]_vars => Registry' /\ Seating' /\ Manning'
  BY RegistryStep, SeatingStep, ManningStep
<1>2. Registry /\ Seating /\ Manning => MemberCanWrite
  <2> SUFFICES ASSUME Registry, Seating, Manning,
                      NEW a \in Accounts \ Moderatable, NEW s \in Members(a)
               PROVE  \E t \in Members(a) : CanWrite(t)
    BY DEF MemberCanWrite
  <2> DEFINE w == seats[a].writer
  <2>1. s \in Sockets /\ Connected(seats[a], s)
    BY DEF Members, Seating, Places, SitsWell
  <2>2. seats[a] \in Seat /\ Sound(seats[a]) /\ Manned(a)
    BY DEF Registry, SeatsSound, Manning
  <2>3. Connected(seats[a], w)
    BY <2>1, <2>2, Company DEF Sound
  <2>4. /\ w \in Sockets /\ Owner[w] = a
        /\ sock[w].phase = "connected" /\ sock[w].role # "governor"
        /\ sock[w].known = TRUE /\ sock[w].pinned = "editor"
    BY <2>2, <2>3 DEF Manned, Seating, Owned, Registry, TypeOK
  <2>5. w \in Members(a) /\ CanWrite(w)
    BY <2>4 DEF Members, CanWrite, IsWriter
  <2> QED BY <2>5
<1> QED BY <1>1, <1>2, RegistryInit, SeatingInit, ManningInit, PTL DEF Spec

=============================================================================
