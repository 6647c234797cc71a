-------------------------- MODULE ReservationProofs --------------------------
(***************************************************************************)
(* For every set of reservations, every buffer and every pair of limits:   *)
(* no instant is oversold.  The sweep looks at finitely many points of a   *)
(* window; the lemma SweepBounds says why they are enough.                 *)
(*                                                                         *)
(* The second half is about the documents of ReservationStore: what is     *)
(* stored at any moment is an image a restart may load, on either adapter. *)
(***************************************************************************)
EXTENDS ReservationStore, FiniteSetTheorems, TLAPS

Promised == -Buffer..(Horizon + Buffer)

\* What is used at an instant stays within the limits, whatever map is read.
UsersIn(m, held, t) == {r \in held : Covers(m[r], t)}
SeatsIn(m, held, t) ==
    {q \in held \X Seats : Covers(m[q[1]], t) /\ q[2] <= m[q[1]].seats}
Within(m, held, t) ==
    /\ Cardinality(UsersIn(m, held, t)) <= SessionLimit
    /\ Cardinality(SeatsIn(m, held, t)) <= SeatLimit

HeldIn(m) == {r \in Reservations : Allocated(m[r])}
Sold(m)   == \A t \in Promised : Within(m, HeldIn(m), t)

AnySession == Stored(SessionStatus)

-----------------------------------------------------------------------------
\* A nonempty set of integers between two bounds has a greatest element.
LEMMA Greatest ==
  ASSUME NEW a \in Int, NEW b \in Int, NEW P \in SUBSET (a..b), P # {}
  PROVE  \E q \in P : \A x \in P : x <= q
<1> DEFINE Above(q) == {x \in P : q < x}
           T == {Above(q) : q \in P}
<1>1. IsFiniteSet(P)
  BY FS_Interval, FS_Subset
<1>2. T \subseteq SUBSET P /\ T # {}
  OBVIOUS
<1>3. T \subseteq FiniteSubsetsOf(P)
  BY <1>1, <1>2, FS_FiniteSubsetsOfFinite
<1> HIDE DEF T
<1>4. PICK u \in T : \A v \in T : <<v, u>> \notin StrictSubsetOrdering(P)
  BY <1>2, <1>3, FS_StrictSubsetOrderingWellFounded, WFMin
<1>5. PICK q \in P : u = Above(q)
  BY DEF T
<1>6. ASSUME NEW x \in P, ~ (x <= q) PROVE FALSE
  <2>1. Above(x) \in T
    BY DEF T
  <2>2. Above(x) \subseteq Above(q) /\ x \in Above(q) /\ x \notin Above(x)
    <3>1. P \subseteq Int /\ x \in Int /\ q \in Int /\ q < x
      BY <1>6
    <3>2. ASSUME NEW y \in Above(x) PROVE y \in Above(q)
      <4>1. y \in P /\ y \in Int /\ x < y
        BY <3>1
      <4> QED BY <3>1, <4>1
    <3>3. x \in Above(q) /\ ~ (x < x)
      BY <3>1
    <3> QED BY <3>2, <3>3
  <2>3. <<Above(x), Above(q)>> \in StrictSubsetOrdering(P)
    BY <2>2 DEF StrictSubsetOrdering
  <2> QED BY <2>1, <2>3, <1>4, <1>5
<1> QED BY <1>6

\* Sets of users and of seats are finite.
LEMMA Finite ==
  ASSUME NEW m, NEW held \in SUBSET Reservations, NEW t
  PROVE  IsFiniteSet(UsersIn(m, held, t)) /\ IsFiniteSet(SeatsIn(m, held, t))
<1>1. IsFiniteSet(held) /\ IsFiniteSet(Seats)
  BY FS_Subset, FS_Interval, CapacityAssumption DEF Seats
<1>2. IsFiniteSet(held \X Seats)
  BY <1>1, FS_Product
<1>3. UsersIn(m, held, t) \in SUBSET held /\ SeatsIn(m, held, t) \in SUBSET (held \X Seats)
  BY DEF UsersIn, SeatsIn
<1> QED BY <1>1, <1>2, <1>3, FS_Subset

\* An instant at which no more is used than at another, within the limits, is too.
LEMMA Monotone ==
  ASSUME NEW m, NEW n, NEW held \in SUBSET Reservations, NEW kept \in SUBSET Reservations,
         NEW t, NEW s, Within(m, held, t),
         UsersIn(n, kept, s) \subseteq UsersIn(m, held, t),
         SeatsIn(n, kept, s) \subseteq SeatsIn(m, held, t)
  PROVE  Within(n, kept, s)
<1>1. /\ IsFiniteSet(UsersIn(m, held, t)) /\ IsFiniteSet(SeatsIn(m, held, t))
      /\ IsFiniteSet(UsersIn(n, kept, s)) /\ IsFiniteSet(SeatsIn(n, kept, s))
  BY Finite
<1>2. /\ Cardinality(UsersIn(n, kept, s)) <= Cardinality(UsersIn(m, held, t))
      /\ Cardinality(SeatsIn(n, kept, s)) <= Cardinality(SeatsIn(m, held, t))
  BY <1>1, FS_Subset
<1>3. /\ Cardinality(UsersIn(m, held, t)) \in Nat /\ Cardinality(SeatsIn(m, held, t)) \in Nat
      /\ Cardinality(UsersIn(n, kept, s)) \in Nat /\ Cardinality(SeatsIn(n, kept, s)) \in Nat
  BY <1>1, FS_CardinalityType
<1> QED BY <1>2, <1>3, CapacityAssumption DEF Within

(***************************************************************************)
(* The sweep is enough: at every instant of the candidate's window, no     *)
(* more is used than at the latest point of the sweep before it.           *)
(***************************************************************************)
LEMMA SweepBounds ==
  ASSUME NEW m \in [Reservations -> AnySession],
         NEW p, p.starts \in Instants, p.ends \in Instants,
         NEW held \in SUBSET Reservations, NEW t \in Int, Covers(p, t)
  PROVE  \E q \in {Opens(p)} \cup
                    {Opens(m[r]) : r \in {h \in held : Covers(p, Opens(m[h]))}} :
            /\ UsersIn(m, held, t) \subseteq UsersIn(m, held, q)
            /\ SeatsIn(m, held, t) \subseteq SeatsIn(m, held, q)
<1> DEFINE Points == {Opens(p)} \cup
                       {Opens(m[r]) : r \in {h \in held : Covers(p, Opens(m[h]))}}
           Past   == {x \in Points : x <= t}
<1>1. \A r \in Reservations : /\ m[r].starts \in Int /\ m[r].ends \in Int
                             /\ Opens(m[r]) \in Int /\ Closes(m[r]) \in Int
  BY CapacityAssumption DEF AnySession, Stored, Instants, Opens, Closes
<1>2. Opens(p) \in Int /\ Closes(p) \in Int /\ Opens(p) <= t /\ t < Closes(p)
  BY CapacityAssumption DEF Instants, Opens, Closes, Covers
<1>3. Past \in SUBSET (Opens(p)..t) /\ Opens(p) \in Past
  <2>1. \A x \in Points : x \in Int /\ Opens(p) <= x
    BY <1>1, <1>2 DEF Covers
  <2> QED BY <2>1, <1>2
<1> HIDE DEF Points
<1>4. PICK q \in Past : \A x \in Past : x <= q
  <2>1. Past # {}
    BY <1>3
  <2> HIDE DEF Past
  <2> QED BY <2>1, <1>2, <1>3, Greatest
<1>5. q \in Int /\ Opens(p) <= q /\ q <= t
  BY <1>2, <1>3
<1>6. ASSUME NEW r \in held, Covers(m[r], t) PROVE Covers(m[r], q)
  <2>1. Opens(m[r]) \in Int /\ Closes(m[r]) \in Int /\ Opens(m[r]) <= t /\ t < Closes(m[r])
    BY <1>1, <1>6 DEF Covers
  <2>2. Opens(m[r]) <= q
    <3>1. CASE Opens(m[r]) <= Opens(p)
      BY <3>1, <1>2, <1>5, <2>1
    <3>2. CASE Opens(p) < Opens(m[r])
      <4>1. Covers(p, Opens(m[r]))
        BY <3>2, <1>2, <2>1 DEF Covers
      <4>2. Opens(m[r]) \in Past
        BY <4>1, <2>1 DEF Points
      <4> QED BY <4>2, <1>4
    <3> QED BY <3>1, <3>2, <1>2, <2>1
  <2> QED BY <2>1, <2>2, <1>5 DEF Covers
<1>7. q \in Points
  OBVIOUS
<1> USE DEF Points
<1> WITNESS q \in Points
<1> QED BY <1>6 DEF UsersIn, SeatsIn

\* The check of the code, read on a given map.
FitsIn(m, p, held) ==
    \A t \in {Opens(p)} \cup
              {Opens(m[r]) : r \in {h \in held : Covers(p, Opens(m[h]))}} :
        /\ Cardinality(UsersIn(m, held, t)) + 1 <= SessionLimit
        /\ Cardinality(SeatsIn(m, held, t)) + p.seats <= SeatLimit

\* The seats of one allocation, counted.
LEMMA OwnSeats ==
  ASSUME NEW r, NEW k \in Nat
  PROVE  IsFiniteSet({r} \X (1..k)) /\ Cardinality({r} \X (1..k)) = k
<1> DEFINE A == {r}
           B == 1..k
<1>1. IsFiniteSet(A) /\ Cardinality(A) = 1
  BY FS_Singleton
<1>2. IsFiniteSet(B) /\ Cardinality(B) = k
  BY FS_Interval
<1> HIDE DEF A, B
<1>3. IsFiniteSet(A \X B) /\ Cardinality(A \X B) = Cardinality(A) * Cardinality(B)
  BY <1>1, <1>2, FS_Product
<1> QED BY <1>1, <1>2, <1>3 DEF A, B

\* A candidate that fits is placed without overselling any instant.
LEMMA Placing ==
  ASSUME NEW m \in [Reservations -> AnySession], Sold(m),
         NEW r \in Reservations,
         NEW p, p.starts \in Instants, p.ends \in Instants, p.seats \in Seats, FitsIn(m, p, HeldIn(m) \ {r}),
         NEW n, n = [m EXCEPT ![r] = WithStatus(p, "scheduled")]
  PROVE  Sold(n)
<1> DEFINE H == HeldIn(m) \ {r}
<1>1. H \in SUBSET Reservations /\ HeldIn(m) \in SUBSET Reservations /\ HeldIn(n) \in SUBSET Reservations
  BY DEF HeldIn
<1>2. /\ n[r].starts = p.starts /\ n[r].ends = p.ends /\ n[r].seats = p.seats
      /\ \A s \in Reservations \ {r} : n[s] = m[s]
      /\ HeldIn(n) \subseteq H \cup {r}
  BY DEF WithStatus, HeldIn, Allocated
<1>3. \A t : Covers(n[r], t) <=> Covers(p, t)
  BY <1>2 DEF Covers, Opens, Closes
<1> SUFFICES ASSUME NEW t \in Promised PROVE Within(n, HeldIn(n), t)
  BY DEF Sold
<1>4. CASE ~ Covers(p, t)
  <2>1. /\ UsersIn(n, HeldIn(n), t) \subseteq UsersIn(m, HeldIn(m), t)
        /\ SeatsIn(n, HeldIn(n), t) \subseteq SeatsIn(m, HeldIn(m), t)
    BY <1>1, <1>2, <1>3, <1>4 DEF UsersIn, SeatsIn
  <2>2. Within(m, HeldIn(m), t)
    BY DEF Sold
  <2> HIDE DEF H
  <2> QED BY <1>1, <2>1, <2>2, Monotone
<1>5. CASE Covers(p, t)
  <2>1. t \in Int
    BY CapacityAssumption DEF Promised
  <2>2. PICK q \in {Opens(p)} \cup
                      {Opens(m[s]) : s \in {h \in H : Covers(p, Opens(m[h]))}} :
            /\ UsersIn(m, H, t) \subseteq UsersIn(m, H, q)
            /\ SeatsIn(m, H, t) \subseteq SeatsIn(m, H, q)
    <3> HIDE DEF H
    <3> QED BY <1>1, <1>5, <2>1, SweepBounds
  <2>3. /\ Cardinality(UsersIn(m, H, q)) + 1 <= SessionLimit
        /\ Cardinality(SeatsIn(m, H, q)) + p.seats <= SeatLimit
    BY <2>2 DEF FitsIn
  <2> HIDE DEF H
  <2> DEFINE own == {r} \X (1..p.seats)
  <2>6. p.seats \in Nat /\ p.seats > 0
    BY CapacityAssumption DEF Seats
  <2>4. /\ UsersIn(n, HeldIn(n), t) \subseteq UsersIn(m, H, q) \cup {r}
        /\ SeatsIn(n, HeldIn(n), t) \subseteq SeatsIn(m, H, q) \cup own
    <3>1. UsersIn(n, HeldIn(n), t) \subseteq UsersIn(m, H, t) \cup {r}
      BY <1>1, <1>2 DEF UsersIn, H
    <3>2. ASSUME NEW z \in SeatsIn(n, HeldIn(n), t)
          PROVE  z \in SeatsIn(m, H, t) \cup own
      <4>1. PICK s \in HeldIn(n), k \in Seats : z = <<s, k>> /\ Covers(n[s], t) /\ k <= n[s].seats
        BY DEF SeatsIn
      <4>2. CASE s = r
        <5>1. k \in 1..p.seats
          BY <4>1, <4>2, <1>2, <2>6 DEF Seats
        <5> QED BY <4>1, <4>2, <5>1
      <4>3. CASE s # r
        <5>1. s \in H /\ n[s] = m[s]
          BY <4>3, <1>1, <1>2
        <5> QED BY <4>1, <5>1 DEF SeatsIn
      <4> QED BY <4>2, <4>3
    <3> QED BY <2>2, <3>1, <3>2
  <2>5. /\ IsFiniteSet(UsersIn(m, H, q)) /\ IsFiniteSet(SeatsIn(m, H, q))
        /\ Cardinality(UsersIn(m, H, q)) \in Nat /\ Cardinality(SeatsIn(m, H, q)) \in Nat
    BY <1>1, Finite, FS_CardinalityType
  <2>7. IsFiniteSet(own) /\ Cardinality(own) = p.seats
    BY <2>6, OwnSeats
  <2> HIDE DEF own
  <2>8. /\ IsFiniteSet(UsersIn(m, H, q) \cup {r})
        /\ Cardinality(UsersIn(m, H, q) \cup {r}) <= Cardinality(UsersIn(m, H, q)) + 1
    <3> DEFINE U == UsersIn(m, H, q)
    <3>1. IsFiniteSet(U) /\ Cardinality(U) \in Nat
      BY <2>5
    <3> HIDE DEF U
    <3>2. /\ IsFiniteSet(U \cup {r})
          /\ Cardinality(U \cup {r}) = IF r \in U THEN Cardinality(U) ELSE Cardinality(U) + 1
      BY <3>1, FS_AddElement, Zenon
    <3>3. Cardinality(U \cup {r}) <= Cardinality(U) + 1
      BY <3>1, <3>2
    <3> QED BY <3>2, <3>3 DEF U
  <2>9. /\ IsFiniteSet(SeatsIn(m, H, q) \cup own)
        /\ Cardinality(SeatsIn(m, H, q) \cup own) <= Cardinality(SeatsIn(m, H, q)) + p.seats
    <3>1. /\ IsFiniteSet(SeatsIn(m, H, q) \cup own)
          /\ Cardinality(SeatsIn(m, H, q) \cup own) =
               Cardinality(SeatsIn(m, H, q)) + Cardinality(own) - Cardinality(SeatsIn(m, H, q) \cap own)
      BY <2>5, <2>7, FS_Union
    <3>2. Cardinality(SeatsIn(m, H, q) \cap own) \in Nat
      BY <2>5, FS_Intersection, FS_CardinalityType
    <3> QED BY <3>1, <3>2, <2>5, <2>6, <2>7
  <2>10. /\ Cardinality(UsersIn(n, HeldIn(n), t)) <= Cardinality(UsersIn(m, H, q) \cup {r})
         /\ Cardinality(SeatsIn(n, HeldIn(n), t)) <= Cardinality(SeatsIn(m, H, q) \cup own)
    BY <2>4, <2>8, <2>9, FS_Subset
  <2>11. /\ Cardinality(UsersIn(n, HeldIn(n), t)) \in Nat
         /\ Cardinality(SeatsIn(n, HeldIn(n), t)) \in Nat
         /\ Cardinality(UsersIn(m, H, q) \cup {r}) \in Nat
         /\ Cardinality(SeatsIn(m, H, q) \cup own) \in Nat
    BY <1>1, <2>8, <2>9, Finite, FS_CardinalityType
  <2> QED BY <2>3, <2>5, <2>6, <2>8, <2>9, <2>10, <2>11, CapacityAssumption DEF Within
<1> QED BY <1>4, <1>5

\* Allocations that keep their windows and seats, with none added, oversell nothing.
LEMMA Releasing ==
  ASSUME NEW m \in [Reservations -> AnySession], Sold(m),
         NEW n \in [Reservations -> AnySession],
         \A r \in Reservations :
            Allocated(n[r]) =>
              /\ Allocated(m[r])
              /\ n[r].starts = m[r].starts /\ n[r].ends = m[r].ends /\ n[r].seats = m[r].seats
  PROVE  Sold(n)
<1>1. HeldIn(m) \in SUBSET Reservations /\ HeldIn(n) \in SUBSET Reservations /\ HeldIn(n) \subseteq HeldIn(m)
  BY DEF HeldIn
<1> SUFFICES ASSUME NEW t \in Promised PROVE Within(n, HeldIn(n), t)
  BY DEF Sold
<1>2. \A r \in HeldIn(n) : n[r].seats = m[r].seats /\ (Covers(n[r], t) <=> Covers(m[r], t))
  BY DEF Covers, Opens, Closes, HeldIn
<1>3. /\ UsersIn(n, HeldIn(n), t) \subseteq UsersIn(m, HeldIn(m), t)
      /\ SeatsIn(n, HeldIn(n), t) \subseteq SeatsIn(m, HeldIn(m), t)
  BY <1>1, <1>2 DEF UsersIn, SeatsIn
<1>4. Within(m, HeldIn(m), t)
  BY DEF Sold
<1> QED BY <1>1, <1>3, <1>4, Monotone

\* What fits among some allocations fits among fewer.
LEMMA FitsFewer ==
  ASSUME NEW m \in [Reservations -> AnySession], NEW held \in SUBSET Reservations,
         NEW p, p.starts \in Instants, p.ends \in Instants, p.seats \in Seats,
         NEW r, FitsIn(m, p, held)
  PROVE  FitsIn(m, p, held \ {r})
<1> DEFINE less == held \ {r}
<1> SUFFICES ASSUME NEW t \in {Opens(p)} \cup
                      {Opens(m[s]) : s \in {h \in less : Covers(p, Opens(m[h]))}}
             PROVE  /\ Cardinality(UsersIn(m, less, t)) + 1 <= SessionLimit
                    /\ Cardinality(SeatsIn(m, less, t)) + p.seats <= SeatLimit
  BY DEF FitsIn
<1>1. /\ Cardinality(UsersIn(m, held, t)) + 1 <= SessionLimit
      /\ Cardinality(SeatsIn(m, held, t)) + p.seats <= SeatLimit
  BY DEF FitsIn
<1>2. /\ UsersIn(m, less, t) \subseteq UsersIn(m, held, t)
      /\ SeatsIn(m, less, t) \subseteq SeatsIn(m, held, t)
  BY DEF UsersIn, SeatsIn
<1>3. less \in SUBSET Reservations
  OBVIOUS
<1> HIDE DEF less
<1>4. /\ IsFiniteSet(UsersIn(m, held, t)) /\ IsFiniteSet(SeatsIn(m, held, t))
      /\ IsFiniteSet(UsersIn(m, less, t)) /\ IsFiniteSet(SeatsIn(m, less, t))
  BY <1>3, Finite
<1>5. /\ Cardinality(UsersIn(m, less, t)) <= Cardinality(UsersIn(m, held, t))
      /\ Cardinality(SeatsIn(m, less, t)) <= Cardinality(SeatsIn(m, held, t))
  BY <1>2, <1>4, FS_Subset
<1>6. /\ Cardinality(UsersIn(m, held, t)) \in Nat /\ Cardinality(SeatsIn(m, held, t)) \in Nat
      /\ Cardinality(UsersIn(m, less, t)) \in Nat /\ Cardinality(SeatsIn(m, less, t)) \in Nat
      /\ p.seats \in Nat
  BY <1>4, FS_CardinalityType, CapacityAssumption DEF Seats
<1> QED BY <1>1, <1>5, <1>6, CapacityAssumption

-----------------------------------------------------------------------------
\* What the code checks and promises, in terms of a given map.
LEMMA Reading ==
  /\ NeverOversold <=> Sold(sessions)
  /\ \A p : Fits(p, ActiveAllocations) <=> FitsIn(sessions, p, HeldIn(sessions))
  /\ \A p, r : Fits(p, ActiveAllocations \ {r}) <=> FitsIn(sessions, p, HeldIn(sessions) \ {r})
BY DEF NeverOversold, Sold, Within, HeldIn, UsersIn, SeatsIn, UsersAt, SeatsAt,
       ActiveAllocations, Promised, Fits, FitsIn, SweepPoints

\* At first nothing is stored.
LEMMA InitType == Init => TypeOK
BY CapacityAssumption DEF Init, TypeOK, NoPlan, WithStatus, Absent, Stored, Instants, Seats,
   ReservationStatus, EventStatus, SessionStatus, AmendStatus

\* A legal schedule under a status is a record of the stores.
LEMMA Labelled ==
  ASSUME NEW S, NEW st \in S, NEW p,
         p.starts \in Instants, p.ends \in Instants, p.seats \in Seats
  PROVE  WithStatus(p, st) \in Stored(S)
BY DEF WithStatus, Stored

\* Changing only the status of a stored record.
LEMMA Relabelled ==
  ASSUME NEW S, NEW m \in [Reservations -> Stored(S)],
         NEW r \in Reservations, NEW st \in S
  PROVE  [m EXCEPT ![r].status = st] \in [Reservations -> Stored(S)]
BY DEF Stored

(***************************************************************************)
(* The invariant: the type, and no instant oversold.                       *)
(***************************************************************************)
Capacity == TypeOK /\ NeverOversold

LEMMA InitCapacity == Init => Capacity
<1> SUFFICES ASSUME Init PROVE Capacity
  OBVIOUS
<1>1. TypeOK
  BY InitType
<1>2. ActiveAllocations = {}
  BY DEF Init, ActiveAllocations, Allocated, NoPlan, WithStatus
<1>3. \A t : UsersAt({}, t) = {} /\ SeatsAt({}, t) = {}
  BY DEF UsersAt, SeatsAt
<1>4. Cardinality({}) = 0
  BY FS_EmptySet
<1> QED BY <1>1, <1>2, <1>3, <1>4, CapacityAssumption DEF Capacity, NeverOversold

\* Every step keeps the type.
LEMMA StepType == TypeOK /\ [Next]_vars => TypeOK'
<1> SUFFICES ASSUME TypeOK, [Next]_vars PROVE TypeOK'
  OBVIOUS
<1> USE DEF TypeOK
<1>1. ASSUME NEW r \in Reservations, NEW p \in LegalSchedules, CreateReservation(r, p) PROVE TypeOK'
  <2>1. WithStatus(p, "draft") \in Stored(ReservationStatus)
    BY Labelled DEF LegalSchedules, Schedule, ReservationStatus
  <2> QED BY <1>1, <2>1 DEF CreateReservation
<1>2. ASSUME NEW r \in Reservations, NEW p \in LegalSchedules, UpdateReservation(r, p) PROVE TypeOK'
  <2>1. WithStatus(p, "draft") \in Stored(ReservationStatus)
    BY Labelled DEF LegalSchedules, Schedule, ReservationStatus
  <2> QED BY <1>2, <2>1 DEF UpdateReservation
<1>3. ASSUME NEW r \in Reservations, NEW p \in LegalSchedules, SubmitChangeRequest(r, p) PROVE TypeOK'
  <2>1. WithStatus(p, "pending") \in Stored(AmendStatus)
    BY Labelled DEF LegalSchedules, Schedule, AmendStatus
  <2> QED BY <1>3, <2>1 DEF SubmitChangeRequest
<1>4. ASSUME NEW r \in Reservations, SubmitReservation(r) PROVE TypeOK'
  <2>1. "submitted" \in ReservationStatus
    BY DEF ReservationStatus
  <2> QED BY <1>4, <2>1, Relabelled DEF SubmitReservation
<1>5. ASSUME NEW r \in Reservations, CancelReservation(r) PROVE TypeOK'
  <2>1. "cancelled" \in ReservationStatus
    BY DEF ReservationStatus
  <2> QED BY <1>5, <2>1, Relabelled DEF CancelReservation
<1>6. ASSUME NEW r \in Reservations, RejectReservation(r) PROVE TypeOK'
  <2>1. "rejected" \in ReservationStatus
    BY DEF ReservationStatus
  <2> QED BY <1>6, <2>1, Relabelled DEF RejectReservation
<1>7. ASSUME NEW r \in Reservations, RejectChangeRequest(r) PROVE TypeOK'
  <2>1. "rejected" \in AmendStatus
    BY DEF AmendStatus
  <2> QED BY <1>7, <2>1, Relabelled DEF RejectChangeRequest
<1>8. ASSUME NEW r \in Reservations, CancelApprovedEvent(r) PROVE TypeOK'
  <2>1. /\ "cancelled" \in ReservationStatus /\ "cancelled" \in EventStatus
        /\ "cancelled" \in SessionStatus
    BY DEF ReservationStatus, EventStatus, SessionStatus
  <2>2. /\ reservations' \in [Reservations -> Stored(ReservationStatus)]
        /\ events' \in [Reservations -> Stored(EventStatus)]
        /\ sessions' \in [Reservations -> Stored(SessionStatus)]
    BY <1>8, <2>1, Relabelled DEF CancelApprovedEvent
  <2>3. amends' \in [Reservations -> Stored(AmendStatus)]
    <3> DEFINE st == IF amends[r].status = "pending" THEN "rejected" ELSE amends[r].status
    <3>1. st \in AmendStatus
      BY DEF AmendStatus, Stored
    <3>2. amends' = [amends EXCEPT ![r].status = st]
      BY <1>8 DEF CancelApprovedEvent
    <3> HIDE DEF st
    <3> QED BY <3>1, <3>2, Relabelled
  <2> QED BY <1>8, <2>2, <2>3 DEF CancelApprovedEvent
<1>9. ASSUME NEW r \in Reservations, ApproveReservation(r) PROVE TypeOK'
  <2> DEFINE p == reservations[r]
  <2>1. p.starts \in Instants /\ p.ends \in Instants /\ p.seats \in Seats
    BY DEF Stored
  <2>2. /\ "approved" \in ReservationStatus /\ "active" \in EventStatus
        /\ "scheduled" \in SessionStatus
    BY DEF ReservationStatus, EventStatus, SessionStatus
  <2>3. /\ WithStatus(p, "active") \in Stored(EventStatus)
        /\ WithStatus(p, "scheduled") \in Stored(SessionStatus)
    BY <2>1, <2>2, Labelled
  <2>4. reservations' \in [Reservations -> Stored(ReservationStatus)]
    BY <1>9, <2>2, Relabelled DEF ApproveReservation
  <2> QED BY <1>9, <2>3, <2>4 DEF ApproveReservation
<1>10. ASSUME NEW r \in Reservations, ApproveChangeRequest(r) PROVE TypeOK'
  <2> DEFINE p == amends[r]
  <2>1. p.starts \in Instants /\ p.ends \in Instants /\ p.seats \in Seats
    BY DEF Stored
  <2>2. /\ "approved" \in ReservationStatus /\ "active" \in EventStatus
        /\ "scheduled" \in SessionStatus /\ "applied" \in AmendStatus
    BY DEF ReservationStatus, EventStatus, SessionStatus, AmendStatus
  <2>3. /\ WithStatus(p, "approved") \in Stored(ReservationStatus)
        /\ WithStatus(p, "active") \in Stored(EventStatus)
        /\ WithStatus(p, "scheduled") \in Stored(SessionStatus)
    BY <2>1, <2>2, Labelled
  <2>4. amends' \in [Reservations -> Stored(AmendStatus)]
    BY <1>10, <2>2, Relabelled DEF ApproveChangeRequest
  <2> QED BY <1>10, <2>3, <2>4 DEF ApproveChangeRequest
<1>11. CASE AdvanceLifecycle
  <2>1. \A r \in Reservations : Advanced(sessions[r]) \in SessionStatus
    BY DEF Advanced, SessionStatus, Stored
  <2>2. \A r \in Reservations : WithStatus(sessions[r], Advanced(sessions[r])) \in Stored(SessionStatus)
    <3> TAKE r \in Reservations
    <3>1. sessions[r].starts \in Instants /\ sessions[r].ends \in Instants /\ sessions[r].seats \in Seats
      BY DEF Stored
    <3> QED BY <2>1, <3>1, Labelled
  <2> QED BY <1>11, <2>2 DEF AdvanceLifecycle
<1>12. CASE Tick
  BY <1>12, CapacityAssumption DEF Tick, Instants
<1>13. CASE UNCHANGED vars
  BY <1>13 DEF vars
<1> QED
  BY <1>1, <1>2, <1>3, <1>4, <1>5, <1>6, <1>7, <1>8, <1>9, <1>10, <1>11, <1>12, <1>13
     DEF Next, StoreStep, HandleCreateReservation, HandleUpdateReservation,
         ServeSubmitReservation, ServeCancelReservation, ServeSubmitChangeRequest,
         HandleDecision, HandleChangeDecision

\* No step oversells an instant.
LEMMA StepCapacity == Capacity /\ [Next]_vars => NeverOversold'
<1> SUFFICES ASSUME Capacity, [Next]_vars PROVE NeverOversold'
  OBVIOUS
<1>1. /\ TypeOK /\ sessions \in [Reservations -> AnySession] /\ Sold(sessions)
  BY Reading DEF Capacity, TypeOK, AnySession
<1>2. TypeOK' /\ sessions' \in [Reservations -> AnySession]
  BY <1>1, StepType DEF TypeOK, AnySession
<1>3. SUFFICES Sold(sessions')
  BY DEF NeverOversold, Sold, Within, HeldIn, UsersIn, SeatsIn, UsersAt, SeatsAt,
         ActiveAllocations, Promised
<1>4. ASSUME NEW r \in Reservations, ApproveReservation(r) PROVE Sold(sessions')
  <2> DEFINE p == reservations[r]
  <2>1. p.starts \in Instants /\ p.ends \in Instants /\ p.seats \in Seats
    BY <1>1 DEF TypeOK, Stored
  <2>2. FitsIn(sessions, p, HeldIn(sessions))
    BY <1>4, Reading DEF ApproveReservation
  <2>3. FitsIn(sessions, p, HeldIn(sessions) \ {r})
    BY <1>1, <2>1, <2>2, FitsFewer DEF HeldIn
  <2>4. sessions' = [sessions EXCEPT ![r] = WithStatus(p, "scheduled")]
    BY <1>4 DEF ApproveReservation
  <2> HIDE DEF p
  <2> QED BY <1>1, <2>1, <2>3, <2>4, Placing
<1>5. ASSUME NEW r \in Reservations, ApproveChangeRequest(r) PROVE Sold(sessions')
  <2> DEFINE p == amends[r]
  <2>1. p.starts \in Instants /\ p.ends \in Instants /\ p.seats \in Seats
    BY <1>1 DEF TypeOK, Stored
  <2>2. FitsIn(sessions, p, HeldIn(sessions) \ {r})
    BY <1>5, Reading DEF ApproveChangeRequest
  <2>3. sessions' = [sessions EXCEPT ![r] = WithStatus(p, "scheduled")]
    BY <1>5 DEF ApproveChangeRequest
  <2> HIDE DEF p
  <2> QED BY <1>1, <2>1, <2>2, <2>3, Placing
<1>6. ASSUME NEW r \in Reservations, CancelApprovedEvent(r) PROVE Sold(sessions')
  <2>1. \A s \in Reservations :
          /\ Allocated(sessions'[s]) => Allocated(sessions[s])
          /\ sessions'[s].starts = sessions[s].starts
          /\ sessions'[s].ends = sessions[s].ends
          /\ sessions'[s].seats = sessions[s].seats
    BY <1>1, <1>6 DEF CancelApprovedEvent, Allocated, AnySession, Stored
  <2> QED BY <1>1, <1>2, <2>1, Releasing
<1>7. CASE AdvanceLifecycle
  <2>1. \A s \in Reservations :
          /\ Allocated(sessions'[s]) => Allocated(sessions[s])
          /\ sessions'[s].starts = sessions[s].starts
          /\ sessions'[s].ends = sessions[s].ends
          /\ sessions'[s].seats = sessions[s].seats
    BY <1>1, <1>7 DEF AdvanceLifecycle, Allocated, Advanced, WithStatus, Absent
  <2> QED BY <1>1, <1>2, <2>1, Releasing
<1>8. CASE UNCHANGED sessions
  BY <1>1, <1>8
<1> QED
  BY <1>4, <1>5, <1>6, <1>7, <1>8
     DEF Next, StoreStep, HandleCreateReservation, HandleUpdateReservation,
         ServeSubmitReservation, ServeCancelReservation, ServeSubmitChangeRequest,
         HandleDecision, HandleChangeDecision, vars, CreateReservation,
         UpdateReservation, SubmitReservation, CancelReservation, RejectReservation,
         SubmitChangeRequest, RejectChangeRequest, Tick

(***************************************************************************)
(* No instant is ever promised to more sessions, or with more seats, than  *)
(* the limits allow (organizers/store.mjs, computeCapacityPeak with        *)
(* approveReservation and approveChangeRequest).                           *)
(***************************************************************************)
THEOREM CapacityHolds == Spec => []NeverOversold
<1>1. Init => Capacity
  BY InitCapacity
<1>2. Capacity /\ [Next]_vars => Capacity'
  BY StepType, StepCapacity DEF Capacity
<1>3. Capacity => NeverOversold
  BY DEF Capacity
<1> QED BY <1>1, <1>2, <1>3, PTL DEF Spec

\* The maps hold what the store writes into them.
THEOREM TypeHolds == Spec => []TypeOK
<1>1. TypeOK /\ [Next]_vars => TypeOK'
  BY StepType
<1> QED BY <1>1, InitType, PTL DEF Spec

-----------------------------------------------------------------------------
\* The part of OneStory about one reservation.
Story(r) ==
    /\ Agree(reservations[r], events[r], sessions[r])
    /\ amends[r].status = "pending" => reservations[r].status = "approved"

\* A step that leaves the records of a reservation alone leaves its story.
LEMMA Untouched ==
  ASSUME NEW s, Story(s),
         reservations'[s] = reservations[s], events'[s] = events[s],
         sessions'[s] = sessions[s], amends'[s] = amends[s]
  PROVE  Story(s)'
BY DEF Story

\* Every step keeps the records of a reservation in agreement.
LEMMA StepStory == TypeOK /\ OneStory /\ [Next]_vars => OneStory'
<1> SUFFICES ASSUME TypeOK, OneStory, [Next]_vars, NEW s \in Reservations PROVE Story(s)'
  BY DEF OneStory, Story
<1>0. Story(s)
  BY DEF OneStory, Story
<1> USE DEF TypeOK, Absent
<1>1. ASSUME NEW r \in Reservations, NEW p \in LegalSchedules, CreateReservation(r, p) PROVE Story(s)'
  <2>1. CASE s = r
    BY <1>0, <1>1, <2>1 DEF CreateReservation, Story, Agree, WithStatus, Stored, ReservationStatus, EventStatus, SessionStatus, AmendStatus
  <2>2. CASE s # r
    BY <1>0, <1>1, <2>2, Untouched DEF CreateReservation
  <2> QED BY <2>1, <2>2
<1>2. ASSUME NEW r \in Reservations, NEW p \in LegalSchedules, UpdateReservation(r, p) PROVE Story(s)'
  <2>1. CASE s = r
    BY <1>0, <1>2, <2>1 DEF UpdateReservation, Story, Agree, WithStatus, Stored, ReservationStatus, EventStatus, SessionStatus, AmendStatus
  <2>2. CASE s # r
    BY <1>0, <1>2, <2>2, Untouched DEF UpdateReservation
  <2> QED BY <2>1, <2>2
<1>3. ASSUME NEW r \in Reservations, NEW p \in LegalSchedules, SubmitChangeRequest(r, p) PROVE Story(s)'
  <2>1. CASE s = r
    BY <1>0, <1>3, <2>1 DEF SubmitChangeRequest, Story, Agree, WithStatus, Stored, ReservationStatus, EventStatus, SessionStatus, AmendStatus
  <2>2. CASE s # r
    BY <1>0, <1>3, <2>2, Untouched DEF SubmitChangeRequest
  <2> QED BY <2>1, <2>2
<1>4. ASSUME NEW r \in Reservations, SubmitReservation(r) PROVE Story(s)'
  <2>1. CASE s = r
    BY <1>0, <1>4, <2>1 DEF SubmitReservation, Story, Agree, WithStatus, Stored, ReservationStatus, EventStatus, SessionStatus, AmendStatus
  <2>2. CASE s # r
    BY <1>0, <1>4, <2>2, Untouched DEF SubmitReservation
  <2> QED BY <2>1, <2>2
<1>5. ASSUME NEW r \in Reservations, CancelReservation(r) PROVE Story(s)'
  <2>1. CASE s = r
    BY <1>0, <1>5, <2>1 DEF CancelReservation, Story, Agree, WithStatus, Stored, ReservationStatus, EventStatus, SessionStatus, AmendStatus
  <2>2. CASE s # r
    BY <1>0, <1>5, <2>2, Untouched DEF CancelReservation
  <2> QED BY <2>1, <2>2
<1>6. ASSUME NEW r \in Reservations, RejectReservation(r) PROVE Story(s)'
  <2>1. CASE s = r
    BY <1>0, <1>6, <2>1 DEF RejectReservation, Story, Agree, WithStatus, Stored, ReservationStatus, EventStatus, SessionStatus, AmendStatus
  <2>2. CASE s # r
    BY <1>0, <1>6, <2>2, Untouched DEF RejectReservation
  <2> QED BY <2>1, <2>2
<1>7. ASSUME NEW r \in Reservations, RejectChangeRequest(r) PROVE Story(s)'
  <2>1. CASE s = r
    BY <1>0, <1>7, <2>1 DEF RejectChangeRequest, Story, Agree, WithStatus, Stored, ReservationStatus, EventStatus, SessionStatus, AmendStatus
  <2>2. CASE s # r
    BY <1>0, <1>7, <2>2, Untouched DEF RejectChangeRequest
  <2> QED BY <2>1, <2>2
<1>8. ASSUME NEW r \in Reservations, CancelApprovedEvent(r) PROVE Story(s)'
  <2>1. CASE s = r
    BY <1>0, <1>8, <2>1, ZenonT(40) DEF CancelApprovedEvent, Story, Agree, WithStatus, Stored, ReservationStatus, EventStatus, SessionStatus, AmendStatus
  <2>2. CASE s # r
    BY <1>0, <1>8, <2>2, Untouched DEF CancelApprovedEvent
  <2> QED BY <2>1, <2>2
<1>9. ASSUME NEW r \in Reservations, ApproveReservation(r) PROVE Story(s)'
  <2>1. CASE s = r
    BY <1>0, <1>9, <2>1, ZenonT(40) DEF ApproveReservation, Story, Agree, WithStatus, Stored, ReservationStatus, EventStatus, SessionStatus, AmendStatus
  <2>2. CASE s # r
    BY <1>0, <1>9, <2>2, Untouched DEF ApproveReservation
  <2> QED BY <2>1, <2>2
<1>10. ASSUME NEW r \in Reservations, ApproveChangeRequest(r) PROVE Story(s)'
  <2>1. CASE s = r
    BY <1>0, <1>10, <2>1 DEF ApproveChangeRequest, Story, Agree, WithStatus, Stored, ReservationStatus, EventStatus, SessionStatus, AmendStatus
  <2>2. CASE s # r
    BY <1>0, <1>10, <2>2, Untouched DEF ApproveChangeRequest
  <2> QED BY <2>1, <2>2
<1>11. CASE AdvanceLifecycle
  BY <1>0, <1>11 DEF AdvanceLifecycle, Advanced, Story, Agree, WithStatus, Stored, ReservationStatus, EventStatus, SessionStatus, AmendStatus
<1>12. CASE Tick \/ UNCHANGED vars
  BY <1>0, <1>12 DEF Tick, vars, Story
<1> QED
  BY <1>1, <1>2, <1>3, <1>4, <1>5, <1>6, <1>7, <1>8, <1>9, <1>10, <1>11, <1>12
     DEF Next, StoreStep, HandleCreateReservation, HandleUpdateReservation,
         ServeSubmitReservation, ServeCancelReservation, ServeSubmitChangeRequest,
         HandleDecision, HandleChangeDecision

(***************************************************************************)
(* A reservation, its event and its session are decided, rescheduled and   *)
(* cancelled together, and a cancelled one leaves no request waiting       *)
(* (approveReservation, approveChangeRequest, cancelApprovedEvent).        *)
(***************************************************************************)
THEOREM StoryHolds == Spec => []OneStory
<1>1. Init => OneStory
  BY DEF Init, OneStory, Agree, NoPlan, WithStatus, Absent
<1>2. TypeOK /\ OneStory /\ [Next]_vars => TypeOK' /\ OneStory'
  BY StepType, StepStory
<1> QED BY <1>1, <1>2, InitType, PTL DEF Spec

-----------------------------------------------------------------------------
(***************************************************************************)
(* The documents.                                                          *)
(***************************************************************************)
Image(res, ev, ses, am) == [reservations : res, events : ev, sessions : ses, amends : am]

Images == Image([Reservations -> Stored(ReservationStatus)],
                [Reservations -> Stored(EventStatus)],
                [Reservations -> Stored(SessionStatus)],
                [Reservations -> Stored(AmendStatus)])

Held == Image(SUBSET Reservations, SUBSET Reservations,
              SUBSET Reservations, SUBSET Reservations)

Calls == [about : Reservations, says : ReservationStatus \ {Absent}]

\* What is stored, what is being written and who waits for it.
StoreTypeOK ==
    /\ TypeOK
    /\ disk \in Images
    /\ job \in [at : 0..5, members : Held, staged : Images]
    /\ queue \in Seq(SUBSET Calls)
    /\ confirmed \subseteq Calls

\* A session has its event and its decided reservation, an amend its session.
Whole(image) ==
    \A r \in Reservations :
        /\ image.sessions[r].status # Absent =>
              /\ image.events[r].status # Absent
              /\ image.reservations[r].status \in {"approved", "cancelled"}
        /\ image.amends[r].status # Absent => image.sessions[r].status # Absent

\* Memory is at the point of an image or past it.
Follows(image) ==
    \A r \in Reservations :
        /\ image.reservations[r].status # Absent =>
              reservations[r].status \in Since(image.reservations[r].status)
        /\ image.events[r].status # Absent => events[r].status # Absent
        /\ image.sessions[r].status # Absent => sessions[r].status # Absent
        /\ image.amends[r].status # Absent => amends[r].status # Absent

\* What calls said is in an image, or something that came after it.
Tells(image, said) ==
    \A c \in said :
        /\ image.reservations[c.about].status \in Since(c.says)
        /\ c.says = "approved" => /\ image.events[c.about].status # Absent
                                  /\ image.sessions[c.about].status # Absent

\* An image a restart may load.
Sound(image) ==
    /\ Whole(image) /\ Follows(image)
    /\ Tells(image, confirmed)
    /\ Sold(image.sessions)

\* An image holds nothing the write under way would leave out.
Inside(image) ==
    /\ Existing(image.reservations) \subseteq job.members.reservations
    /\ Existing(image.events) \subseteq job.members.events
    /\ Existing(image.sessions) \subseteq job.members.sessions
    /\ Existing(image.amends) \subseteq job.members.amends

\* The members of a write are records of the memory that belong together.
Chosen ==
    /\ job.members.reservations \subseteq Existing(reservations)
    /\ job.members.events \subseteq Existing(events)
    /\ job.members.sessions \subseteq
         Existing(sessions) \cap job.members.reservations \cap job.members.events
    /\ job.members.amends \subseteq Existing(amends) \cap job.members.sessions
    /\ \A c \in Head(queue) :
          /\ c.about \in job.members.reservations
          /\ c.says = "approved" => c.about \in job.members.sessions

\* The documents written so far say what the members were when the write began,
\* or something later.
Written ==
    /\ job.at > 1 =>
          /\ \A r \in job.members.sessions :
                job.staged.reservations[r].status \in {"approved", "cancelled"}
          /\ \A c \in Head(queue) :
                job.staged.reservations[c.about].status \in Since(c.says)
    /\ job.at > 2 => job.members.events \subseteq Existing(job.staged.events)
    /\ job.at > 3 => job.members.sessions \subseteq Existing(job.staged.sessions)

Writing ==
    /\ queue # << >>
    /\ adapter = "files" => disk = job.staged
    /\ Sound(job.staged)
    /\ Inside(disk) /\ Inside(job.staged)
    /\ Chosen /\ Written

StoreInv ==
    /\ StoreTypeOK
    /\ Whole(Memory) /\ Sold(sessions)
    /\ Sound(disk)
    /\ \A i \in 1..Len(queue) : Tells(Memory, queue[i])
    /\ Busy => Writing

-----------------------------------------------------------------------------
\* What becomes of a status, and then again.
LEMMA Lately ==
  /\ \A a \in ReservationStatus : a \in Since(a)
  /\ \A a, b, c : /\ a \in ReservationStatus \ {Absent} /\ b \in Since(a) /\ c \in Since(b)
                 => c \in Since(a)
  /\ \A a \in ReservationStatus \ {Absent} : \A b \in Since(a) : b # Absent
  /\ \A a \in {"approved", "cancelled"} : Since(a) \subseteq {"approved", "cancelled"}
<1>1. \A a \in ReservationStatus : a \in Since(a)
  BY DEF ReservationStatus, Since, Absent
<1>2. ASSUME NEW a \in ReservationStatus \ {Absent}, NEW b \in Since(a), NEW c \in Since(b)
      PROVE  c \in Since(a)
  BY DEF ReservationStatus, Since, Absent
<1>3. ASSUME NEW a \in ReservationStatus \ {Absent}, NEW b \in Since(a)
      PROVE  b # Absent
  BY DEF ReservationStatus, Since, Absent
<1>4. ASSUME NEW a \in {"approved", "cancelled"} PROVE Since(a) \subseteq {"approved", "cancelled"}
  BY DEF Since
<1> QED BY <1>1, <1>2, <1>3, <1>4

\* The members of a write, document by document.
LEMMA MembersAre ==
  Members = [reservations |-> Existing(reservations), events |-> Existing(events),
             sessions |-> Existing(sessions), amends |-> Existing(amends)]
BY DEF Members, Memory

LEMMA MembersOfDisk ==
  ASSUME disk \in Images
  PROVE  [d \in DOMAIN disk |-> Existing(disk[d])]
           = [reservations |-> Existing(disk.reservations), events |-> Existing(disk.events),
              sessions |-> Existing(disk.sessions), amends |-> Existing(disk.amends)]
BY DEF Images, Image

\* What a write makes of a map.
Cut(members, map) == [r \in Reservations |-> IF r \in members THEN map[r] ELSE NoPlan]

LEMMA PayloadsAre ==
  /\ Payload("reservations") = Cut(job.members.reservations, reservations)
  /\ Payload("events") = Cut(job.members.events, events)
  /\ Payload("sessions") = Cut(job.members.sessions, sessions)
  /\ Payload("amends") = Cut(job.members.amends, amends)
BY DEF Payload, Cut, Memory

\* The empty plan is a record of every store.
LEMMA NoPlanIs ==
  /\ NoPlan.status = Absent
  /\ NoPlan \in Stored(ReservationStatus) /\ NoPlan \in Stored(EventStatus)
  /\ NoPlan \in Stored(SessionStatus) /\ NoPlan \in Stored(AmendStatus)
BY CapacityAssumption DEF NoPlan, WithStatus, Stored, Instants, Seats, Absent,
   ReservationStatus, EventStatus, SessionStatus, AmendStatus

LEMMA CutIs ==
  ASSUME NEW S, NEW map \in [Reservations -> Stored(S)], NEW members, NoPlan \in Stored(S)
  PROVE  /\ Cut(members, map) \in [Reservations -> Stored(S)]
         /\ \A r \in Reservations :
              /\ r \in members => Cut(members, map)[r] = map[r]
              /\ r \notin members => Cut(members, map)[r] = NoPlan
         /\ Existing(Cut(members, map)) \subseteq members
BY NoPlanIs DEF Cut, Existing

(***************************************************************************)
(* What the operations do to the statuses: they move forward, whole        *)
(* records appear together, and the record an operation is about is there. *)
(***************************************************************************)
Forward ==
    /\ \A s \in Reservations :
        /\ reservations[s].status # Absent =>
              reservations'[s].status \in Since(reservations[s].status)
        /\ events[s].status # Absent => events'[s].status # Absent
        /\ sessions[s].status # Absent => sessions'[s].status # Absent
        /\ amends[s].status # Absent => amends'[s].status # Absent
    /\ Whole(Memory')

Said(r) == Tells(Memory', {[about |-> r, says |-> reservations'[r].status]})
             /\ reservations'[r].status # Absent

LEMMA OperationForward ==
  ASSUME TypeOK, Whole(Memory), NEW r \in Reservations, Operation(r)
  PROVE  Forward /\ Said(r) /\ UNCHANGED now
<1> USE DEF TypeOK, Absent, Stored, Forward, Said, Whole, Tells, Memory, Since, WithStatus,
            ReservationStatus, EventStatus, SessionStatus, AmendStatus
<1>1. ASSUME NEW p \in LegalSchedules, CreateReservation(r, p) PROVE Forward /\ Said(r) /\ UNCHANGED now
  BY <1>1 DEF CreateReservation
<1>2. ASSUME NEW p \in LegalSchedules, UpdateReservation(r, p) PROVE Forward /\ Said(r) /\ UNCHANGED now
  BY <1>2 DEF UpdateReservation
<1>3. ASSUME NEW p \in LegalSchedules, SubmitChangeRequest(r, p) PROVE Forward /\ Said(r) /\ UNCHANGED now
  BY <1>3 DEF SubmitChangeRequest
<1>4. CASE SubmitReservation(r)
  BY <1>4 DEF SubmitReservation
<1>5. CASE CancelReservation(r)
  BY <1>5 DEF CancelReservation
<1>6. CASE RejectReservation(r)
  BY <1>6 DEF RejectReservation
<1>7. CASE RejectChangeRequest(r)
  BY <1>7 DEF RejectChangeRequest
<1>8. CASE CancelApprovedEvent(r)
  BY <1>8 DEF CancelApprovedEvent
<1>9. CASE ApproveReservation(r)
  BY <1>9 DEF ApproveReservation
<1>10. CASE ApproveChangeRequest(r)
  BY <1>10 DEF ApproveChangeRequest
<1> QED
  BY <1>1, <1>2, <1>3, <1>4, <1>5, <1>6, <1>7, <1>8, <1>9, <1>10
     DEF Operation, HandleCreateReservation, HandleUpdateReservation,
         ServeSubmitReservation, ServeCancelReservation, ServeSubmitChangeRequest,
         HandleDecision, HandleChangeDecision

LEMMA AdvanceForward ==
  ASSUME TypeOK, Whole(Memory), AdvanceLifecycle
  PROVE  Forward
<1> USE DEF TypeOK, Absent, Stored, Whole, Memory, WithStatus, SessionStatus
<1>1. /\ UNCHANGED <<reservations, events, amends>>
      /\ \A s \in Reservations : sessions'[s].status = Advanced(sessions[s])
  BY DEF AdvanceLifecycle
<1>2. \A s \in Reservations : Advanced(sessions[s]) = Absent <=> sessions[s].status = Absent
  BY DEF Advanced
<1>3. \A s \in Reservations : reservations[s].status \in Since(reservations[s].status)
  BY Lately
<1> QED BY <1>1, <1>2, <1>3 DEF Forward

\* The clock and the records decide about capacity as they do without documents.
LEMMA SoldSteps ==
  ASSUME TypeOK, Sold(sessions), [Next]_vars
  PROVE  TypeOK' /\ Sold(sessions')
<1>1. Capacity
  BY Reading DEF Capacity
<1>2. TypeOK' /\ NeverOversold'
  BY <1>1, StepType, StepCapacity DEF Capacity
<1>3. NeverOversold' => Sold(sessions')
  BY DEF NeverOversold, Sold, Within, HeldIn, UsersIn, SeatsIn, UsersAt, SeatsAt,
         ActiveAllocations, Promised
<1> QED BY <1>2, <1>3

LEMMA SoldCut ==
  ASSUME TypeOK, Sold(sessions), NEW members
  PROVE  Sold(Cut(members, sessions))
<1>1. sessions \in [Reservations -> AnySession] /\ NoPlan \in AnySession
  BY NoPlanIs DEF TypeOK, AnySession
<1>2. /\ Cut(members, sessions) \in [Reservations -> AnySession]
      /\ \A r \in Reservations : /\ r \in members => Cut(members, sessions)[r] = sessions[r]
                                 /\ r \notin members => Cut(members, sessions)[r] = NoPlan
  BY <1>1, CutIs DEF AnySession
<1>3. ~ Allocated(NoPlan)
  BY NoPlanIs DEF Allocated
<1> QED BY <1>1, <1>2, <1>3, Releasing

-----------------------------------------------------------------------------
(***************************************************************************)
(* What is still true after the records moved forward.                     *)
(***************************************************************************)
LEMMA SoundStays ==
  ASSUME TypeOK, Forward, NEW image \in Images, Sound(image),
         UNCHANGED confirmed
  PROVE  /\ Whole(image) /\ Sold(image.sessions) /\ Tells(image, confirmed')
         /\ \A r \in Reservations :
              /\ image.reservations[r].status # Absent =>
                    reservations'[r].status \in Since(image.reservations[r].status)
              /\ image.events[r].status # Absent => events'[r].status # Absent
              /\ image.sessions[r].status # Absent => sessions'[r].status # Absent
              /\ image.amends[r].status # Absent => amends'[r].status # Absent
<1>1. Whole(image) /\ Sold(image.sessions) /\ Tells(image, confirmed')
  BY DEF Sound
<1>2. ASSUME NEW r \in Reservations, image.reservations[r].status # Absent
      PROVE  reservations'[r].status \in Since(image.reservations[r].status)
  <2>1. /\ image.reservations[r].status \in ReservationStatus \ {Absent}
        /\ reservations[r].status \in Since(image.reservations[r].status)
    BY <1>2 DEF Sound, Follows, Images, Image, Stored
  <2>2. reservations[r].status # Absent
    BY <2>1, Lately
  <2>3. reservations'[r].status \in Since(reservations[r].status)
    BY <2>2 DEF Forward
  <2> QED BY <2>1, <2>3, Lately
<1> QED BY <1>1, <1>2 DEF Sound, Follows, Forward

LEMMA TellsStays ==
  ASSUME TypeOK, Forward, NEW said \in SUBSET Calls, Tells(Memory, said)
  PROVE  Tells(Memory', said)
<1> SUFFICES ASSUME NEW c \in said
             PROVE  /\ reservations'[c.about].status \in Since(c.says)
                    /\ c.says = "approved" => /\ events'[c.about].status # Absent
                                              /\ sessions'[c.about].status # Absent
  BY DEF Tells, Memory
<1>1. /\ c.about \in Reservations /\ c.says \in ReservationStatus \ {Absent}
      /\ reservations[c.about].status \in Since(c.says)
      /\ c.says = "approved" => /\ events[c.about].status # Absent
                                /\ sessions[c.about].status # Absent
  BY DEF Tells, Memory, Calls
<1>2. reservations[c.about].status # Absent
  BY <1>1, Lately
<1>3. reservations'[c.about].status \in Since(reservations[c.about].status)
  BY <1>1, <1>2 DEF Forward
<1> QED BY <1>1, <1>3, Lately DEF Forward

\* The images stay sound, and the write under way stays what it is.
LEMMA ImagesStay ==
  ASSUME StoreInv, Forward, UNCHANGED <<adapter, disk, job, confirmed>>,
         queue # << >> => queue' # << >> /\ Head(queue') = Head(queue)
  PROVE  Sound(disk)' /\ (Busy => Writing)'
<1>1. TypeOK /\ disk \in Images /\ job.staged \in Images
  BY DEF StoreInv, StoreTypeOK
<1>2. Sound(disk)'
  BY <1>1, SoundStays DEF StoreInv, Sound, Follows, Whole, Tells
<1>3. ASSUME Busy' PROVE Writing'
  <2>1. Busy /\ Writing
    BY <1>3 DEF Busy, StoreInv
  <2>2. Sound(job.staged)'
    BY <1>1, <2>1, SoundStays DEF Writing, Sound, Follows, Whole, Tells
  <2>3. queue' # << >> /\ Head(queue') = Head(queue) /\ (adapter' = "files" => disk' = job'.staged)
    BY <2>1 DEF Writing
  <2>4. Inside(disk)' /\ Inside(job.staged)' /\ Written'
    BY <2>1, <2>3 DEF Writing, Inside, Written, Existing
  <2>5. Chosen'
    <3>1. /\ Existing(reservations) \subseteq Existing(reservations')
          /\ Existing(events) \subseteq Existing(events')
          /\ Existing(sessions) \subseteq Existing(sessions')
          /\ Existing(amends) \subseteq Existing(amends')
      <4>1. \A r \in Reservations : reservations[r].status \in ReservationStatus
        BY <1>1 DEF TypeOK, Stored
      <4> QED BY <4>1, Lately DEF Existing, Forward
    <3> QED BY <2>1, <2>3, <3>1 DEF Writing, Chosen, Existing
  <2> QED BY <2>2, <2>3, <2>4, <2>5 DEF Writing
<1> QED BY <1>2, <1>3

-----------------------------------------------------------------------------
(***************************************************************************)
(* The steps.                                                              *)
(***************************************************************************)
LEMMA InitStore == StoreInit => StoreInv
<1> SUFFICES ASSUME StoreInit PROVE StoreInv
  OBVIOUS
<1>1. Capacity /\ TypeOK /\ Sold(sessions)
  BY InitCapacity, Reading DEF StoreInit, Capacity
<1>2. disk \in Images
  BY <1>1 DEF StoreInit, Memory, Images, Image, TypeOK
<1>3. job \in [at : 0..5, members : Held, staged : Images] /\ ~ Busy
  <2>1. Members \in Held
    BY MembersAre DEF Held, Image, Existing
  <2> QED BY <1>2, <2>1 DEF StoreInit, Idle, Busy
<1>4. /\ \A r \in Reservations : /\ reservations[r].status = Absent /\ events[r].status = Absent
                                /\ sessions[r].status = Absent /\ amends[r].status = Absent
      /\ disk = Memory
  BY NoPlanIs DEF StoreInit, Init
<1>5. Whole(Memory) /\ Sound(disk)
  BY <1>1, <1>4 DEF StoreInit, Whole, Sound, Follows, Tells, Memory
<1>6. queue \in Seq(SUBSET Calls) /\ Len(queue) = 0 /\ confirmed \subseteq Calls
  BY DEF StoreInit
<1> QED BY <1>1, <1>2, <1>3, <1>5, <1>6 DEF StoreInv, StoreTypeOK

LEMMA OperateKeeps ==
  ASSUME StoreInv, Operate
  PROVE  StoreInv'
<1>1. TypeOK /\ Whole(Memory) /\ Sold(sessions) /\ queue \in Seq(SUBSET Calls)
  BY DEF StoreInv, StoreTypeOK
<1>2. PICK call \in SUBSET Calls :
        /\ queue' = Append(queue, call)
        /\ Forward /\ TypeOK' /\ Sold(sessions') /\ Tells(Memory', call)
  <2>1. ASSUME NEW r \in Reservations, Operation(r),
               EnqueueWrite({[about |-> r, says |-> reservations'[r].status]})
        PROVE  \E call \in SUBSET Calls :
                 /\ queue' = Append(queue, call)
                 /\ Forward /\ TypeOK' /\ Sold(sessions') /\ Tells(Memory', call)
    <3>1. Forward /\ Said(r)
      BY <1>1, <2>1, OperationForward
    <3>2. Next
      BY <2>1 DEF Next, StoreStep, Operation
    <3>3. TypeOK' /\ Sold(sessions')
      BY <1>1, <3>2, SoldSteps
    <3>4. reservations'[r].status \in ReservationStatus \ {Absent}
      BY <3>1, <3>3 DEF Said, TypeOK, Stored
    <3>5. {[about |-> r, says |-> reservations'[r].status]} \in SUBSET Calls
      BY <3>4 DEF Calls
    <3> QED BY <2>1, <3>1, <3>3, <3>5 DEF Said, EnqueueWrite
  <2>2. ASSUME AdvanceLifecycle, EnqueueWrite({})
        PROVE  \E call \in SUBSET Calls :
                 /\ queue' = Append(queue, call)
                 /\ Forward /\ TypeOK' /\ Sold(sessions') /\ Tells(Memory', call)
    <3>1. Forward /\ Next
      BY <1>1, <2>2, AdvanceForward DEF Next, StoreStep
    <3>2. TypeOK' /\ Sold(sessions')
      BY <1>1, <3>1, SoldSteps
    <3>3. {} \in SUBSET Calls /\ Tells(Memory', {})
      BY DEF Tells
    <3> QED BY <2>2, <3>1, <3>2, <3>3 DEF EnqueueWrite
  <2> QED BY <2>1, <2>2 DEF Operate
<1>3. /\ queue' \in Seq(SUBSET Calls) /\ queue' # << >>
      /\ queue # << >> => Head(queue') = Head(queue)
      /\ \A i \in 1..Len(queue') : (i \in 1..Len(queue) /\ queue'[i] = queue[i]) \/ queue'[i] = call
  BY <1>1, <1>2
<1>4. UNCHANGED <<adapter, disk, job, confirmed>>
  BY DEF Operate
<1>5. Sound(disk)' /\ (Busy => Writing)'
  BY <1>2, <1>3, <1>4, ImagesStay
<1>6. ASSUME NEW i \in 1..Len(queue') PROVE Tells(Memory', queue'[i])
  <2>1. CASE i \in 1..Len(queue) /\ queue'[i] = queue[i]
    <3>1. Tells(Memory, queue[i]) /\ queue[i] \in SUBSET Calls
      BY <1>1, <2>1 DEF StoreInv
    <3> QED BY <1>1, <1>2, <2>1, <3>1, TellsStays
  <2> QED BY <1>2, <1>3, <2>1
<1>7. StoreTypeOK'
  BY <1>2, <1>3, <1>4 DEF StoreInv, StoreTypeOK, Images, Held
<1>8. Whole(Memory)' /\ Sold(sessions)'
  BY <1>2 DEF Forward, Whole, Memory, Sold, Within, HeldIn, UsersIn, SeatsIn
<1>9. \A i \in 1..Len(queue') : Tells(Memory, queue[i])'
  BY <1>6 DEF Tells, Memory
<1> QED BY <1>5, <1>7, <1>8, <1>9 DEF StoreInv

LEMMA PersistNowKeeps ==
  ASSUME StoreInv, PersistNow
  PROVE  StoreInv'
<1>1. /\ UNCHANGED <<vars, adapter, disk, queue, confirmed>> /\ queue # << >>
      /\ job' = [at |-> 1, members |-> Members, staged |-> disk]
  BY DEF PersistNow
<1>2. StoreTypeOK /\ Whole(Memory) /\ Sound(disk) /\ Tells(Memory, Head(queue)) /\ Head(queue) \in SUBSET Calls
  BY <1>1 DEF StoreInv, StoreTypeOK
<1>3. /\ job'.at = 1 /\ job'.staged = disk
      /\ job'.members.reservations = Existing(reservations)
      /\ job'.members.events = Existing(events)
      /\ job'.members.sessions = Existing(sessions)
      /\ job'.members.amends = Existing(amends)
      /\ Members \in Held
  BY <1>1, MembersAre DEF Held, Image, Existing
<1>4. StoreTypeOK'
  BY <1>1, <1>2, <1>3 DEF StoreTypeOK, vars, TypeOK, Images, Image, Held
<1>5. Sound(disk)' /\ Sound(job.staged)'
  BY <1>1, <1>2, <1>3 DEF vars, Sound, Whole, Follows, Tells, Sold, Within, HeldIn, UsersIn, SeatsIn
<1>6. Inside(disk)' /\ Inside(job.staged)'
  <2>1. \A r \in Reservations : disk.reservations[r].status # Absent => reservations[r].status # Absent
    BY <1>2, Lately DEF StoreTypeOK, Images, Image, Stored, Sound, Follows
  <2> QED BY <1>1, <1>2, <1>3, <2>1 DEF Inside, Existing, Sound, Follows
<1>7. Chosen'
  <2>1. \A c \in Head(queue) : reservations[c.about].status # Absent /\ c.about \in Reservations
    BY <1>2, Lately DEF Tells, Calls, Memory
  <2>2. /\ Existing(amends) \subseteq Existing(sessions) /\ Existing(sessions) \subseteq Existing(events)
        /\ Existing(sessions) \subseteq Existing(reservations)
    BY <1>2 DEF Whole, Memory, Existing, Absent
  <2> QED BY <1>1, <1>2, <1>3, <2>1, <2>2 DEF Chosen, vars, Existing, Tells, Memory
<1>8. Written'
  BY <1>3 DEF Written
<1>9. (Whole(Memory) /\ Sold(sessions))' /\ \A i \in 1..Len(queue') : Tells(Memory, queue[i])'
  BY <1>1 DEF StoreInv, vars, Whole, Memory, Tells, Sold, Within, HeldIn, UsersIn, SeatsIn
<1> QED BY <1>1, <1>3, <1>4, <1>5, <1>6, <1>7, <1>8, <1>9 DEF StoreInv, Writing

(***************************************************************************)
(* One document: of the images only the part it holds changes, to what     *)
(* memory says of the members.                                             *)
(***************************************************************************)
Rewritten(old, new) ==
    \/ /\ job.at = 1
       /\ new = [old EXCEPT !.reservations = Cut(job.members.reservations, reservations)]
    \/ job.at = 2 /\ new = [old EXCEPT !.events = Cut(job.members.events, events)]
    \/ job.at = 3 /\ new = [old EXCEPT !.sessions = Cut(job.members.sessions, sessions)]
    \/ job.at = 4 /\ new = [old EXCEPT !.amends = Cut(job.members.amends, amends)]

LEMMA OneDocument ==
  ASSUME StoreInv, WriteDocument
  PROVE  /\ Rewritten(job.staged, job'.staged)
         /\ job'.at = job.at + 1 /\ job'.members = job.members
         /\ disk' \in {disk, job'.staged}
         /\ adapter = "files" => disk' = job'.staged
         /\ job.at \in 1..4 /\ Writing
<1>1. job.at \in 1..4 /\ Writing /\ job \in [at : 0..5, members : Held, staged : Images] /\ disk \in Images
  BY DEF StoreInv, StoreTypeOK, WriteDocument, Busy, Documents
<1> DEFINE d == Documents[job.at]
<1>2. /\ job' = [job EXCEPT !.at = @ + 1, !.staged[d] = Payload(d)]
      /\ disk' = IF adapter = "files" THEN [disk EXCEPT ![d] = Payload(d)] ELSE disk
  BY DEF WriteDocument
<1>3. /\ job'.at = job.at + 1 /\ job'.members = job.members
      /\ job'.staged = [job.staged EXCEPT ![d] = Payload(d)]
  BY <1>1, <1>2
<1>4. adapter = "files" => disk' = job'.staged
  BY <1>1, <1>2, <1>3 DEF Writing
<1>5. disk' \in {disk, job'.staged}
  BY <1>2, <1>4
<1>6. Rewritten(job.staged, job'.staged)
  <2>1. /\ job.at = 1 => d = "reservations"
        /\ job.at = 2 => d = "events"
        /\ job.at = 3 => d = "sessions"
        /\ job.at = 4 => d = "amends"
    BY <1>1 DEF Documents
  <2> HIDE DEF d
  <2>2. CASE job.at = 1
    BY <1>3, <2>1, <2>2, PayloadsAre DEF Rewritten
  <2>3. CASE job.at = 2
    BY <1>3, <2>1, <2>3, PayloadsAre DEF Rewritten
  <2>4. CASE job.at = 3
    BY <1>3, <2>1, <2>4, PayloadsAre DEF Rewritten
  <2>5. CASE job.at = 4
    BY <1>3, <2>1, <2>5, PayloadsAre DEF Rewritten
  <2> QED BY <1>1, <2>2, <2>3, <2>4, <2>5
<1> QED BY <1>1, <1>3, <1>4, <1>5, <1>6

\* What a record of a document says when the document is written, or is not.
Turned(written, r, members, map, old, new) ==
    IF written THEN new[r].status = IF r \in members THEN map[r].status ELSE Absent
               ELSE new[r].status = old[r].status

LEMMA CutTurns ==
  ASSUME NEW r \in Reservations, NEW members, NEW map, NEW old
  PROVE  /\ Turned(TRUE, r, members, map, old, Cut(members, map))
         /\ Turned(FALSE, r, members, map, old, old)
BY NoPlanIs DEF Turned, Cut

\* A rewritten image is an image, and oversells nothing.
LEMMA RewrittenIs ==
  ASSUME StoreInv, Writing, job.at \in 1..4,
         NEW new, Rewritten(job.staged, new)
  PROVE  /\ new \in Images
         /\ \A r \in Reservations :
              /\ Turned(job.at = 1, r, job.members.reservations, reservations,
                        job.staged.reservations, new.reservations)
              /\ Turned(job.at = 2, r, job.members.events, events,
                        job.staged.events, new.events)
              /\ Turned(job.at = 3, r, job.members.sessions, sessions,
                        job.staged.sessions, new.sessions)
              /\ Turned(job.at = 4, r, job.members.amends, amends,
                        job.staged.amends, new.amends)
         /\ Sold(new.sessions)
<1> DEFINE old == job.staged
           Res == Cut(job.members.reservations, reservations)
           Ev  == Cut(job.members.events, events)
           Ses == Cut(job.members.sessions, sessions)
           Am  == Cut(job.members.amends, amends)
<1>1. old \in Images /\ TypeOK /\ Sold(old.sessions) /\ Sold(sessions)
  BY DEF StoreInv, StoreTypeOK, Writing, Sound
<1>2. /\ Res \in [Reservations -> Stored(ReservationStatus)]
      /\ Ev \in [Reservations -> Stored(EventStatus)]
      /\ Ses \in [Reservations -> Stored(SessionStatus)]
      /\ Am \in [Reservations -> Stored(AmendStatus)]
  BY <1>1, NoPlanIs, CutIs DEF TypeOK
<1>3. Sold(Ses)
  BY <1>1, SoldCut
<1>4. \/ job.at = 1 /\ new = [old EXCEPT !.reservations = Res]
      \/ job.at = 2 /\ new = [old EXCEPT !.events = Ev]
      \/ job.at = 3 /\ new = [old EXCEPT !.sessions = Ses]
      \/ job.at = 4 /\ new = [old EXCEPT !.amends = Am]
  BY DEF Rewritten
<1>5. \A r \in Reservations :
        /\ Turned(TRUE, r, job.members.reservations, reservations, old.reservations, Res)
        /\ Turned(TRUE, r, job.members.events, events, old.events, Ev)
        /\ Turned(TRUE, r, job.members.sessions, sessions, old.sessions, Ses)
        /\ Turned(TRUE, r, job.members.amends, amends, old.amends, Am)
        /\ Turned(FALSE, r, job.members.reservations, reservations, old.reservations, old.reservations)
        /\ Turned(FALSE, r, job.members.events, events, old.events, old.events)
        /\ Turned(FALSE, r, job.members.sessions, sessions, old.sessions, old.sessions)
        /\ Turned(FALSE, r, job.members.amends, amends, old.amends, old.amends)
  BY CutTurns
<1> HIDE DEF Res, Ev, Ses, Am
<1>6. /\ new \in Images
      /\ new.reservations = IF job.at = 1 THEN Res ELSE old.reservations
      /\ new.events = IF job.at = 2 THEN Ev ELSE old.events
      /\ new.sessions = IF job.at = 3 THEN Ses ELSE old.sessions
      /\ new.amends = IF job.at = 4 THEN Am ELSE old.amends
  BY <1>1, <1>2, <1>4 DEF Images, Image
<1>7. Sold(new.sessions)
  BY <1>1, <1>3, <1>6
<1>8. ASSUME NEW r \in Reservations
      PROVE  /\ Turned(job.at = 1, r, job.members.reservations, reservations,
                       old.reservations, new.reservations)
             /\ Turned(job.at = 2, r, job.members.events, events, old.events, new.events)
             /\ Turned(job.at = 3, r, job.members.sessions, sessions,
                       old.sessions, new.sessions)
             /\ Turned(job.at = 4, r, job.members.amends, amends, old.amends, new.amends)
  BY <1>5, <1>6 DEF Turned
<1> QED BY <1>6, <1>7, <1>8

LEMMA WriteDocumentKeeps ==
  ASSUME StoreInv, WriteDocument
  PROVE  StoreInv'
<1> DEFINE old == job.staged
           new == job'.staged
           members == job.members
<1>1. /\ UNCHANGED <<vars, adapter, queue, confirmed>>
      /\ Rewritten(old, new) /\ job'.at = job.at + 1 /\ job'.members = members
      /\ disk' \in {disk, new}
      /\ adapter = "files" => disk' = new
      /\ job.at \in 1..4 /\ Writing
  BY OneDocument DEF WriteDocument
<1>2. /\ new \in Images /\ Sold(new.sessions)
      /\ \A r \in Reservations :
           /\ Turned(job.at = 1, r, members.reservations, reservations,
                     old.reservations, new.reservations)
           /\ Turned(job.at = 2, r, members.events, events, old.events, new.events)
           /\ Turned(job.at = 3, r, members.sessions, sessions, old.sessions, new.sessions)
           /\ Turned(job.at = 4, r, members.amends, amends, old.amends, new.amends)
  BY <1>1, RewrittenIs
<1>3. /\ StoreTypeOK /\ Whole(Memory) /\ Sound(disk) /\ Sound(old)
      /\ Inside(disk) /\ Inside(old) /\ Chosen /\ Written
  BY <1>1 DEF StoreInv, Writing
<1>4. /\ queue # << >> /\ queue \in Seq(SUBSET Calls)
      /\ Head(queue) \in SUBSET Calls /\ Tells(Memory, Head(queue))
  BY <1>1, <1>3 DEF StoreInv, StoreTypeOK, Writing
<1>5. \A r \in members.sessions :
         /\ r \in Reservations /\ r \in members.reservations /\ r \in members.events
         /\ events[r].status # Absent /\ sessions[r].status # Absent
         /\ reservations[r].status \in {"approved", "cancelled"}
  BY <1>3 DEF Chosen, Existing, Whole, Memory
<1>6. \A r \in members.events : r \in Reservations /\ events[r].status # Absent
  BY <1>3 DEF Chosen, Existing
<1>7. \A r \in members.amends :
         r \in Reservations /\ amends[r].status # Absent /\ r \in members.sessions
  BY <1>3 DEF Chosen, Existing
<1>8. \A r \in members.reservations : r \in Reservations /\ reservations[r].status # Absent
  BY <1>3 DEF Chosen, Existing
<1>9. \A r \in Reservations :
         /\ old.reservations[r].status # Absent => r \in members.reservations
         /\ old.events[r].status # Absent => r \in members.events
         /\ old.sessions[r].status # Absent => r \in members.sessions
         /\ old.amends[r].status # Absent => r \in members.amends
  BY <1>3 DEF Inside, Existing
<1>10. \A r \in Reservations :
         /\ reservations[r].status \in ReservationStatus
         /\ old.reservations[r].status \in ReservationStatus
  BY <1>3 DEF StoreTypeOK, TypeOK, Images, Image, Stored
<1>11. /\ job.at > 1 =>
             /\ \A r \in members.sessions : old.reservations[r].status \in {"approved", "cancelled"}
             /\ \A c \in Head(queue) : old.reservations[c.about].status \in Since(c.says)
       /\ job.at > 2 => \A r \in members.events : old.events[r].status # Absent
       /\ job.at > 3 => \A r \in members.sessions : old.sessions[r].status # Absent
  BY <1>3 DEF Written, Existing
<1> HIDE DEF old, new, members
<1>12. ASSUME NEW r \in Reservations, new.sessions[r].status # Absent
       PROVE  /\ new.events[r].status # Absent
              /\ new.reservations[r].status \in {"approved", "cancelled"}
  <2>1. r \in members.sessions
    BY <1>2, <1>9, <1>12 DEF Turned
  <2>2. new.events[r].status # Absent
    BY <1>1, <1>2, <1>3, <1>5, <1>11, <1>12, <2>1 DEF Turned, Sound, Whole
  <2>3. new.reservations[r].status \in {"approved", "cancelled"}
    BY <1>1, <1>2, <1>3, <1>5, <1>11, <1>12, <2>1 DEF Turned, Sound, Whole
  <2> QED BY <2>2, <2>3
<1>13. ASSUME NEW r \in Reservations, new.amends[r].status # Absent
       PROVE  new.sessions[r].status # Absent
  <2>1. r \in members.sessions /\ r \in members.amends
    BY <1>2, <1>7, <1>9, <1>13 DEF Turned
  <2> QED BY <1>1, <1>2, <1>3, <1>5, <1>11, <1>13, <2>1 DEF Turned, Sound, Whole
<1>14. Whole(new)
  BY <1>12, <1>13 DEF Whole
<1>15. Follows(new)
  <2>1. \A r \in Reservations : reservations[r].status \in Since(reservations[r].status)
    BY <1>10, Lately
  <2> QED BY <1>2, <1>3, <1>5, <1>6, <1>7, <2>1 DEF Turned, Sound, Follows
<1>16. ASSUME NEW c \in Calls, old.reservations[c.about].status \in Since(c.says)
       PROVE  new.reservations[c.about].status \in Since(c.says)
  <2>1. /\ c.about \in Reservations /\ c.says \in ReservationStatus \ {Absent}
        /\ old.reservations[c.about].status # Absent
    BY <1>16, Lately DEF Calls
  <2>2. reservations[c.about].status \in Since(old.reservations[c.about].status)
    BY <1>3, <2>1 DEF Sound, Follows
  <2>3. reservations[c.about].status \in Since(c.says)
    BY <1>16, <2>1, <2>2, Lately
  <2> QED BY <1>2, <1>9, <1>16, <2>1, <2>3 DEF Turned
<1>17. Tells(new, confirmed)
  <2>1. confirmed \subseteq Calls /\ Tells(old, confirmed)
    BY <1>3 DEF StoreTypeOK, Sound
  <2>2. ASSUME NEW c \in confirmed, c.says = "approved"
        PROVE  new.events[c.about].status # Absent /\ new.sessions[c.about].status # Absent
    <3>1. /\ c.about \in Reservations
          /\ old.events[c.about].status # Absent /\ old.sessions[c.about].status # Absent
      BY <2>1, <2>2 DEF Tells, Calls
    <3> QED BY <1>2, <1>5, <1>6, <1>9, <3>1 DEF Turned
  <2> QED BY <1>16, <2>1, <2>2 DEF Tells
<1>18. Sound(new)
  BY <1>2, <1>14, <1>15, <1>17 DEF Sound
<1>19. \A r \in Reservations :
         /\ new.reservations[r].status # Absent => r \in members.reservations
         /\ new.events[r].status # Absent => r \in members.events
         /\ new.sessions[r].status # Absent => r \in members.sessions
         /\ new.amends[r].status # Absent => r \in members.amends
  BY <1>2, <1>9 DEF Turned
<1>20. Sound(disk') /\ Sound(new) /\ Inside(disk') /\ Inside(new)
  <2>1. Sound(disk) /\ Inside(disk) /\ disk' \in {disk, new}
    BY <1>1, <1>3
  <2>2. Inside(new)
    BY <1>19 DEF Inside, Existing, members
  <2> QED BY <1>18, <2>1, <2>2
<1>21. /\ UNCHANGED <<reservations, events, sessions, amends, now>>
       /\ new = job'.staged /\ job'.members = job.members
  BY <1>1 DEF vars, new, members
<1>22. Sound(disk)' /\ Inside(disk)'
  BY <1>1, <1>20, <1>21
     DEF Sound, Whole, Follows, Tells, Sold, Within, HeldIn, UsersIn, SeatsIn, Inside, Existing
<1>23. Sound(job.staged)' /\ Inside(job.staged)'
  BY <1>1, <1>20, <1>21
     DEF Sound, Whole, Follows, Tells, Sold, Within, HeldIn, UsersIn, SeatsIn, Inside, Existing
<1>24. Chosen'
  BY <1>1, <1>3, <1>21 DEF Chosen, Existing
<1>25. /\ job.at >= 1 =>
             /\ \A r \in members.sessions : new.reservations[r].status \in {"approved", "cancelled"}
             /\ \A c \in Head(queue) : new.reservations[c.about].status \in Since(c.says)
       /\ job.at >= 2 => \A r \in members.events : new.events[r].status # Absent
       /\ job.at >= 3 => \A r \in members.sessions : new.sessions[r].status # Absent
  <2>1. ASSUME NEW r \in members.sessions
        PROVE  new.reservations[r].status \in {"approved", "cancelled"}
    BY <1>1, <1>2, <1>5, <1>11 DEF Turned
  <2>2. ASSUME NEW c \in Head(queue)
        PROVE  new.reservations[c.about].status \in Since(c.says)
    <3>1. CASE job.at = 1
      <4>1. /\ c.about \in Reservations /\ c.about \in members.reservations
            /\ reservations[c.about].status \in Since(c.says)
        BY <1>3, <1>4 DEF Chosen, members, Calls, Tells, Memory
      <4> QED BY <1>2, <3>1, <4>1 DEF Turned
    <3>2. CASE job.at > 1
      BY <1>4, <1>11, <1>16, <3>2
    <3> QED BY <1>1, <3>1, <3>2
  <2>3. ASSUME NEW r \in members.events, job.at >= 2
        PROVE  new.events[r].status # Absent
    BY <1>1, <1>2, <1>6, <1>11, <2>3 DEF Turned
  <2>4. ASSUME NEW r \in members.sessions, job.at >= 3
        PROVE  new.sessions[r].status # Absent
    BY <1>1, <1>2, <1>5, <1>11, <2>4 DEF Turned
  <2> QED BY <2>1, <2>2, <2>3, <2>4
<1>26. Written'
  <2>1. /\ job.at >= 2 => members.events \subseteq Existing(new.events)
        /\ job.at >= 3 => members.sessions \subseteq Existing(new.sessions)
    BY <1>5, <1>6, <1>25 DEF Existing
  <2> QED BY <1>1, <1>21, <1>25, <2>1 DEF Written, members, Existing
<1>27. Writing'
  BY <1>1, <1>4, <1>21, <1>22, <1>23, <1>24, <1>26 DEF Writing
<1>28. StoreTypeOK'
  <2>1. job' \in [at : 0..5, members : Held, staged : Images]
    <3>1. job \in [at : 0..5, members : Held, staged : Images]
      BY <1>3 DEF StoreTypeOK
    <3>2. job' = [at |-> job'.at, members |-> job'.members, staged |-> job'.staged]
      BY <3>1 DEF WriteDocument
    <3> QED BY <1>1, <1>2, <1>21, <3>1, <3>2
  <2>2. disk' \in Images
    BY <1>1, <1>2, <1>3 DEF StoreTypeOK
  <2> QED BY <1>1, <1>3, <1>21, <2>1, <2>2 DEF StoreTypeOK, TypeOK, Images, Held
<1>29. (Whole(Memory) /\ Sold(sessions))' /\ \A i \in 1..Len(queue') : Tells(Memory, queue[i])'
  BY <1>1, <1>21 DEF StoreInv, Whole, Memory, Tells, Sold, Within, HeldIn, UsersIn, SeatsIn
<1> QED BY <1>22, <1>27, <1>28, <1>29 DEF StoreInv

\* The write is done: what its caller said is stored.
LEMMA WriteDoneKeeps ==
  ASSUME StoreInv, WriteDone
  PROVE  StoreInv'
<1>1. /\ UNCHANGED <<reservations, events, sessions, amends, now>>
      /\ Writing /\ job.at = 5 /\ queue # << >> /\ queue \in Seq(SUBSET Calls)
      /\ queue' = Tail(queue) /\ confirmed' = confirmed \cup Head(queue)
      /\ StoreTypeOK
  BY DEF StoreInv, StoreTypeOK, WriteDone, Busy, Documents, Writing, vars
<1>2. disk' = job.staged /\ disk' \in Images
  BY <1>1 DEF WriteDone, Writing, StoreTypeOK
<1>3. job' \in [at : 0..5, members : Held, staged : Images] /\ ~ Busy'
  <2>1. job' = [at |-> 0, members |-> Members, staged |-> disk'] /\ Members \in Held
    BY MembersAre DEF WriteDone, Held, Image, Existing
  <2> QED BY <1>2, <2>1 DEF Busy
<1>4. Head(queue) \in SUBSET Calls /\ queue' \in Seq(SUBSET Calls)
      /\ \A i \in 1..Len(queue') : i + 1 \in 1..Len(queue) /\ queue'[i] = queue[i + 1]
  BY <1>1
<1>5. StoreTypeOK'
  BY <1>1, <1>2, <1>3, <1>4 DEF StoreTypeOK, TypeOK, Images, Held
<1>6. Tells(job.staged, Head(queue))
  <2> SUFFICES ASSUME NEW c \in Head(queue)
               PROVE  /\ job.staged.reservations[c.about].status \in Since(c.says)
                      /\ c.says = "approved" =>
                            /\ job.staged.events[c.about].status # Absent
                            /\ job.staged.sessions[c.about].status # Absent
    BY DEF Tells
  <2>1. job.staged.reservations[c.about].status \in Since(c.says)
    BY <1>1 DEF Writing, Written
  <2>2. c.says = "approved" => c.about \in job.members.sessions
    BY <1>1 DEF Writing, Chosen
  <2>3. \A r \in job.members.sessions : /\ job.staged.events[r].status # Absent
                                       /\ job.staged.sessions[r].status # Absent
    BY <1>1 DEF Writing, Written, Chosen, Existing
  <2> QED BY <2>1, <2>2, <2>3
<1>7. Sound(disk)'
  <2>1. Sound(job.staged)
    BY <1>1 DEF Writing
  <2>2. Tells(job.staged, confirmed')
    BY <1>1, <1>6, <2>1 DEF Sound, Tells
  <2> QED BY <1>1, <1>2, <2>1, <2>2
         DEF Sound, Whole, Follows, Tells, Sold, Within, HeldIn, UsersIn, SeatsIn
<1>8. \A i \in 1..Len(queue') : Tells(Memory, queue[i])'
  <2>1. \A i \in 1..Len(queue') : Tells(Memory, queue'[i])
    BY <1>4 DEF StoreInv
  <2> QED BY <1>1, <2>1 DEF Tells, Memory
<1>9. (Whole(Memory) /\ Sold(sessions))'
  BY <1>1 DEF StoreInv, Whole, Memory, Sold, Within, HeldIn, UsersIn, SeatsIn
<1> QED BY <1>3, <1>5, <1>7, <1>8, <1>9 DEF StoreInv

LEMMA WriteFailsKeeps ==
  ASSUME StoreInv, WriteFails
  PROVE  StoreInv'
<1>1. /\ UNCHANGED <<reservations, events, sessions, amends, now, disk, confirmed>>
      /\ queue # << >> /\ queue \in Seq(SUBSET Calls) /\ queue' = Tail(queue)
      /\ StoreTypeOK
  BY DEF StoreInv, StoreTypeOK, WriteFails, Busy, Writing, vars
<1>2. job' \in [at : 0..5, members : Held, staged : Images] /\ ~ Busy'
  <2>1. job' = [at |-> 0, members |-> Members, staged |-> disk] /\ Members \in Held
    BY MembersAre DEF WriteFails, Idle, Held, Image, Existing
  <2> QED BY <1>1, <2>1 DEF Busy, StoreTypeOK
<1>3. queue' \in Seq(SUBSET Calls)
      /\ \A i \in 1..Len(queue') : i + 1 \in 1..Len(queue) /\ queue'[i] = queue[i + 1]
  BY <1>1
<1>4. StoreTypeOK'
  BY <1>1, <1>2, <1>3 DEF StoreTypeOK, TypeOK, Images, Held
<1>5. \A i \in 1..Len(queue') : Tells(Memory, queue[i])'
  <2>1. \A i \in 1..Len(queue') : Tells(Memory, queue'[i])
    BY <1>3 DEF StoreInv
  <2> QED BY <1>1, <2>1 DEF Tells, Memory
<1>6. (Whole(Memory) /\ Sold(sessions) /\ Sound(disk))'
  BY <1>1 DEF StoreInv, Sound, Whole, Follows, Tells, Memory, Sold, Within, HeldIn, UsersIn, SeatsIn
<1> QED BY <1>2, <1>4, <1>5, <1>6 DEF StoreInv

\* What is stored is a state the process may run on with.
LEMMA RestartKeeps ==
  ASSUME StoreInv, Restart
  PROVE  StoreInv'
<1>1. /\ reservations' = disk.reservations /\ events' = disk.events
      /\ sessions' = disk.sessions /\ amends' = disk.amends
      /\ UNCHANGED <<now, disk, confirmed>> /\ queue' = << >>
      /\ StoreTypeOK /\ Sound(disk)
  BY DEF StoreInv, Restart
<1>2. job' \in [at : 0..5, members : Held, staged : Images] /\ ~ Busy'
  <2>1. [d \in DOMAIN disk |-> Existing(disk[d])] \in Held
    BY <1>1, MembersOfDisk DEF StoreTypeOK, Held, Image, Existing
  <2> QED BY <1>1, <2>1 DEF Restart, Busy, StoreTypeOK
<1>3. StoreTypeOK'
  BY <1>1, <1>2 DEF StoreTypeOK, TypeOK, Images, Image, Held
<1>4. Whole(Memory)' /\ Whole(disk)'
  BY <1>1 DEF Sound, Whole, Memory
<1>5. Sold(sessions)' /\ Sold(disk.sessions)'
  BY <1>1 DEF Sound, Sold, Within, HeldIn, UsersIn, SeatsIn
<1>6. Tells(disk, confirmed)'
  BY <1>1 DEF Sound, Tells
<1>7. Follows(disk)'
  <2>1. \A r \in Reservations : disk.reservations[r].status \in ReservationStatus
    BY <1>1 DEF StoreTypeOK, Images, Image, Stored
  <2> QED BY <1>1, <2>1, Lately DEF Follows
<1>8. Len(queue') = 0
  BY <1>1
<1> QED BY <1>2, <1>3, <1>4, <1>5, <1>6, <1>7, <1>8 DEF StoreInv, Sound

LEMMA RestKeeps ==
  ASSUME StoreInv,
         UNCHANGED <<reservations, events, sessions, amends, storeVars>>, now' \in Instants
  PROVE  StoreInv'
<1>1. UNCHANGED <<disk, job, queue, confirmed, adapter>>
  BY DEF storeVars
<1>2. StoreTypeOK'
  BY <1>1 DEF StoreInv, StoreTypeOK, TypeOK, Images, Held
<1>3. (Whole(Memory) /\ Sold(sessions) /\ Sound(disk))'
      /\ \A i \in 1..Len(queue') : Tells(Memory, queue[i])'
  BY <1>1 DEF StoreInv, Sound, Whole, Follows, Tells, Memory, Sold, Within, HeldIn, UsersIn, SeatsIn
<1>4. (Busy => Writing)'
  BY <1>1, ZenonT(40) DEF StoreInv, Busy, Writing, Sound, Whole, Follows, Tells, Sold, Within, HeldIn,
          UsersIn, SeatsIn, Inside, Chosen, Written, Existing
<1> QED BY <1>2, <1>3, <1>4 DEF StoreInv

LEMMA StoreInvHolds == StoreSpec => []StoreInv
<1>1. ASSUME StoreInv, [StoreNext]_allVars PROVE StoreInv'
  <2>1. CASE Operate
    BY <1>1, <2>1, OperateKeeps
  <2>2. CASE PersistNow
    BY <1>1, <2>2, PersistNowKeeps
  <2>3. CASE WriteDocument
    BY <1>1, <2>3, WriteDocumentKeeps
  <2>4. CASE WriteDone
    BY <1>1, <2>4, WriteDoneKeeps
  <2>5. CASE WriteFails
    BY <1>1, <2>5, WriteFailsKeeps
  <2>6. CASE Restart
    BY <1>1, <2>6, RestartKeeps
  <2>7. CASE Tick /\ UNCHANGED storeVars
    <3>1. now' \in Instants
      BY <1>1, <2>7, CapacityAssumption DEF StoreInv, StoreTypeOK, TypeOK, Tick, Instants
    <3> QED BY <1>1, <2>7, <3>1, RestKeeps DEF Tick
  <2>8. CASE UNCHANGED allVars
    BY <1>1, <2>8, RestKeeps DEF allVars, vars, StoreInv, StoreTypeOK, TypeOK
  <2> QED BY <1>1, <2>1, <2>2, <2>3, <2>4, <2>5, <2>6, <2>7, <2>8 DEF StoreNext, Persist
<1> QED BY <1>1, InitStore, PTL DEF StoreSpec

-----------------------------------------------------------------------------
(***************************************************************************)
(* The shape of the maps, the documents and the queue of writes            *)
(* (organizers/store.mjs, enqueueWrite and persistNow).                    *)
(***************************************************************************)
THEOREM StoreTypes == StoreSpec => []StoreTypeOK
<1>1. StoreInv => StoreTypeOK
  BY DEF StoreInv
<1> QED BY <1>1, StoreInvHolds, PTL

(***************************************************************************)
(* What a caller was told is done is stored, on either adapter, whatever   *)
(* operation overlaps its write and whatever fails or stops before, during *)
(* and after (enqueueWrite, persistNow, writeMany).                        *)
(***************************************************************************)
THEOREM ConfirmedStays == StoreSpec => []ConfirmedIsStored
<1>1. StoreInv => ConfirmedIsStored
  BY DEF StoreInv, Sound, Tells, ConfirmedIsStored
<1> QED BY <1>1, StoreInvHolds, PTL

(***************************************************************************)
(* A stored session has its event and its decided reservation: the order   *)
(* in which persistNow writes the documents.                               *)
(***************************************************************************)
THEOREM SessionsBelong == StoreSpec => []NoOrphanSession
<1>1. StoreInv => NoOrphanSession
  BY DEF StoreInv, Sound, Whole, NoOrphanSession
<1> QED BY <1>1, StoreInvHolds, PTL

(***************************************************************************)
(* No instant is oversold after restarts either: the sessions document is  *)
(* what the store promised at one moment, or less, so that whatever it     *)
(* takes back gives room and takes none (persistNow, approveReservation).  *)
(***************************************************************************)
THEOREM CapacitySurvives == StoreSpec => []NeverOversold
<1>1. StoreInv => NeverOversold
  BY Reading DEF StoreInv
<1> QED BY <1>1, StoreInvHolds, PTL
=============================================================================
