---------------------------- MODULE Reservations ----------------------------
(***************************************************************************)
(* Reservations, the Events and Board Sessions an approval creates, the    *)
(* Change Requests that amend them, and the capacity they share            *)
(* (organizers/store.mjs and the handlers of reservations/routes.mjs).     *)
(*                                                                         *)
(* Every operation of the store checks and changes its maps in one         *)
(* synchronous stretch, so each is one action here; the durable write that *)
(* follows is ReservationStore's subject.  Time is a counter of instants:  *)
(* the lifecycle is not driven by timers but advanced lazily, by whichever *)
(* page or poll comes next, so a session may be read long after its start  *)
(* without having been opened.  A page that advances the lifecycle before  *)
(* it decides awaits the advance, and the clock moves meanwhile: the       *)
(* advance and the decision are separate actions.                          *)
(*                                                                         *)
(* An approval creates one Event and one Board Session, both named here by *)
(* their reservation.                                                      *)
(***************************************************************************)
EXTENDS Integers, FiniteSets

CONSTANTS
    Reservations,   \* the reservations an organizer may draft
    Horizon,        \* bound: the last instant of the clock and of a schedule
    Buffer,         \* HOSTED_CAPACITY_WINDOW_BUFFER_MS
    SessionLimit,   \* HOSTED_MAX_CONCURRENT_BOARD_SESSIONS
    SeatLimit,      \* HOSTED_MAX_CONCURRENT_SEATS
    MaxSeats,       \* HOSTED_MAX_RESERVATION_SEATS
    MaxDuration     \* HOSTED_MAX_EVENT_DURATION_MS

ASSUME CapacityAssumption ==
    /\ IsFiniteSet(Reservations)
    /\ Horizon \in Nat
    /\ Buffer \in Nat
    /\ SessionLimit \in Nat
    /\ SeatLimit \in Nat
    /\ MaxSeats \in Nat \ {0}
    /\ MaxDuration \in Nat

VARIABLES
    now,            \* the service clock
    reservations,   \* reservationsById
    events,         \* eventsById
    sessions,       \* boardSessionsById
    amends          \* changeRequestsById: the latest amend of a reservation

vars == <<now, reservations, events, sessions, amends>>

Instants == 0..Horizon
Seats    == 1..MaxSeats
Schedule == [starts : Instants, ends : Instants, seats : Seats]

\* Nothing is stored under the id yet.
Absent == "absent"

(***************************************************************************)
(* The schedules a form may carry: an end after the start, a bounded       *)
(* duration, a seat count in range.                                        *)
(***************************************************************************)
LegalSchedules ==
    {p \in Schedule : p.starts < p.ends /\ p.ends - p.starts <= MaxDuration}

\* The half-open window of a schedule, with the buffer on both sides.
Opens(p)  == p.starts - Buffer
Closes(p) == p.ends + Buffer
Covers(p, t) == Opens(p) <= t /\ t < Closes(p)

-----------------------------------------------------------------------------
(***************************************************************************)
(* Capacity.  An allocation is a session that is not cancelled.            *)
(***************************************************************************)
Allocated(s) == s.status \notin {Absent, "cancelled"}
ActiveAllocations == {r \in Reservations : Allocated(sessions[r])}

\* The allocations among which an instant is used, and the seats they hold,
\* counted as the pairs of an allocation and one of its seats.
UsersAt(held, t) == {r \in held : Covers(sessions[r], t)}
SeatsAt(held, t) ==
    {q \in held \X Seats : Covers(sessions[q[1]], t) /\ q[2] <= sessions[q[1]].seats}

\* A faulty sweep: only the opening of the candidate's own window.
SweepsTheOpening(p, held) == {Opens(p)}

(***************************************************************************)
(* The peak of a candidate is looked for at the opening of its window and  *)
(* at every opening of another allocation inside it.                       *)
(***************************************************************************)
SweepPoints(p, held) ==
    {Opens(p)} \cup
        {Opens(sessions[r]) : r \in {h \in held : Covers(p, Opens(sessions[h]))}}

Fits(p, held) ==
    \A t \in SweepPoints(p, held) :
        /\ Cardinality(UsersAt(held, t)) + 1 <= SessionLimit
        /\ Cardinality(SeatsAt(held, t)) + p.seats <= SeatLimit

-----------------------------------------------------------------------------
WithStatus(p, status) ==
    [status |-> status, starts |-> p.starts, ends |-> p.ends, seats |-> p.seats]

NoPlan == WithStatus([starts |-> 0, ends |-> 0, seats |-> 1], Absent)

Init ==
    /\ now = 0
    /\ reservations = [r \in Reservations |-> NoPlan]
    /\ events = [r \in Reservations |-> NoPlan]
    /\ sessions = [r \in Reservations |-> NoPlan]
    /\ amends = [r \in Reservations |-> NoPlan]

CreateReservation(r, p) ==
    /\ reservations[r].status = Absent
    /\ reservations' = [reservations EXCEPT ![r] = WithStatus(p, "draft")]
    /\ UNCHANGED <<now, events, sessions, amends>>

UpdateReservation(r, p) ==
    /\ reservations[r].status = "draft"
    /\ reservations' = [reservations EXCEPT ![r] = WithStatus(p, "draft")]
    /\ UNCHANGED <<now, events, sessions, amends>>

SubmitReservation(r) ==
    /\ reservations[r].status = "draft"
    /\ reservations[r].starts > now
    /\ reservations' = [reservations EXCEPT ![r].status = "submitted"]
    /\ UNCHANGED <<now, events, sessions, amends>>

\* A withdrawal: an approved reservation is cancelled elsewhere.
CancelReservation(r) ==
    /\ reservations[r].status \in {"draft", "submitted"}
    /\ reservations' = [reservations EXCEPT ![r].status = "cancelled"]
    /\ UNCHANGED <<now, events, sessions, amends>>

ApproveReservation(r) ==
    LET plan == reservations[r] IN
    /\ plan.status = "submitted"
    /\ plan.starts > now
    /\ Fits(plan, ActiveAllocations)
    /\ reservations' = [reservations EXCEPT ![r].status = "approved"]
    /\ events' = [events EXCEPT ![r] = WithStatus(plan, "active")]
    /\ sessions' = [sessions EXCEPT ![r] = WithStatus(plan, "scheduled")]
    /\ UNCHANGED <<now, amends>>

RejectReservation(r) ==
    /\ reservations[r].status = "submitted"
    /\ reservations' = [reservations EXCEPT ![r].status = "rejected"]
    /\ UNCHANGED <<now, events, sessions, amends>>

(***************************************************************************)
(* An amend is proposed while the session is scheduled; one may be pending *)
(* at a time.                                                              *)
(***************************************************************************)
SubmitChangeRequest(r, p) ==
    /\ reservations[r].status = "approved"
    /\ sessions[r].status = "scheduled"
    /\ amends[r].status # "pending"
    /\ amends' = [amends EXCEPT ![r] = WithStatus(p, "pending")]
    /\ UNCHANGED <<now, reservations, events, sessions>>

(***************************************************************************)
(* Applying it weighs the proposal against every other allocation.  The    *)
(* session's own start is not compared with the clock: only its status     *)
(* says whether it has begun.                                              *)
(***************************************************************************)
ApproveChangeRequest(r) ==
    LET plan == amends[r] IN
    /\ plan.status = "pending"
    /\ reservations[r].status = "approved"
    /\ sessions[r].status = "scheduled"
    /\ plan.starts > now
    /\ Fits(plan, ActiveAllocations \ {r})
    /\ reservations' = [reservations EXCEPT ![r] = WithStatus(plan, "approved")]
    /\ events' = [events EXCEPT ![r] = WithStatus(plan, "active")]
    /\ sessions' = [sessions EXCEPT ![r] = WithStatus(plan, "scheduled")]
    /\ amends' = [amends EXCEPT ![r].status = "applied"]
    /\ UNCHANGED now

RejectChangeRequest(r) ==
    /\ amends[r].status = "pending"
    /\ amends' = [amends EXCEPT ![r].status = "rejected"]
    /\ UNCHANGED <<now, reservations, events, sessions>>

\* A faulty cancellation: the pending amend stays.
LeavesTheRequest(r) ==
    /\ reservations[r].status = "approved"
    /\ sessions[r].status = "scheduled"
    /\ now < sessions[r].starts
    /\ reservations' = [reservations EXCEPT ![r].status = "cancelled"]
    /\ events' = [events EXCEPT ![r].status = "cancelled"]
    /\ sessions' = [sessions EXCEPT ![r].status = "cancelled"]
    /\ UNCHANGED <<now, amends>>

\* A pending amend is rejected with the event it would have changed.
CancelApprovedEvent(r) ==
    /\ reservations[r].status = "approved"
    /\ sessions[r].status = "scheduled"
    /\ now < sessions[r].starts
    /\ reservations' = [reservations EXCEPT ![r].status = "cancelled"]
    /\ events' = [events EXCEPT ![r].status = "cancelled"]
    /\ sessions' = [sessions EXCEPT ![r].status = "cancelled"]
    /\ amends' =
         [amends EXCEPT ![r].status = IF @ = "pending" THEN "rejected" ELSE @]
    /\ UNCHANGED now

(***************************************************************************)
(* One pass opens and closes every session whose time has come; after a    *)
(* long outage a session goes through both boundaries in the same pass.    *)
(***************************************************************************)
Advanced(s) ==
    IF s.status = "scheduled" /\ now >= s.ends /\ now >= s.starts THEN "closing"
    ELSE IF s.status = "scheduled" /\ now >= s.starts THEN "open"
    ELSE IF s.status = "open" /\ now >= s.ends THEN "closing"
    ELSE s.status

AdvanceLifecycle ==
    LET advanced == [r \in Reservations |->
                       WithStatus(sessions[r], Advanced(sessions[r]))]
    IN  /\ advanced # sessions
        /\ sessions' = advanced
        /\ UNCHANGED <<now, reservations, events, amends>>

Tick ==
    /\ now < Horizon
    /\ now' = now + 1
    /\ UNCHANGED <<reservations, events, sessions, amends>>

(***************************************************************************)
(* The handlers: which operation a form reaches, with what the form is     *)
(* asked first.  Every operation looks its records up again by id, so what *)
(* a handler read before it awaited the form decides nothing.              *)
(***************************************************************************)
HandleCreateReservation(r) == \E p \in LegalSchedules : CreateReservation(r, p)

HandleUpdateReservation(r) == \E p \in LegalSchedules : UpdateReservation(r, p)

\* The stored draft is validated again before it is frozen.
ServeSubmitReservation(r) ==
    /\ \E p \in LegalSchedules : WithStatus(p, "draft") = reservations[r]
    /\ SubmitReservation(r)

ServeCancelReservation(r) == CancelApprovedEvent(r) \/ CancelReservation(r)

ServeSubmitChangeRequest(r) ==
    \E p \in LegalSchedules : p.starts > now /\ SubmitChangeRequest(r, p)

HandleDecision(r) == ApproveReservation(r) \/ RejectReservation(r)

HandleChangeDecision(r) == ApproveChangeRequest(r) \/ RejectChangeRequest(r)

StoreStep ==
    \/ \E r \in Reservations :
          \/ HandleCreateReservation(r) \/ HandleUpdateReservation(r)
          \/ ServeSubmitReservation(r) \/ ServeCancelReservation(r)
          \/ ServeSubmitChangeRequest(r)
          \/ HandleDecision(r) \/ HandleChangeDecision(r)
    \/ AdvanceLifecycle

Next == StoreStep \/ Tick

Spec == Init /\ [][Next]_vars

-----------------------------------------------------------------------------
ReservationStatus == {Absent, "draft", "submitted", "approved", "rejected", "cancelled"}
EventStatus   == {Absent, "active", "cancelled"}
SessionStatus == {Absent, "scheduled", "open", "closing", "cancelled"}
AmendStatus   == {Absent, "pending", "applied", "rejected"}

Stored(statuses) ==
    [status : statuses, starts : Instants, ends : Instants, seats : Seats]

\* The maps hold what the store writes into them.
TypeOK ==
    /\ now \in Instants
    /\ reservations \in [Reservations -> Stored(ReservationStatus)]
    /\ events \in [Reservations -> Stored(EventStatus)]
    /\ sessions \in [Reservations -> Stored(SessionStatus)]
    /\ amends \in [Reservations -> Stored(AmendStatus)]

(***************************************************************************)
(* No instant is ever promised to more sessions, or with more seats, than  *)
(* the server has: not only at the points the sweep looks at, and however  *)
(* approvals, amends and cancellations follow one another                  *)
(* (computeCapacityPeak, approveReservation, approveChangeRequest).        *)
(***************************************************************************)
NeverOversold ==
    \A t \in -Buffer..(Horizon + Buffer) :
        /\ Cardinality(UsersAt(ActiveAllocations, t)) <= SessionLimit
        /\ Cardinality(SeatsAt(ActiveAllocations, t)) <= SeatLimit

(***************************************************************************)
(* A reservation, its event and its session tell one story: they exist     *)
(* together, carry one schedule, and are cancelled together; a request     *)
(* still waiting for a decision belongs to an approved reservation.        *)
(***************************************************************************)
Agree(res, ev, ses) ==
    /\ ev.status = "active" <=> res.status = "approved"
    /\ ses.status \in {"scheduled", "open", "closing"} <=> res.status = "approved"
    /\ ev.status = "cancelled" <=> ses.status = "cancelled"
    /\ ev.status = "cancelled" => res.status = "cancelled"
    /\ ev.status # Absent =>
         /\ ev.starts = res.starts /\ ev.ends = res.ends
         /\ WithStatus(ses, "") = WithStatus(res, "")

OneStory ==
    \A r \in Reservations :
        /\ Agree(reservations[r], events[r], sessions[r])
        /\ amends[r].status = "pending" => reservations[r].status = "approved"

=============================================================================
