-------------------------- MODULE ReservationStore --------------------------
(***************************************************************************)
(* The organizer store with its durable documents.  An operation changes   *)
(* the maps in memory and then queues a write of every document            *)
(* (enqueueWrite, persistNow); its caller hears "ok" when that write is    *)
(* done.  One write runs at a time.  Which records a document holds is     *)
(* fixed when the write starts, what they say when their document's turn   *)
(* comes: the payload is made of the live objects.                         *)
(*                                                                         *)
(* The file adapter replaces one document after the other; the PostgreSQL  *)
(* adapter commits them together.  Either may fail, which the caller       *)
(* hears and the memory does not, and the process may stop between any     *)
(* two steps and load what is stored.                                      *)
(***************************************************************************)
EXTENDS Reservations, Sequences

CONSTANTS
    Adapters,    \* subset of {"files", "postgres"}: what storage may be in use
    MaxPending,  \* bound: calls waiting for their write
    MaxFaults    \* bound: failed writes and crashes

VARIABLES
    adapter,
    disk,        \* the stored documents
    job,         \* the write under way
    queue,       \* the calls waiting for a write of their own, in order: of each the
                 \* reservations it is about and what it says of them
    confirmed,   \* what callers were told is done
    behind,      \* the last write failed
    faults

storeVars == <<adapter, disk, job, queue, confirmed, behind, faults>>
allVars   == <<vars, storeVars>>

\* The documents an approval touches, in the order they are written.
Documents == <<"reservations", "events", "sessions", "amends">>
Memory == [reservations |-> reservations, events |-> events,
           sessions |-> sessions, amends |-> amends]

Existing(map) == {r \in Reservations : map[r].status # Absent}

\* The records that exist now; what they say is read later.
Members == [d \in DOMAIN Memory |-> Existing(Memory[d])]
Payload(d) ==
    [r \in Reservations |-> IF r \in job.members[d] THEN Memory[d][r] ELSE NoPlan]

Idle == [at |-> 0, members |-> Members, staged |-> disk]
Busy == job.at > 0

StoreInit ==
    /\ Init
    /\ adapter \in Adapters
    /\ disk = Memory
    /\ job = Idle
    /\ queue = << >>
    /\ confirmed = {}
    /\ behind = FALSE
    /\ faults = 0

\* A faulty queue: a call is content with the write already under way.
JoinsTheWrite(call) ==
    queue' = IF Busy THEN [queue EXCEPT ![1] = @ \cup call] ELSE Append(queue, call)

\* Every operation queues a write of its own.
EnqueueWrite(call) == queue' = Append(queue, call)

Operation(r) ==
    \/ HandleCreateReservation(r) \/ HandleUpdateReservation(r)
    \/ ServeSubmitReservation(r) \/ ServeCancelReservation(r)
    \/ ServeSubmitChangeRequest(r)
    \/ HandleDecision(r) \/ HandleChangeDecision(r)

Operate ==
    /\ Len(queue) < MaxPending
    /\ \/ \E r \in Reservations :
            /\ Operation(r)
            /\ EnqueueWrite({[about |-> r, says |-> reservations'[r].status]})
       \/ AdvanceLifecycle /\ EnqueueWrite({})
    /\ UNCHANGED <<adapter, disk, job, confirmed, behind, faults>>

\* A faulty chain: a failed write lets none run after it.
StopsAfterAFailure ==
    /\ ~Busy /\ queue # << >> /\ ~behind
    /\ job' = [at |-> 1, members |-> Members, staged |-> disk]
    /\ UNCHANGED <<vars, adapter, disk, queue, confirmed, behind, faults>>

\* The next task of the queue fixes the records it will write.
PersistNow ==
    /\ ~Busy /\ queue # << >>
    /\ job' = [at |-> 1, members |-> Members, staged |-> disk]
    /\ UNCHANGED <<vars, adapter, disk, queue, confirmed, behind, faults>>

\* A faulty write: the documents are replaced in the opposite order.
WritesBackwards ==
    /\ Busy /\ job.at <= Len(Documents)
    /\ LET d == Documents[Len(Documents) + 1 - job.at] IN
         /\ job' = [job EXCEPT !.at = @ + 1, !.staged[d] = Payload(d)]
         /\ disk' = IF adapter = "files" THEN [disk EXCEPT ![d] = Payload(d)] ELSE disk
    /\ UNCHANGED <<vars, adapter, queue, confirmed, behind, faults>>

\* One document: a file is replaced at once, a row waits for the commit.
WriteDocument ==
    /\ Busy /\ job.at <= Len(Documents)
    /\ LET d == Documents[job.at] IN
         /\ job' = [job EXCEPT !.at = @ + 1, !.staged[d] = Payload(d)]
         /\ disk' = IF adapter = "files" THEN [disk EXCEPT ![d] = Payload(d)] ELSE disk
    /\ UNCHANGED <<vars, adapter, queue, confirmed, behind, faults>>

\* The last document is there, or committed: the caller is answered.
WriteDone ==
    /\ Busy /\ job.at > Len(Documents)
    /\ disk' = IF adapter = "files" THEN disk ELSE job.staged
    /\ job' = [at |-> 0, members |-> Members, staged |-> disk']
    /\ confirmed' = confirmed \cup Head(queue)
    /\ queue' = Tail(queue)
    /\ behind' = FALSE
    /\ UNCHANGED <<vars, adapter, faults>>

(***************************************************************************)
(* A write fails, at any document or at the commit: its caller hears it,   *)
(* the memory keeps the change, and the chain goes on with the next call.  *)
(***************************************************************************)
WriteFails ==
    /\ Busy /\ faults < MaxFaults
    /\ faults' = faults + 1
    /\ behind' = TRUE
    /\ job' = Idle
    /\ queue' = Tail(queue)
    /\ UNCHANGED <<vars, adapter, disk, confirmed>>

\* The process stops and loads what is stored.
Restart ==
    /\ faults < MaxFaults
    /\ faults' = faults + 1
    /\ reservations' = disk.reservations
    /\ events' = disk.events
    /\ sessions' = disk.sessions
    /\ amends' = disk.amends
    /\ job' = [at |-> 0, staged |-> disk,
               members |-> [d \in DOMAIN disk |-> Existing(disk[d])]]
    /\ queue' = << >>
    /\ behind' = FALSE
    /\ UNCHANGED <<now, adapter, disk, confirmed>>

Persist == PersistNow \/ WriteDocument \/ WriteDone

StoreNext ==
    \/ Operate
    \/ Persist
    \/ WriteFails
    \/ Restart
    \/ Tick /\ UNCHANGED storeVars

\* The event loop runs the queue's tasks, and storage answers.
StoreSpec == StoreInit /\ [][StoreNext]_allVars /\ WF_allVars(Persist)

-----------------------------------------------------------------------------

\* What may have become of a reservation since it was in a status.
Since(status) ==
    CASE status = "draft"     -> {"draft", "submitted", "approved", "rejected", "cancelled"}
      [] status = "submitted" -> {"submitted", "approved", "rejected", "cancelled"}
      [] status = "approved"  -> {"approved", "cancelled"}
      [] OTHER                -> {status}

(***************************************************************************)
(* What a caller was told is done is stored: at no moment would a restart  *)
(* take it back, and a confirmed approval finds its event and its session  *)
(* (enqueueWrite, persistNow, writeMany).                                  *)
(***************************************************************************)
ConfirmedIsStored ==
    \A c \in confirmed :
        /\ disk.reservations[c.about].status \in Since(c.says)
        /\ c.says = "approved" => /\ disk.events[c.about].status # Absent
                                  /\ disk.sessions[c.about].status # Absent

(***************************************************************************)
(* Wherever a write stops, a stored session has its event and its decided  *)
(* reservation: the order of the documents leaves at worst an approval     *)
(* without its session, never a session that belongs to nothing.           *)
(***************************************************************************)
NoOrphanSession ==
    \A r \in Reservations : disk.sessions[r].status # Absent =>
        /\ disk.events[r].status # Absent
        /\ disk.reservations[r].status \in {"approved", "cancelled"}

\* A queue that is full moves on, whatever failed before: no call waits forever.
QueueMoves == Len(queue) = MaxPending ~> Len(queue) < MaxPending

=============================================================================
