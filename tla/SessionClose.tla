---------------------------- MODULE SessionClose ----------------------------
(***************************************************************************)
(* How one Board Session ends: its planned end passes, the writes already  *)
(* admitted drain, and a close pass seals the board, levels its snapshot   *)
(* with its ledger, puts the Private Board Archive object by object and    *)
(* marks the session closed.  Every request that touches the event and the *)
(* timer of the process run a pass, so passes overlap; any step of one may *)
(* fail, documents may fail to be written, and the process may crash       *)
(* anywhere.                                                               *)
(*                                                                         *)
(* The event has one session (store.mjs makes the two together).  The      *)
(* board is what the close pipeline sees of it: the number of writes its   *)
(* ledger holds, whether items are left, the sequence of the stored SVG.   *)
(* An archive object is the sequence it was made at: the canvas, the       *)
(* ledger export and the manifest are functions of the sealed board.       *)
(***************************************************************************)
EXTENDS Integers

CONSTANTS
  Passes,       \* close passes that may overlap
  Horizon,      \* bound: the last instant of the clock
  EndsAt,       \* the planned end of the session
  CloseDrain,   \* HOSTED_BOARD_SESSION_CLOSE_DRAIN_MS
  ArchiveRetry, \* HOSTED_BOARD_SESSION_ARCHIVE_RETRY_MS, 0 to disable
  MaxWrites,    \* bound: writes the board is sent
  MayBeEmptied, \* whether a write may remove the last item
  Quiet,        \* whether days may pass without a write of the store
  MaxFaults     \* bound: failed steps and crashes

ASSUME CloseAssumption ==
  /\ Horizon \in Nat /\ EndsAt \in Nat /\ CloseDrain \in Nat /\ ArchiveRetry \in Nat
  /\ MaxWrites \in Nat /\ MaxFaults \in Nat /\ MayBeEmptied \in BOOLEAN /\ Quiet \in BOOLEAN

VARIABLES
  now,     \* the clock
  session, \* the session record in memory
  stored,  \* the session record of the documents
  pending, \* whether a write of the documents is queued
  board,   \* the board and its files
  objects, \* the archive: object -> the sequence it was made at
  pass,    \* close pass -> its place in closeOne
  faults   \* faults so far

closeVars == <<now, session, stored, pending, board, objects, pass, faults>>

Objects == {"canvas", "ledger", "manifest"}
Missing == -1

(* The steps of a pass from the moment it holds the session in its         *)
(* closesInFlight until it lets it go.                                     *)
Closing == {"sealing", "saving", "validating", "canvas", "ledger", "manifest",
            "marking", "storing", "failed"}

Idle == [at |-> "idle", seq |-> 0]

Init ==
  /\ now = 0
  /\ session = [status |-> "open", key |-> FALSE, finalSeq |-> 0,
                archivedAt |-> 0, failedAt |-> 0, purged |-> FALSE]
  /\ stored = session
  /\ pending = FALSE
  /\ board = [seq |-> 0, ledger |-> 0, items |-> FALSE, saved |-> 0,
              queued |-> 0, sealed |-> FALSE]
  /\ objects = [o \in Objects |-> Missing]
  /\ pass = [p \in Passes |-> Idle]
  /\ faults = 0

(* Bound: none at the last instant, which leaves time for what they delay. *)
Fault == faults < MaxFaults /\ now < Horizon /\ faults' = faults + 1

(* A change of the record and the write it queues behind itself.           *)
Change(record) == session' = record /\ pending' = TRUE

-----------------------------------------------------------------------------
(* The board.                                                              *)

(* The live check lets a write into the acceptance queue while the session *)
(* is open.                                                                *)
Admit ==
  /\ session.status = "open"
  /\ board.seq + board.queued < MaxWrites
  /\ board' = [board EXCEPT !.queued = @ + 1]
  /\ UNCHANGED <<now, session, stored, pending, objects, pass, faults>>

(* The queue hands out a write: recorded and applied, or refused by the    *)
(* seal.                                                                   *)
Accept ==
  /\ board.queued > 0
  /\ \E items \in IF MayBeEmptied THEN BOOLEAN ELSE {TRUE} :
       board' = IF board.sealed
                THEN [board EXCEPT !.queued = @ - 1]
                ELSE [board EXCEPT !.queued = @ - 1, !.seq = @ + 1,
                                   !.ledger = @ + 1, !.items = items]
  /\ UNCHANGED <<now, session, stored, pending, objects, pass, faults>>

(* What a save leaves: the stored SVG at the board's sequence, or no file, *)
(* which reads as sequence zero, when the board has no items.              *)
Saved(b) == [b EXCEPT !.saved = IF b.items THEN b.seq ELSE 0]

(* The save timer of the board.                                            *)
TimerSaves ==
  /\ board # Saved(board)
  /\ board' = Saved(board)
  /\ UNCHANGED <<now, session, stored, pending, objects, pass, faults>>

-----------------------------------------------------------------------------
(* The clock, the documents, the life cycle.                               *)

(* The planned end of the session has passed unnoticed.                    *)
Over == session.status = "open" /\ now >= EndsAt

(* A faulty work queue: a close that failed is never tried again.          *)
DueOnce == session.status = "closing" /\ ~session.key /\ now >= EndsAt + CloseDrain

DueToClose ==
  \/ session.status = "closing" /\ ~session.key /\ now >= EndsAt + CloseDrain
  \/ /\ session.status = "archive_failed"
     /\ ArchiveRetry > 0
     /\ now >= session.failedAt + ArchiveRetry

(* A pass is short, and the timer that starts one is quick, against the    *)
(* minutes and days this clock counts.                                     *)
Tick ==
  /\ now < Horizon
  /\ ~Over /\ ~DueToClose /\ ~pending
  /\ stored # session => Quiet
  /\ \A p \in Passes : pass[p].at = "idle"
  /\ now' = now + 1
  /\ UNCHANGED <<session, stored, pending, board, objects, pass, faults>>

(* A write takes all the documents as they are at its turn.  One that is   *)
(* queued for another event brings along what a failed one left out.       *)
PersistAll(more) ==
  /\ pending \/ stored # session \/ more
  /\ stored' = session
  /\ pending' = FALSE
  /\ UNCHANGED <<now, session, board, objects, pass, faults>>

Persist == PersistAll(FALSE)

(* The write fails: memory keeps what the documents never got.             *)
PersistFails ==
  /\ pending
  /\ Fault
  /\ pending' = FALSE
  /\ UNCHANGED <<now, session, stored, board, objects, pass>>

AdvanceLifecycle ==
  /\ Over
  /\ Change([session EXCEPT !.status = "closing"])
  /\ UNCHANGED <<now, stored, board, objects, pass, faults>>

RetryBoardSessionArchive ==
  /\ session.status = "archive_failed"
  /\ Change([session EXCEPT !.status = "closing"])
  /\ UNCHANGED <<now, stored, board, objects, pass, faults>>

-----------------------------------------------------------------------------
(* A close pass.                                                           *)

Goes(p, step) == pass' = [pass EXCEPT ![p].at = step]

(* The work queue is read at once; the pass then closes the sessions that  *)
(* come before this one.                                                   *)
ListDue(p) ==
  /\ pass[p].at = "idle"
  /\ DueToClose
  /\ Goes(p, "listed")
  /\ UNCHANGED <<now, session, stored, pending, board, objects, faults>>

(* closesInFlight is looked at when the session's turn comes.              *)
Turn(p) ==
  /\ pass[p].at = "listed"
  /\ IF \E q \in Passes : pass[q].at \in Closing
     THEN Goes(p, "idle")
     ELSE Goes(p, "sealing")
  /\ UNCHANGED <<now, session, stored, pending, board, objects, faults>>

(* A faulty seal: later writes are still accepted.                         *)
ForgetsTheSeal(p) ==
  /\ pass[p].at = "sealing"
  /\ Goes(p, "saving")
  /\ UNCHANGED <<now, session, stored, pending, board, objects, faults>>

(* The seal takes its turn behind the writes queued before it.             *)
SealWrites(p) ==
  /\ pass[p].at = "sealing"
  /\ board.queued = 0
  /\ board' = [board EXCEPT !.sealed = TRUE]
  /\ Goes(p, "saving")
  /\ UNCHANGED <<now, session, stored, pending, objects, faults>>

SaveBoard(p) ==
  /\ pass[p].at = "saving"
  /\ board' = Saved(board)
  /\ pass' = [pass EXCEPT ![p] = [at |-> "validating", seq |-> board.seq]]
  /\ UNCHANGED <<now, session, stored, pending, objects, faults>>

(* The stored SVG and the ledger must both stand at the final sequence.    *)
Validate(p) ==
  /\ pass[p].at = "validating"
  /\ IF board.saved = pass[p].seq /\ board.ledger = pass[p].seq
     THEN Goes(p, "canvas")
     ELSE Goes(p, "failed")
  /\ UNCHANGED <<now, session, stored, pending, board, objects, faults>>

(* Faulty orders: the session is closed, or the manifest put, too early.   *)
ClosesBeforeTheManifest ==
  [canvas |-> "ledger", ledger |-> "marking", manifest |-> "marking"]
ManifestBeforeTheLedger ==
  [canvas |-> "manifest", manifest |-> "ledger", ledger |-> "marking"]

After == [canvas |-> "ledger", ledger |-> "manifest", manifest |-> "marking"]

(* putArchive: an object is put once; the same content again is no write,  *)
(* another content is a conflict.                                          *)
PutArchive(p) ==
  \E o \in Objects :
    /\ pass[p].at = o
    /\ IF objects[o] \in {Missing, pass[p].seq}
       THEN /\ objects' = [objects EXCEPT ![o] = pass[p].seq]
            /\ Goes(p, After[o])
       ELSE /\ Goes(p, "failed")
            /\ UNCHANGED objects
    /\ UNCHANGED <<now, session, stored, pending, board, faults>>

MarkBoardSessionClosed(p) ==
  /\ pass[p].at = "marking"
  /\ IF session.status \in {"closing", "archive_failed"}
     THEN /\ Change([session EXCEPT !.status = "closed", !.key = TRUE,
                                    !.finalSeq = pass[p].seq,
                                    !.archivedAt = now, !.failedAt = 0])
          /\ Goes(p, "storing")
     ELSE /\ Goes(p, "failed")
          /\ UNCHANGED <<session, pending>>
  /\ UNCHANGED <<now, stored, board, objects, faults>>

(* The pass goes on when the write of the closed session has ended; a      *)
(* failure of it is one of the close.                                      *)
Stored(p) ==
  /\ pass[p].at = "storing"
  /\ ~pending
  /\ IF stored.status = "closed"
     THEN pass' = [pass EXCEPT ![p] = Idle] ELSE Goes(p, "failed")
  /\ UNCHANGED <<now, session, stored, pending, board, objects, faults>>

(* Loading, saving, reading and putting may fail.                          *)
StepFails(p) ==
  /\ pass[p].at \in {"sealing", "saving", "validating"} \cup Objects
  /\ Fault
  /\ Goes(p, "failed")
  /\ UNCHANGED <<now, session, stored, pending, board, objects>>

(* A faulty record: a pass that comes too late fails a closed session.     *)
FailsAnything(p) ==
  /\ pass[p].at = "failed"
  /\ Change([session EXCEPT !.status = "archive_failed", !.failedAt = now])
  /\ pass' = [pass EXCEPT ![p] = Idle]
  /\ UNCHANGED <<now, stored, board, objects, faults>>

(* A session that has been closed or cancelled never fails.                *)
RecordArchiveFailed(p) ==
  /\ pass[p].at = "failed"
  /\ IF session.status \in {"closing", "archive_failed"}
     THEN Change([session EXCEPT !.status = "archive_failed", !.failedAt = now])
     ELSE UNCHANGED <<session, pending>>
  /\ pass' = [pass EXCEPT ![p] = Idle]
  /\ UNCHANGED <<now, stored, board, objects, faults>>

-----------------------------------------------------------------------------
(* What a restart finds: the documents, the files and the archive.  The    *)
(* board is loaded again from its ledger, unsealed; the first request      *)
(* advances the life cycle before it admits anybody.                       *)
Restarted(s) ==
  IF s.status = "open" /\ now >= EndsAt
  THEN [s EXCEPT !.status = "closing"] ELSE s

Reloaded(b) == [b EXCEPT !.queued = 0, !.sealed = FALSE,
                         !.seq = IF b.ledger > b.saved THEN b.ledger ELSE b.saved]

Crash ==
  /\ Fault
  /\ session' = Restarted(stored)
  /\ pending' = (session' # stored)
  /\ board' = Reloaded(board)
  /\ pass' = [p \in Passes |-> Idle]
  /\ UNCHANGED <<now, stored, objects>>

Write == Admit \/ Accept \/ TimerSaves
Documents == Persist \/ PersistFails
Pass(p) ==
  \/ ListDue(p) \/ Turn(p) \/ SealWrites(p) \/ SaveBoard(p) \/ Validate(p)
  \/ PutArchive(p) \/ MarkBoardSessionClosed(p) \/ Stored(p)
  \/ RecordArchiveFailed(p) \/ StepFails(p)

CloseNext ==
  \/ Write \/ Documents \/ Tick \/ Crash
  \/ AdvanceLifecycle \/ RetryBoardSessionArchive
  \/ \E p \in Passes : Pass(p)

CloseSpec == Init /\ [][CloseNext]_closeVars

(* The timer and the requests keep starting passes, each goes on, promises *)
(* settle and time passes.  Nothing makes an operator retry.               *)
CloseFairness ==
  /\ WF_closeVars(AdvanceLifecycle) /\ WF_closeVars(Accept)
  /\ WF_closeVars(Persist) /\ WF_closeVars(Tick)
  /\ \A p \in Passes : WF_closeVars(Pass(p))
FairCloseSpec == CloseSpec /\ CloseFairness

-----------------------------------------------------------------------------
(* Properties.                                                             *)

SessionRecord ==
  [status : {"open", "closing", "archive_failed", "closed"}, key : BOOLEAN,
   finalSeq : Nat, archivedAt : Nat, failedAt : Nat, purged : BOOLEAN]

(* Every variable holds what its code holds; a session that is closed has  *)
(* its archive key until its outcomes are purged, and no session that is   *)
(* still to be closed has one (store.mjs:1951, 2266).                      *)
CloseTypeOK ==
  /\ now \in 0..Horizon /\ faults \in 0..MaxFaults /\ pending \in BOOLEAN
  /\ session \in SessionRecord /\ stored \in SessionRecord
  /\ \A s \in {session, stored} :
       /\ s.key <=> (s.status = "closed" /\ ~s.purged)
       /\ s.purged => s.status = "closed"
  /\ board \in [seq : 0..MaxWrites, ledger : 0..MaxWrites, items : BOOLEAN,
                saved : 0..MaxWrites, queued : 0..MaxWrites, sealed : BOOLEAN]
  /\ objects \in [Objects -> 0..MaxWrites \cup {Missing}]
  /\ pass \in [Passes -> [at : Closing \cup {"idle", "listed"}, seq : 0..MaxWrites]]

Whole(seq) == \A o \in Objects : objects[o] = seq

(* A session that is closed has its whole archive, made of everything its  *)
(* ledger holds, whatever failed, crashed or was repeated while it closed; *)
(* and so has one the documents know to be closed (close.mjs:236).         *)
ClosedIsWhole ==
  \A s \in {session, stored} :
    s.status = "closed" => Whole(s.finalSeq) /\ board.ledger = s.finalSeq

(* The manifest is the commit marker of the archive: when it is stored,   *)
(* the objects it vouches for are (close.mjs:344).                         *)
ManifestVouches ==
  objects["manifest"] # Missing => Whole(objects["manifest"])

(* A close that is repeated makes the same objects again: putting one      *)
(* never finds another content under its key (close.mjs:315).              *)
RepeatsAreIdentical ==
  \A p \in Passes : \A o \in Objects :
    pass[p].at = o => objects[o] \in {Missing, pass[p].seq}

(* The outcomes the documents know of move one way: a session is closed    *)
(* only by its seal and stays closed, its final sequence never changes,    *)
(* and its purge is final (store.mjs:1927).                                *)
StoredMovesForward ==
  [][/\ stored.status = "closed" => stored'.status = "closed"
                                    /\ stored'.finalSeq = stored.finalSeq
     /\ stored.purged => stored'.purged]_closeVars

(* A session whose planned end has passed is closed in the end, however    *)
(* its passes failed before (close.mjs:406, store.mjs:1862).               *)
SessionCloses == session.status = "closing" ~> session.status = "closed"
=============================================================================
