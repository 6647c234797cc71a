-------------------------- MODULE OutcomeRetention --------------------------
(***************************************************************************)
(* What happens to the outcomes of an event after its session has closed:  *)
(* the canvas derived from the archive is published, pictures of it are    *)
(* rendered by jobs, an owner may ask for early deletion and take that     *)
(* back inside a window, and a purge deletes everything when the window or *)
(* the retention has elapsed.  Composed with SessionClose: the close       *)
(* passes, the documents and the archive are those of that module, and a   *)
(* crash stops them all.                                                   *)
(*                                                                         *)
(* The documents of the publications and of the jobs are written with the  *)
(* step that changes them; the record of the event shares its write with   *)
(* that of the session.                                                    *)
(***************************************************************************)
EXTENDS SessionClose, FiniteSets

CONSTANTS
  Retention,    \* HOSTED_OUTCOME_RETENTION_MS, 0 to keep for ever
  DeleteWindow, \* HOSTED_OUTCOME_DELETE_WINDOW_MS
  PurgeRetry,   \* HOSTED_OUTCOME_PURGE_RETRY_MS
  ExportRetry,  \* HOSTED_BOARD_EXPORT_RETRY_MS
  MaxAttempts,  \* MAX_EXPORT_ATTEMPTS
  MaxClaims,    \* bound: attempts a job has when it is listed
  Jobs,         \* export jobs
  Runners,      \* runner passes that may overlap
  MaxGenerations \* bound: canvases published

ASSUME RetentionAssumption ==
  /\ Retention \in Nat /\ DeleteWindow \in Nat
  /\ PurgeRetry \in Nat /\ ExportRetry \in Nat
  /\ MaxAttempts \in Nat /\ MaxClaims \in Nat /\ MaxGenerations \in Nat

VARIABLES
  event,       \* the event record in memory: its deletion, its purge failure
  storedEvent, \* the event record of the documents
  publication, \* the publication record
  canvases,    \* the generations whose objects are stored
  publisher,   \* the request that publishes
  job,         \* export job -> its record
  pictures,    \* the jobs whose bytes are stored
  runner,      \* runner pass -> its place
  purge        \* the purge of the event

outcomeVars == <<event, storedEvent, publication, canvases, publisher,
                 job, pictures, runner, purge>>
allVars == <<closeVars, outcomeVars>>

Never == -1
NoDeletion == [at |-> "none", due |-> 0]
NoJob == [status |-> "none", attempts |-> 0, failedAt |-> 0]
NoPublisher == [at |-> "idle", generation |-> 0]
NoPurge == [at |-> "idle", all |-> FALSE, covers |-> FALSE]
Resting == [at |-> "idle", job |-> Never, was |-> "none"]

OutcomeInit ==
  /\ Init
  /\ event = [deletion |-> NoDeletion, failedAt |-> Never]
  /\ storedEvent = event
  /\ publication = [status |-> "none", generation |-> 0]
  /\ canvases = {}
  /\ publisher = NoPublisher
  /\ job = [j \in Jobs |-> NoJob]
  /\ pictures = {}
  /\ runner = [r \in Runners |-> Resting]
  /\ purge = NoPurge

-----------------------------------------------------------------------------
(* What the records say.                                                   *)

Archived == session.status = "closed" /\ session.key

HasPurgeableOutcomes == Archived /\ ~session.purged

DeletionPending == event.deletion.at = "pending"

OutcomesInvalidated == DeletionPending \/ session.purged

DeletionElapsed == DeletionPending /\ now >= event.deletion.due

RetentionElapsed ==
  /\ Retention > 0
  /\ HasPurgeableOutcomes
  /\ now >= session.archivedAt + Retention

PurgeDue == DeletionElapsed \/ RetentionElapsed

(* Due, and not inside the backoff of a purge that failed.                 *)
PurgeReady ==
  /\ PurgeDue
  /\ event.failedAt # Never => now >= event.failedAt + PurgeRetry

(* What a verified read of the archive asks for.                           *)
ArchiveReads ==
  /\ Archived
  /\ objects["manifest"] # Missing
  /\ objects["canvas"] = objects["manifest"]

-----------------------------------------------------------------------------
(* The owner's requests.                                                   *)

(* A change of the event record queues the write of all the documents.     *)
ChangeEvent(record) == event' = record /\ pending' = TRUE

RequestEventOutcomeDeletion ==
  /\ event.deletion.at = "none"
  /\ HasPurgeableOutcomes
  /\ ChangeEvent([event EXCEPT !.deletion =
                    [at |-> "pending", due |-> now + DeleteWindow]])
  /\ UNCHANGED <<now, session, stored, board, objects, pass, faults, storedEvent,
                 publication, canvases, publisher, job, pictures, runner, purge>>

(* A faulty restore: the window may be over.                               *)
RestoresAnyTime ==
  /\ DeletionPending
  /\ ChangeEvent([deletion |-> NoDeletion, failedAt |-> Never])
  /\ UNCHANGED <<now, session, stored, board, objects, pass, faults, storedEvent,
                 publication, canvases, publisher, job, pictures, runner, purge>>

RestoreEventOutcomeDeletion ==
  /\ DeletionPending
  /\ now < event.deletion.due
  /\ ChangeEvent([deletion |-> NoDeletion, failedAt |-> Never])
  /\ UNCHANGED <<now, session, stored, board, objects, pass, faults, storedEvent,
                 publication, canvases, publisher, job, pictures, runner, purge>>

RetryEventOutcomePurge ==
  /\ event.failedAt # Never
  /\ ChangeEvent([event EXCEPT !.failedAt = Never])
  /\ UNCHANGED <<now, session, stored, board, objects, pass, faults, storedEvent,
                 publication, canvases, publisher, job, pictures, runner, purge>>

-----------------------------------------------------------------------------
(* The publication.                                                        *)

(* A change of policy that keeps the published content changes nothing     *)
(* here.                                                                   *)
ServePublication ==
  /\ publisher.at = "idle"
  /\ publication.generation < MaxGenerations
  /\ Archived /\ ~OutcomesInvalidated
  /\ publisher' = [publisher EXCEPT !.at = "reading"]
  /\ UNCHANGED <<closeVars, event, storedEvent, publication, canvases,
                 job, pictures, runner, purge>>

(* An archive that does not verify is never published; the canvas is put   *)
(* under the next generation.                                              *)
ReadArchivedCanvas ==
  /\ publisher.at = "reading"
  /\ publisher' = IF ArchiveReads
                  THEN [at |-> "putting", generation |-> publication.generation + 1]
                  ELSE NoPublisher
  /\ UNCHANGED <<closeVars, event, storedEvent, publication, canvases,
                 job, pictures, runner, purge>>

(* A faulty publication: nothing is put.                                   *)
ForgetsThePut ==
  /\ publisher.at = "putting"
  /\ publisher' = [publisher EXCEPT !.at = "recording"]
  /\ UNCHANGED <<closeVars, event, storedEvent, publication, canvases, job, pictures,
                 runner, purge>>

PutCanvas ==
  /\ publisher.at = "putting"
  /\ canvases' = canvases \cup {publisher.generation}
  /\ publisher' = [publisher EXCEPT !.at = "recording"]
  /\ UNCHANGED <<closeVars, event, storedEvent, publication, job, pictures, runner, purge>>

(* The record is replaced whatever became of it meanwhile.                 *)
Publish ==
  /\ publisher.at = "recording"
  /\ publication' = [status |-> "published", generation |-> publisher.generation]
  /\ publisher' = NoPublisher
  /\ UNCHANGED <<closeVars, event, storedEvent, canvases, job, pictures, runner, purge>>

Revoke ==
  /\ publication.status = "published"
  /\ publication' = [publication EXCEPT !.status = "revoked"]
  /\ UNCHANGED <<closeVars, event, storedEvent, canvases, publisher,
                 job, pictures, runner, purge>>

-----------------------------------------------------------------------------
(* The export jobs.                                                        *)

OccupiesExportSlot(j) ==
  \/ job[j].status \in {"queued", "processing"}
  \/ job[j].status = "failed" /\ job[j].attempts < MaxAttempts

CreateExport ==
  /\ Archived /\ ~OutcomesInvalidated
  /\ ~\E j \in Jobs : OccupiesExportSlot(j)
  /\ \E j \in Jobs :
       /\ job[j].status = "none"
       /\ job' = [job EXCEPT ![j].status = "queued"]
  /\ UNCHANGED <<closeVars, event, storedEvent, publication, canvases, publisher,
                 pictures, runner, purge>>

ExportDue(j) ==
  \/ job[j].status \in {"queued", "processing"}
  \/ /\ job[j].status = "failed" /\ job[j].attempts < MaxAttempts
     /\ now >= job[j].failedAt + ExportRetry

Runs(r, step) == runner' = [runner EXCEPT ![r].at = step]
Rests(r) == runner' = [runner EXCEPT ![r] = Resting]

ExportInFlight(j) ==
  \E r \in Runners : runner[r].job = j /\ runner[r].at \in {"reading", "putting", "recording"}

(* The list is a copy: a job may have moved on when its turn comes.        *)
ListDueExports(r) ==
  /\ runner[r].at = "idle"
  /\ \E j \in Jobs :
       /\ ExportDue(j) /\ job[j].attempts <= MaxClaims
       /\ runner' = [runner EXCEPT ![r] =
                       [at |-> "listed", job |-> j, was |-> job[j].status]]
  /\ UNCHANGED <<closeVars, event, storedEvent, publication, canvases, publisher,
                 job, pictures, purge>>

(* Removing a record deletes its bytes behind the write of the index.      *)
Delete(js) ==
  LET known == {j \in js : job[j].status \notin {"none", "deleted"}} IN
  /\ job' = [j \in Jobs |-> IF j \in known
                            THEN [NoJob EXCEPT !.status = "deleted"] ELSE job[j]]
  /\ pictures' = pictures \ known

(* A job is claimed in the states that await rendering, also by a second   *)
(* pass that took it for an orphan.                                        *)
MarkExportProcessing(r) ==
  LET j == runner[r].job IN
  IF job[j].status \in {"queued", "failed", "processing"}
  THEN /\ job' = [job EXCEPT ![j].status = "processing", ![j].attempts = @ + 1]
       /\ Runs(r, "reading")
  ELSE Rests(r) /\ UNCHANGED job

RequeueOrphanedExport(r) ==
  LET j == runner[r].job IN
  /\ job' = IF job[j].status = "processing"
            THEN [job EXCEPT ![j].status = "queued"] ELSE job
  /\ Runs(r, "claiming")

(* The job's turn: skipped while another pass renders it, retired once the *)
(* outcomes are invalidated, queued again and awaited when the list has it *)
(* processing, and else claimed.                                           *)
ExportTurn(r) ==
  LET j == runner[r].job IN
  /\ runner[r].at = "listed"
  /\ \/ ExportInFlight(j) /\ Rests(r) /\ UNCHANGED <<job, pictures>>
     \/ ~ExportInFlight(j) /\ OutcomesInvalidated /\ Rests(r) /\ Delete({j})
     \/ /\ ~ExportInFlight(j) /\ ~OutcomesInvalidated
        /\ IF runner[r].was = "processing"
           THEN RequeueOrphanedExport(r) ELSE MarkExportProcessing(r)
        /\ UNCHANGED pictures
  /\ UNCHANGED <<closeVars, event, storedEvent, publication, canvases, publisher,
                 purge>>

ClaimsOrphan(r) ==
  /\ runner[r].at = "claiming"
  /\ MarkExportProcessing(r)
  /\ UNCHANGED <<closeVars, event, storedEvent, publication, canvases, publisher,
                 pictures, purge>>

(* A failure is recorded for a job that is still the one being rendered.   *)
MarkExportFailed(r) ==
  LET j == runner[r].job IN
  /\ job' = IF job[j].status = "processing"
            THEN [job EXCEPT ![j].status = "failed", ![j].failedAt = now] ELSE job
  /\ Rests(r)

(* An archive that does not verify fails the job; the record is looked at  *)
(* before the bytes are put, not after.                                    *)
ReadVerifiedArchiveCanvas(r) ==
  /\ runner[r].at = "reading"
  /\ IF ArchiveReads /\ job[runner[r].job].status = "processing"
     THEN Runs(r, "putting") /\ UNCHANGED job
     ELSE MarkExportFailed(r)
  /\ UNCHANGED <<closeVars, event, storedEvent, publication, canvases, publisher,
                 pictures, purge>>

PutPicture(r) ==
  /\ runner[r].at = "putting"
  /\ pictures' = pictures \cup {runner[r].job}
  /\ Runs(r, "recording")
  /\ UNCHANGED <<closeVars, event, storedEvent, publication, canvases, publisher,
                 job, purge>>

MarkExportSucceeded(r) ==
  LET j == runner[r].job IN
  /\ runner[r].at = "recording"
  /\ job' = IF job[j].status = "deleted" THEN job
            ELSE [job EXCEPT ![j].status = "succeeded", ![j].failedAt = 0]
  /\ Rests(r)
  /\ UNCHANGED <<closeVars, event, storedEvent, publication, canvases, publisher,
                 pictures, purge>>

ExportFails(r) ==
  /\ runner[r].at \in {"reading", "putting"}
  /\ Fault
  /\ MarkExportFailed(r)
  /\ UNCHANGED <<now, session, stored, pending, board, objects, pass, event,
                 storedEvent, publication, canvases, publisher, pictures, purge>>

DeleteExport ==
  /\ \E j \in Jobs : /\ job[j].status \notin {"none", "deleted"}
                     /\ Delete({j})
  /\ UNCHANGED <<closeVars, event, storedEvent, publication, canvases, publisher,
                 runner, purge>>

-----------------------------------------------------------------------------
(* The purge.                                                              *)

PurgeGoes(step) == purge' = [purge EXCEPT !.at = step]

(* A faulty purge: the markers first.                                      *)
MarksFirst ==
  /\ purge.at = "idle"
  /\ PurgeReady
  /\ purge' = [at |-> "marking", all |-> DeletionElapsed, covers |-> HasPurgeableOutcomes]
  /\ UNCHANGED <<closeVars, event, storedEvent, publication, canvases, publisher,
                 job, pictures, runner>>

(* One at a time for the event.  What it covers is decided here.           *)
StartPurge ==
  /\ purge.at = "idle"
  /\ PurgeReady
  /\ purge' = [at |-> IF HasPurgeableOutcomes THEN "archives" ELSE "exports",
               all |-> DeletionElapsed, covers |-> HasPurgeableOutcomes]
  /\ UNCHANGED <<closeVars, event, storedEvent, publication, canvases, publisher,
                 job, pictures, runner>>

(* Objects go one at a time.                                               *)
DeleteArchiveObject ==
  /\ purge.at = "archives"
  /\ IF \A o \in Objects : objects[o] = Missing
     THEN PurgeGoes("canvases") /\ UNCHANGED objects
     ELSE /\ \E o \in Objects : /\ objects[o] # Missing
                                /\ objects' = [objects EXCEPT ![o] = Missing]
          /\ UNCHANGED purge
  /\ UNCHANGED <<now, session, stored, pending, board, pass, faults, event,
                 storedEvent, publication, canvases, publisher, job, pictures, runner>>

DeleteCanvases ==
  /\ purge.at = "canvases"
  /\ canvases' = {}
  /\ PurgeGoes("publication")
  /\ UNCHANGED <<closeVars, event, storedEvent, publication, publisher,
                 job, pictures, runner>>

PurgeForBoardSession ==
  /\ purge.at = "publication"
  /\ publication' = [status |-> "none", generation |-> 0]
  /\ PurgeGoes("exports")
  /\ UNCHANGED <<closeVars, event, storedEvent, canvases, publisher,
                 job, pictures, runner>>

DeleteExportsForEvent ==
  /\ purge.at = "exports"
  /\ IF purge.all \/ purge.covers
     THEN Delete(Jobs)
     ELSE UNCHANGED <<job, pictures>>
  /\ PurgeGoes("marking")
  /\ UNCHANGED <<closeVars, event, storedEvent, publication, canvases, publisher, runner>>

(* A pending deletion ends with the purge, also one asked for during it.   *)
MarkEventOutcomesPurged ==
  LET covered == HasPurgeableOutcomes /\ (purge.all \/ purge.covers)
      ended == DeletionPending /\ (covered \/ ~HasPurgeableOutcomes)
  IN
  /\ purge.at = "marking"
  /\ session' = IF covered THEN [session EXCEPT !.purged = TRUE, !.key = FALSE]
                ELSE session
  /\ event' = IF ended
              THEN [deletion |-> [event.deletion EXCEPT !.at = "purged"], failedAt |-> Never]
              ELSE IF covered THEN [event EXCEPT !.failedAt = Never] ELSE event
  /\ pending' = (pending \/ covered \/ ended)
  /\ PurgeGoes("storing")
  /\ UNCHANGED <<now, stored, board, objects, pass, faults, storedEvent, publication,
                 canvases, publisher, job, pictures, runner>>

PurgeStored ==
  /\ purge.at = "storing"
  /\ ~pending
  /\ PurgeGoes(IF stored = session /\ storedEvent = event THEN "ledger" ELSE "failed")
  /\ UNCHANGED <<closeVars, event, storedEvent, publication, canvases, publisher,
                 job, pictures, runner>>

(* The file of the ledger goes once nothing of the event is left.          *)
DeleteBoardMutationLedger ==
  /\ purge.at = "ledger"
  /\ board' = IF session.status = "closed" /\ session.purged
              THEN [board EXCEPT !.ledger = 0] ELSE board
  /\ purge' = NoPurge
  /\ UNCHANGED <<now, session, stored, pending, objects, pass, faults, event,
                 storedEvent, publication, canvases, publisher, job, pictures, runner>>

PurgeFails ==
  /\ purge.at \in {"archives", "canvases", "publication", "exports", "ledger"}
  /\ Fault
  /\ PurgeGoes("failed")
  /\ UNCHANGED <<now, session, stored, pending, board, objects, pass, event,
                 storedEvent, publication, canvases, publisher, job, pictures, runner>>

RecordEventOutcomePurgeFailed ==
  /\ purge.at = "failed"
  /\ ChangeEvent([event EXCEPT !.failedAt = now])
  /\ purge' = NoPurge
  /\ UNCHANGED <<now, session, stored, board, objects, pass, faults, storedEvent,
                 publication, canvases, publisher, job, pictures, runner>>

-----------------------------------------------------------------------------
(* The composition.                                                        *)

(* What is due to be purged has been tried before the clock goes on.       *)
OutcomeTick ==
  /\ Tick
  /\ purge.at = "idle"
  /\ ~PurgeReady
  /\ storedEvent # event => Quiet
  /\ UNCHANGED outcomeVars

OutcomePersist ==
  /\ PersistAll(event # storedEvent)
  /\ storedEvent' = event
  /\ UNCHANGED <<event, publication, canvases, publisher, job, pictures, runner, purge>>

OutcomeCrash ==
  /\ Crash
  /\ event' = storedEvent
  /\ publisher' = NoPublisher
  /\ runner' = [r \in Runners |-> Resting]
  /\ purge' = NoPurge
  /\ UNCHANGED <<storedEvent, publication, canvases, job, pictures>>

CloseStep ==
  /\ \/ Write \/ PersistFails \/ AdvanceLifecycle \/ RetryBoardSessionArchive
     \/ \E p \in Passes : Pass(p)
  /\ UNCHANGED outcomeVars

Owner == RequestEventOutcomeDeletion \/ RestoreEventOutcomeDeletion
         \/ RetryEventOutcomePurge
Publication == ServePublication \/ ReadArchivedCanvas \/ PutCanvas \/ Publish \/ Revoke
Runner(r) ==
  \/ ListDueExports(r) \/ ExportTurn(r) \/ ClaimsOrphan(r)
  \/ ReadVerifiedArchiveCanvas(r) \/ PutPicture(r) \/ MarkExportSucceeded(r)
  \/ ExportFails(r)
Purge ==
  \/ StartPurge \/ DeleteArchiveObject \/ DeleteCanvases \/ PurgeForBoardSession
  \/ DeleteExportsForEvent \/ MarkEventOutcomesPurged \/ PurgeStored
  \/ DeleteBoardMutationLedger \/ PurgeFails \/ RecordEventOutcomePurgeFailed

Next ==
  \/ CloseStep \/ OutcomeTick \/ OutcomePersist \/ OutcomeCrash
  \/ Owner \/ Publication \/ CreateExport \/ DeleteExport \/ Purge
  \/ \E r \in Runners : Runner(r)

Spec == OutcomeInit /\ [][Next]_allVars

-----------------------------------------------------------------------------
(* Properties.                                                             *)

(* A closed session whose outcomes nothing condemns yet has its whole      *)
(* archive, made of everything its ledger holds: whatever failed, crashed  *)
(* or was repeated while it closed, and also after a deletion was asked    *)
(* for and taken back (close.mjs:236, store.mjs:2188).                     *)
RecoverableIsWhole ==
  HasPurgeableOutcomes /\ ~PurgeDue
    => Whole(session.finalSeq) /\ board.ledger = session.finalSeq

(* What the pages offer exists: the canvas of a publication and the bytes  *)
(* of a finished export are stored for as long as nothing condemns them    *)
(* (publication/store.mjs:222, export/store.mjs:341).                      *)
OfferedExists ==
  Archived /\ ~OutcomesInvalidated /\ ~PurgeDue =>
    /\ publication.status = "published" => publication.generation \in canvases
    /\ \A j \in Jobs : job[j].status = "succeeded" => j \in pictures

(* Once the purge is on record, nothing of the archive is left, and        *)
(* nothing comes back (outcomes.mjs:22).                                   *)
PurgedArchiveIsGone == stored.purged => Whole(Missing)
=============================================================================
