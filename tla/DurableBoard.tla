---------------------------- MODULE DurableBoard ----------------------------
(***************************************************************************)
(* One hosted board from the moment a write reaches its Board Session to   *)
(* the moment a later process recovers it: the acceptance queue            *)
(* (server/board/session.mjs), the durable mutation ledger                 *)
(* (server/hosted_event/ledger/store.mjs), the stored snapshot and the     *)
(* load that catches it up (server/board/data_persistence.mjs), and the    *)
(* instance registry with its unload and its drop (server/socket/index.mjs,*)
(* server/board/board_loader.mjs).                                         *)
(*                                                                         *)
(* A process may hold several instances of the board at once: the one the  *)
(* registry names and older ones whose queues are still running.  Each     *)
(* await of the code that lets another handler run is a step boundary.     *)
(***************************************************************************)
EXTENDS BoardContent

CONSTANTS
  Muts,           \* the mutations clients send, one clientMutationId each
  Torn, Blank,    \* the two kinds of line that hold no entry
  MaxInstances,   \* bound: board instances ever created
  AppendFaults,   \* how an append may go wrong: "write", "fsync", "short"
  CrashEnds,      \* how the bytes of an append in flight end when we crash
  Limit           \* bound: how often each kind of environment event happens

INSTANCE LedgerFile

Events == {"crash", "leave", "resend", "timer", "fault", "lost", "seal"}

ASSUME LineAssumption == Torn \notin Entry /\ Blank \notin Entry /\ Torn # Blank

ASSUME DurableBoardAssumption ==
  /\ Muts \subseteq Mutation
  /\ \A m \in Muts : m.cid \in ClientIds
  /\ \A m, n \in Muts : m.cid = n.cid => m = n
  /\ MaxInstances \in Nat \ {0}
  /\ AppendFaults \subseteq {"write", "fsync", "short"}
  /\ CrashEnds \subseteq Ends
  /\ Limit \in [Events -> Nat]

Instances == 1..MaxInstances

None == [cid |-> NoClientId]        \* no mutation under acceptance
Seal == [cid |-> "seal"]            \* a sealWrites request in the queue

VARIABLES
  file,        \* the ledger file
  snap,        \* the stored SVG: whether it exists, its sequence and content
  mem,         \* each instance's BoardData
  pending,     \* each loading instance's ledger entries still to replay
  ses,         \* each instance's BoardSession and ledger adapter
  registry,    \* the loaded instance, 0 when there is none
  users,       \* the instance the connected users joined, 0 when nobody is
  saving,      \* the save holding the process-wide save queue
  dropDue,     \* instances whose discard has been requested
  unloads,     \* instances whose unload has been requested
  client,      \* what the sender knows of each mutation
  accepted,    \* the mutations confirmed so far
  used         \* how many events of each kind have happened

storage == << file, snap >>
server  == << mem, pending, ses, registry, saving, dropDue, unloads >>
senders == << users, client, accepted >>
vars    == << storage, server, senders, used >>

-----------------------------------------------------------------------------

Phases == {"unborn", "loading", "opened", "hydrating", "ready", "broken", "dead"}
Steps  == {"idle", "boundary", "repair", "write"}

NoSnapshot == [exists |-> FALSE, seq |-> 0, content |-> << >>]
Unborn     == [phase |-> "unborn", content |-> Empty, seq |-> 0,
               saved |-> << >>, savedSeq |-> 0, disposed |-> FALSE]
NewSession == [queue |-> << >>, step |-> "idle", mut |-> None, ok |-> FALSE,
               batch |-> << >>, remembered |-> {}, sealed |-> FALSE,
               boundary |-> "unchecked", plan |-> Clean]
NoSave     == [inst |-> 0]

Snapshots == [exists : BOOLEAN, seq : Nat, content : Seq(Item)]
Boards    == [phase : Phases, content : Content, seq : Nat,
              saved : Seq(Item), savedSeq : Nat, disposed : BOOLEAN]
Sessions  == [queue : Seq(Muts \cup {Seal}), step : Steps, mut : Muts \cup {None},
              ok : BOOLEAN, batch : Seq(Entry), remembered : SUBSET ClientIds,
              sealed : BOOLEAN, boundary : {"unchecked", "clean", "failed"},
              plan : RepairPlan]
Saves     == [inst : Instances, content : Seq(Item), seq : Nat, baseSeq : Nat,
              rewrite : BOOLEAN, unload : BOOLEAN]
Reads     == [at : Nat, entry : Entry]
Answers   == {"idle", "sent", "lost", "acked", "refused"}

TypeOK ==
  /\ file \in File
  /\ snap \in Snapshots
  /\ mem \in [Instances -> Boards]
  /\ pending \in [Instances -> SUBSET Reads]
  /\ ses \in [Instances -> Sessions]
  /\ registry \in {0} \cup Instances
  /\ users \in {0} \cup Instances
  /\ saving \in Saves \cup {NoSave}
  /\ dropDue \subseteq Instances
  /\ unloads \subseteq Instances
  /\ client \in [Muts -> Answers]
  /\ accepted \subseteq Muts
  /\ used \in [Events -> Nat]

Init ==
  /\ file = EmptyFile
  /\ snap = NoSnapshot
  /\ mem = [k \in Instances |-> Unborn]
  /\ pending = [k \in Instances |-> {}]
  /\ ses = [k \in Instances |-> NewSession]
  /\ registry = 0
  /\ users = 0
  /\ saving = NoSave
  /\ dropDue = {}
  /\ unloads = {}
  /\ client = [m \in Muts |-> "idle"]
  /\ accepted = {}
  /\ used = [e \in Events |-> 0]

\* Environment events are bounded by Limit.
Spend(event) ==
  /\ used[event] < Limit[event]
  /\ used' = [used EXCEPT ![event] = @ + 1]

Ready(k) == mem[k].phase = "ready"

\* Answers still outstanding when a connection goes are never heard.
Lost(answers) == [m \in Muts |-> IF answers[m] = "sent" THEN "lost" ELSE answers[m]]

\* A dying process may take confirmations along that it had handed to a socket.
Unheard(answers, gone) == [m \in Muts |-> IF m \in gone THEN "lost" ELSE answers[m]]

\* Mutant of Answer: only good news is told.
HidesRefusals(m, verdict) ==
  client' = IF client[m] = "sent" /\ verdict = "acked" THEN [client EXCEPT ![m] = verdict]
            ELSE client

\* An answer reaches the sender whose connection still waits for it.
Answer(m, verdict) ==
  client' = IF client[m] = "sent" THEN [client EXCEPT ![m] = verdict] ELSE client

-----------------------------------------------------------------------------
(* Connecting, loading and recovering.                                      *)

\* getBoard finds no instance and starts one (loadOrGetLoadedBoard).
Load(k) ==
  /\ mem[k].phase = "unborn"
  /\ \A j \in Instances : j < k => mem[j].phase # "unborn"
  /\ mem' = [mem EXCEPT ![k].phase = "loading"]
  /\ registry' = k

\* A first user connects; the rejected load of a broken board stays cached, so
\* nobody joins one.
Connect ==
  /\ users = 0
  /\ IF registry = 0
     THEN \E k \in Instances : Load(k) /\ users' = k
     ELSE /\ mem[registry].phase # "broken"
          /\ users' = registry
          /\ UNCHANGED << mem, registry >>
  /\ UNCHANGED << storage, pending, ses, saving, dropDue, unloads, client, accepted, used >>

\* A message of a user whose instance the registry has lost loads another one.
Reload ==
  /\ users # 0
  /\ registry = 0
  /\ \E k \in Instances : Load(k)
  /\ UNCHANGED << storage, pending, ses, saving, dropDue, unloads, senders, used >>

\* loadBoardData reads the stored SVG; a missing one is an empty board.
ReadSnapshot(k) ==
  /\ mem[k].phase = "loading"
  /\ mem' = [mem EXCEPT ![k] = [mem[k] EXCEPT
               !.phase = "opened", !.content = Loaded(snap.content), !.saved = snap.content,
               !.seq = snap.seq, !.savedSeq = snap.seq]]
  /\ UNCHANGED << storage, pending, ses, registry, saving, dropDue, unloads, senders, used >>

\* The load failed: its users are turned away and the registry keeps it.
FailLoad(k) ==
  /\ mem' = [mem EXCEPT ![k].phase = "broken"]
  /\ pending' = [pending EXCEPT ![k] = {}]
  /\ users' = IF users = k THEN 0 ELSE users
  /\ client' = IF users = k THEN Lost(client) ELSE client

\* Mutant of ReadLedger: a board with a snapshot is taken as it is.
TrustsSnapshot(k) ==
  LET entries == IF snap.exists THEN {} ELSE EntriesAfter(file, mem[k].seq) IN
  /\ mem[k].phase = "opened"
  /\ pending' = [pending EXCEPT ![k] = entries]
  /\ mem' = [mem EXCEPT ![k].phase = IF entries = {} THEN "ready" ELSE "hydrating"]
  /\ UNCHANGED << users, client >>
  /\ UNCHANGED << storage, ses, registry, saving, dropDue, unloads, accepted, used >>

\* hydrateBoardFromLedger reads the entries the snapshot does not cover.
ReadLedger(k) ==
  /\ mem[k].phase = "opened"
  /\ IF ~Readable(file) THEN FailLoad(k)
     ELSE LET entries == EntriesAfter(file, mem[k].seq) IN
          /\ pending' = [pending EXCEPT ![k] = entries]
          /\ mem' = [mem EXCEPT ![k].phase = IF entries = {} THEN "ready" ELSE "hydrating"]
          /\ UNCHANGED << users, client >>
  /\ UNCHANGED << storage, ses, registry, saving, dropDue, unloads, accepted, used >>

\* Mutant of HydrateNext: the ids of replayed entries are not remembered.
HydrationForgets(k) ==
  /\ mem[k].phase = "hydrating"
  /\ \E p \in pending[k] :
       /\ \A q \in pending[k] : ReadsBefore(p, q)
       /\ mem' = [mem EXCEPT ![k] = [mem[k] EXCEPT
                    !.content = Process(mem[k].content, p.entry.mut).content,
                    !.seq = p.entry.seq,
                    !.phase = IF pending[k] = {p} THEN "ready" ELSE "hydrating"]]
       /\ pending' = [pending EXCEPT ![k] = @ \ {p}]
  /\ UNCHANGED << users, client, ses >>
  /\ UNCHANGED << storage, registry, saving, dropDue, unloads, accepted, used >>

\* One turn of the replay loop: the next entry must carry the next sequence and
\* must still apply.  Its client mutation id is remembered again.
HydrateNext(k) ==
  /\ mem[k].phase = "hydrating"
  /\ \E p \in pending[k] :
       /\ \A q \in pending[k] : ReadsBefore(p, q)
       /\ LET result == Process(mem[k].content, p.entry.mut)
              rest   == pending[k] \ {p}
          IN
          IF p.entry.seq # mem[k].seq + 1 \/ ~result.ok
          THEN FailLoad(k) /\ UNCHANGED ses
          ELSE /\ mem' = [mem EXCEPT ![k] = [mem[k] EXCEPT
                    !.content = result.content, !.seq = p.entry.seq,
                    !.phase = IF rest = {} THEN "ready" ELSE "hydrating"]]
               /\ pending' = [pending EXCEPT ![k] = rest]
               /\ ses' = [ses EXCEPT ![k].remembered =
                            @ \cup ({p.entry.mut.cid} \cap ClientIds)]
               /\ UNCHANGED << users, client >>
  /\ UNCHANGED << storage, registry, saving, dropDue, unloads, accepted, used >>

-----------------------------------------------------------------------------
(* Accepting a write.                                                       *)

Enqueue(task) == ses' = [ses EXCEPT ![registry].queue = Append(@, task)]

Send(m) ==
  /\ users # 0 /\ registry # 0 /\ Ready(registry)
  /\ client[m] = "idle"
  /\ client' = [client EXCEPT ![m] = "sent"]
  /\ Enqueue(m)
  /\ UNCHANGED << storage, mem, pending, registry, saving, dropDue, unloads, users, accepted, used >>

\* A write whose answer has not come is sent again under its own id: on the
\* same connection after a rate limit, or on a later one.
Resend(m) ==
  /\ users # 0 /\ registry # 0 /\ Ready(registry)
  /\ client[m] \in {"sent", "lost"}
  /\ Spend("resend")
  /\ client' = [client EXCEPT ![m] = "sent"]
  /\ Enqueue(m)
  /\ UNCHANGED << storage, mem, pending, registry, saving, dropDue, unloads, users, accepted >>

\* sealWrites, asked of the loaded board when its session closes.
RequestSeal ==
  /\ registry # 0 /\ Ready(registry)
  /\ Spend("seal")
  /\ Enqueue(Seal)
  /\ UNCHANGED << storage, mem, pending, registry, saving, dropDue, unloads, senders >>

\* Mutant of NextTask: the queue does not wait for the append under way.
NeverWaits(k, task) ==
  /\ Ready(k)
  /\ ses[k].queue # << >>
  /\ task = Head(ses[k].queue)

\* The queue hands over its next task once the one before it has settled; it
\* neither knows nor asks whether the instance is still the loaded one.
NextTask(k, task) ==
  /\ Ready(k)
  /\ ses[k].step = "idle"
  /\ ses[k].queue # << >>
  /\ task = Head(ses[k].queue)

TakeSeal(k) ==
  /\ NextTask(k, Seal)
  /\ ses' = [ses EXCEPT ![k] = [ses[k] EXCEPT !.queue = Tail(ses[k].queue), !.sealed = TRUE]]
  /\ UNCHANGED << storage, mem, pending, registry, saving, dropDue, unloads, senders, used >>

\* Mutant of TakeRetry: the engine comes before the duplicate tracking.
AppliesRetry(k, m) ==
  /\ NextTask(k, m)
  /\ m.cid \in ses[k].remembered
  /\ mem' = [mem EXCEPT ![k].content = Process(@, m).content]
  /\ ses' = [ses EXCEPT ![k].queue = Tail(@)]
  /\ Answer(m, "acked")
  /\ accepted' = accepted \cup {m}
  /\ UNCHANGED << storage, pending, registry, saving, dropDue, unloads, users, used >>

\* An id the session remembers is confirmed again and nothing is applied.
TakeRetry(k, m) ==
  /\ NextTask(k, m)
  /\ m.cid \in ses[k].remembered
  /\ ses' = [ses EXCEPT ![k].queue = Tail(@)]
  /\ Answer(m, "acked")
  /\ accepted' = accepted \cup {m}
  /\ UNCHANGED << storage, mem, pending, registry, saving, dropDue, unloads, users, used >>

\* A sealed session refuses, and so does the engine when nothing follows.
TakeRefused(k, m) ==
  /\ NextTask(k, m)
  /\ m.cid \notin ses[k].remembered
  /\ \/ ses[k].sealed
     \/ LET result == Process(mem[k].content, m) IN ~result.ok /\ result.followup = << >>
  /\ ses' = [ses EXCEPT ![k].queue = Tail(@)]
  /\ Answer(m, "refused")
  /\ UNCHANGED << storage, mem, pending, registry, saving, dropDue, unloads, users, accepted, used >>

\* The entries of one acceptance, numbered from the next sequence on.
Batch(seq, muts) == [i \in 1..Len(muts) |-> [seq |-> seq + i, mut |-> muts[i]]]

\* The engine mutates the board in memory, then recordWithLedger starts its append.
TakeWrite(k, m) ==
  LET result == Process(mem[k].content, m)
      muts   == (IF result.ok THEN << m >> ELSE << >>) \o result.followup
  IN
  /\ NextTask(k, m)
  /\ m.cid \notin ses[k].remembered
  /\ ~ses[k].sealed
  /\ muts # << >>
  /\ mem' = [mem EXCEPT ![k].content = result.content]
  /\ ses' = [ses EXCEPT ![k] = [ses[k] EXCEPT
               !.queue = Tail(ses[k].queue), !.mut = m, !.ok = result.ok,
               !.batch = Batch(mem[k].seq, muts),
               !.step = IF ses[k].boundary = "clean" THEN "write" ELSE "boundary"]]
  /\ UNCHANGED << storage, pending, registry, saving, dropDue, unloads, senders, used >>

-----------------------------------------------------------------------------
(* The durable append.                                                      *)

\* An append over: the queue may hand over its next task.
Settle(k, remembered, boundary) ==
  ses' = [ses EXCEPT ![k] = [ses[k] EXCEPT
            !.step = "idle", !.mut = None, !.ok = FALSE, !.batch = << >>,
            !.remembered = remembered, !.boundary = boundary]]

\* The bytes are believed durable: the entries join the in-memory log, the id is
\* remembered and the sender confirmed.  A rejected mutation whose follow-up was
\* recorded is refused all the same.
Confirm(k) ==
  LET m == ses[k].mut IN
  /\ mem' = [mem EXCEPT ![k].seq = @ + Len(ses[k].batch)]
  /\ IF ses[k].ok
     THEN /\ Settle(k, ses[k].remembered \cup {m.cid}, ses[k].boundary)
          /\ accepted' = accepted \cup {m}
          /\ Answer(m, "acked")
     ELSE /\ Settle(k, ses[k].remembered, ses[k].boundary)
          /\ Answer(m, "refused")
          /\ UNCHANGED accepted

\* The append threw: the write is refused and the instance, whose memory holds
\* what the ledger does not, is to be discarded.
Abandon(k, boundary) ==
  /\ Settle(k, ses[k].remembered, boundary)
  /\ dropDue' = dropDue \cup {k}
  /\ Answer(ses[k].mut, "refused")
  /\ UNCHANGED << snap, mem, pending, registry, saving, unloads, users, accepted >>

\* ensureAppendBoundary, once per adapter: read the file and decide.
ReadBoundary(k) ==
  /\ ses[k].step = "boundary"
  /\ ses[k].boundary = "unchecked"
  /\ LET plan == PlanFor(file) IN
     ses' = [ses EXCEPT ![k] = [ses[k] EXCEPT
              !.plan = plan,
              !.boundary = IF plan = Clean THEN "clean" ELSE "unchecked",
              !.step = IF plan = Clean THEN "write" ELSE "repair"]]
  /\ UNCHANGED << storage, mem, pending, registry, saving, dropDue, unloads, senders, used >>

\* ... and then act on what was read.
RepairBoundary(k) ==
  /\ ses[k].step = "repair"
  /\ file' = Repair(file, ses[k].plan)
  /\ ses' = [ses EXCEPT ![k] = [ses[k] EXCEPT
              !.boundary = "clean", !.step = "write", !.plan = Clean]]
  /\ UNCHANGED << snap, mem, pending, registry, saving, dropDue, unloads, senders, used >>

\* A boundary that could not be read or repaired fails every append after it.
BoundaryFails(k) ==
  /\ ses[k].step \in {"boundary", "repair"}
  /\ \/ ses[k].boundary = "failed" /\ UNCHANGED used
     \/ ses[k].boundary = "unchecked" /\ "write" \in AppendFaults /\ Spend("fault")
  /\ Abandon(k, "failed")
  /\ UNCHANGED file

\* Mutant of AppendSucceeds: the sender is confirmed without the append.
ConfirmsUnwritten(k) ==
  /\ ses[k].step = "write"
  /\ Confirm(k)
  /\ UNCHANGED << storage, pending, registry, saving, dropDue, unloads, users, used >>

AppendSucceeds(k) ==
  /\ ses[k].step = "write"
  /\ file' = WriteAll(file, ses[k].batch)
  /\ Confirm(k)
  /\ UNCHANGED << snap, pending, registry, saving, dropDue, unloads, users, used >>

\* The write stops short without an error; the fsync of what it wrote succeeds,
\* and the byte count the write returned is not looked at.
AppendStopsShort(k) ==
  /\ ses[k].step = "write"
  /\ "short" \in AppendFaults
  /\ \E whole \in 0..Len(ses[k].batch), end \in Ends :
       /\ CanEnd(ses[k].batch, whole, end)
       /\ file' = Write(file, ses[k].batch, whole, end)
  /\ file' # WriteAll(file, ses[k].batch)
  /\ Spend("fault")
  /\ Confirm(k)
  /\ UNCHANGED << snap, pending, registry, saving, dropDue, unloads, users >>

\* Either nothing was written, or everything was and the fsync failed.
AppendFails(k) ==
  /\ ses[k].step = "write"
  /\ \/ "write" \in AppendFaults /\ UNCHANGED file
     \/ "fsync" \in AppendFaults /\ file' = WriteAll(file, ses[k].batch)
  /\ Spend("fault")
  /\ Abandon(k, ses[k].boundary)

-----------------------------------------------------------------------------
(* Dropping and saving.                                                     *)

\* dropLoadedBoardInstance: only the instance the registry names is dropped,
\* and its users are disconnected.
Drop(k) ==
  /\ k \in dropDue
  /\ dropDue' = dropDue \ {k}
  /\ IF registry = k
     THEN /\ mem' = [mem EXCEPT ![k].disposed = TRUE]
          /\ registry' = 0
          /\ users' = IF users = k THEN 0 ELSE users
          /\ client' = IF users = k THEN Lost(client) ELSE client
     ELSE UNCHANGED << mem, registry, users, client >>
  /\ UNCHANGED << storage, pending, ses, saving, unloads, accepted, used >>

\* hasDirtyItems (a deleted item still in memory is one), or sequences the stored
\* SVG does not have yet.
Unsaved(k) == mem[k].content.order # mem[k].saved \/ mem[k].seq # mem[k].savedSeq

\* Mutant of BeginSave: the snapshot claims the entries still being appended.
ClaimsInFlight(k, unload) ==
  /\ saving = NoSave
  /\ Ready(k) /\ ~mem[k].disposed /\ Unsaved(k)
  /\ saving' = [inst |-> k, content |-> Stored(Cleaned(mem[k].content)),
                seq |-> mem[k].seq + Len(ses[k].batch), baseSeq |-> mem[k].savedSeq,
                rewrite |-> mem[k].saved # << >>, unload |-> unload]
  /\ mem' = [mem EXCEPT ![k].content = Captured(Cleaned(@))]

\* unsafeSaveBoard captures the board and its sequence as they are in memory.
\* A board that has stored items is rewritten over the stored file, any other
\* is written anew.
BeginSave(k, unload) ==
  /\ saving = NoSave
  /\ Ready(k) /\ ~mem[k].disposed /\ Unsaved(k)
  /\ saving' = [inst |-> k, content |-> Stored(Cleaned(mem[k].content)),
                seq |-> mem[k].seq, baseSeq |-> mem[k].savedSeq,
                rewrite |-> mem[k].saved # << >>, unload |-> unload]
  /\ mem' = [mem EXCEPT ![k].content = Captured(Cleaned(@))]

TimerSave(k) ==
  /\ BeginSave(k, FALSE)
  /\ Spend("timer")
  /\ UNCHANGED << storage, pending, ses, registry, dropDue, unloads, senders >>

UnloadSave(k) ==
  /\ k \in unloads
  /\ BeginSave(k, TRUE)
  /\ unloads' = unloads \ {k}
  /\ UNCHANGED << storage, pending, ses, registry, dropDue, senders, used >>

\* The end of unloadBoard: a board nobody uses is disposed of, and whatever
\* instance the registry holds under its name is forgotten.
Unused(k) == users # k
Retired(k)   == IF Unused(k) THEN 0 ELSE registry

\* The save had nothing to do, or came after the instance was disposed of.
UnloadSkipsSave(k) ==
  /\ k \in unloads
  /\ saving = NoSave
  /\ Ready(k) /\ (mem[k].disposed \/ ~Unsaved(k))
  /\ unloads' = unloads \ {k}
  /\ mem' = [mem EXCEPT ![k].disposed = @ \/ Unused(k)]
  /\ registry' = Retired(k)
  /\ UNCHANGED << storage, pending, ses, saving, dropDue, senders, used >>

\* A rewrite insists that the stored file is the one the instance last knew.
StaleBase(save) ==
  save.rewrite /\ (~snap.exists \/ snap.seq # save.baseSeq)

\* Writing an empty board removes its stored files, sequence included.
FinishSave ==
  /\ saving # NoSave
  /\ ~StaleBase(saving)
  /\ LET k == saving.inst IN
     /\ mem' = [mem EXCEPT ![k] = [mem[k] EXCEPT
                 !.content = Finalized(@), !.saved = saving.content, !.savedSeq = saving.seq,
                 !.disposed = mem[k].disposed \/ (saving.unload /\ Unused(k))]]
     /\ registry' = IF saving.unload THEN Retired(k) ELSE registry
  /\ snap' = IF ~saving.rewrite /\ saving.content = << >> THEN NoSnapshot
             ELSE [exists |-> TRUE, seq |-> saving.seq, content |-> saving.content]
  /\ saving' = NoSave
  /\ UNCHANGED << file, pending, ses, dropDue, unloads, senders, used >>

StaleSave ==
  /\ saving # NoSave
  /\ StaleBase(saving)
  /\ dropDue' = dropDue \cup {saving.inst}
  /\ saving' = NoSave
  /\ UNCHANGED << storage, mem, pending, ses, registry, unloads, senders, used >>

\* A save that fails leaves the board loaded, an unload included.
SaveFails ==
  /\ saving # NoSave
  /\ ~StaleBase(saving)
  /\ Spend("fault")
  /\ saving' = NoSave
  /\ UNCHANGED << storage, mem, pending, ses, registry, dropDue, unloads, senders >>

-----------------------------------------------------------------------------
(* The rest of the world.                                                   *)

\* The last user disconnects: the loaded instance is to be unloaded.
Leave ==
  /\ users # 0
  /\ Spend("leave")
  /\ users' = 0
  /\ client' = Lost(client)
  /\ unloads' = IF registry # 0 THEN unloads \cup {registry} ELSE unloads
  /\ UNCHANGED << storage, mem, pending, ses, registry, saving, dropDue, accepted >>

\* The unload of an instance whose load failed only rejects.
UnloadRejects(k) ==
  /\ k \in unloads
  /\ mem[k].phase = "broken"
  /\ unloads' = unloads \ {k}
  /\ UNCHANGED << storage, mem, pending, ses, registry, saving, dropDue, senders, used >>

\* The stored SVG goes missing.
LoseSnapshot ==
  /\ snap.exists
  /\ Spend("lost")
  /\ snap' = NoSnapshot
  /\ UNCHANGED << file, server, senders >>

\* The process dies; the bytes of an append in flight may have reached the file
\* whole, in part or not at all.
Crash ==
  /\ \E k \in Instances : mem[k].phase \notin {"unborn", "dead"}
  /\ Spend("crash")
  /\ \/ UNCHANGED file
     \/ \E k \in Instances, end \in CrashEnds : \E whole \in 0..Len(ses[k].batch) :
          /\ ses[k].step = "write"
          /\ CanEnd(ses[k].batch, whole, end)
          /\ file' = Write(file, ses[k].batch, whole, end)
  /\ mem' = [k \in Instances |->
              IF mem[k].phase = "unborn" THEN mem[k] ELSE [Unborn EXCEPT !.phase = "dead"]]
  /\ pending' = [k \in Instances |-> {}]
  /\ ses' = [k \in Instances |-> NewSession]
  /\ registry' = 0
  /\ users' = 0
  /\ saving' = NoSave
  /\ dropDue' = {}
  /\ unloads' = {}
  /\ \E gone \in SUBSET {m \in Muts : client[m] = "acked"} : client' = Unheard(Lost(client), gone)
  /\ UNCHANGED << snap, accepted >>

-----------------------------------------------------------------------------

\* What a running process does of itself.
Recover(k)  == ReadSnapshot(k) \/ ReadLedger(k) \/ HydrateNext(k)
Take(k)     == TakeSeal(k) \/ \E m \in Muts : TakeRetry(k, m) \/ TakeRefused(k, m) \/ TakeWrite(k, m)
Persist(k)  == \/ ReadBoundary(k) \/ RepairBoundary(k) \/ BoundaryFails(k)
               \/ AppendSucceeds(k) \/ AppendStopsShort(k) \/ AppendFails(k)
Unload(k)   == UnloadSave(k) \/ UnloadSkipsSave(k) \/ UnloadRejects(k)
EndSave     == FinishSave \/ StaleSave \/ SaveFails

Serve ==
  \/ \E k \in Instances : Recover(k) \/ Take(k) \/ Persist(k) \/ Drop(k) \/ Unload(k)
  \/ EndSave

Environment ==
  \/ Connect \/ Reload \/ RequestSeal \/ Leave \/ LoseSnapshot \/ Crash
  \/ \E m \in Muts : Send(m) \/ Resend(m)
  \/ \E k \in Instances : TimerSave(k)

Next == Serve \/ Environment

Spec == Init /\ [][Next]_vars

\* Every step a running process owes is eventually taken; users, timers, faults
\* and crashes owe nothing.
Fairness ==
  /\ \A k \in Instances : /\ WF_vars(Recover(k))
                          /\ WF_vars(Take(k))
                          /\ WF_vars(Persist(k))
                          /\ WF_vars(Drop(k))
                          /\ WF_vars(Unload(k))
  /\ WF_vars(EndSave)

FairSpec == Spec /\ Fairness

-----------------------------------------------------------------------------
(* What must be true of it.                                                 *)

\* An instance with tasks queued or an append under way.
Busy(k) == ses[k].queue # << >> \/ ses[k].step # "idle"

\* While a crash's unterminated bytes are still in the file, one instance at
\* most is at work on it.  A theorem's premise: otherwise one instance may act on
\* a plan it made before another one appended, and cut that entry off.
Calm == ~file.terminated => \A j, k \in Instances : Busy(j) /\ Busy(k) => j = k

\* Only the loaded instance is at work on the file.  A theorem's premise: otherwise
\* an instance that was dropped or unloaded with writes still queued may append
\* behind the back of the one loaded next.
Alone == \A k \in Instances : Busy(k) => k = registry

\* Nothing is saved, and only the loaded instance is at work, until an append of its
\* fails.  A theorem's premise: a board's life up to its first save, over any number
\* of loads, unloads, failed appends, drops and crashes.  A save may store writes
\* ahead of the sequence it claims, and a load from it does not remember the ids of
\* the entries the snapshot covers.
Undisturbed ==
  saving = NoSave /\ \A k \in Instances : Busy(k) => k = registry /\ k \notin dropDue

\* A write that was ever confirmed to its sender can be read back from the
\* ledger, through every crash, repair, drop and reload that follows.
AcceptedIsRecorded == accepted \subseteq Recorded(file)

\* However often a write is sent, one ledger entry records it.
AppliedOnce ==
  \A i, j \in DOMAIN file.lines :
    /\ IsEntry(file.lines[i]) /\ IsEntry(file.lines[j])
    /\ file.lines[i].mut = file.lines[j].mut
    /\ file.lines[i].mut \in Muts
    => i = j

\* Recovery always works: no load meets a gap, a corrupt line or an entry the
\* engine rejects.
LoadNeverBreaks == \A k \in Instances : mem[k].phase # "broken"

\* The content the ledger's entries up to a sequence add up to.
Entries(f, upTo) ==
  ItemsAt(f.lines, {i \in DOMAIN f.lines : IsEntry(f.lines[i]) /\ f.lines[i].seq <= upTo})
Replayed(entries) ==
  LET after[n \in 0..Len(entries)] ==
        IF n = 0 THEN Empty ELSE Process(after[n - 1], entries[n].mut).content
  IN after[Len(entries)]

\* No board in use holds more live items than the cap, however its items came and
\* went and wherever saves and loads fell in between.
WithinCap == \A k \in Instances : Ready(k) => LiveCount(mem[k].content) <= MaxItems

\* The stored snapshot never runs ahead of the ledger: each sequence it covers
\* is one the ledger holds.
SnapshotNotAhead ==
  snap.exists => \A s \in 1..snap.seq : \E i \in DOMAIN file.lines :
                    IsEntry(file.lines[i]) /\ file.lines[i].seq = s

\* Between two acceptances the loaded board is what replaying its whole ledger
\* would give, however it was loaded: from a lagging snapshot, from none, or
\* after a crash in the middle of an append.
LoadedBoardIsItsLedger ==
  registry # 0 /\ Ready(registry) /\ ses[registry].step = "idle" /\ registry \notin dropDue
  => Stored(mem[registry].content) = Stored(Replayed(Entries(file, mem[registry].seq)))

\* ... and its next sequence is the one after the ledger's last.  A board whose save
\* found its snapshot gone is an exception: it is dropped while its queue still
\* appends, and the board loaded next to it does not see that entry.
LoadedBoardIsAtTheHead ==
  used["lost"] = 0 /\ registry # 0 /\ Ready(registry) /\ ses[registry].step = "idle" /\ registry \notin dropDue
  => \A i \in DOMAIN file.lines : IsEntry(file.lines[i]) => file.lines[i].seq <= mem[registry].seq

\* The repair after a crash cuts torn bytes away, never an entry that reads as one.
EntriesAreNeverCut == [][ Keeps(file, file') ]_file

\* Once the seal of the loaded instance has taken effect, its content and the
\* ledger are final: everything queued before it is in, everything after is out.
SealedIsFinal ==
  [][ \A k \in Instances : ses[k].sealed /\ ses'[k].sealed =>
        /\ file' = file
        /\ mem'[k].content = mem[k].content ]_<< file, mem, ses >>

\* The acceptance queue never wedges: a write handed to a live connection is
\* confirmed, refused, or its connection goes.
SentIsAnswered == \A m \in Muts : client[m] = "sent" ~> client[m] # "sent"
=============================================================================
