---- MODULE BoardReplay ----
(***************************************************************************)
(* How a reader follows a board: the replay log of the loaded instance     *)
(* (mutation_log.mjs), the baselines pinned for handshakes that are under  *)
(* way (registry.mjs), the handshake that turns a baseline into a replay   *)
(* batch (socket/replay.mjs), the live broadcasts, the unload that must    *)
(* wait for the pins, and the reader's side: the queue of frames, the      *)
(* sequence it has drawn up to, and the resynchronisation that fetches a   *)
(* new baseline (board_replay_module.js, board_connection_module.js).      *)
(*                                                                         *)
(* A mutation is its sequence number: what it draws is the subject of      *)
(* BoardContent.  A view is the sequence of the mutations drawn, a         *)
(* baseline at sequence b standing for 1..b.                               *)
(***************************************************************************)
EXTENDS Naturals, Sequences, FiniteSets, SequencesExt, FiniteSetsExt

CONSTANTS
    Clients,      \* the browsers that read the board
    MaxSeq,       \* bound: mutations accepted
    MaxFaults,    \* bound: lost connections, failed fetches and drops together
    LazySeqs      \* the mutations drawn by a tool the browser boots on first use

ASSUME MaxSeqIsNat == MaxSeq \in Nat
ASSUME LazyAreSeqs == LazySeqs \subseteq 1..MaxSeq

Seqs == 0..MaxSeq
None == "none"

VARIABLES
    head,     \* the last accepted sequence of the board
    stored,   \* the sequence of the stored SVG
    inst,     \* the loaded instance: its replay log is first+1..head
    save,     \* the save under way
    unloadDue, \* an unload waits for its save
    pins,     \* per baseline: not pinned, pinned in time, or pinned too late
    retry,    \* an unload put off until the pins expire
    guest,    \* somebody else is connected and writes
    client,   \* the readers
    wire,     \* the frames under way to each reader
    faults

serverVars == <<head, stored, inst, save, unloadDue, pins, retry, guest>>
vars == <<serverVars, client, wire, faults>>

Live(n) == [kind |-> "live", from |-> n, seq |-> n, count |-> 1]
NoSave == [busy |-> FALSE, from |-> 0, to |-> 0, mine |-> FALSE, unload |-> FALSE]

Prefix(n) == [i \in 1..n |-> i]

Unloaded == [loaded |-> FALSE, first |-> 0, persisted |-> 0]

-----------------------------------------------------------------------------
(* The replay log: a contiguous suffix of the accepted mutations           *)

ReadFrom(board, from) == {n \in board.first + 1 .. head : n > from}

BatchOfTheFile(board, from) ==
    [kind |-> "batch", from |-> from, seq |-> board.persisted,
     count |-> Cardinality({n \in ReadFrom(board, from) : n <= board.persisted})]

Batch(board, from) ==
    [kind |-> "batch", from |-> from, seq |-> head, count |-> Cardinality(ReadFrom(board, from))]

PinnedSeqs == {s \in Seqs : pins[s] # "free"}

TrimsPinned(persisted, aged) ==
    LET keeps(n) == n > persisted \/ n > aged
    IN Min({n - 1 : n \in {n \in inst.first + 1 .. head : keeps(n)}} \cup {head})

\* Trims the persisted prefix: what is pinned, unsaved or young stays.  "aged"
\* is the last sequence past its retention.
Trim(persisted, aged) ==
    LET keeps(n) == \/ PinnedSeqs # {} /\ n > Min(PinnedSeqs)
                    \/ n > persisted
                    \/ n > aged
    IN Min({n - 1 : n \in {n \in inst.first + 1 .. head : keeps(n)}} \cup {head})

Floor == IF inst.loaded THEN inst.first ELSE stored

Attached == {c \in Clients : client[c].phase = "live"}
NoUsers == Attached = {} /\ ~guest

-----------------------------------------------------------------------------
(* The reader                                                              *)

NewReader == [phase |-> "idle", page |-> TRUE, base |-> 0, auth |-> 0, drawn |-> <<>>,
              refresh |-> TRUE, queue |-> <<>>, processing |-> FALSE, waiting |-> <<>>,
              pending |-> <<>>, booted |-> FALSE, torn |-> FALSE]

ResyncsOnOldBaseline(r) ==
    [r EXCEPT !.phase = "idle", !.base = 0, !.queue = <<>>, !.processing = FALSE,
              !.torn = @ \/ r.waiting # <<>>]

\* beginAuthoritativeResync: what is queued is forgotten, a message whose tool
\* is still booting is not.
Resynced(r) ==
    [r EXCEPT !.phase = "idle", !.base = 0, !.refresh = TRUE, !.queue = <<>>, !.processing = FALSE,
              !.torn = @ \/ r.waiting # <<>>]

WithBaseline(r, b) ==
    [r EXCEPT !.auth = b, !.drawn = Prefix(b), !.base = b, !.page = FALSE,
              !.refresh = FALSE, !.phase = "connecting", !.torn = r.waiting # <<>>]

Mounted(r, n) == r.booted \/ n \notin LazySeqs

\* The children of a batch, drawn until one of them needs a tool to boot.
Children(r, frame, from) ==
    LET stop == Min({n \in from..frame.seq : ~Mounted(r, n)} \cup {frame.seq + 1})
        shown == [r EXCEPT !.drawn = @ \o [i \in 1..(stop - from) |-> from + i - 1],
                           !.auth = IF stop > from THEN stop - 1 ELSE @]
    IN IF stop > frame.seq
       THEN [shown EXCEPT !.auth = frame.seq, !.refresh = FALSE, !.processing = FALSE]
       ELSE [shown EXCEPT !.waiting = Append(@, [frame |-> frame, at |-> stop]),
                          !.pending = Append(@, stop), !.processing = TRUE]

OutOfOrder(r, frame) ==
    IF frame.kind = "batch"
    THEN frame.from # r.auth \/ frame.count # frame.seq - frame.from
    ELSE frame.seq > r.auth + 1

Stale(r, frame) == frame.kind = "live" /\ frame.seq <= r.auth

\* processIncomingBroadcast for a frame that is neither stale nor out of order.
Processed(r, frame) ==
    IF frame.kind = "batch" THEN Children(r, frame, frame.from + 1)
    ELSE IF Mounted(r, frame.seq)
         THEN [r EXCEPT !.drawn = Append(@, frame.seq), !.auth = frame.seq]
         ELSE [r EXCEPT !.waiting = Append(@, [frame |-> frame, at |-> frame.seq]),
                        !.pending = Append(@, frame.seq), !.processing = TRUE]

-----------------------------------------------------------------------------
Init ==
    /\ head = 0 /\ stored = 0
    /\ inst = Unloaded
    /\ save = NoSave
    /\ unloadDue = FALSE
    /\ pins = [s \in Seqs |-> "free"]
    /\ retry = FALSE
    /\ guest = FALSE
    /\ client = [c \in Clients |-> NewReader]
    /\ wire = [c \in Clients |-> <<>>]
    /\ faults = 0

(* The server *)

Load == IF inst.loaded THEN inst ELSE [loaded |-> TRUE, first |-> stored, persisted |-> stored]

GuestJoins ==
    /\ ~guest
    /\ guest' = TRUE
    /\ inst' = Load
    /\ UNCHANGED <<head, stored, save, unloadDue, pins, retry, client, wire, faults>>

\* persistBoardBroadcast: the accepted mutation goes to every synced user.
Write ==
    /\ guest /\ head < MaxSeq
    /\ head' = head + 1
    /\ wire' = [c \in Clients |-> IF c \in Attached THEN Append(wire[c], Live(head + 1))
                                  ELSE wire[c]]
    /\ UNCHANGED <<stored, inst, save, unloadDue, pins, retry, guest, client, faults>>

\* One save at a time in the process; a disposed instance starts none.
SaveBegins(unload) ==
    /\ inst.loaded /\ ~save.busy
    /\ IF unload THEN unloadDue ELSE inst.persisted < head
    /\ save' = [busy |-> TRUE, from |-> inst.persisted, to |-> head, mine |-> TRUE,
                unload |-> unload]
    /\ unloadDue' = (unloadDue /\ ~unload)
    /\ UNCHANGED <<head, stored, inst, pins, retry, guest, client, wire, faults>>

\* Whoever leaves last has the board unloaded, which saves it first.
Leaving(others) == unloadDue' = (unloadDue \/ (~others /\ inst.loaded))

GuestLeaves ==
    /\ guest
    /\ guest' = FALSE
    /\ Leaving(Attached # {})
    /\ UNCHANGED <<head, stored, inst, save, pins, retry, client, wire, faults>>

UnloadRetries ==
    /\ retry
    /\ retry' = FALSE
    /\ Leaving(FALSE)
    /\ UNCHANGED <<head, stored, inst, save, pins, guest, client, wire, faults>>

\* What a pin promises ends when the instance whose log it needs is dropped.
Kept(pin, s, floor) == IF pin = "kept" /\ s < floor THEN "late" ELSE pin

\* A save lands: the file is replaced and the log trimmed.
Saved(aged) ==
    [inst EXCEPT !.first = Trim(save.to, aged), !.persisted = save.to]

PinsBelow(s) == \E b \in PinnedSeqs : b < s

SaveLands(aged) ==
    /\ save.busy /\ save.mine /\ stored = save.from /\ ~save.unload
    /\ stored' = save.to
    /\ inst' = Saved(aged)
    /\ save' = NoSave
    /\ UNCHANGED <<head, pins, unloadDue, retry, guest, client, wire, faults>>

\* The rest of unloadBoard: users who joined meanwhile keep the board loaded,
\* pins below the saved sequence put the unload off until they expire.
UnloadSaved(aged) ==
    /\ save.busy /\ save.mine /\ stored = save.from /\ save.unload
    /\ stored' = save.to
    /\ save' = NoSave
    /\ IF NoUsers /\ ~PinsBelow(save.to)
       THEN inst' = Unloaded /\ unloadDue' = FALSE /\ retry' = FALSE
       ELSE inst' = Saved(aged) /\ UNCHANGED unloadDue /\ retry' = (retry \/ NoUsers)
    /\ UNCHANGED <<head, pins, guest, client, wire, faults>>

\* The save of an instance that was dropped meanwhile.
StraySaveLands ==
    /\ save.busy /\ ~save.mine
    /\ save' = NoSave
    /\ stored' = IF stored = save.from THEN save.to ELSE stored
    /\ pins' = IF inst.loaded THEN pins ELSE [b \in Seqs |-> Kept(pins[b], b, stored')]
    /\ UNCHANGED <<head, inst, unloadDue, retry, guest, client, wire, faults>>

\* dropLoadedBoardInstance: its sockets are disconnected; its pins stay, but
\* the next instance starts at the stored sequence.
DropsInstance ==
    /\ inst' = Unloaded
    /\ unloadDue' = FALSE /\ retry' = FALSE
    /\ guest' = FALSE
    /\ client' = [c \in Clients |-> IF c \in Attached THEN Resynced(client[c]) ELSE client[c]]
    /\ wire' = [c \in Clients |-> <<>>]
    /\ pins' = [b \in Seqs |-> Kept(pins[b], b, stored)]
    /\ UNCHANGED <<head, stored>>

LedgerFails ==
    /\ faults < MaxFaults /\ guest /\ inst.loaded
    /\ faults' = faults + 1
    /\ save' = [save EXCEPT !.mine = FALSE]
    /\ DropsInstance

SaveIsStale ==
    /\ save.busy /\ save.mine /\ stored # save.from
    /\ save' = NoSave
    /\ DropsInstance
    /\ UNCHANGED faults

PinExpires(b) ==
    /\ pins[b] # "free"
    /\ pins' = [pins EXCEPT ![b] = "free"]
    /\ UNCHANGED <<head, stored, inst, save, unloadDue, retry, guest, client, wire, faults>>

-----------------------------------------------------------------------------
(* The baseline and the handshake                                          *)

Becomes(c, r) == client' = [client EXCEPT ![c] = r]

Start(c) ==
    /\ client[c].phase = "idle"
    /\ Becomes(c, IF client[c].refresh THEN [client[c] EXCEPT !.phase = "asking"]
                  ELSE [client[c] EXCEPT !.phase = "connecting", !.base = client[c].auth])
    /\ UNCHANGED <<serverVars, wire, faults>>

\* The page is read with its sequence; of the SVG route only the sequence.
ServerReads(c) ==
    /\ client[c].phase = "asking"
    /\ Becomes(c, [client[c] EXCEPT !.phase = "read", !.base = stored])
    /\ UNCHANGED <<serverVars, wire, faults>>

\* The read is awaited: by now the baseline may be out of the log's reach.
ServerPins(c) ==
    /\ client[c].phase = "read"
    /\ pins' = [pins EXCEPT ![client[c].base] =
                    IF client[c].base >= Floor THEN "kept" ELSE "late"]
    /\ Becomes(c, [client[c] EXCEPT !.phase = IF client[c].page THEN "served" ELSE "pinned"])
    /\ UNCHANGED <<head, stored, inst, save, unloadDue, retry, guest, wire, faults>>

\* The SVG route streams the file after the pin: it may be a newer one.
ServerStreams(c) ==
    /\ client[c].phase = "pinned"
    /\ Becomes(c, [client[c] EXCEPT !.phase = "served", !.base = stored])
    /\ UNCHANGED <<serverVars, wire, faults>>

BaselineArrives(c) ==
    /\ client[c].phase = "served"
    /\ Becomes(c, WithBaseline(client[c], client[c].base))
    /\ UNCHANGED <<serverVars, wire, faults>>

FetchFails(c) ==
    /\ faults < MaxFaults
    /\ client[c].phase \in {"asking", "read", "pinned", "served"} /\ ~client[c].page
    /\ faults' = faults + 1
    /\ Becomes(c, [client[c] EXCEPT !.phase = "idle", !.base = 0])
    /\ UNCHANGED <<serverVars, wire>>

Replayable(base, board) == base <= head /\ base >= board.first

\* prepareConnectionReplay and bootstrapSocketBoard: nothing that waits comes
\* between the batch and the first live broadcast.
Handshake(c) ==
    /\ client[c].phase = "connecting"
    /\ inst' = Load
    /\ IF Replayable(client[c].base, Load)
       THEN /\ Becomes(c, [client[c] EXCEPT !.phase = "live", !.base = 0])
            /\ wire' = [wire EXCEPT ![c] = <<Batch(Load, client[c].base)>>]
       ELSE Becomes(c, Resynced(client[c])) /\ UNCHANGED wire
    /\ UNCHANGED <<head, stored, save, pins, unloadDue, retry, guest, faults>>

Disconnects(c) ==
    /\ faults < MaxFaults /\ client[c].phase = "live"
    /\ faults' = faults + 1
    /\ Becomes(c, Resynced(client[c]))
    /\ wire' = [wire EXCEPT ![c] = <<>>]
    /\ Leaving(guest \/ Attached # {c})
    /\ UNCHANGED <<head, stored, inst, save, pins, retry, guest>>

-----------------------------------------------------------------------------
(* The frames                                                              *)

\* One round of drainIncomingBroadcastQueue; a gap closes the connection.
Handle(c, r, frame) ==
    IF OutOfOrder(r, frame)
    THEN /\ Becomes(c, Resynced(r))
         /\ wire' = [wire EXCEPT ![c] = <<>>]
         /\ Leaving(guest \/ Attached # {c})
    ELSE /\ Becomes(c, IF Stale(r, frame) THEN r ELSE Processed(r, frame))
         /\ UNCHANGED <<unloadDue, wire>>

FrameArrives(c) ==
    /\ wire[c] # <<>>
    /\ Becomes(c, [client[c] EXCEPT !.queue = Append(@, Head(wire[c]))])
    /\ wire' = [wire EXCEPT ![c] = Tail(@)]
    /\ UNCHANGED <<serverVars, faults>>

Drain(c) ==
    /\ ~client[c].processing /\ client[c].queue # <<>>
    /\ Handle(c, [client[c] EXCEPT !.queue = Tail(@)], Head(client[c].queue))
    /\ UNCHANGED <<head, stored, inst, save, pins, retry, guest, faults>>

\* Mutant of Remainder: the child that was waited for is drawn again.
DrawsTheChildAgain(w) ==
    IF w.frame.kind = "batch" THEN [i \in 1..(w.frame.seq - w.at + 1) |-> w.at + i - 1] ELSE <<>>

\* What is left to draw of a frame once the child at w.at is drawn.
Remainder(w) ==
    IF w.frame.kind = "batch" THEN [i \in 1..(w.frame.seq - w.at) |-> w.at + i] ELSE <<>>

\* mountTool draws what waited for the tool; then every drain that awaited the
\* boot goes on to the end of its frame, whatever became of the queue, the
\* baseline or the connection in the meantime.
ToolBoots(c) ==
    /\ client[c].pending # <<>>
    /\ LET r == client[c]
           more == Tail(r.waiting)
       IN Becomes(c, [r EXCEPT
            !.booted = TRUE, !.pending = <<>>, !.waiting = <<>>, !.processing = FALSE,
            !.drawn = r.drawn \o r.pending \o Remainder(Head(r.waiting))
                        \o FlattenSeq([i \in DOMAIN more |-> Remainder(more[i])]),
            !.auth = Last(r.waiting).frame.seq,
            !.refresh = r.refresh /\ \A i \in DOMAIN r.waiting : r.waiting[i].frame.kind = "live"])
    /\ UNCHANGED <<serverVars, wire, faults>>

-----------------------------------------------------------------------------
ServerNext ==
    \/ GuestJoins \/ GuestLeaves \/ Write
    \/ \E unload \in BOOLEAN : SaveBegins(unload)
    \/ \E aged \in Seqs : SaveLands(aged) \/ UnloadSaved(aged)
    \/ StraySaveLands \/ SaveIsStale \/ LedgerFails \/ UnloadRetries
    \/ \E b \in Seqs : PinExpires(b)

ReaderNext(c) ==
    \/ Start(c) \/ ServerReads(c) \/ ServerPins(c) \/ ServerStreams(c) \/ BaselineArrives(c)
    \/ FetchFails(c) \/ Handshake(c) \/ Disconnects(c)
    \/ FrameArrives(c) \/ Drain(c) \/ ToolBoots(c)

Next == ServerNext \/ \E c \in Clients : ReaderNext(c)

Spec == Init /\ [][Next]_vars

\* Timers fire, requests are answered, frames arrive, saves end, tools boot.
Fairness ==
    /\ WF_vars(\E aged \in Seqs : SaveLands(aged) \/ UnloadSaved(aged))
    /\ WF_vars(StraySaveLands) /\ WF_vars(SaveIsStale)
    /\ \A c \in Clients :
         /\ WF_vars(Start(c)) /\ WF_vars(ServerReads(c)) /\ WF_vars(ServerPins(c))
         /\ WF_vars(ServerStreams(c)) /\ WF_vars(BaselineArrives(c)) /\ WF_vars(Handshake(c))
         /\ WF_vars(FrameArrives(c)) /\ WF_vars(Drain(c))
         /\ WF_vars(ToolBoots(c))

FairSpec == Spec /\ Fairness

-----------------------------------------------------------------------------

\* A baseline pinned while it could be replayed stays so until its pin expires:
\* neither the trim of a save nor an unload and a reload takes away what the
\* handshake of the reader it was served to will ask for (mutation_log.mjs,
\* unloadBoard); only dropping the instance does.
PinnedStaysReplayable == \A b \in Seqs : pins[b] = "kept" => b >= Floor

Backlog(r, c) == [i \in DOMAIN r.waiting |-> r.waiting[i].frame] \o r.queue \o wire[c]

\* Whatever was accepted reaches a connected reader in order: what it has drawn,
\* what it is working on, what it has queued and what is under way to it are one
\* unbroken run of sequences that ends at the head of the board (the batch of the
\* handshake and the live broadcasts after it leave no gap between them).
NothingSkipped ==
    \A c \in Attached :
        LET r == client[c]
            b == Backlog(r, c)
            reach == [i \in 0..Len(b) |-> IF i = 0 THEN r.auth ELSE b[i].seq]
        IN ~r.torn =>
             /\ reach[Len(b)] = head
             /\ \A i \in 1..Len(b) :
                   IF b[i].kind = "live" THEN b[i].seq = reach[i-1] + 1
                   ELSE i = 1 /\ b[i].from + b[i].count = b[i].seq

\* A reader between two frames shows exactly the mutations up to its sequence,
\* each once and in order, through resynchronisations, restarts of the drain and
\* tools booted late, unless the boot of a tool outlived the connection it
\* was needed for ("torn").
ViewIsPrefix ==
    \A c \in Clients :
        LET r == client[c]
        IN ~r.torn /\ r.waiting = <<>> => r.drawn = Prefix(r.auth)

\* A connected reader comes to have drawn whatever had been accepted, after a
\* lost connection and a refused handshake too: no frame is waited for that never
\* comes, and no reader is refused for ever.
CatchesUp ==
    \A c \in Clients :
        c \in Attached ~> (client[c].auth = head \/ client[c].torn)
====
