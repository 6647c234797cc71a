--------------------------- MODULE OptimisticWrites ---------------------------
(***************************************************************************)
(* What a browser does with the writes of its user before the server has   *)
(* answered them: it draws them at once, journals how to take them back    *)
(* (optimistic_journal.js, board_optimistic_module.js), buffers them until *)
(* they are confirmed or rejected (board_write_module.js) and reconciles   *)
(* them with what the others write (board_replay_module.js).               *)
(*                                                                         *)
(* One browser is modelled; the other participants and the acceptance of   *)
(* the server are its environment, the latter with the duplicate tracking  *)
(* of a hosted board.  How baselines, pins and batches come about is the   *)
(* subject of BoardReplay: here a baseline is any sequence accepted so far *)
(* and the batch is what follows it.  All tools are booted.                *)
(*                                                                         *)
(* An item is the id of the mutation that last drew it.  A stacking order, *)
(* the overlay of a stroke under the pen, Turnstile and batches of         *)
(* mutations are left out.                                                 *)
(***************************************************************************)
EXTENDS Naturals, Sequences, FiniteSets, SequencesExt

CONSTANTS
  Items,       \* the ids of items
  Nothing,     \* what stands for an item that is not drawn
  Drawn,       \* what the board holds at first: a sequence of mutations
  Mine,        \* the mutations this user may make ...
  Theirs,      \* ... and those of the others
  MaxLag,      \* bound: mutations a baseline is behind
  MaxFaults    \* bound: refusals by policy and at a handshake, rate limits, losses

Mutations == Mine \cup Theirs \cup Range(Drawn)

\* Every mutation has an id of its own, so no two users' ids meet.
ASSUME IdsAssumption ==
  /\ Drawn \in Seq(Range(Drawn))
  /\ \A m \in Mine : \A o \in Theirs \cup Range(Drawn) : m.cid # o.cid
  /\ \A m, o \in Mutations : m.cid = o.cid => m = o
  /\ \A m \in Mutations : {m.id, m.from} \subseteq Items

VARIABLES
  me,       \* the browser
  log,      \* the mutations accepted, by sequence
  queue,    \* what the browser has sent and the server has not dealt with, with
            \* whether it came on the current socket
  frames,   \* what the server has sent and the browser has not dealt with
  open,     \* the server has the browser's current socket
  used,     \* the user's writes made, and the faults that have happened
  crossed,  \* history: items on which the order of two writers was lost
  deferred  \* history: writes the rate limit has put back

vars == << me, log, queue, frames, open, used, crossed, deferred >>

-----------------------------------------------------------------------------
(* What a mutation draws, touches and rests on.                             *)

\* The tools' draw: a resized shape that is missing is drawn anew, a moved or
\* copied one that is missing makes the hand throw.
Draw(view, m) ==
  CASE m.op = "copy"   -> [view EXCEPT ![m.id] = view[m.from]]
    [] m.op = "delete" -> [view EXCEPT ![m.id] = Nothing]
    [] m.op = "clear"  -> [i \in Items |-> Nothing]
    [] OTHER           -> [view EXCEPT ![m.id] = m.cid]

Throws(view, m) ==
  \/ m.op = "move" /\ view[m.id] = Nothing
  \/ m.op = "copy" /\ view[m.from] = Nothing

\* collectOptimisticAffectedIds and collectOptimisticDependencyIds.
Affected(m) == IF m.op = "clear" THEN {} ELSE {m.id}
RestsOn(m)  == CASE m.op = "copy" -> {m.from}
                 [] m.op \in {"resize", "move", "delete"} -> {m.id}
                 [] OTHER -> {}

\* The items a mutation draws.
Draws(m) == IF m.op = "clear" THEN Items ELSE {m.id}

\* What the server asks of a mutation before it applies it.
Applicable(view, m) ==
  /\ m.op \in {"resize", "move"} => view[m.id] # Nothing
  /\ m.op = "copy" => view[m.from] # Nothing

\* The board after the first n of some mutations.
After(muts, n) ==
  LET board[k \in 0..n] ==
        IF k = 0 THEN [i \in Items |-> Nothing] ELSE Draw(board[k - 1], muts[k])
  IN board[n]
Board(n) == After(log, n)

\* What the board holds at first has been accepted too.
ASSUME DrawnAssumption == \A n \in DOMAIN Drawn : Applicable(After(Drawn, n - 1), Drawn[n])

Accepted(cid) == \E n \in DOMAIN log : log[n].cid = cid

-----------------------------------------------------------------------------
(* The journal.                                                             *)

\* What stands at some places of a sequence, in order.
Chosen(s, places) ==
  [k \in 1..Cardinality(places) |->
     s[CHOOSE p \in places : Cardinality({j \in places : j <= p}) = k]]

EntryIds(c)    == {c.journal[k].mut.cid : k \in DOMAIN c.journal}
PendingMuts(c) == {e.mut : e \in Range(c.journal)}

\* captureRollback: the items a mutation touches as they are now, all of them
\* for a clear.
Rollback(view, m) ==
  IF m.op = "clear" THEN view ELSE [i \in Affected(m) |-> view[i]]

\* dependencyMutationIdsForItemIds: the latest pending write of each item the
\* mutation rests on.
LatestOn(journal, item) ==
  LET places == {k \in DOMAIN journal : item \in Affected(journal[k].mut)} IN
  {journal[k].mut.cid : k \in {k \in places : \A j \in places : j <= k}}

Without(journal, cids) ==
  Chosen(journal, {k \in DOMAIN journal : journal[k].mut.cid \notin cids})

\* trackMutation: an entry of the same id makes way for the new one.
Track(c, m, undo) ==
  LET entry == [mut |-> m, undo |-> undo,
                needs |-> UNION {LatestOn(c.journal, i) : i \in RestsOn(m)}] IN
  [c EXCEPT !.journal = Append(Without(@, {m.cid}), entry)]

\* Mutant of Dependents: a rejection takes only the write itself along.
DependentsStay(journal, cids) == cids

\* expandRejectedIds: passes over the journal until none finds another dependent,
\* that is, the least set that has the dependents of its members.
Dependents(journal, cids) ==
  LET all == cids \cup {e.mut.cid : e \in Range(journal)}
      closed(ids) == \A e \in Range(journal) : e.needs \cap ids # {} => e.mut.cid \in ids
  IN {x \in all : \A ids \in SUBSET all : cids \subseteq ids /\ closed(ids) => x \in ids}

Restored(view, undo) == [i \in Items |-> IF i \in DOMAIN undo THEN undo[i] ELSE view[i]]

\* Mutant of Undone: the oldest of the rejected writes is taken back first.
OldestFirst(view, rejected) == FoldLeft(LAMBDA v, e : Restored(v, e.undo), view, rejected)

\* applyRejectedEntries: the latest of the rejected writes is taken back first.
Undone(view, rejected) ==
  LET n == Len(rejected)
      back[k \in 0..n] == IF k = 0 THEN view ELSE Restored(back[k - 1], rejected[n + 1 - k].undo)
  IN back[n]

\* reject and rejectByInvalidatedIds, with the roll back of what they remove.
RejectEntries(c, cids) ==
  LET gone == Dependents(c.journal, cids \cap EntryIds(c)) IN
  [c EXCEPT !.journal = Without(@, gone),
            !.view = Undone(@, Without(c.journal, EntryIds(c) \ gone))]

\* The entries a deleted item invalidates: those that touch it or rest on it.
InvalidatedBy(c, item) ==
  {m.cid : m \in {m \in {c.journal[k].mut : k \in DOMAIN c.journal} :
                   item \in Affected(m) \cup RestsOn(m)}}

\* pruneForAuthoritativeMessage.
PruneForAuthoritative(c, m) ==
  CASE m.op = "clear"  -> [RejectEntries(c, EntryIds(c)) EXCEPT !.journal = << >>]
    [] m.op = "delete" -> RejectEntries(c, InvalidatedBy(c, m.id))
    [] OTHER           -> c

-----------------------------------------------------------------------------
(* The buffered writes.                                                     *)

BufferedIds(c) == {c.buffered[k].mut.cid : k \in DOMAIN c.buffered}

ResolveBuffered(c, cid) ==
  [c EXCEPT !.buffered = Chosen(@, {k \in DOMAIN @ : @[k].mut.cid # cid})]

\* pruneBufferedWritesForInvalidatingMessage.
PruneBuffered(c, m) ==
  CASE m.op = "clear"  -> [c EXCEPT !.buffered = << >>]
    [] m.op = "delete" ->
         [c EXCEPT !.buffered =
            Chosen(@, {k \in DOMAIN @ : m.id \notin Affected(@[k].mut) \cup RestsOn(@[k].mut)})]
    [] OTHER           -> c

\* deferBufferedWritesUntil at a rate limit: everything is to be sent again, and
\* drawn again when it is.
Defer(c) ==
  [c EXCEPT !.buffered =
     [k \in DOMAIN @ |-> [@[k] EXCEPT !.state = "queued", !.redraw = TRUE]]]

Writable(c) == c.link = "live" /\ ~c.paused

\* emitBufferedWrite of the k-th write, which a redraw that throws breaks off.
EmitNth(run, k) ==
  LET c == run.client
      w == c.buffered[k]
      plain == [c EXCEPT !.buffered[k].redraw = FALSE]
      drawn == Track([plain EXCEPT !.view = Draw(@, w.mut)], w.mut, Rollback(c.view, w.mut))
  IN IF w.redraw /\ Throws(c.view, w.mut)
     THEN [run EXCEPT !.client = plain, !.broken = TRUE]
     ELSE [run EXCEPT !.client = [(IF w.redraw THEN drawn ELSE plain)
                                    EXCEPT !.buffered[k].state = "inflight"],
                      !.sent = Append(@, w.mut)]

\* pumpBufferedWrites: the queued writes go out in order up to the first one the
\* local budget holds back, the one after the place upto.
Pump(c, upto) ==
  LET run[k \in 0..upto] ==
        IF k = 0 THEN [client |-> c, sent |-> << >>, broken |-> FALSE]
        ELSE IF run[k - 1].broken \/ c.buffered[k].state # "queued" THEN run[k - 1]
        ELSE EmitNth(run[k - 1], k)
  IN run[upto]

-----------------------------------------------------------------------------
(* The history of crossed items: where the browser draws two writes in another *)
(* order than the server.  It is in order again with the next clear or baseline.*)

\* The items on which the order of two mutations shows: both draw it, or one copies
\* to it what the other draws.
Taken(m, o) == IF o.op = "copy" /\ o.from \in Draws(m) THEN {o.id} ELSE {}
Meet(m, o)  == (Draws(m) \cap Draws(o)) \cup Taken(m, o) \cup Taken(o, m)

\* The items lost so far, some more, and what mutations copy from any of them.
Spread(items, muts) ==
  LET closed(s) == \A m \in muts : m.op = "copy" /\ m.from \in s => m.id \in s
  IN {i \in Items : \A s \in SUBSET Items : crossed \cup items \subseteq s /\ closed(s) => i \in s}

\* A write that has still to be drawn again comes over the new one on the screen,
\* though it is sent before it.
Overdrawn(m) == UNION {Meet(w.mut, m) : w \in {w \in Range(me.buffered) : w.redraw}}

\* A retry of a write the board already has draws it a second time.
Repeated(muts) == UNION {Draws(m) : m \in {m \in Range(muts) : Accepted(m.cid)}}

\* A write is taken back from under a later one that stays.
Uncovered(journal, left) ==
  {i \in Items : \E j, k \in DOMAIN journal :
     /\ j < k /\ i \in Draws(journal[j].mut) \cap Draws(journal[k].mut)
     /\ journal[j].mut \notin left /\ journal[k].mut \in left}

\* A mutation of the others is drawn over the pending writes, whatever the server's
\* order, and a later roll back takes it away.
Crosses(m) ==
  LET left == PendingMuts(PruneForAuthoritative(me, m)) IN
  IF m.op = "clear" THEN {}
  ELSE Spread(Uncovered(me.journal, left) \cup UNION {Meet(o, m) : o \in left}, left \cup {m})

\* An accepted write that had been rolled back is not drawn again.
Orphaned(m) == IF m.cid \in EntryIds(me) THEN {} ELSE Draws(m)

-----------------------------------------------------------------------------
(* The browser.                                                             *)

Init ==
  /\ log = Drawn
  /\ me = [view |-> Board(Len(Drawn)), seq |-> Len(Drawn), journal |-> << >>,
           buffered |-> << >>, link |-> "live", paused |-> FALSE]
  /\ queue = << >> /\ frames = << >>
  /\ open = TRUE
  /\ used = [mine |-> {}, faults |-> 0]
  /\ crossed = {} /\ deferred = {}

\* What the browser emits reaches the server's queue unless the socket is gone.
Emitted(muts) ==
  queue' = IF open THEN queue \o [k \in DOMAIN muts |-> [mut |-> muts[k], here |-> TRUE]]
                   ELSE queue

\* The user can move, copy or delete what is on the screen, and goes on resizing
\* a shape that has been taken away under the pointer.
Offered(m) ==
  /\ m.op \in {"move", "delete"} => me.view[m.id] # Nothing
  /\ m.op = "copy" => me.view[m.from] # Nothing
  /\ m.op = "resize" =>
       \/ me.view[m.id] # Nothing
       \/ \E n \in Mine : n.op = "create" /\ n.id = m.id /\ n.cid \in used.mine

\* drawAndSend: drawn, buffered and pumped, then journalled, which a redraw that
\* throws in between prevents.
DrawAndSend(m) ==
  /\ m.cid \notin used.mine
  /\ Writable(me) /\ Offered(m)
  /\ \E upto \in 0..Len(me.buffered) + 1 :
       LET drawn == [me EXCEPT !.view = Draw(@, m),
                               !.buffered = Append(@, [mut |-> m, state |-> "queued",
                                                       redraw |-> FALSE])]
           run == Pump(drawn, upto)
       IN /\ me' = IF run.broken THEN run.client
                   ELSE Track(run.client, m, Rollback(me.view, m))
          /\ Emitted(run.sent)
          /\ crossed' = Spread(Repeated(run.sent) \cup Overdrawn(m)
                                \cup (IF run.broken THEN Draws(m) ELSE {}), PendingMuts(me'))
  /\ used' = [used EXCEPT !.mine = @ \cup {m.cid}]
  /\ UNCHANGED << log, frames, open, deferred >>

\* The timer of a write the local budget has held back.
Flush ==
  /\ Writable(me)
  /\ \E k \in DOMAIN me.buffered : me.buffered[k].state = "queued"
  /\ \E upto \in DOMAIN me.buffered :
       /\ \E k \in 1..upto : me.buffered[k].state = "queued"
       /\ me' = Pump(me, upto).client
       /\ Emitted(Pump(me, upto).sent)
       /\ crossed' = Spread(Repeated(Pump(me, upto).sent), PendingMuts(me'))
  /\ UNCHANGED << log, frames, open, used, deferred >>

\* The end of the server's rate limit pumps what it has put back.
EndPause ==
  /\ me.paused
  /\ LET woken == [me EXCEPT !.paused = FALSE] IN
     IF Writable(woken)
     THEN \E upto \in 0..Len(me.buffered) :
            /\ me' = Pump(woken, upto).client
            /\ Emitted(Pump(woken, upto).sent)
            /\ crossed' = Spread(Repeated(Pump(woken, upto).sent), PendingMuts(me'))
     ELSE me' = woken /\ UNCHANGED << queue, crossed >>
  /\ UNCHANGED << log, frames, open, used, deferred >>

\* beginAuthoritativeResync.
Resync(c, preserve) ==
  [c EXCEPT !.link = "down", !.journal = << >>,
            !.buffered = IF preserve THEN @ ELSE << >>]

\* handleMessage of the next sequence: a draw that throws leaves the sequence
\* where it was, the frame is lost.
HandleMessage(c, m) ==
  LET known == PruneBuffered(ResolveBuffered(c, m.cid), m) IN
  IF Throws(c.view, m) THEN known
  ELSE [known EXCEPT !.view = Draw(@, m), !.seq = @ + 1]

\* An own write that comes back is confirmed and not drawn again.
ConfirmOwn(c, cid) ==
  [ResolveBuffered(c, cid) EXCEPT !.journal = Without(@, {cid}), !.seq = @ + 1]

\* processIncomingBroadcast of a sequenced mutation.
DeliverMutation(frame) ==
  /\ frame.kind = "mutation"
  /\ \/ frame.seq <= me.seq /\ UNCHANGED << me, crossed, open >> /\ frames' = Tail(frames)
     \/ /\ frame.seq > me.seq + 1
        /\ me' = Resync(me, FALSE)
        /\ open' = FALSE /\ frames' = << >>
        /\ UNCHANGED crossed
     \/ /\ frame.seq = me.seq + 1
        /\ IF frame.mine
           THEN /\ me' = ConfirmOwn(me, frame.mut.cid)
                /\ crossed' = Spread(Orphaned(frame.mut), PendingMuts(me'))
           ELSE /\ me' = HandleMessage(PruneForAuthoritative(me, frame.mut), frame.mut)
                /\ crossed' = Crosses(frame.mut)
        /\ frames' = Tail(frames) /\ UNCHANGED open
  /\ UNCHANGED << log, queue, used, deferred >>

\* Mutant of DeliverRejection: the write is taken back, the buffer keeps it.
KeepsTheRejected(c, cid) == RejectEntries(c, {cid})

\* The handler of a rejection: resolved, then taken back with what depends on it.
Rejected(c, cid) == RejectEntries(ResolveBuffered(c, cid), {cid})

DeliverRejection(frame) ==
  /\ frame.kind = "rejected"
  /\ me' = Rejected(me, frame.cid)
  /\ crossed' = Spread(Uncovered(me.journal, PendingMuts(me')), PendingMuts(me'))
  /\ frames' = Tail(frames)
  /\ UNCHANGED << log, queue, open, used, deferred >>

DeliverRateLimit(frame) ==
  /\ frame.kind = "limited"
  /\ me' = [Defer(me) EXCEPT !.paused = TRUE]
  /\ deferred' = deferred \cup BufferedIds(me)
  /\ frames' = Tail(frames)
  /\ UNCHANGED << log, queue, open, used, crossed >>

\* The disconnect: what a rate limit has put back survives it.
DeliverClose(frame) ==
  /\ frame.kind = "closed"
  /\ me' = Resync(me, me.paused)
  /\ frames' = Tail(frames)
  /\ UNCHANGED << log, queue, open, used, crossed, deferred >>

\* applyAuthoritativeBaseline of the baseline fetched.
FetchBaseline ==
  /\ me.link = "down"
  /\ \E n \in {n \in 0..Len(log) : n + MaxLag >= Len(log)} :
       me' = [me EXCEPT !.view = Board(n), !.seq = n, !.journal = << >>, !.link = "fetched"]
  /\ crossed' = {}
  /\ UNCHANGED << log, queue, frames, open, used, deferred >>

\* The connection is made and its batch is under way.
Join ==
  /\ me.link = "fetched"
  /\ me' = [me EXCEPT !.link = "replaying"]
  /\ open' = TRUE
  /\ queue' = [k \in DOMAIN queue |-> [queue[k] EXCEPT !.here = FALSE]]
  /\ frames' = << [kind |-> "batch", muts |-> SubSeq(log, me.seq + 1, Len(log))] >>
  /\ UNCHANGED << log, used, crossed, deferred >>

\* The baseline is too old to replay from: nothing is preserved this time.
JoinRefused ==
  /\ me.link = "fetched" /\ me.seq < Len(log)
  /\ used.faults < MaxFaults
  /\ me' = Resync(me, FALSE)
  /\ used' = [used EXCEPT !.faults = @ + 1]
  /\ UNCHANGED << log, queue, frames, open, crossed, deferred >>

\* processAuthoritativeReplayBatch: the batch, one mutation after the other.
Replayed(c, muts) ==
  LET replay[k \in 0..Len(muts)] ==
        IF k = 0 THEN c ELSE HandleMessage(replay[k - 1], muts[k])
  IN replay[Len(muts)]

\* completeAuthoritativeReplay.
DeliverBatch(frame) ==
  /\ frame.kind = "batch"
  /\ LET replayed == [Replayed(me, frame.muts) EXCEPT !.link = "live"] IN
     IF Writable(replayed)
     THEN \E upto \in 0..Len(replayed.buffered) :
            /\ me' = Pump(replayed, upto).client
            /\ Emitted(Pump(replayed, upto).sent)
            /\ crossed' = Spread(Repeated(Pump(replayed, upto).sent), PendingMuts(me'))
     ELSE me' = replayed /\ UNCHANGED << queue, crossed >>
  /\ frames' = Tail(frames)
  /\ UNCHANGED << log, open, used, deferred >>

Deliver ==
  /\ frames # << >>
  /\ \/ DeliverMutation(Head(frames))
     \/ DeliverRejection(Head(frames))
     \/ DeliverRateLimit(Head(frames))
     \/ DeliverClose(Head(frames))
     \/ DeliverBatch(Head(frames))

-----------------------------------------------------------------------------
(* The server.                                                              *)

Broadcast(seq, m, mine) == [kind |-> "mutation", seq |-> seq, mut |-> m, mine |-> mine]

ToBrowser(frame) == frames' = IF open THEN Append(frames, frame) ELSE frames

\* acceptPersistentMutation of a new write, or the confirmation of a known one
\* under the sequence it has.
Accept ==
  /\ queue # << >>
  /\ LET m == Head(queue).mut
         mine == Head(queue).here
     IN \/ \E n \in DOMAIN log :
             log[n].cid = m.cid /\ ToBrowser(Broadcast(n, m, mine)) /\ UNCHANGED log
        \/ /\ ~Accepted(m.cid) /\ Applicable(Board(Len(log)), m)
           /\ log' = Append(log, m)
           /\ ToBrowser(Broadcast(Len(log) + 1, m, mine))
  /\ queue' = Tail(queue)
  /\ UNCHANGED << me, open, used, crossed, deferred >>

\* A write that does not apply, or that a policy of the server turns down, is
\* answered on the connection it came on.
Refuse ==
  /\ queue # << >>
  /\ LET m == Head(queue).mut IN
     /\ ~Accepted(m.cid)
     /\ \/ ~Applicable(Board(Len(log)), m) /\ UNCHANGED used
        \/ /\ used.faults < MaxFaults
           /\ used' = [used EXCEPT !.faults = @ + 1]
     /\ IF Head(queue).here THEN ToBrowser([kind |-> "rejected", cid |-> m.cid])
                                       ELSE UNCHANGED frames
  /\ queue' = Tail(queue)
  /\ UNCHANGED << me, log, open, crossed, deferred >>

\* Somebody else's mutation is accepted.
AcceptTheirs(m) ==
  /\ ~Accepted(m.cid) /\ Applicable(Board(Len(log)), m)
  /\ log' = Append(log, m)
  /\ ToBrowser(Broadcast(Len(log) + 1, m, FALSE))
  /\ UNCHANGED << me, queue, open, used, crossed, deferred >>

\* The writes on the browser's current connection the server gets to see before it
\* ends: the first kept of them.
CutOff(kept) ==
  LET ours(k) == Cardinality({j \in 1..k : queue[j].here}) IN
  queue' = Chosen(queue, {k \in DOMAIN queue : ~queue[k].here \/ ours(k) <= kept})

Unseen == {k \in DOMAIN queue : queue[k].here}

\* One write too many: the server says so and closes the socket.
RateLimit ==
  /\ open /\ used.faults < MaxFaults
  /\ \E kept \in 0..Cardinality(Unseen) - 1 : CutOff(kept)
  /\ open' = FALSE
  /\ frames' = frames \o << [kind |-> "limited"], [kind |-> "closed"] >>
  /\ used' = [used EXCEPT !.faults = @ + 1]
  /\ UNCHANGED << me, log, crossed, deferred >>

\* The connection breaks, with any part of what is under way either way.
LoseConnection ==
  /\ open /\ used.faults < MaxFaults
  /\ \E kept \in 0..Cardinality(Unseen) : CutOff(kept)
  /\ \E n \in 0..Len(frames) : frames' = Append(SubSeq(frames, 1, n), [kind |-> "closed"])
  /\ open' = FALSE
  /\ used' = [used EXCEPT !.faults = @ + 1]
  /\ UNCHANGED << me, log, crossed, deferred >>

Next ==
  \/ \E m \in Mine : DrawAndSend(m)
  \/ Flush \/ EndPause \/ FetchBaseline \/ Join \/ JoinRefused
  \/ Deliver
  \/ Accept \/ Refuse \/ RateLimit \/ LoseConnection
  \/ \E m \in Theirs : AcceptTheirs(m)

Spec == Init /\ [][Next]_vars

-----------------------------------------------------------------------------
(* Properties.                                                              *)

Pending == EntryIds(me) \cup BufferedIds(me)

\* What rests on a pending write goes when the write goes: a dependency of an
\* entry is itself pending or has been accepted.
DependentsGoTogether ==
  \A e \in Range(me.journal) : \A cid \in e.needs : cid \in EntryIds(me) \/ Accepted(cid)

\* Once nothing is pending or under way, the screen shows the server's board on
\* every item on which no order of two writers was lost.
Settled == /\ me.link = "live" /\ Pending = {} /\ queue = << >> /\ frames = << >>
ViewAgrees ==
  Settled => \A i \in Items \ crossed : me.view[i] = Board(Len(log))[i]

\* No write waits for an answer that cannot come any more: once the server has
\* nothing left to say, what was sent is settled, a rate limit's retries apart.
InFlight == {w.mut.cid : w \in {w \in Range(me.buffered) : w.state = "inflight"}}
AnswersSettle ==
  me.link = "live" /\ queue = << >> /\ frames = << >> => InFlight \subseteq deferred
=============================================================================
