------------------------- MODULE BoardReplayProofs --------------------------
(***************************************************************************)
(* For any number of readers, mutations, faults and lazily booted tools:   *)
(* a baseline pinned in time stays replayable, nothing accepted is skipped *)
(* on the way to a connected reader, and a view is a prefix of the log.    *)
(*                                                                         *)
(* The first is a fact about the server alone (PinsInv).  The other two    *)
(* are proved together (ReplayInv): a reader that is not torn is either    *)
(* between two frames or in the middle of one, and what it works on, has   *)
(* queued and has under way to it are numbered to the head of the board.   *)
(***************************************************************************)
EXTENDS BoardReplay, FiniteSetTheorems, SequenceTheorems, WellFoundedInduction, TLAPS

Frame   == [kind : {"live", "batch"}, from : Nat, seq : Nat, count : Nat]
Waiting == [frame : Frame, at : Nat]
Phases  == {"idle", "asking", "read", "pinned", "served", "connecting", "live"}

\* (What a torn reader has drawn is nobody's business.)
Reader(drawn) ==
  [phase : Phases, page : BOOLEAN, base : Nat, auth : Nat, drawn : {drawn},
   refresh : BOOLEAN, queue : Seq(Frame), processing : BOOLEAN, waiting : Seq(Waiting),
   pending : Seq(Nat), booted : BOOLEAN, torn : BOOLEAN]

Log == [loaded : BOOLEAN, first : Nat, persisted : Nat]
Save == [busy : BOOLEAN, from : Nat, to : Nat, mine : BOOLEAN, unload : BOOLEAN]

(***************************************************************************)
(* The server: the log is a suffix of what was accepted, a save holds what *)
(* was accepted when it began, and the instance a save belongs to is there.*)
(***************************************************************************)
ServerTypes ==
  /\ head \in Nat /\ stored \in Nat
  /\ inst \in Log /\ save \in Save
  /\ pins \in [Seqs -> {"free", "kept", "late"}]

PinsInv ==
  /\ ServerTypes
  /\ stored <= head /\ inst.first <= head /\ save.to <= head
  /\ save.busy /\ save.mine => inst.loaded
  /\ PinnedStaysReplayable

(***************************************************************************)
(* The readers.                                                            *)
(***************************************************************************)
ReaderTypes ==
  /\ client = [c \in Clients |-> client[c]]
  /\ wire \in [Clients -> Seq(Frame)]
  /\ \A c \in Clients : client[c] \in Reader(client[c].drawn)

\* Frames numbered without a gap to the head, of which only the first may be a
\* batch, and one that is whole.
Run(b, n) ==
  \A i \in 1..Len(b) :
    /\ b[i].seq + (Len(b) - i) = n
    /\ \/ b[i].kind = "live"
       \/ i = 1 /\ b[i].from + b[i].count = b[i].seq

\* A reader between two frames, and one in the middle of a frame.
Between(r) ==
  r.waiting = << >> /\ r.pending = << >> /\ ~r.processing

Within(r) ==
  /\ r.phase = "live" /\ r.processing
  /\ Len(r.waiting) = 1 /\ Len(r.pending) = 1
  /\ LET w == r.waiting[1] IN
     /\ r.pending[1] = w.at
     /\ w.at = r.auth + 1
     /\ IF w.frame.kind = "live" THEN w.at = w.frame.seq
        ELSE w.frame.from < w.at /\ w.at <= w.frame.seq

\* The first frame of those queued and under way goes on where the reader is.
Continues(auth, b, n) ==
  IF b = << >> THEN auth = n
  ELSE IF b[1].kind = "live" THEN b[1].seq = auth + 1
  ELSE b[1].from = auth

Work(r) == [i \in DOMAIN r.waiting |-> r.waiting[i].frame]

Settled(r) ==
  /\ r.waiting = << >> => r.pending = << >> /\ ~r.processing
  /\ r.pending = << >> => r.waiting = << >>

\* What a reader with w under way to it has in hand, n being the head.
Whole(r, w, n) ==
  /\ r.drawn = Prefix(r.auth)
  /\ Between(r) \/ Within(r)
  /\ r.phase = "connecting" => r.base = r.auth
  /\ r.phase = "live" =>
       LET b == Work(r) \o r.queue \o w IN
       /\ Run(b, n)
       /\ Between(r) => Continues(r.auth, b, n)

Follows(r, w, n) ==
  /\ r.phase # "live" => r.queue = << >> /\ w = << >>
  /\ Settled(r)
  /\ ~r.torn => Whole(r, w, n)

ReplayInv ==
  /\ ReaderTypes
  /\ \A c \in Clients : Follows(client[c], wire[c], head)

-----------------------------------------------------------------------------
(* Least elements.                                                          *)

\* A set of natural numbers has a least element, and Min is it.
LEMMA Least ==
  ASSUME NEW T \in SUBSET Nat, T # {}
  PROVE  Min(T) \in T /\ \A y \in T : Min(T) <= y
<1> DEFINE R == OpToRel(<, Nat)
<1>1. IsWellFoundedOn(R, Nat)
  BY NatLessThanWellFounded
<1>2. \A x, y \in Nat : x < y => << x, y >> \in R
  BY DEF OpToRel
<1> HIDE DEF R
<1>3. PICK x \in T : \A y \in T : ~ (<< y, x >> \in R)
  BY <1>1, WFMin, Zenon
<1>4. ASSUME NEW y \in T PROVE x <= y
  <2>1. ~ (y < x) /\ x \in Nat /\ y \in Nat
    BY <1>2, <1>3
  <2> QED BY <2>1
<1> QED BY <1>4 DEF Min

\* The trim of a save takes no more than was accepted, and nothing that a pinned
\* baseline needs.
LEMMA TrimKeeps ==
  ASSUME head \in Nat, inst.first \in Nat, NEW persisted, NEW aged
  PROVE  /\ Trim(persisted, aged) \in Nat
         /\ Trim(persisted, aged) <= head
         /\ \A b \in PinnedSeqs : b >= inst.first => Trim(persisted, aged) <= b
<1> DEFINE keeps(n) == \/ PinnedSeqs # {} /\ n > Min(PinnedSeqs)
                       \/ n > persisted
                       \/ n > aged
           T == {n - 1 : n \in {m \in inst.first + 1 .. head : keeps(m)}} \cup {head}
<1>1. T \in SUBSET Nat /\ head \in T
  OBVIOUS
<1>2. Trim(persisted, aged) = Min(T)
  BY DEF Trim
<1>3. Min(T) \in T /\ \A y \in T : Min(T) <= y
  <2> HIDE DEF T
  <2> QED BY <1>1, Least
<1>4. ASSUME NEW b \in PinnedSeqs, b >= inst.first
      PROVE  Min(T) <= b
  <2>1. PinnedSeqs \in SUBSET Nat /\ b \in Nat
    BY MaxSeqIsNat DEF PinnedSeqs, Seqs
  <2>2. Min(PinnedSeqs) \in Nat /\ Min(PinnedSeqs) <= b
    BY <2>1, Least
  <2>3. CASE b < head
    <3>1. b + 1 \in inst.first + 1 .. head /\ (b + 1) - 1 = b
      BY <1>4, <2>1, <2>3
    <3>2. keeps(b + 1)
      BY <2>1, <2>2
    <3>3. b \in T
      BY <3>1, <3>2
    <3> QED BY <1>3, <3>3
  <2>4. CASE b >= head
    <3> HIDE DEF T
    <3>1. Min(T) \in Nat /\ Min(T) <= head
      BY <1>1, <1>3
    <3> QED BY <2>1, <2>4, <3>1
  <2> QED BY <2>1, <2>3, <2>4
<1>5. Min(T) \in Nat /\ Min(T) <= head
  <2> HIDE DEF T
  <2> QED BY <1>1, <1>3
<1> QED BY <1>2, <1>4, <1>5

-----------------------------------------------------------------------------
(* The pins.                                                                *)

\* What the pins are about.
held == << head, stored, inst, save, pins >>

LEMMA PinsInit == Init => PinsInv
BY DEF Init, PinsInv, ServerTypes, Unloaded, NoSave, Log, Save, PinnedStaysReplayable, Floor

\* A save begins.
LEMMA SaveBeginsPins ==
  ASSUME PinsInv, NEW unload \in BOOLEAN, SaveBegins(unload)
  PROVE  PinsInv'
BY DEF PinsInv, ServerTypes, SaveBegins, Save, Log, PinnedStaysReplayable, Floor

\* The instance that is loaded starts where the stored file ends.
LEMMA LoadPins ==
  ASSUME PinsInv, inst' = Load, UNCHANGED << head, stored, save, pins >>
  PROVE  PinsInv'
<1>1. CASE inst.loaded
  BY <1>1 DEF PinsInv, ServerTypes, Load, PinnedStaysReplayable, Floor
<1>2. CASE ~inst.loaded
  <2>1. inst' = [loaded |-> TRUE, first |-> stored, persisted |-> stored]
    BY <1>2 DEF Load
  <2> QED BY <1>2, <2>1 DEF PinsInv, ServerTypes, Log, PinnedStaysReplayable, Floor
<1> QED BY <1>1, <1>2

\* A save that lands trims the log and leaves what is pinned.
LEMMA SavedPins ==
  ASSUME PinsInv, NEW aged, save.busy, save.mine, inst' = Saved(aged),
         stored' = save.to, save' = NoSave, UNCHANGED << head, pins >>
  PROVE  PinsInv'
<1>1. /\ head \in Nat /\ inst \in Log /\ inst.first \in Nat /\ inst.loaded /\ save.to \in Nat
      /\ \A b \in Seqs : pins[b] = "kept" => b >= inst.first
  BY DEF PinsInv, ServerTypes, Log, Save, PinnedStaysReplayable, Floor
<1> DEFINE t == Trim(save.to, aged)
<1>2. /\ t \in Nat /\ t <= head
      /\ \A b \in PinnedSeqs : b >= inst.first => t <= b
  BY <1>1, TrimKeeps
<1> HIDE DEF t
<1>3. inst' = [inst EXCEPT !.first = t, !.persisted = save.to]
  BY DEF Saved, t
<1>4. inst' \in Log /\ inst'.first = t /\ inst'.loaded
  BY <1>1, <1>2, <1>3 DEF Log
<1>5. PinnedStaysReplayable'
  <2> SUFFICES ASSUME NEW b \in Seqs, pins[b] = "kept" PROVE b >= t
    BY <1>4 DEF PinnedStaysReplayable, Floor
  <2>1. b \in PinnedSeqs /\ b \in Nat
    BY MaxSeqIsNat DEF PinnedSeqs, Seqs
  <2> QED BY <1>1, <1>2, <2>1
<1>6. NoSave \in Save /\ NoSave.busy = FALSE /\ NoSave.to = 0
  BY DEF NoSave, Save
<1> QED BY <1>1, <1>2, <1>4, <1>5, <1>6 DEF PinsInv, ServerTypes

\* An instance that goes may leave only pins above the stored file.
LEMMA UnloadedPins ==
  ASSUME PinsInv, inst' = Unloaded, stored' \in Nat, stored' <= head,
         save' \in Save, save'.to <= head, ~ (save'.busy /\ save'.mine), head' = head,
         pins' \in [Seqs -> {"free", "kept", "late"}],
         \A b \in Seqs : pins'[b] = "kept" => b >= stored'
  PROVE  PinsInv'
<1>1. Unloaded \in Log /\ Unloaded.first = 0 /\ Unloaded.loaded = FALSE
  BY DEF Unloaded, Log
<1> QED BY <1>1 DEF PinsInv, ServerTypes, PinnedStaysReplayable, Floor

\* The pins whose promise ends with the instance.
LEMMA KeptPins ==
  ASSUME pins \in [Seqs -> {"free", "kept", "late"}], NEW n,
         pins' = [b \in Seqs |-> Kept(pins[b], b, n)], n \in Nat
  PROVE  /\ pins' \in [Seqs -> {"free", "kept", "late"}]
         /\ \A b \in Seqs : pins'[b] = "kept" => b >= n
<1>1. \A b \in Seqs : b \in Nat
  BY MaxSeqIsNat DEF Seqs
<1> QED BY <1>1 DEF Kept

LEMMA DropPins ==
  ASSUME PinsInv, DropsInstance, save' \in Save, save'.to <= head, ~ (save'.busy /\ save'.mine)
  PROVE  PinsInv'
<1>1. /\ stored \in Nat /\ stored <= head /\ UNCHANGED << head, stored >> /\ inst' = Unloaded
      /\ pins \in [Seqs -> {"free", "kept", "late"}]
      /\ pins' = [b \in Seqs |-> Kept(pins[b], b, stored)]
  BY DEF DropsInstance, PinsInv, ServerTypes
<1> QED BY <1>1, KeptPins, UnloadedPins

\* Every step keeps them.
LEMMA PinsStep ==
  ASSUME PinsInv, [Next]_vars
  PROVE  PinsInv'
<1>0. /\ head \in Nat /\ stored \in Nat /\ inst \in Log /\ save \in Save
      /\ pins \in [Seqs -> {"free", "kept", "late"}]
      /\ stored <= head /\ save.to <= head /\ save.to \in Nat
      /\ NoSave \in Save /\ NoSave.busy = FALSE /\ NoSave.to = 0
  BY DEF PinsInv, ServerTypes, Save, NoSave
<1>1. CASE UNCHANGED held
  BY <1>1 DEF held, PinsInv, ServerTypes, PinnedStaysReplayable, Floor
<1>2. CASE Write
  <2>1. head' = head + 1 /\ UNCHANGED << stored, inst, save, pins >>
    BY <1>2 DEF Write
  <2>2. head' \in Nat /\ head <= head' /\ inst.first \in Nat
    BY <1>0, <2>1 DEF Log
  <2>3. stored <= head' /\ inst.first <= head' /\ save.to <= head'
    BY <1>0, <2>2 DEF PinsInv
  <2> QED BY <2>1, <2>2, <2>3 DEF PinsInv, ServerTypes, PinnedStaysReplayable, Floor
<1>3. CASE GuestJoins \/ \E c \in Clients : Handshake(c)
  BY <1>3, LoadPins DEF GuestJoins, Handshake
<1>4. ASSUME NEW unload \in BOOLEAN, SaveBegins(unload) PROVE PinsInv'
  BY <1>4, SaveBeginsPins
<1>5. ASSUME NEW aged, SaveLands(aged) PROVE PinsInv'
  BY <1>5, SavedPins DEF SaveLands
<1>6. ASSUME NEW aged, UnloadSaved(aged) PROVE PinsInv'
  <2>1. /\ save.busy /\ save.mine /\ stored' = save.to /\ save' = NoSave /\ UNCHANGED << head, pins >>
        /\ inst' = Saved(aged) \/ (inst' = Unloaded /\ ~PinsBelow(save.to))
    BY <1>6 DEF UnloadSaved
  <2>2. CASE inst' = Unloaded /\ ~PinsBelow(save.to)
    <3>1. ASSUME NEW b \in Seqs, pins[b] = "kept" PROVE b >= save.to
      <4>1. b \in PinnedSeqs /\ b \in Nat
        BY <3>1, MaxSeqIsNat DEF PinnedSeqs, Seqs
      <4>2. ~ (b < save.to)
        BY <2>2, <4>1 DEF PinsBelow
      <4> QED BY <1>0, <4>1, <4>2
    <3> QED BY <1>0, <2>1, <2>2, <3>1, UnloadedPins
  <2> QED BY <2>1, <2>2, SavedPins
<1>7. CASE StraySaveLands
  <2>1. /\ save' = NoSave /\ stored' \in {stored, save.to} /\ UNCHANGED << head, inst >>
        /\ pins' = IF inst.loaded THEN pins ELSE [b \in Seqs |-> Kept(pins[b], b, stored')]
    BY <1>7 DEF StraySaveLands
  <2>2. stored' \in Nat /\ stored' <= head
    BY <1>0, <2>1
  <2>3. CASE inst.loaded
    BY <1>0, <2>1, <2>2, <2>3 DEF PinsInv, ServerTypes, PinnedStaysReplayable, Floor
  <2>4. CASE ~inst.loaded
    <3>1. /\ pins' \in [Seqs -> {"free", "kept", "late"}]
          /\ \A b \in Seqs : pins'[b] = "kept" => b >= stored'
      BY <1>0, <2>1, <2>2, <2>4, KeptPins
    <3> QED BY <1>0, <2>1, <2>2, <2>4, <3>1 DEF PinsInv, ServerTypes, PinnedStaysReplayable, Floor
  <2> QED BY <2>3, <2>4
<1>8. CASE LedgerFails
  <2>1. save' = [save EXCEPT !.mine = FALSE] /\ DropsInstance
    BY <1>8 DEF LedgerFails
  <2>2. save' \in Save /\ save'.to = save.to /\ save'.mine = FALSE
    BY <1>0, <2>1 DEF Save
  <2> QED BY <1>0, <2>1, <2>2, DropPins
<1>9. CASE SaveIsStale
  BY <1>0, <1>9, DropPins DEF SaveIsStale
<1>10. ASSUME NEW b, PinExpires(b) PROVE PinsInv'
  <2>1. pins' = [pins EXCEPT ![b] = "free"] /\ UNCHANGED << head, stored, inst, save >>
    BY <1>10 DEF PinExpires
  <2>2. /\ pins' \in [Seqs -> {"free", "kept", "late"}]
        /\ \A s \in Seqs : pins'[s] = "kept" => pins[s] = "kept"
    BY <1>0, <2>1
  <2> QED BY <2>1, <2>2 DEF PinsInv, ServerTypes, PinnedStaysReplayable, Floor
<1>11. ASSUME NEW c \in Clients, ServerPins(c) PROVE PinsInv'
  <2> DEFINE base == client[c].base
             pin  == IF base >= Floor THEN "kept" ELSE "late"
  <2>1. pins' = [pins EXCEPT ![base] = pin] /\ UNCHANGED << head, stored, inst, save >>
    BY <1>11 DEF ServerPins
  <2>2. /\ pins' \in [Seqs -> {"free", "kept", "late"}]
        /\ \A s \in Seqs : pins'[s] = "kept" => pins[s] = "kept" \/ s >= Floor
    BY <1>0, <2>1
  <2> QED BY <2>1, <2>2 DEF PinsInv, ServerTypes, PinnedStaysReplayable, Floor
<1>12. CASE \E c \in Clients : Disconnects(c) \/ Drain(c)
  <2>1. UNCHANGED held
    BY <1>12 DEF held, Disconnects, Drain
  <2> QED BY <1>1, <2>1
<1>13. CASE GuestLeaves \/ UnloadRetries
  <2>1. UNCHANGED held
    BY <1>13 DEF held, GuestLeaves, UnloadRetries
  <2> QED BY <1>1, <2>1
<1>14. CASE \E c \in Clients : \/ Start(c) \/ ServerReads(c) \/ ServerStreams(c) \/ BaselineArrives(c)
                              \/ FetchFails(c) \/ FrameArrives(c) \/ ToolBoots(c)
  <2>1. UNCHANGED held
    BY <1>14 DEF held, serverVars, Start, ServerReads, ServerStreams, BaselineArrives, FetchFails,
       FrameArrives, ToolBoots
  <2> QED BY <1>1, <2>1
<1>15. CASE UNCHANGED vars
  <2>1. UNCHANGED held
    BY <1>15 DEF held, vars, serverVars
  <2> QED BY <1>1, <2>1
<1> QED BY <1>2, <1>3, <1>4, <1>5, <1>6, <1>7, <1>8, <1>9, <1>10, <1>11, <1>12, <1>13, <1>14, <1>15
        DEF Next, ServerNext, ReaderNext

\* A baseline pinned while it could be replayed stays so until its pin expires or
\* its instance is dropped: no trim, no unload and no reload between takes away what
\* its handshake will ask for (mutation_log.mjs, unloadBoard).
THEOREM PinnedStays == Spec => []PinnedStaysReplayable
<1>1. PinsInv => PinnedStaysReplayable
  BY DEF PinsInv
<1> QED BY <1>1, PinsInit, PinsStep, PTL DEF Spec

-----------------------------------------------------------------------------
(* Sequences of frames.                                                     *)

LEMMA Grows ==
  ASSUME NEW n \in Nat, NEW k \in Nat
  PROVE  Prefix(n) \o [i \in 1..k |-> n + i] = Prefix(n + k)
BY DEF Prefix

LEMMA WorkTypes ==
  ASSUME NEW r, r.waiting \in Seq(Waiting)
  PROVE  /\ Work(r) \in Seq(Frame)
         /\ Len(Work(r)) = Len(r.waiting)
         /\ \A i \in 1..Len(r.waiting) : Work(r)[i] = r.waiting[i].frame
<1>1. DOMAIN r.waiting = 1..Len(r.waiting) /\ Len(r.waiting) \in Nat
  OBVIOUS
<1>2. \A i \in 1..Len(r.waiting) : r.waiting[i] \in Waiting
  OBVIOUS
<1>3. \A i \in 1..Len(r.waiting) : r.waiting[i].frame \in Frame
  BY <1>2 DEF Waiting
<1> QED BY <1>1, <1>3 DEF Work

LEMMA NoWork ==
  ASSUME NEW r, r.waiting = << >>
  PROVE  Work(r) = << >>
BY DEF Work

LEMMA OneWork ==
  ASSUME NEW r, r.waiting \in Seq(Waiting), Len(r.waiting) = 1
  PROVE  Work(r) = << r.waiting[1].frame >>
BY DEF Work, Waiting

\* A frame that arrives changes nothing of the run.
LEMMA Arrives ==
  \A a, q, w \in Seq(Frame) :
    w # << >> => /\ (a \o Append(q, Head(w))) \o Tail(w) = (a \o q) \o w
                 /\ Append(q, Head(w)) \in Seq(Frame)
<1> DEFINE S == Frame
<1> HIDE DEF S
<1> SUFFICES ASSUME NEW a \in Seq(S), NEW q \in Seq(S), NEW w \in Seq(S), w # << >>
             PROVE  /\ (a \o Append(q, Head(w))) \o Tail(w) = (a \o q) \o w
                    /\ Append(q, Head(w)) \in Seq(S)
  BY Zenon DEF S
<1>1. Append(q, Head(w)) \in Seq(S) /\ Tail(w) \in Seq(S)
  OBVIOUS
<1>2. Append(q, Head(w)) \o Tail(w) = q \o w
  OBVIOUS
<1>0. \A x, y, z \in Seq(S) : (x \o y) \o z = x \o (y \o z)
  BY ConcatAssociative, SMTT(30)
<1>3. (a \o Append(q, Head(w))) \o Tail(w) = a \o (Append(q, Head(w)) \o Tail(w))
  BY <1>0, <1>1, ZenonT(30)
<1>4. (a \o q) \o w = a \o (q \o w)
  BY ConcatAssociative
<1> QED BY <1>1, <1>2, <1>3, <1>4

\* The first frame of a run, and the rest of it.
LEMMA RunTail ==
  ASSUME NEW b \in Seq(Frame), b # << >>, NEW n \in Nat, Run(b, n)
  PROVE  /\ Tail(b) \in Seq(Frame)
         /\ Run(Tail(b), n)
         /\ Continues(b[1].seq, Tail(b), n)
<1>1. /\ Tail(b) \in Seq(Frame) /\ Len(b) \in Nat /\ Len(b) >= 1 /\ Len(Tail(b)) = Len(b) - 1
      /\ \A i \in 1..Len(Tail(b)) : Tail(b)[i] = b[i + 1]
  OBVIOUS
<1>0. \A i \in 1..Len(b) : b[i] \in Frame
  OBVIOUS
<1>2. \A i \in 1..Len(b) : b[i].seq \in Nat
  BY <1>0 DEF Frame
<1>3. ASSUME NEW i \in 1..Len(Tail(b))
      PROVE  /\ Tail(b)[i].seq + (Len(Tail(b)) - i) = n
             /\ Tail(b)[i].kind = "live"
  <2>1. i + 1 \in 1..Len(b) /\ i + 1 # 1 /\ Tail(b)[i] = b[i + 1]
    BY <1>1
  <2>2. /\ b[i + 1].seq + (Len(b) - (i + 1)) = n
        /\ b[i + 1].kind = "live"
    BY <2>1 DEF Run
  <2> QED BY <1>1, <1>2, <2>1, <2>2
<1>4. Run(Tail(b), n)
  BY <1>3 DEF Run
<1>5. b[1].seq + (Len(b) - 1) = n /\ b[1].seq \in Nat
  BY <1>1, <1>2 DEF Run
<1>6. ASSUME Tail(b) = << >> PROVE Continues(b[1].seq, Tail(b), n)
  <2>0. Len(<< >>) = 0
    OBVIOUS
  <2>1. Len(Tail(b)) = 0
    BY <1>6, <2>0, Zenon
  <2>3. Len(b) - 1 = 0
    BY <1>1, <2>1, Zenon
  <2>4. Len(b) = 1
    BY <2>3
  <2>2. b[1].seq = n
    BY <1>5, <2>4
  <2> QED BY <1>6, <2>2 DEF Continues
<1>7. ASSUME Tail(b) # << >> PROVE Continues(b[1].seq, Tail(b), n)
  <2>1. Len(b) >= 2 /\ 1 \in 1..Len(Tail(b)) /\ Tail(b)[1] = b[2] /\ b[2].seq \in Nat
    BY <1>1, <1>2, <1>7
  <2>2. Tail(b)[1].kind = "live" /\ b[2].seq + (Len(b) - 1 - 1) = n
    BY <1>1, <1>3, <2>1
  <2>3. b[2].seq = b[1].seq + 1
    BY <1>1, <1>5, <2>1, <2>2
  <2> QED BY <1>7, <2>1, <2>2, <2>3 DEF Continues
<1> QED BY <1>1, <1>4, <1>6, <1>7, Zenon

\* A live broadcast of the next mutation goes on with it.
LEMMA RunAppend ==
  ASSUME NEW b \in Seq(Frame), NEW n \in Nat, Run(b, n)
  PROVE  /\ Append(b, Live(n + 1)) \in Seq(Frame)
         /\ Run(Append(b, Live(n + 1)), n + 1)
         /\ \A auth \in Nat : Continues(auth, b, n) => Continues(auth, Append(b, Live(n + 1)), n + 1)
<1> DEFINE f == Live(n + 1)
           d == Append(b, f)
<1>1. f \in Frame /\ f.kind = "live" /\ f.seq = n + 1
  BY DEF Live, Frame
<1> HIDE DEF f
<1>2. /\ d \in Seq(Frame) /\ d # << >> /\ Len(b) \in Nat /\ Len(d) = Len(b) + 1
      /\ \A i \in 1..Len(b) : d[i] = b[i]
      /\ d[Len(b) + 1] = f
  BY <1>1
<1>0. \A i \in 1..Len(b) : b[i] \in Frame
  OBVIOUS
<1>3. \A i \in 1..Len(b) : b[i].seq \in Nat
  BY <1>0 DEF Frame
<1> HIDE DEF d
<1>4. ASSUME NEW i \in 1..Len(d)
      PROVE  /\ d[i].seq + (Len(d) - i) = n + 1
             /\ \/ d[i].kind = "live"
                \/ i = 1 /\ d[i].from + d[i].count = d[i].seq
  <2>1. CASE i = Len(b) + 1
    BY <1>1, <1>2, <2>1
  <2>2. CASE i \in 1..Len(b)
    <3>1. b[i].seq + (Len(b) - i) = n
      BY <2>2 DEF Run
    <3>2. d[i] = b[i] /\ Len(d) = Len(b) + 1 /\ b[i].seq \in Nat
      BY <1>2, <1>3, <2>2
    <3>3. d[i].seq + (Len(d) - i) = n + 1
      BY <1>2, <3>1, <3>2
    <3> QED BY <2>2, <3>2, <3>3 DEF Run
  <2> QED BY <1>2, <2>1, <2>2
<1>5. ASSUME NEW auth \in Nat, Continues(auth, b, n) PROVE Continues(auth, d, n + 1)
  <2>1. CASE b = << >>
    <3>1. Len(b) = 0 /\ auth = n
      BY <1>5, <2>1 DEF Continues
    <3>2. d[1] = f
      BY <1>2, <3>1
    <3> QED BY <1>1, <1>2, <3>1, <3>2 DEF Continues
  <2>2. CASE b # << >>
    <3>1. 1 \in 1..Len(b)
      BY <1>2, <2>2
    <3>2. d[1] = b[1]
      BY <1>2, <3>1
    <3> QED BY <1>2, <1>5, <2>2, <3>2 DEF Continues
  <2> QED BY <2>1, <2>2
<1> QED BY <1>2, <1>4, <1>5 DEF Run, d, f

-----------------------------------------------------------------------------
(* What a reader does with a frame.                                         *)

\* A reader without a connection starts over from what it has drawn.
LEMMA ResyncedFollows ==
  ASSUME NEW r, r \in Reader(r.drawn), Settled(r), ~r.torn => r.drawn = Prefix(r.auth), NEW n
  PROVE  LET s == Resynced(r)
         IN s \in Reader(s.drawn) /\ Follows(s, << >>, n)
<1> DEFINE s == Resynced(r)
           t == r.torn \/ r.waiting # << >>
<1> SUFFICES s \in Reader(s.drawn) /\ Follows(s, << >>, n)
  OBVIOUS
<1>0. t \in BOOLEAN /\ s = [r EXCEPT !.phase = "idle", !.base = 0, !.refresh = TRUE, !.queue = << >>,
                                    !.processing = FALSE, !.torn = t]
  BY Zenon DEF Resynced, Reader
<1> HIDE DEF s, t
<1>1. s \in Reader(r.drawn)
  <2>1. << >> \in Seq(Frame) /\ 0 \in Nat /\ "idle" \in Phases
    BY DEF Phases
  <2> QED BY <1>0, <2>1 DEF Reader
<1>4. /\ s.phase = "idle" /\ s.queue = << >> /\ s.waiting = r.waiting /\ s.pending = r.pending
      /\ s.drawn = r.drawn /\ s.auth = r.auth
  BY <1>0 DEF Reader
<1>2. ~s.processing /\ (~s.torn => ~r.torn /\ r.waiting = << >>)
  BY <1>0, Zenon DEF Reader, t
<1>3. "idle" # "live" /\ "idle" # "connecting"
  OBVIOUS
<1> QED BY <1>3, <1>4, <1>1, <1>2, Zenon DEF Follows, Settled, Whole, Between

\* A baseline at b is the prefix up to b.
LEMMA BaselineFollows ==
  ASSUME NEW r, r \in Reader(r.drawn), Settled(r), r.queue = << >>, NEW b \in Nat, NEW n
  PROVE  LET s == WithBaseline(r, b)
         IN s \in Reader(s.drawn) /\ Follows(s, << >>, n)
<1> DEFINE s == WithBaseline(r, b)
<1> SUFFICES s \in Reader(s.drawn) /\ Follows(s, << >>, n)
  OBVIOUS
<1>1. /\ s \in Reader(s.drawn)
      /\ s.phase = "connecting" /\ s.queue = << >> /\ s.waiting = r.waiting /\ s.pending = r.pending
      /\ s.drawn = Prefix(b) /\ s.auth = b /\ s.base = b
  BY DEF WithBaseline, Reader, Phases
<1>2. s.processing = r.processing /\ s.torn = (r.waiting # << >>)
  BY Zenon DEF WithBaseline, Reader
<1> HIDE DEF s
<1>3. "connecting" # "live"
  OBVIOUS
<1> QED BY <1>1, <1>2, <1>3, Zenon DEF Follows, Settled, Whole, Between

\* What a reader has become when it has drawn all of a frame, or waits for a tool
\* after the part of it that it could draw.
Finished(r, drawn, auth) == [r EXCEPT !.drawn = drawn, !.auth = auth, !.refresh = FALSE,
                                      !.processing = FALSE]
DrewOne(r, drawn, auth) == [r EXCEPT !.drawn = drawn, !.auth = auth]
Stopped(r, drawn, auth, f, at) ==
  [r EXCEPT !.drawn = drawn, !.auth = auth, !.waiting = Append(@, [frame |-> f, at |-> at]),
            !.pending = Append(@, at), !.processing = TRUE]
To(r, f, n) == r.drawn \o [i \in 1..(n - f.from) |-> f.from + i]
Reached(r, f, stop) == IF stop > f.from + 1 THEN stop - 1 ELSE r.auth

\* The children of a batch are drawn up to the first that needs a tool to boot.
LEMMA ChildrenAre ==
  ASSUME NEW r, r \in Reader(r.drawn), NEW f \in Frame, f.from <= f.seq
  PROVE  \E stop \in f.from + 1 .. f.seq + 1 :
           \/ /\ stop = f.seq + 1
              /\ Children(r, f, f.from + 1) = Finished(r, To(r, f, stop - 1), f.seq)
           \/ /\ stop <= f.seq
              /\ Children(r, f, f.from + 1)
                   = Stopped(r, To(r, f, stop - 1), Reached(r, f, stop), f, stop)
<1> DEFINE T == {m \in f.from + 1 .. f.seq : ~Mounted(r, m)} \cup {f.seq + 1}
           stop == Min(T)
<1>1. f.from \in Nat /\ f.seq \in Nat
  BY DEF Frame
<1>2. T \in SUBSET Nat /\ T # {} /\ \A t \in T : t \in f.from + 1 .. f.seq + 1
  BY <1>1
<1>3. stop \in f.from + 1 .. f.seq + 1
  <2> HIDE DEF T
  <2> QED BY <1>2, Least
<1>4. [i \in 1..(stop - (f.from + 1)) |-> (f.from + 1) + i - 1] = [i \in 1..(stop - 1 - f.from) |-> f.from + i]
  <2> HIDE DEF stop
  <2>1. stop - (f.from + 1) = stop - 1 - f.from
    BY <1>1, <1>3
  <2>2. \A i \in 1..(stop - 1 - f.from) : (f.from + 1) + i - 1 = f.from + i
    BY <1>1, <1>3
  <2> QED BY <2>1, <2>2
<1> DEFINE drawn == To(r, f, stop - 1)
           auth  == Reached(r, f, stop)
           shown == [r EXCEPT !.drawn = drawn, !.auth = auth]
<1>5. Children(r, f, f.from + 1)
        = IF stop > f.seq
          THEN [shown EXCEPT !.auth = f.seq, !.refresh = FALSE, !.processing = FALSE]
          ELSE [shown EXCEPT !.waiting = Append(@, [frame |-> f, at |-> stop]),
                             !.pending = Append(@, stop), !.processing = TRUE]
  BY <1>4 DEF Children, To, Reached
<1> HIDE DEF T, stop
<1>6. \/ stop > f.seq /\ stop = f.seq + 1
      \/ ~ (stop > f.seq) /\ stop <= f.seq
  BY <1>1, <1>3
<1> HIDE DEF drawn, auth
<1>7. CASE stop > f.seq /\ stop = f.seq + 1
  <2>1. Children(r, f, f.from + 1) = Finished(r, drawn, f.seq)
    BY <1>5, <1>7 DEF Reader, Finished
  <2> QED BY <1>3, <1>7, <2>1 DEF drawn
<1>8. CASE ~ (stop > f.seq) /\ stop <= f.seq
  <2>1. Children(r, f, f.from + 1) = Stopped(r, drawn, auth, f, stop)
    BY <1>5, <1>8 DEF Reader, Stopped
  <2> QED BY <1>3, <1>8, <2>1 DEF drawn, auth
<1> QED BY <1>6, <1>7, <1>8

\* Whatever it does with the frame, the reader stays where it is.
Stays(r, s) ==
  /\ s \in Reader(s.drawn)
  /\ s.phase = r.phase /\ s.queue = r.queue /\ s.torn = r.torn /\ s.base = r.base
  /\ Settled(s)

Draws(r, s, drawn, auth) ==
  /\ s.drawn = drawn /\ s.auth = auth
  /\ s.waiting = r.waiting /\ s.pending = r.pending
  /\ ~r.processing => ~s.processing

LEMMA DrawnStays ==
  ASSUME NEW r, r \in Reader(r.drawn), Settled(r), NEW drawn, NEW auth \in Nat
  PROVE  /\ Stays(r, DrewOne(r, drawn, auth))
         /\ Draws(r, DrewOne(r, drawn, auth), drawn, auth)
         /\ ~r.processing => /\ Stays(r, Finished(r, drawn, auth))
                             /\ Draws(r, Finished(r, drawn, auth), drawn, auth)
<1> DEFINE s == DrewOne(r, drawn, auth)
           t == Finished(r, drawn, auth)
<1>0. s.auth = auth /\ t.auth = auth
  BY DEF Reader, DrewOne, Finished
<1>1. s \in Reader(drawn) /\ t \in Reader(drawn)
  BY DEF Reader, DrewOne, Finished
<1>2. /\ s.drawn = drawn /\ s.phase = r.phase /\ s.queue = r.queue /\ s.base = r.base
      /\ s.waiting = r.waiting /\ s.pending = r.pending
      /\ t.drawn = drawn /\ t.phase = r.phase /\ t.queue = r.queue /\ t.base = r.base
      /\ t.waiting = r.waiting /\ t.pending = r.pending
  BY DEF Reader, DrewOne, Finished
<1>3. s.torn = r.torn /\ s.processing = r.processing /\ t.torn = r.torn /\ ~t.processing
  BY Zenon DEF Reader, DrewOne, Finished
<1> HIDE DEF s, t
<1>4. Stays(r, s) /\ Draws(r, s, drawn, auth)
  BY <1>0, <1>1, <1>2, <1>3, Zenon DEF Stays, Settled, Draws
<1>5. ASSUME ~r.processing PROVE Stays(r, t) /\ Draws(r, t, drawn, auth)
  BY <1>0, <1>1, <1>2, <1>3, <1>5, Zenon DEF Stays, Settled, Draws
<1> QED BY <1>4, <1>5, Zenon DEF s, t

Waits(r, s, drawn, auth, f, at) ==
  /\ s.drawn = drawn /\ s.auth = auth /\ s.processing
  /\ s.waiting = Append(r.waiting, [frame |-> f, at |-> at])
  /\ s.pending = Append(r.pending, at)

LEMMA StoppedStays ==
  ASSUME NEW r, r \in Reader(r.drawn), NEW drawn, NEW auth \in Nat, NEW f \in Frame, NEW at \in Nat
  PROVE  /\ Stays(r, Stopped(r, drawn, auth, f, at))
         /\ Waits(r, Stopped(r, drawn, auth, f, at), drawn, auth, f, at)
<1> DEFINE e == [frame |-> f, at |-> at]
           x == Append(r.waiting, e)
           y == Append(r.pending, at)
           s == Stopped(r, drawn, auth, f, at)
<1>1. x \in Seq(Waiting) /\ y \in Seq(Nat) /\ x # << >> /\ y # << >>
  <2>1. r.waiting \in Seq(Waiting) /\ r.pending \in Seq(Nat)
    BY DEF Reader
  <2>2. e \in Waiting
    BY DEF Waiting
  <2> HIDE DEF e
  <2> QED BY <2>1, <2>2, AppendProperties
<1>0. s = [r EXCEPT !.drawn = drawn, !.auth = auth, !.waiting = x, !.pending = y, !.processing = TRUE]
  BY DEF Stopped
<1> SUFFICES Stays(r, s) /\ s.drawn = drawn /\ s.auth = auth /\ s.processing /\ s.waiting = x /\ s.pending = y
  BY DEF Waits
<1> HIDE DEF x, y, s
<1>2. s \in Reader(drawn)
  BY <1>0, <1>1 DEF Reader
<1>3. /\ s.drawn = drawn /\ s.phase = r.phase /\ s.queue = r.queue /\ s.base = r.base
      /\ s.waiting = x /\ s.pending = y /\ s.auth = auth
  BY <1>0 DEF Reader
<1>4. s.torn = r.torn /\ s.processing
  BY <1>0, Zenon DEF Reader
<1> QED BY <1>1, <1>2, <1>3, <1>4, Zenon DEF Stays, Settled

LEMMA ProcessedStays ==
  ASSUME NEW r, r \in Reader(r.drawn), Settled(r), ~r.processing, NEW f \in Frame, ~OutOfOrder(r, f)
  PROVE  Stays(r, Processed(r, f))
<1>1. f.from \in Nat /\ f.seq \in Nat /\ f.count \in Nat /\ f.kind \in {"live", "batch"}
      /\ r.auth \in Nat
  BY DEF Frame, Reader
<1>2. CASE f.kind = "batch"
  <2>1. f.from <= f.seq
    BY <1>1, <1>2 DEF OutOfOrder
  <2>2. Processed(r, f) = Children(r, f, f.from + 1)
    BY <1>2 DEF Processed
  <2>3. PICK stop \in f.from + 1 .. f.seq + 1 :
           \/ Processed(r, f) = Finished(r, To(r, f, stop - 1), f.seq)
           \/ Processed(r, f) = Stopped(r, To(r, f, stop - 1), Reached(r, f, stop), f, stop)
    BY <2>1, <2>2, ChildrenAre
  <2>4. Reached(r, f, stop) \in Nat /\ stop \in Nat
    BY <1>1 DEF Reached
  <2>5. CASE Processed(r, f) = Finished(r, To(r, f, stop - 1), f.seq)
    BY <1>1, <2>5, DrawnStays, Zenon
  <2>6. CASE Processed(r, f) = Stopped(r, To(r, f, stop - 1), Reached(r, f, stop), f, stop)
    <3>1. Stays(r, Stopped(r, To(r, f, stop - 1), Reached(r, f, stop), f, stop))
      BY <2>4, StoppedStays
    <3> QED BY <2>6, <3>1, Zenon
  <2> QED BY <2>3, <2>5, <2>6
<1>3. CASE f.kind = "live" /\ Mounted(r, f.seq)
  <2>1. Processed(r, f) = DrewOne(r, Append(r.drawn, f.seq), f.seq)
    BY <1>3 DEF Processed, Reader, DrewOne
  <2> QED BY <1>1, <2>1, DrawnStays, Zenon
<1>4. CASE f.kind = "live" /\ ~Mounted(r, f.seq)
  <2>1. Processed(r, f) = Stopped(r, r.drawn, r.auth, f, f.seq)
    BY <1>4 DEF Processed, Reader, Stopped
  <2>2. Stays(r, Stopped(r, r.drawn, r.auth, f, f.seq))
    BY <1>1, StoppedStays
  <2> QED BY <2>1, <2>2, Zenon
<1>5. f.kind = "batch" \/ f.kind = "live"
  BY <1>1
<1> QED BY <1>2, <1>3, <1>4, <1>5, Zenon

\* A reader between two frames, and one that waits for a tool, has them all in hand.
LEMMA DoneWhole ==
  ASSUME NEW s, s \in Reader(s.drawn), s.phase = "live", Between(s), s.drawn = Prefix(s.auth),
         NEW f \in Frame, s.auth = f.seq, NEW w \in Seq(Frame), NEW n \in Nat,
         Run(<< f >> \o (s.queue \o w), n)
  PROVE  Whole(s, w, n)
<1> DEFINE c == s.queue \o w
           b == << f >> \o c
<1>1. s.queue \in Seq(Frame) /\ s.waiting = << >>
  BY DEF Reader, Between
<1>2. c \in Seq(Frame)
  BY <1>1, ConcatProperties
<1>3. (Work(s) \o s.queue) \o w = c
  BY <1>1, NoWork, ConcatEmptySeq
<1> HIDE DEF c
<1>4. b \in Seq(Frame) /\ b # << >> /\ Tail(b) = c /\ b[1] = f
  BY <1>2
<1> HIDE DEF b
<1>5. Run(b, n)
  BY DEF b, c
<1>6. Run(c, n) /\ Continues(s.auth, c, n)
  BY <1>4, <1>5, RunTail
<1>7. "live" # "connecting"
  OBVIOUS
<1> QED BY <1>3, <1>6, <1>7, Zenon DEF Whole

LEMMA StoppedWhole ==
  ASSUME NEW s, s \in Reader(s.drawn), s.phase = "live", s.drawn = Prefix(s.auth), s.processing,
         NEW f \in Frame, NEW at \in Nat, at = s.auth + 1,
         s.waiting = << [frame |-> f, at |-> at] >>, s.pending = << at >>,
         IF f.kind = "live" THEN at = f.seq ELSE f.from < at /\ at <= f.seq,
         NEW w \in Seq(Frame), NEW n \in Nat, Run(<< f >> \o (s.queue \o w), n)
  PROVE  Whole(s, w, n)
<1>1. s.queue \in Seq(Frame) /\ s.waiting \in Seq(Waiting)
  BY DEF Reader
<1>2. Len(s.waiting) = 1 /\ Len(s.pending) = 1 /\ s.pending[1] = at
      /\ s.waiting[1].frame = f /\ s.waiting[1].at = at
  OBVIOUS
<1>3. Within(s)
  BY <1>2 DEF Within
<1>4. ~ Between(s)
  BY Zenon DEF Between
<1>5. Work(s) = << f >>
  BY <1>1, <1>2, OneWork
<1>6. (<< f >> \o s.queue) \o w = << f >> \o (s.queue \o w)
  <2>1. << f >> \in Seq(Frame)
    OBVIOUS
  <2>2. \A x, y, z \in Seq(Frame) : (x \o y) \o z = x \o (y \o z)
    BY ConcatAssociative, SMTT(30)
  <2> QED BY <1>1, <2>1, <2>2, Zenon
<1>7. "live" # "connecting"
  OBVIOUS
<1> QED BY <1>3, <1>4, <1>5, <1>6, <1>7, Zenon DEF Whole

LEMMA ProcessedWhole ==
  ASSUME NEW r, r \in Reader(r.drawn), r.phase = "live", Between(r), r.drawn = Prefix(r.auth),
         NEW f \in Frame, NEW w \in Seq(Frame), NEW n \in Nat,
         Run(<< f >> \o (r.queue \o w), n), Continues(r.auth, << f >> \o (r.queue \o w), n)
  PROVE  ~OutOfOrder(r, f) /\ ~Stale(r, f) /\ Whole(Processed(r, f), w, n)
<1> DEFINE c == r.queue \o w
           b == << f >> \o c
           s == Processed(r, f)
<1>1. /\ f.from \in Nat /\ f.seq \in Nat /\ f.count \in Nat /\ f.kind \in {"live", "batch"}
      /\ r.auth \in Nat /\ r.queue \in Seq(Frame)
  BY DEF Frame, Reader
<1>2. c \in Seq(Frame)
  BY <1>1, ConcatProperties
<1>3. Run(b, n) /\ Continues(r.auth, b, n)
  OBVIOUS
<1> HIDE DEF c
<1>4. b \in Seq(Frame) /\ b # << >> /\ b[1] = f /\ 1 \in 1..Len(b)
  BY <1>2
<1> HIDE DEF b
<1>5. f.kind = "live" \/ f.from + f.count = f.seq
  BY <1>3, <1>4 DEF Run
<1>6. IF f.kind = "live" THEN f.seq = r.auth + 1 ELSE f.from = r.auth
  BY <1>3, <1>4 DEF Continues
<1>7. ~OutOfOrder(r, f) /\ ~Stale(r, f)
  BY <1>1, <1>5, <1>6 DEF OutOfOrder, Stale
<1> SUFFICES Whole(s, w, n)
  BY <1>7
<1>8. Settled(r) /\ ~r.processing /\ r.waiting = << >> /\ r.pending = << >>
  BY Zenon DEF Settled, Between
<1>9. /\ s \in Reader(s.drawn) /\ s.phase = "live" /\ s.queue = r.queue
  BY <1>7, <1>8, ProcessedStays DEF Stays
<1>10. Run(<< f >> \o (s.queue \o w), n)
  BY <1>3, <1>9, Zenon DEF b, c
<1>11. ASSUME s.drawn = Prefix(s.auth), Between(s), s.auth = f.seq PROVE Whole(s, w, n)
  BY <1>9, <1>10, <1>11, DoneWhole DEF c
<1>12. ASSUME NEW at \in Nat, s.drawn = Prefix(s.auth), s.processing, at = s.auth + 1,
              s.waiting = << [frame |-> f, at |-> at] >>, s.pending = << at >>,
              IF f.kind = "live" THEN at = f.seq ELSE f.from < at /\ at <= f.seq
       PROVE  Whole(s, w, n)
  BY <1>9, <1>10, <1>12, StoppedWhole DEF c
<1>13. ASSUME NEW d, d = Prefix(f.seq), Draws(r, s, d, f.seq) PROVE Whole(s, w, n)
  <2>1. s.drawn = Prefix(f.seq) /\ s.auth = f.seq /\ Between(s)
    BY <1>8, <1>13, Zenon DEF Draws, Between
  <2> QED BY <1>11, <2>1
<1>14. CASE f.kind = "live" /\ Mounted(r, f.seq)
  <2>1. s = DrewOne(r, Append(r.drawn, f.seq), f.seq)
    BY <1>14 DEF Processed, Reader, DrewOne
  <2>2. Append(r.drawn, f.seq) = Prefix(f.seq)
    <3>1. r.drawn = Prefix(r.auth) /\ f.seq = r.auth + 1
      BY <1>6, <1>14
    <3> QED BY <1>1, <3>1 DEF Prefix
  <2>3. Draws(r, DrewOne(r, Append(r.drawn, f.seq), f.seq), Append(r.drawn, f.seq), f.seq)
    BY <1>1, <1>8, DrawnStays
  <2> QED BY <1>13, <2>1, <2>2, <2>3, Zenon
<1>15. CASE f.kind = "live" /\ ~Mounted(r, f.seq)
  <2> DEFINE e == [frame |-> f, at |-> f.seq]
             t == Stopped(r, r.drawn, r.auth, f, f.seq)
  <2>1. s = t
    BY <1>15 DEF Processed, Reader, Stopped
  <2>2. /\ t.drawn = r.drawn /\ t.auth = r.auth /\ t.processing
        /\ t.waiting = Append(r.waiting, e) /\ t.pending = Append(r.pending, f.seq)
    <3> Waits(r, t, r.drawn, r.auth, f, f.seq)
      BY <1>1, StoppedStays
    <3> QED BY Zenon DEF Waits
  <2>3. Append(r.waiting, e) = << e >> /\ Append(r.pending, f.seq) = << f.seq >>
    BY <1>8
  <2> HIDE DEF t
  <2> QED BY <1>1, <1>6, <1>12, <1>15, <2>1, <2>2, <2>3
<1>16. CASE f.kind = "batch"
  <2>0. f.from <= f.seq /\ f.from = r.auth
    BY <1>1, <1>5, <1>6, <1>16
  <2>1. s = Children(r, f, f.from + 1)
    BY <1>16 DEF Processed
  <2>2. PICK stop \in f.from + 1 .. f.seq + 1 :
           \/ /\ stop = f.seq + 1
              /\ s = Finished(r, To(r, f, stop - 1), f.seq)
           \/ /\ stop <= f.seq
              /\ s = Stopped(r, To(r, f, stop - 1), Reached(r, f, stop), f, stop)
    BY <2>0, <2>1, ChildrenAre
  <2> HIDE DEF s
  <2>3. To(r, f, stop - 1) = Prefix(stop - 1) /\ stop \in Nat
    <3> DEFINE k == stop - 1 - f.from
    <3>1. k \in Nat /\ f.from + k = stop - 1
      BY <1>1, SMTT(30)
    <3>2. r.drawn = Prefix(f.from)
      BY <2>0
    <3>3. Prefix(f.from) \o [i \in 1..k |-> f.from + i] = Prefix(f.from + k)
      BY <1>1, <3>1, Grows
    <3>4. To(r, f, stop - 1) = Prefix(f.from) \o [i \in 1..k |-> f.from + i]
      BY <3>2, Zenon DEF To
    <3> HIDE DEF k
    <3>5. stop \in Nat
      BY <1>1
    <3> QED BY <3>1, <3>3, <3>4, <3>5, Zenon
  <2>4. Reached(r, f, stop) = stop - 1 /\ stop - 1 \in Nat
    <3>1. stop \in Int /\ stop >= f.from + 1
      BY <1>1
    <3>2. stop > f.from + 1 \/ stop = f.from + 1
      BY <1>1, <3>1
    <3>3. stop - 1 \in Nat
      BY <1>1, <3>1
    <3>4. stop = f.from + 1 => stop - 1 = r.auth /\ ~ (stop > f.from + 1)
      BY <1>1, <2>0
    <3> QED BY <3>2, <3>3, <3>4 DEF Reached
  <2>5. CASE stop = f.seq + 1 /\ s = Finished(r, To(r, f, stop - 1), f.seq)
    <3>1. stop - 1 = f.seq
      BY <1>1, <2>5
    <3>2. Draws(r, Finished(r, Prefix(f.seq), f.seq), Prefix(f.seq), f.seq)
      BY <1>1, <1>8, DrawnStays
    <3> QED BY <1>13, <2>3, <2>5, <3>1, <3>2, Zenon DEF s
  <2>6. CASE stop <= f.seq /\ s = Stopped(r, To(r, f, stop - 1), Reached(r, f, stop), f, stop)
    <3> DEFINE e == [frame |-> f, at |-> stop]
               t == Stopped(r, Prefix(stop - 1), stop - 1, f, stop)
    <3>1. s = t
      BY <2>3, <2>4, <2>6, Zenon
    <3>2. /\ t.drawn = Prefix(stop - 1) /\ t.auth = stop - 1 /\ t.processing
          /\ t.waiting = Append(r.waiting, e) /\ t.pending = Append(r.pending, stop)
      <4> Waits(r, t, Prefix(stop - 1), stop - 1, f, stop)
        BY <2>3, <2>4, StoppedStays
      <4> QED BY Zenon DEF Waits
    <3>3. Append(r.waiting, e) = << e >> /\ Append(r.pending, stop) = << stop >>
      BY <1>8
    <3>4. f.from < stop /\ stop <= f.seq /\ stop = (stop - 1) + 1 /\ f.kind # "live"
      BY <1>1, <1>16, <2>3, <2>6
    <3> HIDE DEF t
    <3>5. /\ s.drawn = Prefix(s.auth) /\ s.processing /\ stop = s.auth + 1
          /\ s.waiting = << e >> /\ s.pending = << stop >>
      BY <3>1, <3>2, <3>3, <3>4, Zenon
    <3>6. Whole(s, w, n)
      BY <1>12, <2>3, <3>4, <3>5 DEF s
    <3> QED BY <3>6 DEF s
  <2> QED BY <2>2, <2>5, <2>6
<1>17. f.kind = "batch" \/ f.kind = "live"
  BY <1>1
<1> QED BY <1>14, <1>15, <1>16, <1>17, Zenon

\* A tool that boots draws what waited for it.
Booted(r) ==
  LET more == Tail(r.waiting)
  IN [r EXCEPT
        !.booted = TRUE, !.pending = <<>>, !.waiting = <<>>, !.processing = FALSE,
        !.drawn = r.drawn \o r.pending \o Remainder(Head(r.waiting))
                    \o FlattenSeq([i \in DOMAIN more |-> Remainder(more[i])]),
        !.auth = Last(r.waiting).frame.seq,
        !.refresh = r.refresh /\ \A i \in DOMAIN r.waiting : r.waiting[i].frame.kind = "live"]

LEMMA BootedFollows ==
  ASSUME NEW r, r \in Reader(r.drawn), NEW w \in Seq(Frame), NEW n \in Nat, Follows(r, w, n),
         r.pending # << >>
  PROVE  Booted(r) \in Reader(Booted(r).drawn) /\ Follows(Booted(r), w, n)
<1> DEFINE more  == Tail(r.waiting)
           drawn == r.drawn \o r.pending \o Remainder(Head(r.waiting))
                      \o FlattenSeq([i \in DOMAIN more |-> Remainder(more[i])])
           auth  == Last(r.waiting).frame.seq
           fresh == r.refresh /\ \A i \in DOMAIN r.waiting : r.waiting[i].frame.kind = "live"
           s == [r EXCEPT !.booted = TRUE, !.pending = <<>>, !.waiting = <<>>, !.processing = FALSE,
                          !.drawn = drawn, !.auth = auth, !.refresh = fresh]
<1>1. Booted(r) = s
  BY DEF Booted
<1>2. r.waiting \in Seq(Waiting) /\ r.waiting # << >> /\ r.queue \in Seq(Frame) /\ r.auth \in Nat
  BY DEF Reader, Follows, Settled
<1>3. auth \in Nat
  <2>1. r.waiting[Len(r.waiting)] \in Waiting
    BY <1>2
  <2> QED BY <2>1 DEF Last, Waiting, Frame
<1>4. fresh \in BOOLEAN
  BY Zenon
<1> HIDE DEF drawn, auth, fresh
<1>5. s \in Reader(drawn)
  <2>1. << >> \in Seq(Waiting) /\ << >> \in Seq(Nat)
    OBVIOUS
  <2> QED BY <1>3, <1>4, <2>1 DEF Reader
<1>6. /\ s.phase = r.phase /\ s.queue = r.queue /\ s.base = r.base /\ s.drawn = drawn /\ s.auth = auth
      /\ s.waiting = << >> /\ s.pending = << >>
  BY DEF Reader
<1>7. ~s.processing /\ s.torn = r.torn
  BY Zenon DEF Reader
<1>8. ASSUME ~r.torn PROVE Whole(s, w, n)
  <2>1. Within(r) /\ r.drawn = Prefix(r.auth)
    BY <1>8, Zenon DEF Follows, Whole, Between
  <2> DEFINE f  == r.waiting[1].frame
             at == r.waiting[1].at
  <2>2. /\ r.phase = "live" /\ Len(r.waiting) = 1 /\ Len(r.pending) = 1 /\ r.pending[1] = at
        /\ at = r.auth + 1
        /\ IF f.kind = "live" THEN at = f.seq ELSE f.from < at /\ at <= f.seq
    BY <2>1 DEF Within
  <2>3. f \in Frame /\ at \in Nat /\ f.seq \in Nat /\ f.kind \in {"live", "batch"} /\ auth = f.seq
    <3>1. r.waiting[1] \in Waiting
      BY <1>2, <2>2
    <3> QED BY <2>2, <3>1 DEF Waiting, Frame, auth, Last
  <2>4. Run(<< f >> \o (r.queue \o w), n)
    <3>1. Work(r) = << f >>
      BY <1>2, <2>2, OneWork
    <3>2. << f >> \in Seq(Frame)
      BY <2>3
    <3>3. \A x, y, z \in Seq(Frame) : (x \o y) \o z = x \o (y \o z)
      BY ConcatAssociative
    <3>4. (<< f >> \o r.queue) \o w = << f >> \o (r.queue \o w)
      BY <1>2, <3>2, <3>3, Zenon
    <3>5. Run((Work(r) \o r.queue) \o w, n)
      BY <1>8, <2>2, Zenon DEF Follows, Whole
    <3> QED BY <3>1, <3>4, <3>5, Zenon
  <2>5. drawn = Prefix(f.seq)
    <3>1. FlattenSeq([i \in DOMAIN more |-> Remainder(more[i])]) = << >>
      <4>1. more = << >>
        <5>1. more \in Seq(Waiting) /\ Len(more) = 0
          BY <1>2, <2>2, HeadTailProperties
        <5> HIDE DEF more
        <5> QED BY <5>1, EmptySeq
      <4>2. [i \in DOMAIN more |-> Remainder(more[i])] = << >>
        BY <4>1
      <4>3. Len(<< >>) = 0
        OBVIOUS
      <4> QED BY <4>2, <4>3 DEF FlattenSeq
    <3>2. r.pending = << at >> /\ r.drawn \o << at >> = Prefix(at)
      <4>1. r.pending \in Seq(Nat)
        BY DEF Reader
      <4>2. r.pending = << at >>
        BY <2>2, <4>1
      <4>3. Prefix(r.auth) \o << at >> = Prefix(at)
        BY <1>2, <2>2 DEF Prefix
      <4> QED BY <2>1, <4>2, <4>3
    <3>3. Prefix(at) \o Remainder(Head(r.waiting)) = Prefix(f.seq)
      <4>1. Head(r.waiting) = r.waiting[1]
        BY <1>2
      <4>2. CASE f.kind = "live"
        <5>1. Remainder(Head(r.waiting)) = << >> /\ at = f.seq
          BY <2>2, <4>1, <4>2 DEF Remainder
        <5> QED BY <2>3, <5>1 DEF Prefix
      <4>3. CASE f.kind = "batch"
        <5> DEFINE k == f.seq - at
        <5>1. k \in Nat /\ at + k = f.seq
          BY <2>2, <2>3, <4>3
        <5>2. Remainder(Head(r.waiting)) = [i \in 1..k |-> at + i]
          BY <4>1, <4>3 DEF Remainder
        <5> HIDE DEF k
        <5> QED BY <2>3, <5>1, <5>2, Grows
      <4> QED BY <2>3, <4>2, <4>3
    <3>4. Prefix(f.seq) \o << >> = Prefix(f.seq)
      BY <2>3 DEF Prefix
    <3> QED BY <3>1, <3>2, <3>3, <3>4, Zenon DEF drawn
  <2> HIDE DEF s
  <2>6. s.phase = "live" /\ Between(s) /\ s.drawn = Prefix(s.auth) /\ s.auth = f.seq
    BY <1>6, <1>7, <2>2, <2>3, <2>5, Zenon DEF Between
  <2>7. Run(<< f >> \o (s.queue \o w), n)
    BY <1>6, <2>4, Zenon
  <2>8. s \in Reader(s.drawn)
    BY <1>5, <1>6, Zenon
  <2> QED BY <2>3, <2>6, <2>7, <2>8, DoneWhole
<1> HIDE DEF s
<1>9. Follows(s, w, n)
  BY <1>6, <1>7, <1>8, Zenon DEF Follows, Settled
<1> QED BY <1>1, <1>5, <1>6, <1>9, Zenon

\* The rest of what a reader may do.
LEMMA ArrivesFollows ==
  ASSUME NEW r, r \in Reader(r.drawn), NEW w \in Seq(Frame), w # << >>, NEW n \in Nat, Follows(r, w, n)
  PROVE  LET s == [r EXCEPT !.queue = Append(@, Head(w))]
         IN s \in Reader(s.drawn) /\ Follows(s, Tail(w), n)
<1> DEFINE q == Append(r.queue, Head(w))
           s == [r EXCEPT !.queue = q]
<1> SUFFICES s \in Reader(s.drawn) /\ Follows(s, Tail(w), n)
  BY DEF Reader
<1>1. r.queue \in Seq(Frame) /\ r.waiting \in Seq(Waiting)
  BY DEF Reader
<1>2. Work(r) \in Seq(Frame)
  BY <1>1, WorkTypes
<1>3. q \in Seq(Frame) /\ (Work(r) \o q) \o Tail(w) = (Work(r) \o r.queue) \o w
  <2> DEFINE a == Work(r)
  <2>1. a \in Seq(Frame) /\ r.queue \in Seq(Frame)
    BY <1>1, <1>2
  <2> HIDE DEF a
  <2>2. /\ (a \o Append(r.queue, Head(w))) \o Tail(w) = (a \o r.queue) \o w
        /\ Append(r.queue, Head(w)) \in Seq(Frame)
    <3>1. \A x, y \in Seq(Frame) : /\ (x \o Append(y, Head(w))) \o Tail(w) = (x \o y) \o w
                                   /\ Append(y, Head(w)) \in Seq(Frame)
      <4> HIDE DEF q, s
      <4> QED BY Arrives, Zenon
    <3> QED BY <2>1, <3>1, Zenon
  <2> QED BY <2>2 DEF a
<1> HIDE DEF q
<1>4. s \in Reader(r.drawn)
  BY <1>3 DEF Reader
<1>5. /\ s.phase = r.phase /\ s.queue = q /\ s.base = r.base /\ s.drawn = r.drawn /\ s.auth = r.auth
      /\ s.waiting = r.waiting /\ s.pending = r.pending
  BY DEF Reader
<1>6. s.processing = r.processing /\ s.torn = r.torn
  BY Zenon DEF Reader
<1> HIDE DEF s
<1>7. r.phase = "live" /\ Settled(r) /\ (~r.torn => Whole(r, w, n))
  BY Zenon DEF Follows
<1>8. Work(s) = Work(r) /\ (Between(s) <=> Between(r)) /\ (Within(s) <=> Within(r)) /\ Settled(s)
  BY <1>5, <1>6, <1>7, Zenon DEF Work, Between, Within, Settled
<1>9. Whole(r, w, n) => Whole(s, Tail(w), n)
  BY <1>3, <1>5, <1>8, Zenon DEF Whole
<1> QED BY <1>4, <1>5, <1>6, <1>7, <1>8, <1>9, Zenon DEF Follows

LEMMA WriteFollows ==
  ASSUME NEW r, r \in Reader(r.drawn), NEW w \in Seq(Frame), NEW n \in Nat, Follows(r, w, n)
  PROVE  /\ Append(w, Live(n + 1)) \in Seq(Frame)
         /\ r.phase = "live" => Follows(r, Append(w, Live(n + 1)), n + 1)
         /\ r.phase # "live" => Follows(r, w, n + 1)
<1> DEFINE f == Live(n + 1)
           a == Work(r) \o r.queue
<1>1. f \in Frame
  BY DEF Live, Frame
<1>2. r.queue \in Seq(Frame) /\ r.waiting \in Seq(Waiting) /\ r.auth \in Nat
  BY DEF Reader
<1>3. a \in Seq(Frame) /\ a \o w \in Seq(Frame)
  BY <1>2, WorkTypes, ConcatProperties
<1>4. Run(a \o w, n) => Run(Append(a \o w, f), n + 1)
  BY <1>3, RunAppend
<1>5. Run(a \o w, n) /\ Continues(r.auth, a \o w, n) => Continues(r.auth, Append(a \o w, f), n + 1)
  BY <1>2, <1>3, RunAppend
<1> HIDE DEF f, a
<1>6. a \o Append(w, f) = Append(a \o w, f) /\ Append(w, f) \in Seq(Frame)
  BY <1>1, <1>3
<1>7. ASSUME r.phase = "live", Whole(r, w, n) PROVE Whole(r, Append(w, f), n + 1)
  BY <1>4, <1>5, <1>6, <1>7, Zenon DEF Whole, a
<1>8. ASSUME r.phase # "live", Whole(r, w, n) PROVE Whole(r, w, n + 1)
  BY <1>8, Zenon DEF Whole
<1> QED BY <1>6, <1>7, <1>8, Zenon DEF Follows, f

LEMMA DrainFollows ==
  ASSUME NEW r, r \in Reader(r.drawn), NEW w \in Seq(Frame), NEW n \in Nat, Follows(r, w, n),
         ~r.processing, r.queue # << >>
  PROVE  LET q == [r EXCEPT !.queue = Tail(@)]
             f == Head(r.queue)
         IN /\ q \in Reader(q.drawn) /\ Settled(q) /\ (~q.torn => q.drawn = Prefix(q.auth))
            /\ f \in Frame
            /\ ~OutOfOrder(q, f) =>
                 LET s == IF Stale(q, f) THEN q ELSE Processed(q, f)
                 IN s \in Reader(s.drawn) /\ Follows(s, w, n)
<1> DEFINE t == Tail(r.queue)
           q == [r EXCEPT !.queue = t]
           f == Head(r.queue)
           s == IF Stale(q, f) THEN q ELSE Processed(q, f)
<1> SUFFICES /\ q \in Reader(q.drawn) /\ Settled(q) /\ (~q.torn => q.drawn = Prefix(q.auth))
             /\ f \in Frame
             /\ ~OutOfOrder(q, f) => s \in Reader(s.drawn) /\ Follows(s, w, n)
  BY DEF Reader
<1>1. r.queue \in Seq(Frame)
  BY DEF Reader
<1>2. t \in Seq(Frame) /\ f \in Frame /\ << f >> \o (t \o w) = r.queue \o w
  <2>1. t \in Seq(Frame) /\ f \in Frame /\ r.queue = << f >> \o t
    BY <1>1
  <2>2. << f >> \in Seq(Frame)
    BY <2>1
  <2>3. \A x, y, z \in Seq(Frame) : (x \o y) \o z = x \o (y \o z)
    BY ConcatAssociative
  <2> HIDE DEF f, t
  <2>4. (<< f >> \o t) \o w = << f >> \o (t \o w)
    BY <2>1, <2>2, <2>3, Zenon
  <2>5. << f >> \o (t \o w) = r.queue \o w
    BY <2>1, <2>4, Zenon
  <2> QED BY <2>1, <2>5, Zenon
<1> HIDE DEF t, f
<1>3. q \in Reader(r.drawn)
  BY <1>2 DEF Reader
<1>4. /\ q.phase = r.phase /\ q.queue = t /\ q.base = r.base /\ q.drawn = r.drawn /\ q.auth = r.auth
      /\ q.waiting = r.waiting /\ q.pending = r.pending
  BY DEF Reader
<1>5. q.processing = r.processing /\ q.torn = r.torn
  BY Zenon DEF Reader
<1> HIDE DEF q
<1>6. r.phase = "live" /\ Settled(r) /\ (~r.torn => Whole(r, w, n))
  BY Zenon DEF Follows
<1>7. Settled(q) /\ q \in Reader(q.drawn)
  BY <1>3, <1>4, <1>5, <1>6, Zenon DEF Settled
<1>8. ASSUME ~q.torn PROVE q.drawn = Prefix(q.auth)
  BY <1>4, <1>5, <1>6, <1>8, Zenon DEF Whole
<1>9. ASSUME ~q.torn PROVE ~OutOfOrder(q, f) /\ ~Stale(q, f) /\ Whole(Processed(q, f), w, n)
  <2>1. Whole(r, w, n) /\ Between(r) /\ r.waiting = << >>
    BY <1>5, <1>6, <1>9, Zenon DEF Whole, Within, Between
  <2>2. (Work(r) \o r.queue) \o w = r.queue \o w
    BY <1>1, <2>1, NoWork, ConcatEmptySeq
  <2>3. Run(r.queue \o w, n) /\ Continues(r.auth, r.queue \o w, n)
    BY <1>6, <2>1, <2>2, Zenon DEF Whole
  <2>4. Run(<< f >> \o (q.queue \o w), n) /\ Continues(q.auth, << f >> \o (q.queue \o w), n)
    BY <1>2, <1>4, <2>3, Zenon
  <2>5. Between(q) /\ q.phase = "live"
    BY <1>4, <1>5, <1>6, <2>1, Zenon DEF Between
  <2> QED BY <1>2, <1>7, <1>8, <1>9, <2>4, <2>5, ProcessedWhole
<1>10. ASSUME ~OutOfOrder(q, f) PROVE s \in Reader(s.drawn) /\ Follows(s, w, n)
  <2>1. CASE Stale(q, f)
    <3>1. q.torn /\ s = q
      BY <1>9, <2>1, Zenon
    <3> QED BY <1>4, <1>6, <1>7, <3>1, Zenon DEF Follows
  <2>2. CASE ~Stale(q, f)
    <3>1. s = Processed(q, f)
      BY <2>2, Zenon
    <3>2. Stays(q, Processed(q, f))
      BY <1>2, <1>5, <1>7, <1>10, ProcessedStays
    <3> HIDE DEF s
    <3>3. s \in Reader(s.drawn) /\ s.phase = "live" /\ s.torn = q.torn /\ Settled(s)
      BY <1>4, <1>6, <3>1, <3>2, Zenon DEF Stays
    <3>4. ~s.torn => Whole(s, w, n)
      BY <1>9, <3>1, <3>3, Zenon
    <3> QED BY <3>3, <3>4, Zenon DEF Follows
  <2> QED BY <2>1, <2>2
<1> QED BY <1>2, <1>7, <1>8, <1>10

-----------------------------------------------------------------------------
(* The steps.                                                               *)

\* The batch of a handshake is whole.
LEMMA BatchIs ==
  ASSUME head \in Nat, NEW board \in Log, NEW from \in Nat, Replayable(from, board)
  PROVE  /\ Batch(board, from) \in Frame
         /\ Batch(board, from).kind = "batch"
         /\ Batch(board, from).from = from
         /\ Batch(board, from).seq = head
         /\ from + Batch(board, from).count = head
<1>1. board.first \in Nat /\ from <= head /\ board.first <= from
  BY DEF Log, Replayable
<1>2. ReadFrom(board, from) = from + 1 .. head
  BY <1>1 DEF ReadFrom
<1>3. Cardinality(from + 1 .. head) = head - from
  <2>1. from + 1 \in Int /\ head \in Int
    OBVIOUS
  <2>2. Cardinality(from + 1 .. head) = IF from + 1 > head THEN 0 ELSE head - (from + 1) + 1
    BY <2>1, FS_Interval
  <2> QED BY <1>1, <2>2
<1> DEFINE count == Cardinality(ReadFrom(board, from))
<1>4. count = head - from /\ count \in Nat /\ from + count = head
  BY <1>1, <1>2, <1>3
<1> HIDE DEF count
<1>5. Batch(board, from) = [kind |-> "batch", from |-> from, seq |-> head, count |-> count]
  BY DEF Batch, count
<1> QED BY <1>4, <1>5 DEF Frame

LEMMA HandshakeFollows ==
  ASSUME head \in Nat, NEW r, r \in Reader(r.drawn), r.phase = "connecting", Follows(r, << >>, head),
         NEW board \in Log, Replayable(r.base, board)
  PROVE  LET s == [r EXCEPT !.phase = "live", !.base = 0]
         IN s \in Reader(s.drawn) /\ Follows(s, << Batch(board, r.base) >>, head)
<1> DEFINE s == [r EXCEPT !.phase = "live", !.base = 0]
           f == Batch(board, r.base)
           b == << f >>
<1> SUFFICES s \in Reader(s.drawn) /\ Follows(s, b, head)
  OBVIOUS
<1>1. r.base \in Nat /\ r.queue \in Seq(Frame)
  BY DEF Reader
<1>2. /\ f \in Frame /\ f.kind = "batch" /\ f.from = r.base /\ f.seq = head
      /\ r.base + f.count = head
  BY <1>1, BatchIs
<1> HIDE DEF f
<1>3. b \in Seq(Frame) /\ Len(b) = 1 /\ b[1] = f /\ b # << >>
  BY <1>2
<1> HIDE DEF b
<1>4. Run(b, head) /\ Continues(r.base, b, head)
  <2>1. f.seq + (1 - 1) = head
    BY <1>2
  <2>2. \A i \in 1..Len(b) : i = 1
    BY <1>3
  <2> QED BY <1>2, <1>3, <2>1, <2>2 DEF Run, Continues
<1>5. s \in Reader(r.drawn)
  BY DEF Reader, Phases
<1>6. /\ s.phase = "live" /\ s.queue = r.queue /\ s.drawn = r.drawn /\ s.auth = r.auth
      /\ s.waiting = r.waiting /\ s.pending = r.pending
  BY DEF Reader
<1>7. s.processing = r.processing /\ s.torn = r.torn
  BY Zenon DEF Reader
<1> HIDE DEF s
<1>8. "connecting" # "live"
  OBVIOUS
<1>9. r.queue = << >> /\ Settled(r) /\ (~r.torn => Whole(r, << >>, head))
  BY <1>8, Zenon DEF Follows
<1>10. Settled(s) /\ (Between(s) <=> Between(r))
  BY <1>6, <1>7, <1>9, Zenon DEF Between, Settled
<1>11. ASSUME ~r.torn PROVE Whole(s, b, head)
  <2>1. r.drawn = Prefix(r.auth) /\ Between(r) /\ r.base = r.auth
    BY <1>8, <1>9, <1>11, Zenon DEF Whole, Within
  <2>2. s.waiting = << >>
    BY <1>6, <2>1, Zenon DEF Between
  <2>3. (Work(s) \o s.queue) \o b = b
    <3>1. Work(s) = << >> /\ s.queue = << >>
      BY <1>6, <1>9, <2>2, NoWork
    <3>2. << >> \o << >> = << >> /\ << >> \o b = b
      BY <1>3, ConcatEmptySeq
    <3> QED BY <3>1, <3>2, Zenon
  <2> QED BY <1>4, <1>6, <1>8, <1>10, <2>1, <2>3, Zenon DEF Whole
<1> QED BY <1>5, <1>6, <1>7, <1>8, <1>10, <1>11, Zenon DEF Follows

\* A step of one reader.
LEMMA OneReader ==
  ASSUME ReplayInv, NEW c \in Clients, NEW r, NEW w \in Seq(Frame), r \in Reader(r.drawn),
         client' = [client EXCEPT ![c] = r], wire' = [wire EXCEPT ![c] = w], head' = head,
         Follows(r, w, head)
  PROVE  ReplayInv'
<1>1. /\ client = [d \in Clients |-> client[d]] /\ wire \in [Clients -> Seq(Frame)]
      /\ \A d \in Clients : client[d] \in Reader(client[d].drawn) /\ Follows(client[d], wire[d], head)
  BY DEF ReplayInv, ReaderTypes
<1>2. client' = [d \in Clients |-> IF d = c THEN r ELSE client[d]]
  BY <1>1
<1>3. wire' \in [Clients -> Seq(Frame)] /\ wire' = [d \in Clients |-> IF d = c THEN w ELSE wire[d]]
  BY <1>1
<1>4. client' = [d \in Clients |-> client'[d]]
  BY <1>2
<1>5. ASSUME NEW d \in Clients
      PROVE  client'[d] \in Reader(client'[d].drawn) /\ Follows(client'[d], wire'[d], head')
  <2>1. CASE d = c
    <3>1. client'[d] = r /\ wire'[d] = w
      BY <1>2, <1>3, <2>1
    <3> QED BY <3>1, Zenon
  <2>2. CASE d # c
    <3>1. client'[d] = client[d] /\ wire'[d] = wire[d]
      BY <1>2, <1>3, <2>2
    <3> QED BY <1>1, <3>1, Zenon
  <2> QED BY <2>1, <2>2
<1> QED BY <1>3, <1>4, <1>5, Zenon DEF ReplayInv, ReaderTypes

\* What is under way stays when only the reader moves.
LEMMA OnlyReader ==
  ASSUME ReplayInv, NEW c \in Clients, NEW r, r \in Reader(r.drawn),
         client' = [client EXCEPT ![c] = r], UNCHANGED << wire, head >>,
         Follows(r, wire[c], head)
  PROVE  ReplayInv'
<1>1. wire[c] \in Seq(Frame) /\ wire' = [wire EXCEPT ![c] = wire[c]]
  BY DEF ReplayInv, ReaderTypes
<1> QED BY <1>1, OneReader

LEMMA ReplayInit == Init => ReplayInv
<1> SUFFICES ASSUME Init PROVE ReplayInv
  OBVIOUS
<1>1. client = [c \in Clients |-> NewReader] /\ wire = [c \in Clients |-> << >>] /\ head = 0
  BY DEF Init
<1> DEFINE r == NewReader
<1>2. r \in Reader(r.drawn)
  <2>1. << >> \in Seq(Frame) /\ << >> \in Seq(Waiting) /\ << >> \in Seq(Nat)
    OBVIOUS
  <2> QED BY <2>1 DEF NewReader, Reader, Phases
<1>3. /\ r.phase = "idle" /\ r.queue = << >> /\ r.waiting = << >> /\ r.pending = << >>
      /\ r.drawn = << >> /\ r.auth = 0
  BY DEF NewReader
<1>4. ~r.processing
  BY Zenon DEF NewReader
<1>5. Prefix(0) = << >>
  BY DEF Prefix
<1>6. "idle" # "live" /\ "idle" # "connecting"
  OBVIOUS
<1> HIDE DEF r
<1>7. Follows(r, << >>, head)
  BY <1>3, <1>4, <1>5, <1>6, Zenon DEF Follows, Settled, Whole, Between
<1>8. \A c \in Clients : client[c] = r /\ wire[c] = << >>
  BY <1>1 DEF r
<1>9. client = [c \in Clients |-> client[c]] /\ wire \in [Clients -> Seq(Frame)]
  BY <1>1
<1> QED BY <1>2, <1>7, <1>8, <1>9, Zenon DEF ReplayInv, ReaderTypes

LEMMA ReplayWrite ==
  ASSUME PinsInv, ReplayInv, Write
  PROVE  ReplayInv'
<1>1. /\ client = [c \in Clients |-> client[c]] /\ wire \in [Clients -> Seq(Frame)]
      /\ \A d \in Clients : client[d] \in Reader(client[d].drawn) /\ Follows(client[d], wire[d], head)
      /\ head \in Nat
  BY DEF ReplayInv, ReaderTypes, PinsInv, ServerTypes
<1>2. /\ head' = head + 1 /\ client' = client
      /\ wire' = [c \in Clients |-> IF c \in Attached THEN Append(wire[c], Live(head + 1)) ELSE wire[c]]
  BY DEF Write
<1>3. ASSUME NEW c \in Clients
      PROVE  wire'[c] \in Seq(Frame) /\ Follows(client'[c], wire'[c], head')
  <2>1. /\ wire[c] \in Seq(Frame)
        /\ Append(wire[c], Live(head + 1)) \in Seq(Frame)
        /\ client[c].phase = "live" => Follows(client[c], Append(wire[c], Live(head + 1)), head + 1)
        /\ client[c].phase # "live" => Follows(client[c], wire[c], head + 1)
    BY <1>1, WriteFollows
  <2>2. CASE client[c].phase = "live"
    <3>1. wire'[c] = Append(wire[c], Live(head + 1))
      BY <1>2, <2>2 DEF Attached
    <3> QED BY <1>2, <2>1, <2>2, <3>1, Zenon
  <2>3. CASE client[c].phase # "live"
    <3>1. wire'[c] = wire[c]
      BY <1>2, <2>3 DEF Attached
    <3> QED BY <1>2, <2>1, <2>3, <3>1, Zenon
  <2> QED BY <2>2, <2>3
<1>4. wire' \in [Clients -> Seq(Frame)]
  <2>1. wire' = [c \in Clients |-> wire'[c]]
    BY <1>2
  <2> QED BY <1>3, <2>1
<1> QED BY <1>1, <1>2, <1>3, <1>4, Zenon DEF ReplayInv, ReaderTypes

LEMMA ReplayDrop ==
  ASSUME ReplayInv, DropsInstance
  PROVE  ReplayInv'
<1>1. /\ client = [c \in Clients |-> client[c]] /\ wire \in [Clients -> Seq(Frame)]
      /\ \A d \in Clients : client[d] \in Reader(client[d].drawn) /\ Follows(client[d], wire[d], head)
  BY DEF ReplayInv, ReaderTypes
<1>2. /\ client' = [c \in Clients |-> IF c \in Attached THEN Resynced(client[c]) ELSE client[c]]
      /\ wire' = [c \in Clients |-> <<>>] /\ head' = head
  BY DEF DropsInstance
<1>3. ASSUME NEW c \in Clients
      PROVE  client'[c] \in Reader(client'[c].drawn) /\ Follows(client'[c], << >>, head')
  <2>1. CASE client[c].phase = "live"
    <3>1. client'[c] = Resynced(client[c])
      BY <1>2, <2>1 DEF Attached
    <3>2. Settled(client[c]) /\ (~client[c].torn => client[c].drawn = Prefix(client[c].auth))
      BY <1>1, Zenon DEF Follows, Whole
    <3>3. /\ Resynced(client[c]) \in Reader(Resynced(client[c]).drawn)
          /\ Follows(Resynced(client[c]), << >>, head)
      BY <1>1, <3>2, ResyncedFollows
    <3> QED BY <1>2, <3>1, <3>3, Zenon
  <2>2. CASE client[c].phase # "live"
    <3>1. client'[c] = client[c]
      BY <1>2, <2>2 DEF Attached
    <3>2. wire[c] = << >>
      BY <1>1, <2>2, Zenon DEF Follows
    <3> QED BY <1>1, <1>2, <3>1, <3>2, Zenon
  <2> QED BY <2>1, <2>2
<1>4. client' = [c \in Clients |-> client'[c]] /\ wire' \in [Clients -> Seq(Frame)]
      /\ \A c \in Clients : wire'[c] = << >>
  BY <1>2
<1> QED BY <1>3, <1>4, Zenon DEF ReplayInv, ReaderTypes

\* What does not concern the readers.
LEMMA ReplaySame ==
  ASSUME ReplayInv, UNCHANGED << client, wire, head >>
  PROVE  ReplayInv'
BY DEF ReplayInv, ReaderTypes

LEMMA ServerReplays ==
  ASSUME PinsInv, ReplayInv, ServerNext
  PROVE  ReplayInv'
<1>1. CASE Write
  BY <1>1, ReplayWrite
<1>2. CASE SaveIsStale \/ LedgerFails
  BY <1>2, ReplayDrop DEF SaveIsStale, LedgerFails
<1>3. CASE GuestJoins \/ GuestLeaves \/ \E unload \in BOOLEAN : SaveBegins(unload)
  BY <1>3, ReplaySame DEF GuestJoins, GuestLeaves, SaveBegins
<1>4. CASE \E aged \in Seqs : SaveLands(aged) \/ UnloadSaved(aged)
  BY <1>4, ReplaySame DEF SaveLands, UnloadSaved
<1>5. CASE StraySaveLands \/ UnloadRetries \/ \E b \in Seqs : PinExpires(b)
  BY <1>5, ReplaySame DEF StraySaveLands, UnloadRetries, PinExpires
<1> QED BY <1>1, <1>2, <1>3, <1>4, <1>5 DEF ServerNext

\* A reader that has no connection and stays so.
LEMMA Apart ==
  ASSUME NEW r, NEW s, NEW n, Follows(r, << >>, n), s.phase # "live",
         s.phase = "connecting" /\ ~r.torn => s.base = r.auth,
         s.queue = r.queue, s.drawn = r.drawn, s.auth = r.auth, s.waiting = r.waiting,
         s.pending = r.pending, s.processing = r.processing, s.torn = r.torn, r.phase # "live"
  PROVE  Follows(s, << >>, n)
BY Zenon DEF Follows, Settled, Whole, Between, Within

LEMMA Facts ==
  ASSUME ReplayInv, NEW c \in Clients
  PROVE  /\ client[c] \in Reader(client[c].drawn)
         /\ wire[c] \in Seq(Frame)
         /\ Follows(client[c], wire[c], head)
         /\ Settled(client[c])
         /\ ~client[c].torn => client[c].drawn = Prefix(client[c].auth)
         /\ client[c].phase # "live" => client[c].queue = << >> /\ wire[c] = << >>
<1>1. /\ client[c] \in Reader(client[c].drawn)
      /\ wire[c] \in Seq(Frame)
      /\ Follows(client[c], wire[c], head)
  BY DEF ReplayInv, ReaderTypes
<1> QED BY <1>1, Zenon DEF Follows, Whole

\* The steps between two connections.
LEMMA StartReplays ==
  ASSUME ReplayInv, NEW c \in Clients, Start(c)
  PROVE  ReplayInv'
<1> DEFINE r == client[c]
           s == [r EXCEPT !.phase = "asking"]
           t == [r EXCEPT !.phase = "connecting", !.base = r.auth]
<1>1. r \in Reader(r.drawn) /\ wire[c] = << >> /\ Follows(r, << >>, head) /\ r.phase = "idle"
  <2>1. r.phase = "idle"
    BY DEF Start
  <2>2. wire[c] = << >>
    BY <2>1, Facts
  <2> QED BY <2>1, <2>2, Facts
<1>2. (client' = [client EXCEPT ![c] = s] \/ client' = [client EXCEPT ![c] = t])
      /\ UNCHANGED << wire, head >>
  BY DEF Start, Becomes, serverVars
<1> HIDE DEF r
<1>3. s \in Reader(s.drawn) /\ Follows(s, << >>, head)
  <2>1. /\ s \in Reader(r.drawn) /\ s.phase = "asking" /\ s.queue = r.queue /\ s.drawn = r.drawn
        /\ s.auth = r.auth /\ s.waiting = r.waiting /\ s.pending = r.pending
    BY <1>1 DEF Reader, Phases
  <2>2. s.processing = r.processing /\ s.torn = r.torn
    BY <1>1, Zenon DEF Reader
  <2>3. s.phase # "live" /\ s.phase # "connecting" /\ r.phase # "live"
    BY <1>1, <2>1
  <2> HIDE DEF s
  <2> QED BY <1>1, <2>1, <2>2, <2>3, Apart
<1>4. t \in Reader(t.drawn) /\ Follows(t, << >>, head)
  <2>0. r.auth \in Nat
    BY <1>1 DEF Reader
  <2>1. /\ t \in Reader(r.drawn) /\ t.phase = "connecting" /\ t.queue = r.queue /\ t.drawn = r.drawn
        /\ t.auth = r.auth /\ t.waiting = r.waiting /\ t.pending = r.pending /\ t.base = r.auth
    BY <1>1, <2>0 DEF Reader, Phases
  <2>2. t.processing = r.processing /\ t.torn = r.torn
    BY <1>1, Zenon DEF Reader
  <2>3. t.phase # "live" /\ r.phase # "live"
    BY <1>1, <2>1
  <2> HIDE DEF t
  <2> QED BY <1>1, <2>1, <2>2, <2>3, Apart
<1> HIDE DEF s, t
<1>5. Follows(s, wire[c], head) /\ Follows(t, wire[c], head)
  BY <1>1, <1>3, <1>4, Zenon
<1> QED BY <1>2, <1>3, <1>4, <1>5, OnlyReader

\* A reader goes on to another phase of the fetch, or gives it up.
LEMMA FetchReplays ==
  ASSUME ReplayInv, NEW c \in Clients, NEW phase \in Phases, NEW base \in Nat,
         client[c].phase # "live", phase # "live", phase # "connecting",
         client' = [client EXCEPT ![c] = [client[c] EXCEPT !.phase = phase, !.base = base]],
         UNCHANGED << wire, head >>
  PROVE  ReplayInv'
<1> DEFINE r == client[c]
           s == [r EXCEPT !.phase = phase, !.base = base]
<1>1. r \in Reader(r.drawn) /\ wire[c] = << >> /\ Follows(r, << >>, head) /\ r.phase # "live"
  <2>1. wire[c] = << >>
    BY Facts
  <2> QED BY <2>1, Facts
<1>2. client' = [client EXCEPT ![c] = s]
  OBVIOUS
<1> HIDE DEF r
<1>3. /\ s \in Reader(r.drawn) /\ s.phase = phase /\ s.queue = r.queue /\ s.drawn = r.drawn
      /\ s.auth = r.auth /\ s.waiting = r.waiting /\ s.pending = r.pending
  BY <1>1 DEF Reader
<1>4. s.processing = r.processing /\ s.torn = r.torn
  BY <1>1, Zenon DEF Reader
<1> HIDE DEF s
<1>5. s \in Reader(s.drawn) /\ Follows(s, << >>, head)
  BY <1>1, <1>3, <1>4, Apart
<1>6. Follows(s, wire[c], head)
  BY <1>1, <1>5, Zenon
<1> QED BY <1>2, <1>5, <1>6, OnlyReader

LEMMA ReadReplays ==
  ASSUME PinsInv, ReplayInv, NEW c \in Clients,
         ServerReads(c) \/ ServerPins(c) \/ ServerStreams(c) \/ FetchFails(c)
  PROVE  ReplayInv'
<1> DEFINE r == client[c]
<1>1. r \in Reader(r.drawn) /\ r.base \in Nat /\ stored \in Nat /\ 0 \in Nat
  BY Facts DEF Reader, PinsInv, ServerTypes
<1>2. "read" \in Phases /\ "pinned" \in Phases /\ "served" \in Phases /\ "idle" \in Phases
  BY DEF Phases
<1>3. CASE ServerReads(c)
  <2>1. /\ r.phase = "asking" /\ client' = [client EXCEPT ![c] = [r EXCEPT !.phase = "read", !.base = stored]]
        /\ UNCHANGED << wire, head >>
    BY <1>3 DEF ServerReads, Becomes, serverVars
  <2> QED BY <1>1, <1>2, <2>1, FetchReplays
<1>4. CASE ServerStreams(c)
  <2>1. /\ r.phase = "pinned" /\ client' = [client EXCEPT ![c] = [r EXCEPT !.phase = "served", !.base = stored]]
        /\ UNCHANGED << wire, head >>
    BY <1>4 DEF ServerStreams, Becomes, serverVars
  <2> QED BY <1>1, <1>2, <2>1, FetchReplays
<1>5. CASE FetchFails(c)
  <2>1. /\ r.phase \in {"asking", "read", "pinned", "served"}
        /\ client' = [client EXCEPT ![c] = [r EXCEPT !.phase = "idle", !.base = 0]]
        /\ UNCHANGED << wire, head >>
    BY <1>5 DEF FetchFails, Becomes, serverVars
  <2> QED BY <1>1, <1>2, <2>1, FetchReplays
<1>6. CASE ServerPins(c)
  <2> DEFINE phase == IF r.page THEN "served" ELSE "pinned"
  <2>1. /\ r.phase = "read" /\ client' = [client EXCEPT ![c] = [r EXCEPT !.phase = phase]]
        /\ UNCHANGED << wire, head >>
    BY <1>6 DEF ServerPins, Becomes
  <2>2. phase \in Phases /\ phase # "live" /\ phase # "connecting"
    BY <1>2
  <2> HIDE DEF phase
  <2>3. [r EXCEPT !.phase = phase] = [r EXCEPT !.phase = phase, !.base = r.base]
    BY <1>1 DEF Reader
  <2> QED BY <1>1, <2>1, <2>2, <2>3, FetchReplays
<1> QED BY <1>3, <1>4, <1>5, <1>6

LEMMA BaselineReplays ==
  ASSUME ReplayInv, NEW c \in Clients, BaselineArrives(c)
  PROVE  ReplayInv'
<1> DEFINE r == client[c]
           s == WithBaseline(r, r.base)
<1>1. /\ r.phase = "served" /\ client' = [client EXCEPT ![c] = s] /\ UNCHANGED << wire, head >>
  BY DEF BaselineArrives, Becomes, serverVars
<1>2. /\ r \in Reader(r.drawn) /\ r.base \in Nat /\ r.queue = << >> /\ wire[c] = << >> /\ Settled(r)
  BY <1>1, Facts DEF Reader
<1>3. s \in Reader(s.drawn) /\ Follows(s, << >>, head)
  BY <1>2, BaselineFollows
<1> HIDE DEF s
<1>4. Follows(s, wire[c], head)
  BY <1>2, <1>3, Zenon
<1> QED BY <1>1, <1>3, <1>4, OnlyReader

\* The connection: it is made, it is lost, and the frames come.
LEMMA ResyncReplays ==
  ASSUME ReplayInv, NEW c \in Clients, NEW r, r \in Reader(r.drawn), Settled(r),
         ~r.torn => r.drawn = Prefix(r.auth),
         client' = [client EXCEPT ![c] = Resynced(r)], wire' = [wire EXCEPT ![c] = << >>], head' = head
  PROVE  ReplayInv'
<1> DEFINE s == Resynced(r)
<1>1. s \in Reader(s.drawn) /\ Follows(s, << >>, head)
  BY ResyncedFollows
<1>2. client' = [client EXCEPT ![c] = s] /\ << >> \in Seq(Frame)
  OBVIOUS
<1> HIDE DEF s
<1> QED BY <1>1, <1>2, OneReader

LEMMA HandshakeReplays ==
  ASSUME PinsInv, ReplayInv, NEW c \in Clients, Handshake(c)
  PROVE  ReplayInv'
<1> DEFINE r == client[c]
           s == [r EXCEPT !.phase = "live", !.base = 0]
           f == Batch(Load, r.base)
<1>1. /\ r.phase = "connecting" /\ head' = head
      /\ IF Replayable(r.base, Load)
         THEN client' = [client EXCEPT ![c] = s] /\ wire' = [wire EXCEPT ![c] = << f >>]
         ELSE client' = [client EXCEPT ![c] = Resynced(r)] /\ UNCHANGED wire
  BY DEF Handshake, Becomes
<1>2. wire[c] = << >> /\ wire \in [Clients -> Seq(Frame)]
  BY <1>1, Facts DEF ReplayInv, ReaderTypes
<1>3. /\ r \in Reader(r.drawn) /\ Follows(r, << >>, head) /\ Settled(r)
      /\ ~r.torn => r.drawn = Prefix(r.auth)
  <2>1. Follows(r, wire[c], head)
    BY Facts
  <2> QED BY <1>2, <2>1, Facts
<1>4. head \in Nat /\ Load \in Log
  BY DEF Load, Log, PinsInv, ServerTypes
<1>5. CASE Replayable(r.base, Load)
  <2>1. s \in Reader(s.drawn) /\ Follows(s, << f >>, head)
    BY <1>1, <1>3, <1>4, <1>5, HandshakeFollows
  <2>2. << f >> \in Seq(Frame)
    <3>1. r.base \in Nat
      BY <1>3 DEF Reader
    <3>2. f \in Frame
      BY <1>4, <1>5, <3>1, BatchIs
    <3> HIDE DEF f
    <3> QED BY <3>2
  <2>3. client' = [client EXCEPT ![c] = s] /\ wire' = [wire EXCEPT ![c] = << f >>] /\ head' = head
    BY <1>1, <1>5
  <2> HIDE DEF s, f
  <2> QED BY <2>1, <2>2, <2>3, OneReader
<1>6. CASE ~Replayable(r.base, Load)
  <2>1. client' = [client EXCEPT ![c] = Resynced(r)] /\ wire' = [wire EXCEPT ![c] = << >>] /\ head' = head
    BY <1>1, <1>2, <1>6
  <2> HIDE DEF r
  <2> QED BY <1>3, <2>1, ResyncReplays
<1> QED BY <1>5, <1>6

LEMMA DisconnectReplays ==
  ASSUME ReplayInv, NEW c \in Clients, Disconnects(c)
  PROVE  ReplayInv'
<1>1. /\ client' = [client EXCEPT ![c] = Resynced(client[c])] /\ wire' = [wire EXCEPT ![c] = << >>]
      /\ head' = head
  BY DEF Disconnects, Becomes
<1> QED BY <1>1, Facts, ResyncReplays

LEMMA ArrivalReplays ==
  ASSUME PinsInv, ReplayInv, NEW c \in Clients, FrameArrives(c)
  PROVE  ReplayInv'
<1> DEFINE r == client[c]
           w == wire[c]
           s == [r EXCEPT !.queue = Append(@, Head(w))]
<1>1. /\ w # << >> /\ client' = [client EXCEPT ![c] = s] /\ wire' = [wire EXCEPT ![c] = Tail(w)]
      /\ head' = head
  BY DEF FrameArrives, Becomes, serverVars
<1>2. r \in Reader(r.drawn) /\ w \in Seq(Frame) /\ Follows(r, w, head) /\ head \in Nat
  BY Facts DEF PinsInv, ServerTypes
<1> HIDE DEF r, w
<1>3. s \in Reader(s.drawn) /\ Follows(s, Tail(w), head)
  BY <1>1, <1>2, ArrivesFollows
<1>4. Tail(w) \in Seq(Frame)
  BY <1>1, <1>2, HeadTailProperties
<1> HIDE DEF s
<1> QED BY <1>1, <1>3, <1>4, OneReader

LEMMA DrainReplays ==
  ASSUME PinsInv, ReplayInv, NEW c \in Clients, Drain(c)
  PROVE  ReplayInv'
<1> DEFINE r == client[c]
           q == [r EXCEPT !.queue = Tail(@)]
           f == Head(r.queue)
           s == IF Stale(q, f) THEN q ELSE Processed(q, f)
<1>1. /\ ~r.processing /\ r.queue # << >> /\ head' = head
      /\ IF OutOfOrder(q, f)
         THEN client' = [client EXCEPT ![c] = Resynced(q)] /\ wire' = [wire EXCEPT ![c] = << >>]
         ELSE client' = [client EXCEPT ![c] = s] /\ UNCHANGED wire
  BY DEF Drain, Handle, Becomes
<1>2. r \in Reader(r.drawn) /\ wire[c] \in Seq(Frame) /\ Follows(r, wire[c], head) /\ head \in Nat
  BY Facts DEF PinsInv, ServerTypes
<1> HIDE DEF r
<1>3. /\ q \in Reader(q.drawn) /\ Settled(q) /\ (~q.torn => q.drawn = Prefix(q.auth))
      /\ ~OutOfOrder(q, f) => s \in Reader(s.drawn) /\ Follows(s, wire[c], head)
  BY <1>1, <1>2, DrainFollows
<1> HIDE DEF q, s
<1>4. CASE OutOfOrder(q, f)
  BY <1>1, <1>3, <1>4, ResyncReplays
<1>5. CASE ~OutOfOrder(q, f)
  BY <1>1, <1>3, <1>5, OnlyReader
<1> QED BY <1>4, <1>5

LEMMA BootReplays ==
  ASSUME PinsInv, ReplayInv, NEW c \in Clients, ToolBoots(c)
  PROVE  ReplayInv'
<1> DEFINE r == client[c]
           s == Booted(r)
<1>1. r.pending # << >> /\ client' = [client EXCEPT ![c] = s] /\ UNCHANGED << wire, head >>
  BY DEF ToolBoots, Becomes, serverVars, Booted
<1>2. r \in Reader(r.drawn) /\ wire[c] \in Seq(Frame) /\ Follows(r, wire[c], head) /\ head \in Nat
  BY Facts DEF PinsInv, ServerTypes
<1> HIDE DEF r
<1>3. s \in Reader(s.drawn) /\ Follows(s, wire[c], head)
  BY <1>1, <1>2, BootedFollows
<1> HIDE DEF s
<1> QED BY <1>1, <1>3, OnlyReader

LEMMA ReplayStep ==
  ASSUME PinsInv, ReplayInv, [Next]_vars
  PROVE  ReplayInv'
<1>1. CASE ServerNext
  BY <1>1, ServerReplays
<1>2. ASSUME NEW c \in Clients, ReaderNext(c) PROVE ReplayInv'
  <2>1. CASE Start(c)
    BY <2>1, StartReplays
  <2>2. CASE ServerReads(c) \/ ServerPins(c) \/ ServerStreams(c) \/ FetchFails(c)
    BY <2>2, ReadReplays
  <2>3. CASE BaselineArrives(c)
    BY <2>3, BaselineReplays
  <2>4. CASE Handshake(c)
    BY <2>4, HandshakeReplays
  <2>5. CASE Disconnects(c)
    BY <2>5, DisconnectReplays
  <2>6. CASE FrameArrives(c)
    BY <2>6, ArrivalReplays
  <2>7. CASE Drain(c)
    BY <2>7, DrainReplays
  <2>8. CASE ToolBoots(c)
    BY <2>8, BootReplays
  <2> QED BY <1>2, <2>1, <2>2, <2>3, <2>4, <2>5, <2>6, <2>7, <2>8 DEF ReaderNext
<1>3. CASE UNCHANGED vars
  BY <1>3, ReplaySame DEF vars, serverVars
<1> QED BY <1>1, <1>2, <1>3 DEF Next

-----------------------------------------------------------------------------
(* What follows.                                                            *)

LEMMA InvViews == ReplayInv => ViewIsPrefix
<1> SUFFICES ASSUME ReplayInv, NEW c \in Clients, ~client[c].torn
             PROVE  client[c].drawn = Prefix(client[c].auth)
  BY DEF ViewIsPrefix
<1> QED BY Facts

LEMMA InvSkips == PinsInv /\ ReplayInv => NothingSkipped
<1> SUFFICES ASSUME PinsInv, ReplayInv, NEW c \in Attached, ~client[c].torn
             PROVE  LET r == client[c]
                        b == Backlog(r, c)
                        reach == [i \in 0..Len(b) |-> IF i = 0 THEN r.auth ELSE b[i].seq]
                    IN /\ reach[Len(b)] = head
                       /\ \A i \in 1..Len(b) :
                             IF b[i].kind = "live" THEN b[i].seq = reach[i-1] + 1
                             ELSE i = 1 /\ b[i].from + b[i].count = b[i].seq
  BY DEF NothingSkipped
<1> DEFINE r == client[c]
           b == Backlog(r, c)
           reach == [i \in 0..Len(b) |-> IF i = 0 THEN r.auth ELSE b[i].seq]
<1>1. c \in Clients /\ r.phase = "live"
  BY DEF Attached
<1>2. /\ r \in Reader(r.drawn) /\ wire[c] \in Seq(Frame) /\ Follows(r, wire[c], head)
      /\ r.queue \in Seq(Frame) /\ r.waiting \in Seq(Waiting) /\ r.auth \in Nat /\ head \in Nat
  BY <1>1, Facts DEF Reader, PinsInv, ServerTypes
<1>3. b = (Work(r) \o r.queue) \o wire[c]
  BY DEF Backlog, Work
<1>4. b \in Seq(Frame)
  <2>1. Work(r) \in Seq(Frame)
    BY <1>2, WorkTypes
  <2>2. Work(r) \o r.queue \in Seq(Frame)
    BY <1>2, <2>1, ConcatProperties
  <2> QED BY <1>2, <1>3, <2>2, ConcatProperties
<1>5. /\ Between(r) \/ Within(r)
      /\ Run(b, head)
      /\ Between(r) => Continues(r.auth, b, head)
  BY <1>1, <1>2, <1>3, Zenon DEF Follows, Whole
<1>6. ASSUME Within(r) PROVE b # << >> /\ b[1] \in Frame /\ (b[1].kind = "live" => b[1].seq = r.auth + 1)
  <2>1. /\ Len(r.waiting) = 1
        /\ LET w == r.waiting[1] IN
             /\ w.at = r.auth + 1
             /\ IF w.frame.kind = "live" THEN w.at = w.frame.seq
                ELSE w.frame.from < w.at /\ w.at <= w.frame.seq
    BY <1>6 DEF Within
  <2> DEFINE f == r.waiting[1].frame
  <2>2. Work(r) = << f >>
    BY <1>2, <2>1, OneWork
  <2>3. r.waiting[1] \in Waiting
    BY <1>2, <2>1
  <2>4. f \in Frame /\ (f.kind = "live" => f.seq = r.auth + 1)
    BY <2>1, <2>3 DEF Waiting
  <2> HIDE DEF f
  <2>5. b = (<< f >> \o r.queue) \o wire[c]
    BY <1>3, <2>2
  <2>6. b # << >> /\ b[1] = f
    <3> DEFINE u == << f >> \o r.queue
    <3>1. u \in Seq(Frame) /\ Len(u) \in Nat /\ Len(u) >= 1 /\ u[1] = f
      BY <1>2, <2>4
    <3> HIDE DEF u
    <3>2. u \o wire[c] # << >> /\ (u \o wire[c])[1] = u[1]
      BY <1>2, <3>1
    <3>3. b = u \o wire[c]
      BY <2>5 DEF u
    <3> QED BY <3>1, <3>2, <3>3, Zenon
  <2> QED BY <2>4, <2>6
<1> HIDE DEF r, b
<1>7. /\ b = << >> => r.auth = head
      /\ b # << >> /\ b[1].kind = "live" => b[1].seq = r.auth + 1
  BY <1>5, <1>6 DEF Continues
<1>8. reach[Len(b)] = head
  <2>1. CASE b = << >>
    <3>1. Len(b) = 0
      BY <2>1
    <3> QED BY <1>7, <2>1, <3>1
  <2>2. CASE b # << >>
    <3>1. Len(b) \in 1..Len(b) /\ Len(b) # 0
      BY <1>4, <2>2
    <3>2. b[Len(b)] \in Frame
      BY <1>4, <3>1
    <3>3. b[Len(b)].seq \in Nat
      BY <3>2 DEF Frame
    <3>4. b[Len(b)].seq + (Len(b) - Len(b)) = head
      BY <1>5, <3>1 DEF Run
    <3>5. b[Len(b)].seq = head
      BY <1>4, <3>3, <3>4
    <3> QED BY <3>1, <3>5
  <2> QED BY <2>1, <2>2
<1>9. ASSUME NEW i \in 1..Len(b)
      PROVE  IF b[i].kind = "live" THEN b[i].seq = reach[i-1] + 1
             ELSE i = 1 /\ b[i].from + b[i].count = b[i].seq
  <2>1. /\ b[i].seq + (Len(b) - i) = head
        /\ \/ b[i].kind = "live"
           \/ i = 1 /\ b[i].from + b[i].count = b[i].seq
    BY <1>5 DEF Run
  <2>2. CASE i = 1
    <3>1. b # << >> /\ reach[i - 1] = r.auth
      BY <1>4, <2>2
    <3> QED BY <1>7, <2>1, <2>2, <3>1
  <2>3. CASE i # 1
    <3>1. i - 1 \in 1..Len(b) /\ i - 1 # 0 /\ i \in Nat /\ Len(b) \in Nat /\ i - 1 \in 0..Len(b)
      BY <1>4, <2>3
    <3>2. b[i - 1] \in Frame /\ b[i] \in Frame
      BY <1>4, <3>1
    <3>3. b[i - 1].seq \in Nat /\ b[i].seq \in Nat
      BY <3>2 DEF Frame
    <3>4. b[i - 1].seq + (Len(b) - (i - 1)) = head
      BY <1>5, <3>1 DEF Run
    <3>5. b[i].seq = b[i - 1].seq + 1
      <4> DEFINE x == b[i].seq
                 y == b[i - 1].seq
                 l == Len(b)
      <4>1. x \in Nat /\ y \in Nat /\ l \in Nat /\ i \in Nat
        BY <3>1, <3>3
      <4>2. x + (l - i) = head /\ y + (l - (i - 1)) = head
        BY <2>1, <3>4
      <4> HIDE DEF x, y, l
      <4>3. x = y + 1
        BY <4>1, <4>2
      <4> QED BY <4>3 DEF x, y
    <3>6. reach[i - 1] = b[i - 1].seq
      BY <3>1
    <3>7. b[i].kind = "live"
      BY <2>1, <2>3
    <3> QED BY <3>5, <3>6, <3>7
  <2> QED BY <2>2, <2>3
<1> QED BY <1>8, <1>9 DEF r, b

\* Whatever was accepted reaches a connected reader in order and without a gap,
\* through handshakes, resynchronisations, unloads and tools booted late
\* (board_replay_module.js, socket/replay.mjs).
THEOREM NothingIsSkipped == Spec => []NothingSkipped
<1>1. Init => PinsInv /\ ReplayInv
  BY PinsInit, ReplayInit
<1>2. PinsInv /\ ReplayInv /\ [Next]_vars => (PinsInv /\ ReplayInv)'
  BY PinsStep, ReplayStep
<1> QED BY <1>1, <1>2, InvSkips, PTL DEF Spec

\* A reader between two frames shows exactly the mutations up to its sequence, each
\* once and in order (board_replay_module.js).
THEOREM ViewsArePrefixes == Spec => []ViewIsPrefix
<1>1. Init => PinsInv /\ ReplayInv
  BY PinsInit, ReplayInit
<1>2. PinsInv /\ ReplayInv /\ [Next]_vars => (PinsInv /\ ReplayInv)'
  BY PinsStep, ReplayStep
<1> QED BY <1>1, <1>2, InvViews, PTL DEF Spec

=============================================================================
