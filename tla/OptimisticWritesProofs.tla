------------------------ MODULE OptimisticWritesProofs ------------------------
(***************************************************************************)
(* Theorems about OptimisticWrites, for every set of mutations, every bound*)
(* and every initial board: the journal never keeps an entry without what  *)
(* it rests on, a write that waits for an answer has one coming, and once  *)
(* nothing is pending the screen is the board of the server.               *)
(***************************************************************************)
EXTENDS OptimisticWrites, FiniteSetTheorems, SequenceTheorems, WellFoundedInduction, TLAPS

Ids       == {m.cid : m \in Mutations}
Write == [mut : Mine, state : {"queued", "inflight"}, redraw : BOOLEAN]
Sent  == [mut : Mine, here : BOOLEAN]
Frame ==
  [kind : {"mutation"}, seq : Nat, mut : Mutations, mine : BOOLEAN]
    \cup [kind : {"rejected"}, cid : Ids]
    \cup [kind : {"limited", "closed"}]
    \cup [kind : {"batch"}, muts : Seq(Mutations)]

\* A browser with that view and journal: neither has a shape the proofs need.
Browser(view, journal) ==
  [view : {view}, seq : Nat, journal : {journal}, buffered : Seq(Write),
   link : {"down", "fetched", "replaying", "live"}, paused : BOOLEAN]
IsBrowser(c) == c \in Browser(c.view, c.journal)

\* What an entry of a journal needs is in the journal or among acc.
Entries(journal) == {e.mut.cid : e \in Range(journal)}
Closed(journal, acc) ==
  /\ journal \in Seq(Range(journal))
  /\ \A e \in Range(journal) : e.needs \subseteq Entries(journal) \cup acc

-----------------------------------------------------------------------------
(* The invariant.                                                           *)

Types ==
  /\ IsBrowser(me) /\ me.seq <= Len(log)
  /\ log \in Seq(Mutations) /\ queue \in Seq(Sent) /\ frames \in Seq(Frame)
  /\ open \in BOOLEAN /\ used \in [mine : SUBSET Ids, faults : Nat]

\* What is under way to the browser: mutations under the sequences they have, the
\* batch of a handshake first, the end of the connection last.
Mail ==
  /\ \A i \in 1..Len(frames) :
       /\ frames[i].kind = "mutation" =>
            frames[i].seq \in 1..Len(log) /\ log[frames[i].seq].cid = frames[i].mut.cid
       /\ frames[i].kind = "batch" =>
            i = 1 /\ me.link = "replaying" /\ me.seq + Len(frames[i].muts) <= Len(log)
       /\ frames[i].kind = "closed" => i = Len(frames) /\ ~open
  /\ IF me.link \in {"down", "fetched"} THEN ~open /\ frames = << >>
     ELSE ~open => frames # << >> /\ frames[Len(frames)].kind = "closed"

\* An id of this user's is only on the user's own writes.
Owned ==
  /\ \A n \in 1..Len(log) : log[n].cid \in used.mine \/ log[n] \in Theirs \cup Range(Drawn)
  /\ \A n \in 1..Len(queue) : queue[n].mut.cid \in used.mine

\* The write is on its way to the server, or the answer is on its way back.
Answers(frame, cid) ==
  \/ frame.kind = "mutation" /\ frame.mut.cid = cid
  \/ frame.kind = "rejected" /\ frame.cid = cid
UnderWay(cid) ==
  \/ \E i \in 1..Len(queue) : queue[i].here /\ queue[i].mut.cid = cid
  \/ \E i \in 1..Len(frames) : Answers(frames[i], cid)

\* A write that no rate limit has put back was made on this connection, is not on
\* the board yet as far as the browser knows, and once sent is under way.
Fresh(c, w) ==
  /\ c.link = "live" /\ ~c.paused
  /\ \A n \in 1..c.seq : log[n].cid # w.mut.cid
  /\ w.state = "inflight" /\ open => UnderWay(w.mut.cid)
WritesOf(c, mine) ==
  \A w \in Range(c.buffered) :
    w.mut.cid \in mine /\ (w.mut.cid \in deferred \/ Fresh(c, w))
Writes == WritesOf(me, used.mine)

Acc == {log[n].cid : n \in 1..Len(log)}

Inv == Types /\ Mail /\ Owned /\ Writes /\ Closed(me.journal, Acc)

-----------------------------------------------------------------------------
(* Sequences.                                                               *)

Rank(places, i) == Cardinality({j \in places : j <= i})

LEMMA Ranks ==
  ASSUME NEW n \in Nat, NEW places \in SUBSET (1..n)
  PROVE  /\ IsFiniteSet(places) /\ Cardinality(places) \in Nat
         /\ \A i \in places : Rank(places, i) \in 1..Cardinality(places)
         /\ \A i, j \in places : i < j => Rank(places, i) < Rank(places, j)
<1> DEFINE UpTo(i) == {j \in places : j <= i}
<1>1. IsFiniteSet(places) /\ Cardinality(places) \in Nat
  <2>1. IsFiniteSet(1..n)
    BY FS_Interval
  <2>2. IsFiniteSet(places)
    BY <2>1, FS_Subset
  <2> QED BY <2>2, FS_CardinalityType
<1>2. ASSUME NEW i \in places
      PROVE  IsFiniteSet(UpTo(i)) /\ Rank(places, i) = Cardinality(UpTo(i))
             /\ Cardinality(UpTo(i)) \in 1..Cardinality(places)
  <2>1. UpTo(i) \in SUBSET places /\ i \in UpTo(i)
    OBVIOUS
  <2>2. /\ IsFiniteSet(UpTo(i)) /\ Cardinality(UpTo(i)) <= Cardinality(places)
        /\ Cardinality(UpTo(i)) \in Nat
    BY <1>1, <2>1, FS_Subset, FS_CardinalityType
  <2>3. Cardinality(UpTo(i)) # 0
    BY <2>1, <2>2, FS_EmptySet
  <2>4. Rank(places, i) = Cardinality(UpTo(i))
    BY DEF Rank
  <2> QED BY <1>1, <2>2, <2>3, <2>4
<1>3. ASSUME NEW i \in places, NEW j \in places, i < j
      PROVE  Rank(places, i) < Rank(places, j)
  <2>1. UpTo(i) \in SUBSET UpTo(j) /\ j \in UpTo(j) /\ j \notin UpTo(i)
    <3>1. i \in Int /\ j \in Int /\ places \subseteq Int
      OBVIOUS
    <3>2. ASSUME NEW x \in UpTo(i) PROVE x \in UpTo(j)
      <4>1. x \in places /\ x \in Int /\ x <= i
        BY <3>1
      <4>2. x <= j
        BY <1>3, <3>1, <4>1
      <4> QED BY <4>1, <4>2
    <3>3. j \in UpTo(j) /\ j \notin UpTo(i)
      BY <1>3, <3>1
    <3> QED BY <3>2, <3>3
  <2>2. /\ Cardinality(UpTo(i)) <= Cardinality(UpTo(j))
        /\ Cardinality(UpTo(i)) # Cardinality(UpTo(j))
    BY <1>2, <2>1, FS_Subset
  <2> HIDE DEF UpTo
  <2> QED BY <1>2, <2>2
<1> HIDE DEF UpTo
<1> QED BY <1>1, <1>2, <1>3

\* What is chosen from a sequence are its elements at the places, all of them.
LEMMA ChosenIs ==
  ASSUME NEW S, NEW s \in Seq(S), NEW places \in SUBSET (DOMAIN s)
  PROVE  /\ Chosen(s, places) \in Seq(S)
         /\ Range(Chosen(s, places)) = {s[p] : p \in places}
<1> DEFINE k == Cardinality(places)
           f == [i \in places |-> Rank(places, i)]
           at(r) == CHOOSE p \in places : Rank(places, p) = r
<1>1. /\ IsFiniteSet(places) /\ k \in Nat
      /\ \A i \in places : f[i] \in 1..k
      /\ \A i, j \in places : i < j => f[i] < f[j]
  <2>1. places \in SUBSET (1..Len(s)) /\ Len(s) \in Nat
    OBVIOUS
  <2> QED BY <2>1, Ranks
<1>2. f \in Injection(places, 1..k)
  <2>1. \A i, j \in places : f[i] = f[j] => i = j
    <3> SUFFICES ASSUME NEW i \in places, NEW j \in places, i # j PROVE f[i] # f[j]
      OBVIOUS
    <3>1. i < j \/ j < i
      OBVIOUS
    <3>2. f[i] \in Int /\ f[j] \in Int
      BY <1>1
    <3> HIDE DEF f
    <3> QED BY <1>1, <3>1, <3>2
  <2>2. f \in [places -> 1..k]
    BY <1>1
  <2> HIDE DEF f, k
  <2> QED BY <2>1, <2>2 DEF Injection, IsInjective
<1>3. IsFiniteSet(1..k) /\ Cardinality(1..k) = k
  BY <1>1, FS_Interval
<1>4. f \in Surjection(places, 1..k)
  BY <1>2, <1>3, FS_Injection
<1>5. \A r \in 1..k : at(r) \in places /\ Rank(places, at(r)) = r
  <2> SUFFICES ASSUME NEW r \in 1..k PROVE \E p \in places : Rank(places, p) = r
    OBVIOUS
  <2>1. \E p \in places : f[p] = r
    BY <1>4 DEF Surjection
  <2> QED BY <2>1
<1>6. \A p \in places : f[p] \in 1..k /\ at(f[p]) = p
  <2> SUFFICES ASSUME NEW p \in places PROVE f[p] \in 1..k /\ at(f[p]) = p
    OBVIOUS
  <2>1. f[p] \in 1..k /\ at(f[p]) \in places /\ f[at(f[p])] = f[p]
    BY <1>1, <1>5
  <2> HIDE DEF f, at
  <2> QED BY <1>2, <2>1 DEF Injection, IsInjective
<1>7. Chosen(s, places) = [r \in 1..k |-> s[at(r)]]
  BY DEF Chosen, Rank
<1>8. \A p \in places : s[p] \in S
  OBVIOUS
<1> HIDE DEF k, f, at
<1>9. Chosen(s, places) \in Seq(S)
  BY <1>1, <1>5, <1>7, <1>8
<1>10. Range(Chosen(s, places)) = {s[at(r)] : r \in 1..k}
  BY <1>7 DEF Range
<1>11. {s[at(r)] : r \in 1..k} = {s[p] : p \in places}
  BY <1>5, <1>6
<1> QED BY <1>9, <1>10, <1>11

LEMMA Appended ==
  ASSUME NEW S, NEW s \in Seq(S), NEW x
  PROVE  Append(s, x) \in Seq(S \cup {x}) /\ Range(Append(s, x)) = Range(s) \cup {x}
<1>1. s \in Seq(S \cup {x}) /\ x \in S \cup {x}
  OBVIOUS
<1>2. /\ Append(s, x) \in Seq(S \cup {x}) /\ Len(Append(s, x)) = Len(s) + 1
      /\ \A i \in 1..Len(s) : Append(s, x)[i] = s[i]
      /\ Append(s, x)[Len(s) + 1] = x
  BY <1>1, AppendProperties
<1>3. DOMAIN Append(s, x) = 1..(Len(s) + 1) /\ DOMAIN s = 1..Len(s) /\ Len(s) \in Nat
  BY <1>1, <1>2
<1>4. 1..(Len(s) + 1) = 1..Len(s) \cup {Len(s) + 1}
  BY <1>3
<1> QED BY <1>2, <1>3, <1>4 DEF Range

-----------------------------------------------------------------------------
(* The journal.                                                             *)

LEMMA WithoutIs ==
  ASSUME NEW j, j \in Seq(Range(j)), NEW cids
  PROVE  /\ Without(j, cids) \in Seq(Range(Without(j, cids)))
         /\ Range(Without(j, cids)) = {e \in Range(j) : e.mut.cid \notin cids}
<1> DEFINE places == {k \in DOMAIN j : j[k].mut.cid \notin cids}
           s == Chosen(j, places)
<1>1. s \in Seq(Range(j)) /\ Range(s) = {j[p] : p \in places}
  BY ChosenIs
<1>2. Range(s) = {e \in Range(j) : e.mut.cid \notin cids}
  BY <1>1 DEF Range
<1>3. s \in Seq(Range(s))
  <2> HIDE DEF s
  <2> QED BY <1>1 DEF Range
<1>4. Without(j, cids) = s
  BY DEF Without
<1> HIDE DEF s
<1> QED BY <1>2, <1>3, <1>4

LEMMA LatestIn ==
  ASSUME NEW journal, NEW item
  PROVE  LatestOn(journal, item) \subseteq Entries(journal)
BY DEF LatestOn, Entries, Range

\* The entry of a write goes once more at the end, and nothing is missing.
LEMMA TrackClosed ==
  ASSUME NEW c, IsBrowser(c), NEW acc, Closed(c.journal, acc), NEW m, NEW undo
  PROVE  LET d == Track(c, m, undo) IN
         /\ IsBrowser(d) /\ Closed(d.journal, acc)
         /\ d.seq = c.seq /\ d.buffered = c.buffered
         /\ d.link = c.link /\ d.paused = c.paused
<1> DEFINE entry == [mut |-> m, undo |-> undo,
                     needs |-> UNION {LatestOn(c.journal, i) : i \in RestsOn(m)}]
           rest == Without(c.journal, {m.cid})
           new == Append(rest, entry)
<1>1. /\ rest \in Seq(Range(rest))
      /\ Range(rest) = {e \in Range(c.journal) : e.mut.cid \notin {m.cid}}
  BY WithoutIs DEF Closed
<1>2. entry.needs \subseteq Entries(c.journal) /\ entry.mut.cid = m.cid
  BY LatestIn
<1>3. Track(c, m, undo) = [c EXCEPT !.journal = new]
  BY DEF Track
<1> HIDE DEF entry, rest
<1>4. new \in Seq(Range(new)) /\ Range(new) = Range(rest) \cup {entry}
  BY <1>1, Appended
<1> HIDE DEF new
<1>5. Entries(c.journal) \subseteq Entries(new)
  BY <1>1, <1>2, <1>4 DEF Entries
<1>6. Closed(new, acc)
  BY <1>1, <1>2, <1>4, <1>5 DEF Closed
<1> DEFINE d == Track(c, m, undo)
<1>7. d = [c EXCEPT !.journal = new]
  BY <1>3
<1> HIDE DEF d
<1>8. /\ IsBrowser(d) /\ d.journal = new /\ d.seq = c.seq /\ d.buffered = c.buffered
      /\ d.link = c.link /\ d.paused = c.paused
  BY <1>7 DEF IsBrowser, Browser
<1> QED BY <1>6, <1>8 DEF d

LEMMA Tracked ==
  ASSUME NEW x, IsBrowser(x), NEW known, Closed(x.journal, known), NEW n, NEW undo,
         NEW y, y = Track(x, n, undo)
  PROVE  /\ IsBrowser(y) /\ Closed(y.journal, known)
         /\ y.seq = x.seq /\ y.buffered = x.buffered
         /\ y.link = x.link /\ y.paused = x.paused
<1>1. IsBrowser(x) /\ Closed(x.journal, known) /\ y = Track(x, n, undo)
  OBVIOUS
<1> QED BY ONLY <1>1, TrackClosed

\* A rejection takes along whatever rests on what it takes.
LEMMA DependentsClosed ==
  ASSUME NEW journal, NEW cids, NEW e \in Range(journal), NEW n \in e.needs,
         n \in Dependents(journal, cids)
  PROVE  e.mut.cid \in Dependents(journal, cids)
<1> DEFINE all == cids \cup {f.mut.cid : f \in Range(journal)}
           closed(ids) == \A f \in Range(journal) :
                            f.needs \cap ids # {} => f.mut.cid \in ids
<1>1. Dependents(journal, cids) =
        {x \in all : \A ids \in SUBSET all : cids \subseteq ids /\ closed(ids) => x \in ids}
  BY DEF Dependents
<1>2. ASSUME NEW ids \in SUBSET all, cids \subseteq ids, closed(ids) PROVE e.mut.cid \in ids
  <2>1. n \in ids
    BY <1>1, <1>2
  <2> QED BY <1>2, <2>1
<1>3. e.mut.cid \in all
  OBVIOUS
<1> QED BY <1>1, <1>2, <1>3

LEMMA RejectClosed ==
  ASSUME NEW c, IsBrowser(c), NEW acc, Closed(c.journal, acc), NEW cids
  PROVE  LET d == RejectEntries(c, cids) IN
         /\ IsBrowser(d) /\ Closed(d.journal, acc)
         /\ d.seq = c.seq /\ d.buffered = c.buffered
         /\ d.link = c.link /\ d.paused = c.paused
<1> DEFINE gone == Dependents(c.journal, cids \cap EntryIds(c))
           left == Without(c.journal, gone)
           view == Undone(c.view, Without(c.journal, EntryIds(c) \ gone))
           d == RejectEntries(c, cids)
<1>1. left \in Seq(Range(left)) /\ Range(left) = {e \in Range(c.journal) : e.mut.cid \notin gone}
  BY WithoutIs DEF Closed
<1>2. \A e \in Range(left) : e.needs \cap gone = {}
  BY <1>1, DependentsClosed
<1>3. d = [c EXCEPT !.journal = left, !.view = view]
  BY DEF RejectEntries
<1> HIDE DEF gone, left, view, d
<1>4. Closed(left, acc)
  BY <1>1, <1>2 DEF Closed, Entries
<1>5. /\ d.journal = left /\ d.view = view /\ d.seq = c.seq /\ d.buffered = c.buffered
      /\ d.link = c.link /\ d.paused = c.paused /\ IsBrowser(d)
  BY <1>3 DEF IsBrowser, Browser
<1> QED BY <1>4, <1>5 DEF d

LEMMA AcceptedLeaves ==
  ASSUME NEW journal, NEW acc, Closed(journal, acc), NEW cid \in acc
  PROVE  Closed(Without(journal, {cid}), acc)
<1> DEFINE left == Without(journal, {cid})
<1>1. left \in Seq(Range(left)) /\ Range(left) = {e \in Range(journal) : e.mut.cid \notin {cid}}
  BY WithoutIs DEF Closed
<1> HIDE DEF left
<1> QED BY <1>1 DEF Closed, Entries, left

LEMMA EmptyClosed == ASSUME NEW acc PROVE Closed(<< >>, acc)
BY DEF Closed, Range

LEMMA MoreAccepted ==
  ASSUME NEW journal, NEW acc, NEW more, Closed(journal, acc), acc \subseteq more
  PROVE  Closed(journal, more)
BY DEF Closed

-----------------------------------------------------------------------------
(* The pump, and the batch of a handshake.                                  *)

\* What holds at 0 and is handed on holds up to n.
LEMMA HandedOn ==
  ASSUME NEW n \in Nat, NEW P, 0 \in P, \A k \in 0..n : k # n /\ k \in P => k + 1 \in P
  PROVE  0..n \subseteq P
<1> SUFFICES ASSUME (0..n) \ P # {} PROVE FALSE
  OBVIOUS
<1> DEFINE T == (0..n) \ P
           R == OpToRel(<, Nat)
<1>1. T \in SUBSET Nat /\ T # {}
  OBVIOUS
<1>2. IsWellFoundedOn(R, Nat)
  BY NatLessThanWellFounded
<1>3. \A x, y \in Nat : x < y => << x, y >> \in R
  BY DEF OpToRel
<1> HIDE DEF R, T
<1>4. PICK x \in T : \A y \in T : ~ (<< y, x >> \in R)
  BY <1>1, <1>2, WFMin, Zenon
<1>5. x \in 0..n /\ x \notin P /\ x # 0 /\ x - 1 \in 0..n /\ x - 1 # n /\ x - 1 \in Nat
  BY <1>4 DEF T
<1>6. x - 1 \notin P
  BY <1>5
<1>7. x - 1 \in T
  BY <1>5, <1>6 DEF T
<1>8. x - 1 < x /\ x \in Nat
  BY <1>5
<1> QED BY <1>3, <1>4, <1>5, <1>7, <1>8

\* Where a pump is: what it has made of a client c, and what it has sent.
Pumped(c, acc, r) ==
  /\ r = [client |-> r.client, sent |-> r.sent, broken |-> r.broken]
  /\ r.sent \in Seq(Mine)
  /\ Range(r.sent) \subseteq {w.mut : w \in Range(c.buffered)}
  /\ IsBrowser(r.client) /\ Closed(r.client.journal, acc)
  /\ r.client.seq = c.seq /\ r.client.link = c.link /\ r.client.paused = c.paused
  /\ Len(r.client.buffered) = Len(c.buffered)
  /\ \A k \in 1..Len(c.buffered) :
       LET w == r.client.buffered[k] IN
       /\ w.mut = c.buffered[k].mut
       /\ w.state = "inflight" => c.buffered[k].state = "inflight" \/ w.mut \in Range(r.sent)

LEMMA EmitPumps ==
  ASSUME NEW c, IsBrowser(c), NEW acc, NEW r, Pumped(c, acc, r),
         NEW k \in 1..Len(c.buffered)
  PROVE  Pumped(c, acc, EmitNth(r, k))
<1>0. ASSUME NEW x, IsBrowser(x), Closed(x.journal, acc), NEW m, NEW y
      PROVE  LET t == Track(x, m, y) IN
             /\ IsBrowser(t) /\ Closed(t.journal, acc)
             /\ t.seq = x.seq /\ t.buffered = x.buffered
             /\ t.link = x.link /\ t.paused = x.paused
  BY ONLY <1>0, TrackClosed
<1> DEFINE d == r.client
           w == d.buffered[k]
           plain == [d EXCEPT !.buffered[k].redraw = FALSE]
           shown == [plain EXCEPT !.view = Draw(@, w.mut)]
           back == Rollback(d.view, w.mut)
           drawn == Track(shown, w.mut, back)
           gone(x) == [x EXCEPT !.buffered[k].state = "inflight"]
           sent == Append(r.sent, w.mut)
           n == Len(c.buffered)
<1>1. /\ IsBrowser(d) /\ d.buffered \in Seq(Write) /\ Len(d.buffered) = n /\ n \in Nat
      /\ k \in 1..n /\ w \in Write /\ w.mut \in Mine
  <2>1. IsBrowser(d) /\ Len(d.buffered) = n
    BY DEF Pumped
  <2>2. c.buffered \in Seq(Write) /\ d.buffered \in Seq(Write)
    BY <2>1 DEF IsBrowser, Browser
  <2>3. w \in Write
    BY <2>1, <2>2
  <2> QED BY <2>1, <2>2, <2>3 DEF Write
<1>2. /\ IsBrowser(plain) /\ plain.buffered = [d.buffered EXCEPT ![k] = [w EXCEPT !.redraw = FALSE]]
      /\ plain.journal = d.journal /\ plain.seq = d.seq /\ plain.link = d.link
      /\ plain.paused = d.paused
  <2> DEFINE v == [w EXCEPT !.redraw = FALSE]
             b == [d.buffered EXCEPT ![k] = v]
  <2>1. v \in Write
    BY <1>1 DEF Write
  <2>2. plain = [d EXCEPT !.buffered = b]
    BY <1>1 DEF IsBrowser, Browser
  <2> HIDE DEF v
  <2>3. b \in Seq(Write)
    BY <1>1, <2>1
  <2> HIDE DEF b, plain
  <2>4. /\ IsBrowser(plain) /\ plain.buffered = b
        /\ plain.journal = d.journal /\ plain.seq = d.seq /\ plain.link = d.link
        /\ plain.paused = d.paused
    BY <1>1, <2>2, <2>3 DEF IsBrowser, Browser
  <2> QED BY <2>4 DEF b, v
<1>3. /\ IsBrowser(shown) /\ shown.buffered = plain.buffered
      /\ shown.journal = d.journal /\ shown.seq = d.seq /\ shown.link = d.link
      /\ shown.paused = d.paused
  <2> HIDE DEF plain
  <2> QED BY <1>2 DEF IsBrowser, Browser
<1>4. /\ IsBrowser(drawn) /\ Closed(drawn.journal, acc) /\ drawn.buffered = plain.buffered
      /\ drawn.seq = d.seq /\ drawn.link = d.link /\ drawn.paused = d.paused
  <2> HIDE DEF shown, plain, back
  <2>1. Closed(shown.journal, acc)
    BY <1>3 DEF Pumped
  <2>2. /\ IsBrowser(drawn) /\ Closed(drawn.journal, acc) /\ drawn.buffered = shown.buffered
        /\ drawn.seq = shown.seq /\ drawn.link = shown.link /\ drawn.paused = shown.paused
    BY <1>3, <2>1, <1>0
  <2> QED BY <1>3, <2>2
<1>5. ASSUME NEW x, IsBrowser(x), x.buffered = plain.buffered
      PROVE  /\ IsBrowser(gone(x))
             /\ gone(x).buffered =
                  [d.buffered EXCEPT ![k] = [w EXCEPT !.redraw = FALSE, !.state = "inflight"]]
             /\ gone(x).journal = x.journal /\ gone(x).seq = x.seq
             /\ gone(x).link = x.link /\ gone(x).paused = x.paused
  <2> DEFINE v == [w EXCEPT !.redraw = FALSE]
             u == [w EXCEPT !.redraw = FALSE, !.state = "inflight"]
             b == [d.buffered EXCEPT ![k] = u]
  <2>1. u \in Write /\ u = [v EXCEPT !.state = "inflight"] /\ v \in Write
    BY <1>1 DEF Write
  <2>2. x.buffered = [d.buffered EXCEPT ![k] = v] /\ x.buffered \in Seq(Write)
    BY <1>2, <1>5 DEF IsBrowser, Browser
  <2> HIDE DEF plain, u, v
  <2>3. x.buffered[k] = v /\ k \in DOMAIN x.buffered
    BY <1>1, <2>2
  <2>4. gone(x) = [x EXCEPT !.buffered = [x.buffered EXCEPT ![k] = u]]
    BY <1>5, <2>1, <2>3 DEF IsBrowser, Browser
  <2>5. [x.buffered EXCEPT ![k] = u] = b /\ b \in Seq(Write)
    <3>1. DOMAIN d.buffered = 1..n
      BY <1>1
    <3>2. [x.buffered EXCEPT ![k] = u] = b
      BY <1>1, <2>2, <3>1
    <3>3. b \in Seq(Write)
      BY <1>1, <2>1
    <3> QED BY <3>2, <3>3
  <2> HIDE DEF b
  <2>6. gone(x) = [x EXCEPT !.buffered = b]
    BY <2>4, <2>5
  <2> HIDE DEF gone
  <2>7. /\ IsBrowser(gone(x)) /\ gone(x).buffered = b
        /\ gone(x).journal = x.journal /\ gone(x).seq = x.seq
        /\ gone(x).link = x.link /\ gone(x).paused = x.paused
    BY <1>5, <2>5, <2>6 DEF IsBrowser, Browser
  <2> QED BY <2>7 DEF b, u
<1>6. /\ sent \in Seq(Mine) /\ Range(sent) = Range(r.sent) \cup {w.mut}
      /\ Range(sent) \subseteq {v.mut : v \in Range(c.buffered)}
  <2>1. r.sent \in Seq(Mine)
    BY DEF Pumped
  <2>2. sent \in Seq(Mine)
    BY <1>1, <2>1
  <2>3. Range(sent) = Range(r.sent) \cup {w.mut}
    BY <2>1, Appended
  <2>4. w.mut = c.buffered[k].mut
    BY DEF Pumped
  <2>5. w.mut \in {v.mut : v \in Range(c.buffered)}
    BY <1>1, <2>4 DEF Range, IsBrowser, Browser
  <2>6. Range(r.sent) \subseteq {v.mut : v \in Range(c.buffered)}
    BY DEF Pumped
  <2> QED BY <2>2, <2>3, <2>5, <2>6
<1>7. ASSUME w.redraw, Throws(d.view, w.mut) PROVE Pumped(c, acc, EmitNth(r, k))
  <2> DEFINE e == EmitNth(r, k)
  <2>1. e = [r EXCEPT !.client = plain, !.broken = TRUE]
    BY <1>7 DEF EmitNth
  <2> HIDE DEF e, plain
  <2>2. e = [client |-> plain, sent |-> r.sent, broken |-> TRUE]
    BY <2>1 DEF Pumped
  <2>3. \A i \in 1..n : LET v == plain.buffered[i] IN
          v.mut = d.buffered[i].mut /\ v.state = d.buffered[i].state
    BY <1>1, <1>2 DEF Write
  <2>4. Len(plain.buffered) = n
    BY <1>1, <1>2
  <2>5. e.client = plain /\ e.sent = r.sent /\ e.broken = TRUE
    BY <2>2
  <2>6. e = [client |-> e.client, sent |-> e.sent, broken |-> e.broken]
    BY <2>2, <2>5
  <2>7. /\ r.sent \in Seq(Mine) /\ Range(r.sent) \subseteq {v.mut : v \in Range(c.buffered)}
        /\ Closed(d.journal, acc)
        /\ d.seq = c.seq /\ d.link = c.link /\ d.paused = c.paused
    BY DEF Pumped
  <2>8. \A i \in 1..n : LET v == plain.buffered[i] IN
          /\ v.mut = c.buffered[i].mut
          /\ v.state = "inflight" => c.buffered[i].state = "inflight" \/ v.mut \in Range(r.sent)
    <3> SUFFICES ASSUME NEW i \in 1..n
                 PROVE  LET v == plain.buffered[i] IN
                        /\ v.mut = c.buffered[i].mut
                        /\ v.state = "inflight" =>
                             c.buffered[i].state = "inflight" \/ v.mut \in Range(r.sent)
      OBVIOUS
    <3>1. /\ d.buffered[i].mut = c.buffered[i].mut
          /\ d.buffered[i].state = "inflight" =>
               c.buffered[i].state = "inflight" \/ d.buffered[i].mut \in Range(r.sent)
      BY DEF Pumped
    <3> QED BY <2>3, <3>1
  <2>9. Pumped(c, acc, e)
    BY <1>2, <2>4, <2>5, <2>6, <2>7, <2>8 DEF Pumped
  <2> QED BY <2>9 DEF e
<1>8. ASSUME NEW x, IsBrowser(x), x.buffered = plain.buffered, Closed(x.journal, acc),
             x.seq = d.seq, x.link = d.link, x.paused = d.paused,
             EmitNth(r, k) = [r EXCEPT !.client = gone(x), !.sent = sent]
      PROVE  Pumped(c, acc, EmitNth(r, k))
  <2> DEFINE e == EmitNth(r, k)
             y == gone(x)
  <2> HIDE DEF y, sent
  <2>1. e = [client |-> y, sent |-> sent, broken |-> r.broken]
    BY <1>8 DEF Pumped, y
  <2>2. /\ IsBrowser(y) /\ y.journal = x.journal /\ y.seq = x.seq
        /\ y.link = x.link /\ y.paused = x.paused
        /\ y.buffered =
             [d.buffered EXCEPT ![k] = [w EXCEPT !.redraw = FALSE, !.state = "inflight"]]
    BY <1>5, <1>8 DEF y
  <2>3. \A i \in 1..n : LET v == y.buffered[i] IN
          v.mut = d.buffered[i].mut /\ (i # k => v.state = d.buffered[i].state)
    BY <1>1, <2>2 DEF Write
  <2>4. Len(y.buffered) = n
    BY <1>1, <2>2
  <2> HIDE DEF e
  <2>5. e.client = y /\ e.sent = sent /\ e.broken = r.broken
    BY <2>1
  <2>6. d.buffered[k].mut \in Range(sent) /\ Range(r.sent) \subseteq Range(sent)
    BY <1>6
  <2>7. \A i \in 1..n : LET v == y.buffered[i] IN
          /\ v.mut = c.buffered[i].mut
          /\ v.state = "inflight" => c.buffered[i].state = "inflight" \/ v.mut \in Range(sent)
    <3> SUFFICES ASSUME NEW i \in 1..n
                 PROVE  LET v == y.buffered[i] IN
                        /\ v.mut = c.buffered[i].mut
                        /\ v.state = "inflight" =>
                             c.buffered[i].state = "inflight" \/ v.mut \in Range(sent)
      OBVIOUS
    <3>1. /\ d.buffered[i].mut = c.buffered[i].mut
          /\ d.buffered[i].state = "inflight" =>
               c.buffered[i].state = "inflight" \/ d.buffered[i].mut \in Range(r.sent)
      BY DEF Pumped
    <3> QED BY <2>3, <2>6, <3>1
  <2>8. d.seq = c.seq /\ d.link = c.link /\ d.paused = c.paused
    BY DEF Pumped
  <2> QED BY <1>6, <1>8, <2>1, <2>2, <2>4, <2>5, <2>7, <2>8 DEF Pumped, e
<1>9. CASE w.redraw /\ Throws(d.view, w.mut)
  BY <1>7, <1>9
<1>10. CASE w.redraw /\ ~Throws(d.view, w.mut)
  <2>1. EmitNth(r, k) = [r EXCEPT !.client = gone(drawn), !.sent = sent]
    BY <1>10 DEF EmitNth
  <2> HIDE DEF drawn, gone, sent, plain, w
  <2> QED BY <1>4, <1>8, <2>1
<1>11. CASE ~w.redraw
  <2>1. EmitNth(r, k) = [r EXCEPT !.client = gone(plain), !.sent = sent]
    BY <1>11 DEF EmitNth
  <2>2. Closed(plain.journal, acc)
    BY <1>2 DEF Pumped
  <2> HIDE DEF gone, sent, plain, w
  <2> QED BY <1>2, <1>8, <2>1, <2>2
<1> QED BY <1>9, <1>10, <1>11

LEMMA PumpIs ==
  ASSUME NEW c, IsBrowser(c), NEW acc, Closed(c.journal, acc), NEW upto \in 0..Len(c.buffered)
  PROVE  Pumped(c, acc, Pump(c, upto))
<1> DEFINE Start == [client |-> c, sent |-> << >>, broken |-> FALSE]
           Step(r, k) == IF r.broken \/ c.buffered[k].state # "queued" THEN r ELSE EmitNth(r, k)
           Is(f, n) == f = [k \in 0..n |-> IF k = 0 THEN Start ELSE Step(f[k - 1], k)]
           run == CHOOSE f : Is(f, upto)
           L == Len(c.buffered)
<1>1. upto \in Nat /\ L \in Nat /\ upto <= L
  BY DEF IsBrowser, Browser
<1>2. Pump(c, upto) = run[upto]
  BY DEF Pump
<1>3. Pumped(c, acc, Start)
  <2>1. /\ Start.client = c /\ Start.sent = << >> /\ Start.broken = FALSE
        /\ Range(<< >>) = {}
    BY DEF Range
  <2> HIDE DEF Start
  <2> QED BY <2>1 DEF Pumped, Start
<1>4. ASSUME NEW r, NEW k \in 1..L, Pumped(c, acc, r) PROVE Pumped(c, acc, Step(r, k))
  BY ONLY <1>4, EmitPumps, IsBrowser(c)
<1> HIDE DEF Start, Step
<1>5. \E f : Is(f, upto)
  <2> DEFINE P == {n \in 0..upto : \E f : Is(f, n)}
  <2>1. 0 \in P
    <3> DEFINE f == [k \in 0..0 |-> Start]
    <3>1. Is(f, 0)
      OBVIOUS
    <3> HIDE DEF f, Is
    <3> QED BY <1>1, <3>1
  <2>2. ASSUME NEW n \in 0..upto, n # upto, n \in P PROVE n + 1 \in P
    <3>1. PICK f : Is(f, n)
      BY <2>2
    <3> DEFINE g == [k \in 0..(n + 1) |-> IF k = n + 1 THEN Step(f[n], n + 1) ELSE f[k]]
    <3>2. /\ n \in Nat /\ n + 1 \in 0..upto
          /\ \A k \in 0..n : k \in 0..(n + 1) /\ k # n + 1
          /\ \A k \in 0..(n + 1) : k # 0 /\ k # n + 1 => k \in 0..n /\ k - 1 \in 0..n /\ k \in Int
      BY <1>1, <2>2
    <3>3. g[0] = Start /\ g[n + 1] = Step(g[n], n + 1)
      BY <3>1, <3>2
    <3>4. ASSUME NEW k \in 0..(n + 1), k # 0, k # n + 1 PROVE g[k] = Step(g[k - 1], k)
      BY <3>1, <3>2, <3>4
    <3>5. ASSUME NEW k \in 0..(n + 1)
          PROVE  g[k] = IF k = 0 THEN Start ELSE Step(g[k - 1], k)
      <4>1. CASE k = 0
        BY <3>3, <4>1
      <4>2. CASE k = n + 1
        <5>1. k - 1 = n /\ k # 0
          BY <3>2, <4>2
        <5> HIDE DEF g
        <5> QED BY <3>3, <4>2, <5>1
      <4>3. CASE k # 0 /\ k # n + 1
        BY <3>4, <4>3
      <4> QED BY <4>1, <4>2, <4>3
    <3>6. g = [k \in 0..(n + 1) |-> g[k]]
      OBVIOUS
    <3> HIDE DEF g
    <3>7. Is(g, n + 1)
      BY <3>5, <3>6
    <3> HIDE DEF Is
    <3> QED BY <3>2, <3>7
  <2>3. 0..upto \subseteq P
    <3> HIDE DEF P
    <3> QED BY <1>1, <2>1, <2>2, HandedOn
  <2>4. upto \in P
    BY <1>1, <2>3
  <2> QED BY <2>4
<1>6. Is(run, upto)
  <2> HIDE DEF Is
  <2> QED BY <1>5
<1> HIDE DEF run
<1>7. run[0] = Start /\ \A k \in 0..upto : k # 0 => run[k] = Step(run[k - 1], k)
  BY <1>1, <1>6
<1> DEFINE Q == {k \in 0..upto : Pumped(c, acc, run[k])}
<1>8. 0 \in Q
  BY <1>1, <1>3, <1>7
<1>9. ASSUME NEW k \in 0..upto, k # upto, k \in Q PROVE k + 1 \in Q
  <2>1. k + 1 \in 0..upto /\ k + 1 # 0 /\ (k + 1) - 1 = k /\ k + 1 \in 1..L
    BY <1>1, <1>9
  <2>2. run[k + 1] = Step(run[k], k + 1)
    BY <1>7, <2>1
  <2>3. Pumped(c, acc, Step(run[k], k + 1))
    BY <1>4, <1>9, <2>1
  <2> QED BY <2>1, <2>2, <2>3
<1>10. 0..upto \subseteq Q
  <2> HIDE DEF Q
  <2> QED BY <1>1, <1>8, <1>9, HandedOn
<1>11. upto \in Q
  BY <1>1, <1>10
<1> QED BY <1>2, <1>11

-----------------------------------------------------------------------------
(* What becomes of a browser, but for its journal and what it shows.        *)

\* d holds some of the writes of c, and is as connected.
Shrunk(c, d, left) ==
  /\ IsBrowser(d) /\ d.link = c.link /\ d.paused = c.paused
  /\ Range(d.buffered) \subseteq {w \in Range(c.buffered) : w.mut.cid \notin left}

LEMMA ChosenWrites ==
  ASSUME NEW c, IsBrowser(c), NEW places \in SUBSET (DOMAIN c.buffered),
         NEW b, b = Chosen(c.buffered, places)
  PROVE  b \in Seq(Write) /\ Range(b) = {c.buffered[p] : p \in places}
<1>1. c.buffered \in Seq(Write)
  BY DEF IsBrowser, Browser
<1> QED BY <1>1, ChosenIs

LEMMA ResolveIs ==
  ASSUME NEW c, IsBrowser(c), NEW cid
  PROVE  LET d == ResolveBuffered(c, cid) IN
         Shrunk(c, d, {cid}) /\ d.seq = c.seq /\ d.journal = c.journal
<1> DEFINE places == {k \in DOMAIN c.buffered : c.buffered[k].mut.cid # cid}
           d == ResolveBuffered(c, cid)
<1>1. d = [c EXCEPT !.buffered = Chosen(c.buffered, places)]
  BY DEF ResolveBuffered
<1>2. /\ IsBrowser(d) /\ d.seq = c.seq /\ d.journal = c.journal
      /\ d.link = c.link /\ d.paused = c.paused
      /\ Range(d.buffered) = {c.buffered[p] : p \in places}
  <2> HIDE DEF d
  <2>1. places \in SUBSET (DOMAIN c.buffered)
    OBVIOUS
  <2> HIDE DEF places
  <2>2. PICK b : b = Chosen(c.buffered, places)
    OBVIOUS
  <2>3. b \in Seq(Write) /\ Range(b) = {c.buffered[p] : p \in places}
    BY ONLY <2>1, <2>2, IsBrowser(c), ChosenWrites
  <2>4. d = [c EXCEPT !.buffered = b]
    BY ONLY <1>1, <2>2
  <2>5. /\ IsBrowser(d) /\ d.seq = c.seq /\ d.journal = c.journal
        /\ d.link = c.link /\ d.paused = c.paused /\ d.buffered = b
    BY ONLY <2>3, <2>4, IsBrowser(c) DEF IsBrowser, Browser
  <2> QED BY ONLY <2>3, <2>5
<1> HIDE DEF d
<1>3. {c.buffered[p] : p \in places} \subseteq {w \in Range(c.buffered) : w.mut.cid \notin {cid}}
  BY DEF Range
<1> HIDE DEF places
<1> QED BY <1>2, <1>3 DEF Shrunk, d

LEMMA PruneIs ==
  ASSUME NEW c, IsBrowser(c), NEW m
  PROVE  LET d == PruneBuffered(c, m) IN
         Shrunk(c, d, {}) /\ d.seq = c.seq /\ d.journal = c.journal
<1> DEFINE d == PruneBuffered(c, m)
<1>1. CASE m.op = "clear"
  <2>1. d = [c EXCEPT !.buffered = << >>]
    BY <1>1 DEF PruneBuffered
  <2>2. Range(<< >>) = {} /\ << >> \in Seq(Write)
    BY DEF Range
  <2> HIDE DEF d
  <2>3. /\ IsBrowser(d) /\ d.seq = c.seq /\ d.journal = c.journal
        /\ d.link = c.link /\ d.paused = c.paused /\ d.buffered = << >>
    BY <2>1, <2>2 DEF IsBrowser, Browser
  <2> QED BY <2>2, <2>3 DEF Shrunk, d
<1>2. CASE m.op = "delete"
  <2> DEFINE places == {k \in DOMAIN c.buffered :
                          m.id \notin Affected(c.buffered[k].mut) \cup RestsOn(c.buffered[k].mut)}
  <2>1. d = [c EXCEPT !.buffered = Chosen(c.buffered, places)]
    BY <1>2 DEF PruneBuffered
  <2>2. {c.buffered[p] : p \in places} \subseteq Range(c.buffered)
        /\ places \in SUBSET (DOMAIN c.buffered)
    BY DEF Range
  <2> HIDE DEF d, places
  <2>3. /\ IsBrowser(d) /\ d.seq = c.seq /\ d.journal = c.journal
        /\ d.link = c.link /\ d.paused = c.paused
        /\ Range(d.buffered) = {c.buffered[p] : p \in places}
    <3>1. PICK b : b = Chosen(c.buffered, places)
      OBVIOUS
    <3>2. b \in Seq(Write) /\ Range(b) = {c.buffered[p] : p \in places}
      BY ONLY <2>2, <3>1, IsBrowser(c), ChosenWrites
    <3>3. d = [c EXCEPT !.buffered = b]
      BY ONLY <2>1, <3>1
    <3>4. /\ IsBrowser(d) /\ d.seq = c.seq /\ d.journal = c.journal
          /\ d.link = c.link /\ d.paused = c.paused /\ d.buffered = b
      BY ONLY <3>2, <3>3, IsBrowser(c) DEF IsBrowser, Browser
    <3> QED BY ONLY <3>2, <3>4
  <2> QED BY <2>2, <2>3 DEF Shrunk, d
<1>3. CASE m.op \notin {"clear", "delete"}
  <2>1. d = c
    BY <1>3 DEF PruneBuffered
  <2> QED BY <2>1 DEF Shrunk
<1> QED BY <1>1, <1>2, <1>3

LEMMA HandleIs ==
  ASSUME NEW c, IsBrowser(c), NEW m
  PROVE  LET d == HandleMessage(c, m) IN
         /\ Shrunk(c, d, {m.cid}) /\ d.seq \in {c.seq, c.seq + 1} /\ d.journal = c.journal
<1> DEFINE one == ResolveBuffered(c, m.cid)
           two == PruneBuffered(one, m)
           d == HandleMessage(c, m)
<1>1. Shrunk(c, one, {m.cid}) /\ one.seq = c.seq /\ one.journal = c.journal
  BY ResolveIs
<1> HIDE DEF one
<1>2. Shrunk(one, two, {}) /\ two.seq = one.seq /\ two.journal = one.journal
  BY ONLY <1>1, PruneIs DEF Shrunk
<1> HIDE DEF two
<1>3. Shrunk(c, two, {m.cid})
  BY <1>1, <1>2 DEF Shrunk
<1> DEFINE next == two.seq + 1
<1>4. d = two \/ \E v : d = [two EXCEPT !.view = v, !.seq = next]
  BY DEF HandleMessage, one, two
<1>0. next \in Nat /\ next = c.seq + 1
  BY <1>1, <1>2 DEF Shrunk, IsBrowser, Browser
<1> HIDE DEF d, next
<1>5. CASE d = two
  BY <1>1, <1>2, <1>3, <1>5 DEF d
<1>6. ASSUME NEW v, d = [two EXCEPT !.view = v, !.seq = next]
      PROVE  Shrunk(c, d, {m.cid}) /\ d.seq = c.seq + 1 /\ d.journal = c.journal
  <2>1. IsBrowser(two)
    BY <1>3 DEF Shrunk
  <2>2. /\ IsBrowser(d) /\ d.seq = next /\ d.journal = two.journal
        /\ d.link = two.link /\ d.paused = two.paused /\ d.buffered = two.buffered
    BY <1>0, <1>6, <2>1 DEF IsBrowser, Browser
  <2> QED BY <1>0, <1>1, <1>2, <1>3, <2>2 DEF Shrunk
<1> QED BY <1>4, <1>5, <1>6 DEF d

LEMMA ReplayedIs ==
  ASSUME NEW c, IsBrowser(c), NEW muts, Len(muts) \in Nat
  PROVE  LET d == Replayed(c, muts) IN
         /\ Shrunk(c, d, {}) /\ d.journal = c.journal /\ d.seq <= c.seq + Len(muts)
<1> DEFINE N == Len(muts)
           Is(f, n) == f = [k \in 0..n |-> IF k = 0 THEN c ELSE HandleMessage(f[k - 1], muts[k])]
           replay == CHOOSE f : Is(f, N)
           OK(k, d) == Shrunk(c, d, {}) /\ d.journal = c.journal /\ d.seq <= c.seq + k
<1>1. Replayed(c, muts) = replay[N]
  BY DEF Replayed
<1>2. OK(0, c)
  BY DEF Shrunk, IsBrowser, Browser
<1>3. ASSUME NEW d, NEW k \in Nat, NEW m, OK(k, d) PROVE OK(k + 1, HandleMessage(d, m))
  <2> DEFINE e == HandleMessage(d, m)
  <2>1. IsBrowser(d)
    BY <1>3 DEF Shrunk
  <2>2. Shrunk(d, e, {m.cid}) /\ e.seq \in {d.seq, d.seq + 1} /\ e.journal = d.journal
    BY ONLY <2>1, HandleIs
  <2> HIDE DEF e
  <2>3. Shrunk(c, e, {})
    BY <1>3, <2>2 DEF Shrunk
  <2>4. d.seq \in Nat /\ c.seq \in Nat
    BY <2>1 DEF IsBrowser, Browser
  <2>5. e.seq <= c.seq + (k + 1) /\ e.journal = c.journal
    BY <1>3, <2>2, <2>4
  <2> QED BY <2>3, <2>5 DEF e
<1>4. \E f : Is(f, N)
  <2> DEFINE P == {n \in 0..N : \E f : Is(f, n)}
  <2>1. 0 \in P
    <3> DEFINE f == [k \in 0..0 |-> c]
    <3>1. Is(f, 0)
      OBVIOUS
    <3> HIDE DEF f, Is
    <3> QED BY <3>1
  <2>2. ASSUME NEW n \in 0..N, n # N, n \in P PROVE n + 1 \in P
    <3>1. PICK f : Is(f, n)
      BY <2>2
    <3> DEFINE g == [k \in 0..(n + 1) |->
                       IF k = n + 1 THEN HandleMessage(f[n], muts[n + 1]) ELSE f[k]]
    <3>2. /\ n \in Nat /\ n + 1 \in 0..N
          /\ \A k \in 0..n : k \in 0..(n + 1) /\ k # n + 1
          /\ \A k \in 0..(n + 1) : k # 0 /\ k # n + 1 => k \in 0..n /\ k - 1 \in 0..n /\ k \in Int
      BY <2>2
    <3>3. g[0] = c /\ g[n + 1] = HandleMessage(g[n], muts[n + 1])
      BY <3>1, <3>2
    <3>4. ASSUME NEW k \in 0..(n + 1), k # 0, k # n + 1
          PROVE  g[k] = HandleMessage(g[k - 1], muts[k])
      BY <3>1, <3>2, <3>4
    <3>5. ASSUME NEW k \in 0..(n + 1)
          PROVE  g[k] = IF k = 0 THEN c ELSE HandleMessage(g[k - 1], muts[k])
      <4>1. CASE k = 0
        BY <3>3, <4>1
      <4>2. CASE k = n + 1
        <5>1. k - 1 = n /\ k # 0
          BY <3>2, <4>2
        <5> HIDE DEF g
        <5> QED BY <3>3, <4>2, <5>1
      <4>3. CASE k # 0 /\ k # n + 1
        BY <3>4, <4>3
      <4> QED BY <4>1, <4>2, <4>3
    <3>6. g = [k \in 0..(n + 1) |-> g[k]]
      OBVIOUS
    <3> HIDE DEF g
    <3>7. Is(g, n + 1)
      BY <3>5, <3>6
    <3> HIDE DEF Is
    <3> QED BY <3>2, <3>7
  <2>3. 0..N \subseteq P
    <3> HIDE DEF P
    <3> QED BY <2>1, <2>2, HandedOn
  <2>4. N \in P
    BY <2>3
  <2> QED BY <2>4
<1>5. Is(replay, N)
  <2> HIDE DEF Is
  <2> QED BY <1>4
<1> HIDE DEF replay
<1>6. replay[0] = c /\ \A k \in 0..N : k # 0 => replay[k] = HandleMessage(replay[k - 1], muts[k])
  BY <1>5
<1> DEFINE Q == {k \in 0..N : OK(k, replay[k])}
<1> HIDE DEF OK
<1>7. 0 \in Q
  BY <1>2, <1>6
<1>8. ASSUME NEW k \in 0..N, k # N, k \in Q PROVE k + 1 \in Q
  <2>1. k \in Nat /\ k + 1 \in 0..N /\ k + 1 # 0 /\ (k + 1) - 1 = k
    BY <1>8
  <2>2. replay[k + 1] = HandleMessage(replay[k], muts[k + 1])
    BY <1>6, <2>1
  <2>3. OK(k + 1, HandleMessage(replay[k], muts[k + 1]))
    BY <1>3, <1>8, <2>1
  <2> QED BY <2>1, <2>2, <2>3
<1>9. 0..N \subseteq Q
  <2> HIDE DEF Q
  <2> QED BY <1>7, <1>8, HandedOn
<1>10. OK(N, replay[N])
  BY <1>9
<1> QED BY <1>1, <1>10 DEF OK

\* What a message of the others takes from the journal.
LEMMA AuthoritativeIs ==
  ASSUME NEW c, IsBrowser(c), NEW acc, Closed(c.journal, acc), NEW m
  PROVE  LET d == PruneForAuthoritative(c, m) IN
         /\ Shrunk(c, d, {}) /\ d.seq = c.seq /\ Closed(d.journal, acc)
<1> DEFINE d == PruneForAuthoritative(c, m)
<1>1. CASE m.op = "clear"
  <2> DEFINE e == RejectEntries(c, EntryIds(c))
  <2>1. /\ IsBrowser(e) /\ e.seq = c.seq /\ e.buffered = c.buffered
        /\ e.link = c.link /\ e.paused = c.paused
    BY RejectClosed
  <2>2. d = [e EXCEPT !.journal = << >>]
    BY <1>1 DEF PruneForAuthoritative
  <2> HIDE DEF d, e
  <2>3. /\ IsBrowser(d) /\ d.seq = e.seq /\ d.buffered = e.buffered
        /\ d.link = e.link /\ d.paused = e.paused /\ d.journal = << >>
    BY <2>1, <2>2 DEF IsBrowser, Browser
  <2> QED BY <2>1, <2>3, EmptyClosed DEF Shrunk, d
<1>2. CASE m.op = "delete"
  <2>1. d = RejectEntries(c, InvalidatedBy(c, m.id))
    BY <1>2 DEF PruneForAuthoritative
  <2> HIDE DEF d
  <2>2. /\ IsBrowser(d) /\ d.seq = c.seq /\ d.buffered = c.buffered
        /\ d.link = c.link /\ d.paused = c.paused /\ Closed(d.journal, acc)
    BY <2>1, RejectClosed
  <2> QED BY <2>2 DEF Shrunk, d
<1>3. CASE m.op \notin {"clear", "delete"}
  <2>1. d = c
    BY <1>3 DEF PruneForAuthoritative
  <2> QED BY <2>1 DEF Shrunk
<1> QED BY <1>1, <1>2, <1>3

LEMMA ConfirmIs ==
  ASSUME NEW c, IsBrowser(c), NEW acc, Closed(c.journal, acc), NEW cid \in acc
  PROVE  LET d == ConfirmOwn(c, cid) IN
         /\ Shrunk(c, d, {cid}) /\ d.seq = c.seq + 1 /\ Closed(d.journal, acc)
<1> DEFINE e == ResolveBuffered(c, cid)
           left == Without(c.journal, {cid})
           d == ConfirmOwn(c, cid)
<1>1. Shrunk(c, e, {cid}) /\ e.seq = c.seq /\ e.journal = c.journal
  BY ResolveIs
<1>2. d = [e EXCEPT !.journal = Without(e.journal, {cid}), !.seq = e.seq + 1]
  BY DEF ConfirmOwn
<1>3. Closed(left, acc)
  BY AcceptedLeaves
<1> DEFINE next == e.seq + 1
<1> HIDE DEF e, left, d
<1>4. d = [e EXCEPT !.journal = left, !.seq = next]
  BY <1>1, <1>2 DEF left
<1>0. next \in Nat /\ next = c.seq + 1
  BY <1>1 DEF Shrunk, IsBrowser, Browser
<1> HIDE DEF next
<1>5. /\ IsBrowser(d) /\ d.seq = next /\ d.buffered = e.buffered
      /\ d.link = e.link /\ d.paused = e.paused /\ d.journal = left
  <2>1. IsBrowser(e)
    BY <1>1 DEF Shrunk
  <2> QED BY <1>0, <1>4, <2>1 DEF IsBrowser, Browser
<1>6. Shrunk(c, d, {cid})
  BY <1>1, <1>5 DEF Shrunk
<1> QED BY <1>0, <1>3, <1>5, <1>6 DEF d

LEMMA ResyncIs ==
  ASSUME NEW c, IsBrowser(c), NEW preserve \in BOOLEAN
  PROVE  LET d == Resync(c, preserve) IN
         /\ IsBrowser(d) /\ d.link = "down" /\ d.paused = c.paused /\ d.seq = c.seq
         /\ d.journal = << >> /\ d.buffered = (IF preserve THEN c.buffered ELSE << >>)
<1> DEFINE b == IF preserve THEN c.buffered ELSE << >>
           d == Resync(c, preserve)
<1>1. d = [c EXCEPT !.link = "down", !.journal = << >>, !.buffered = b]
  BY DEF Resync
<1>2. b \in Seq(Write)
  BY DEF IsBrowser, Browser
<1> HIDE DEF b, d
<1>3. /\ IsBrowser(d) /\ d.link = "down" /\ d.paused = c.paused /\ d.seq = c.seq
      /\ d.journal = << >> /\ d.buffered = b
  BY <1>1, <1>2 DEF IsBrowser, Browser
<1> QED BY <1>3 DEF b, d

-----------------------------------------------------------------------------
(* The steps of the server.                                                 *)

LEMMA InvInit == Init => Inv
<1> SUFFICES ASSUME Init PROVE Inv
  OBVIOUS
<1> DEFINE v == Board(Len(Drawn))
<1>1. log = Drawn /\ Drawn \in Seq(Mutations) /\ Len(Drawn) \in Nat
  BY IdsAssumption DEF Init, Mutations
<1>2. me = [view |-> v, seq |-> Len(Drawn), journal |-> << >>,
            buffered |-> << >>, link |-> "live", paused |-> FALSE]
  BY DEF Init
<1> HIDE DEF v
<1>3. /\ me.seq = Len(Drawn) /\ me.journal = << >> /\ me.buffered = << >>
      /\ me.link = "live" /\ IsBrowser(me)
  BY <1>1, <1>2 DEF IsBrowser, Browser
<1>4. queue = << >> /\ frames = << >> /\ open = TRUE /\ used = [mine |-> {}, faults |-> 0]
  BY DEF Init
<1>5. Types
  BY <1>1, <1>3, <1>4 DEF Types
<1>6. Mail
  BY <1>3, <1>4 DEF Mail
<1>7. Owned
  <2>1. \A n \in 1..Len(log) : log[n] \in Range(Drawn)
    BY <1>1 DEF Range
  <2> QED BY <1>4, <2>1 DEF Owned
<1>8. Writes
  BY <1>3 DEF Writes, WritesOf, Range
<1>9. Closed(me.journal, Acc)
  BY <1>3, EmptyClosed
<1> QED BY <1>5, <1>6, <1>7, <1>8, <1>9 DEF Inv

\* The log only grows.
Grows == /\ log' \in Seq(Mutations) /\ Len(log) <= Len(log')
         /\ \A n \in 1..Len(log) : log'[n] = log[n]

LEMMA GrowsAppended ==
  ASSUME Types, NEW m \in Mutations, log' = Append(log, m)
  PROVE  Grows /\ Len(log') = Len(log) + 1 /\ log'[Len(log')] = m
<1>1. log \in Seq(Mutations)
  BY DEF Types
<1> QED BY <1>1 DEF Grows

LEMMA AccGrows ==
  ASSUME Types, Grows, Closed(me.journal, Acc), UNCHANGED me
  PROVE  Closed(me.journal, Acc)'
<1>1. log \in Seq(Mutations) /\ log' \in Seq(Mutations)
  BY DEF Types, Grows
<1>2. Acc \subseteq Acc'
  <2> SUFFICES ASSUME NEW n \in 1..Len(log) PROVE log[n].cid \in Acc'
    BY DEF Acc
  <2>1. n \in 1..Len(log') /\ log'[n] = log[n]
    BY <1>1 DEF Grows
  <2> QED BY <2>1 DEF Acc
<1> QED BY <1>2, MoreAccepted

\* What the server sends joins what is under way, unless the connection is gone.
LEMMA Mailed ==
  ASSUME Types, Mail, Grows, NEW f \in Frame, f.kind \in {"mutation", "rejected"},
         f.kind = "mutation" => f.seq \in 1..Len(log') /\ log'[f.seq].cid = f.mut.cid,
         ToBrowser(f), UNCHANGED << me, open >>
  PROVE  /\ Mail' /\ frames' \in Seq(Frame)
         /\ \A i \in 1..Len(frames) : i \in 1..Len(frames') /\ frames'[i] = frames[i]
         /\ open => Len(frames') \in 1..Len(frames') /\ frames'[Len(frames')] = f
<1>1. frames \in Seq(Frame) /\ log \in Seq(Mutations) /\ log' \in Seq(Mutations) /\ open \in BOOLEAN
  BY DEF Types, Grows
<1>2. CASE ~open
  <2>1. frames' = frames
    BY <1>2 DEF ToBrowser
  <2>2. ASSUME NEW i \in 1..Len(frames), frames[i].kind = "mutation"
        PROVE  frames[i].seq \in 1..Len(log') /\ log'[frames[i].seq].cid = frames[i].mut.cid
    <3>1. frames[i].seq \in 1..Len(log) /\ log[frames[i].seq].cid = frames[i].mut.cid
      BY <2>2 DEF Mail
    <3> QED BY <1>1, <3>1 DEF Grows
  <2>3. ASSUME NEW i \in 1..Len(frames), frames[i].kind = "batch"
        PROVE  i = 1 /\ me.link = "replaying" /\ me.seq + Len(frames[i].muts) <= Len(log')
    <3>1. frames[i] \in Frame
      BY <1>1
    <3>2. Len(frames[i].muts) \in Nat
      BY <2>3, <3>1 DEF Frame
    <3>3. i = 1 /\ me.link = "replaying" /\ me.seq + Len(frames[i].muts) <= Len(log)
      BY <2>3 DEF Mail
    <3>4. me.seq \in Nat
      BY DEF Types, IsBrowser, Browser
    <3> QED BY <1>1, <3>2, <3>3, <3>4 DEF Grows
  <2>4. Mail'
    BY <2>1, <2>2, <2>3 DEF Mail
  <2> QED BY <1>1, <1>2, <2>1, <2>4
<1>3. CASE open
  <2>1. frames' = Append(frames, f)
    BY <1>3 DEF ToBrowser
  <2>2. /\ frames' \in Seq(Frame) /\ Len(frames') = Len(frames) + 1
        /\ \A i \in 1..Len(frames) : frames'[i] = frames[i]
        /\ frames'[Len(frames')] = f
    BY <1>1, <2>1
  <2>3. me.link \notin {"down", "fetched"}
    BY <1>3 DEF Mail
  <2>4. \A i \in 1..Len(frames') : i \in 1..Len(frames) \/ i = Len(frames')
    BY <1>1, <2>2
  <2>5. ASSUME NEW i \in 1..Len(frames'), frames'[i].kind = "mutation"
        PROVE  frames'[i].seq \in 1..Len(log') /\ log'[frames'[i].seq].cid = frames'[i].mut.cid
    <3>1. CASE i \in 1..Len(frames)
      <4>1. frames'[i] = frames[i]
        BY <2>2, <3>1
      <4>2. frames[i].seq \in 1..Len(log) /\ log[frames[i].seq].cid = frames[i].mut.cid
        BY <2>5, <3>1, <4>1 DEF Mail
      <4> QED BY <1>1, <4>1, <4>2 DEF Grows
    <3>2. CASE i = Len(frames')
      BY <2>2, <2>5, <3>2
    <3> QED BY <2>4, <3>1, <3>2
  <2>6. ASSUME NEW i \in 1..Len(frames'), frames'[i].kind = "batch"
        PROVE  i = 1 /\ me.link = "replaying" /\ me.seq + Len(frames'[i].muts) <= Len(log')
    <3>1. i \in 1..Len(frames) /\ frames'[i] = frames[i]
      BY <2>2, <2>4, <2>6
    <3>2. Len(frames[i].muts) \in Nat
      <4>1. frames[i] \in Frame
        BY <1>1, <3>1
      <4> QED BY <2>6, <3>1, <4>1 DEF Frame
    <3>3. i = 1 /\ me.link = "replaying" /\ me.seq + Len(frames[i].muts) <= Len(log)
      BY <2>6, <3>1 DEF Mail
    <3>4. me.seq \in Nat
      BY DEF Types, IsBrowser, Browser
    <3> QED BY <1>1, <3>1, <3>2, <3>3, <3>4 DEF Grows
  <2>7. ASSUME NEW i \in 1..Len(frames'), frames'[i].kind = "closed" PROVE FALSE
    <3>1. i \in 1..Len(frames) /\ frames'[i] = frames[i]
      BY <2>2, <2>4, <2>7
    <3> QED BY <1>3, <2>7, <3>1 DEF Mail
  <2>8. Mail'
    BY <1>3, <2>3, <2>5, <2>6, <2>7 DEF Mail
  <2> QED BY <1>1, <2>2, <2>8
<1> QED BY <1>2, <1>3, Zenon

\* A browser whose writes stay under way still waits for each of them.
LEMMA StillWaits ==
  ASSUME Types, Writes, UNCHANGED << me, deferred >>, used'.mine = used.mine,
         Grows, open' => open,
         open' => \A cid : UnderWay(cid) => UnderWay(cid)'
  PROVE  Writes'
<1>1. me.seq \in Nat /\ me.seq <= Len(log) /\ log \in Seq(Mutations)
  BY DEF Types, IsBrowser, Browser
<1>2. \A n \in 1..me.seq : log'[n] = log[n]
  BY <1>1 DEF Grows
<1>3. ASSUME NEW w, Fresh(me, w) PROVE Fresh(me, w)'
  BY <1>2, <1>3 DEF Fresh
<1> QED BY <1>3 DEF Writes, WritesOf

\* The head of the queue is dealt with, and nothing else of it changes.
LEMMA Served ==
  ASSUME Types, queue # << >>, queue' = Tail(queue)
  PROVE  /\ Head(queue) \in Sent /\ Head(queue) = queue[1] /\ 1 \in 1..Len(queue)
         /\ queue' \in Seq(Sent)
         /\ \A i \in 1..Len(queue') : \E j \in 1..Len(queue) : queue'[i] = queue[j]
         /\ \A i \in 1..Len(queue) : i = 1 \/ \E j \in 1..Len(queue') : queue'[j] = queue[i]
<1>1. queue \in Seq(Sent)
  BY DEF Types
<1>2. /\ Head(queue) = queue[1] /\ 1 \in 1..Len(queue) /\ queue[1] \in Sent
      /\ queue' \in Seq(Sent) /\ Len(queue') = Len(queue) - 1
      /\ \A i \in 1..Len(queue') : queue'[i] = queue[i + 1]
  BY <1>1
<1>3. \A i \in 1..Len(queue') : i + 1 \in 1..Len(queue)
  BY <1>1, <1>2
<1>4. \A i \in 1..Len(queue) : i = 1 \/ (i - 1 \in 1..Len(queue') /\ queue'[i - 1] = queue[i])
  BY <1>1, <1>2
<1> QED BY <1>2, <1>3, <1>4

LEMMA AcceptKeeps ==
  ASSUME Inv, Accept
  PROVE  Inv'
<1> DEFINE m == Head(queue).mut
           mine == Head(queue).here
<1>1. /\ queue # << >> /\ queue' = Tail(queue)
      /\ UNCHANGED << me, open, used, crossed, deferred >>
  BY DEF Accept
<1>2. Types /\ Mail /\ Owned /\ Writes /\ Closed(me.journal, Acc)
  BY DEF Inv
<1>3. /\ Head(queue) \in Sent /\ Head(queue) = queue[1] /\ 1 \in 1..Len(queue)
      /\ queue' \in Seq(Sent)
      /\ \A i \in 1..Len(queue') : \E j \in 1..Len(queue) : queue'[i] = queue[j]
      /\ \A i \in 1..Len(queue) : i = 1 \/ \E j \in 1..Len(queue') : queue'[j] = queue[i]
  BY <1>1, <1>2, Served
<1>4. m \in Mine /\ m \in Mutations /\ mine \in BOOLEAN /\ m.cid \in used.mine
  <2>1. queue[1].mut.cid \in used.mine
    BY <1>2, <1>3 DEF Owned
  <2> QED BY <1>3, <2>1 DEF Sent, Mutations
<1>5. \E n \in 1..Len(log') :
        /\ ToBrowser(Broadcast(n, m, mine)) /\ Grows /\ log'[n].cid = m.cid
        /\ log' = log \/ log' = Append(log, m)
  <2>1. log \in Seq(Mutations)
    BY <1>2 DEF Types
  <2>2. CASE \E n \in DOMAIN log :
               log[n].cid = m.cid /\ ToBrowser(Broadcast(n, m, mine)) /\ UNCHANGED log
    <3>1. Grows
      BY <2>1, <2>2 DEF Grows
    <3> QED BY <2>1, <2>2, <3>1
  <2>3. CASE log' = Append(log, m) /\ ToBrowser(Broadcast(Len(log) + 1, m, mine))
    <3>1. Grows /\ Len(log') = Len(log) + 1 /\ log'[Len(log')] = m
      BY <1>2, <1>4, <2>3, GrowsAppended
    <3>2. Len(log') \in 1..Len(log')
      BY <2>1, <3>1 DEF Grows
    <3> QED BY <2>3, <3>1, <3>2
  <2> QED BY <2>2, <2>3 DEF Accept
<1>6. PICK n \in 1..Len(log') :
        /\ ToBrowser(Broadcast(n, m, mine)) /\ Grows /\ log'[n].cid = m.cid
        /\ log' = log \/ log' = Append(log, m)
  BY <1>5
<1> DEFINE f == Broadcast(n, m, mine)
<1>7. /\ f \in Frame /\ f.kind = "mutation" /\ f.seq = n /\ f.mut = m
  BY <1>4, <1>6 DEF Broadcast, Frame
<1> HIDE DEF f
<1>8. /\ Mail' /\ frames' \in Seq(Frame)
      /\ \A i \in 1..Len(frames) : i \in 1..Len(frames') /\ frames'[i] = frames[i]
      /\ open => Len(frames') \in 1..Len(frames') /\ frames'[Len(frames')] = f
  <2>1. ToBrowser(f)
    BY <1>6 DEF f
  <2> QED BY <1>1, <1>2, <1>6, <1>7, <2>1, Mailed
<1> HIDE DEF m, mine
<1>9. Types'
  <2>1. me.seq \in Nat /\ Len(log) \in Nat /\ Len(log') \in Nat
    BY <1>2, <1>6 DEF Types, Grows, IsBrowser, Browser
  <2> QED BY <1>1, <1>2, <1>3, <1>6, <1>8, <2>1 DEF Types, Grows
<1>10. Owned'
  <2>1. ASSUME NEW i \in 1..Len(log')
        PROVE  log'[i].cid \in used.mine \/ log'[i] \in Theirs \cup Range(Drawn)
    <3>1. CASE i \in 1..Len(log)
      BY <1>2, <1>6, <3>1 DEF Owned, Grows
    <3>2. CASE i \notin 1..Len(log)
      <4>1. log' = Append(log, m) /\ log \in Seq(Mutations)
        BY <1>2, <1>6, <2>1, <3>2 DEF Types
      <4>2. log'[i] = m
        BY <2>1, <3>2, <4>1
      <4> QED BY <1>4, <4>2
    <3> QED BY <3>1, <3>2
  <2>2. \A i \in 1..Len(queue') : queue'[i].mut.cid \in used.mine
    BY <1>2, <1>3 DEF Owned
  <2> QED BY <1>1, <2>1, <2>2 DEF Owned
<1>11. Writes'
  <2>1. ASSUME open, NEW cid, UnderWay(cid) PROVE UnderWay(cid)'
    <3>1. CASE \E i \in 1..Len(frames) : Answers(frames[i], cid)
      BY <1>8, <3>1 DEF UnderWay, Answers
    <3>2. CASE \E i \in 1..Len(queue) : queue[i].here /\ queue[i].mut.cid = cid
      <4>1. PICK i \in 1..Len(queue) : queue[i].here /\ queue[i].mut.cid = cid
        BY <3>2
      <4>2. CASE i = 1
        <5>1. m.cid = cid
          BY <1>3, <4>1, <4>2 DEF m
        <5>2. Answers(f, cid)
          BY <1>7, <5>1 DEF Answers
        <5> QED BY <1>8, <2>1, <5>2 DEF UnderWay, Answers
      <4>3. CASE i # 1
        BY <1>3, <4>1, <4>3 DEF UnderWay
      <4> QED BY <4>2, <4>3
    <3> QED BY <2>1, <3>1, <3>2 DEF UnderWay
  <2> QED BY <1>1, <1>2, <1>6, <2>1, StillWaits
<1>12. Closed(me.journal, Acc)'
  BY <1>1, <1>2, <1>6, AccGrows
<1> QED BY <1>8, <1>9, <1>10, <1>11, <1>12 DEF Inv

LEMMA RefuseKeeps ==
  ASSUME Inv, Refuse
  PROVE  Inv'
<1> DEFINE m == Head(queue).mut
           f == [kind |-> "rejected", cid |-> m.cid]
<1>1. /\ queue # << >> /\ queue' = Tail(queue)
      /\ UNCHANGED << me, log, open, crossed, deferred >>
      /\ IF Head(queue).here THEN ToBrowser(f) ELSE UNCHANGED frames
  BY DEF Refuse
<1>2. Types /\ Mail /\ Owned /\ Writes /\ Closed(me.journal, Acc)
  BY DEF Inv
<1>3. /\ Head(queue) \in Sent /\ Head(queue) = queue[1] /\ 1 \in 1..Len(queue)
      /\ queue' \in Seq(Sent)
      /\ \A i \in 1..Len(queue') : \E j \in 1..Len(queue) : queue'[i] = queue[j]
      /\ \A i \in 1..Len(queue) : i = 1 \/ \E j \in 1..Len(queue') : queue'[j] = queue[i]
  BY <1>1, <1>2, Served
<1>4. used' \in [mine : SUBSET Ids, faults : Nat] /\ used'.mine = used.mine
  <2>1. used \in [mine : SUBSET Ids, faults : Nat]
    BY <1>2 DEF Types
  <2>2. used' = used \/ used' = [used EXCEPT !.faults = used.faults + 1]
    BY DEF Refuse
  <2> QED BY <2>1, <2>2
<1>5. Grows
  BY <1>1, <1>2 DEF Types, Grows
<1>6. f \in Frame /\ f.kind = "rejected" /\ f.cid = m.cid
  <2>1. m \in Mutations
    BY <1>3 DEF Sent, Mutations
  <2> QED BY <2>1 DEF Frame, Ids
<1> HIDE DEF f, m
<1>7. /\ Mail' /\ frames' \in Seq(Frame)
      /\ \A i \in 1..Len(frames) : i \in 1..Len(frames') /\ frames'[i] = frames[i]
      /\ open /\ Head(queue).here => Len(frames') \in 1..Len(frames') /\ frames'[Len(frames')] = f
  <2>1. CASE Head(queue).here
    <3>1. ToBrowser(f)
      BY <1>1, <2>1
    <3> QED BY <1>1, <1>2, <1>5, <1>6, <3>1, Mailed
  <2>2. CASE ~Head(queue).here
    <3>1. frames' = frames
      BY <1>1, <2>2
    <3>2. Mail'
      BY <1>1, <1>2, <3>1 DEF Mail
    <3> QED BY <1>2, <2>2, <3>1, <3>2 DEF Types
  <2> QED BY <2>1, <2>2
<1>8. Types'
  BY <1>1, <1>2, <1>3, <1>4, <1>7 DEF Types
<1>9. Owned'
  <2>1. \A i \in 1..Len(queue') : queue'[i].mut.cid \in used.mine
    BY <1>2, <1>3 DEF Owned
  <2> QED BY <1>1, <1>2, <1>4, <2>1 DEF Owned
<1>10. Writes'
  <2>1. ASSUME open, NEW cid, UnderWay(cid) PROVE UnderWay(cid)'
    <3>1. CASE \E i \in 1..Len(frames) : Answers(frames[i], cid)
      BY <1>7, <3>1 DEF UnderWay, Answers
    <3>2. CASE \E i \in 1..Len(queue) : queue[i].here /\ queue[i].mut.cid = cid
      <4>1. PICK i \in 1..Len(queue) : queue[i].here /\ queue[i].mut.cid = cid
        BY <3>2
      <4>2. CASE i = 1
        <5>1. m.cid = cid /\ Head(queue).here
          BY <1>3, <4>1, <4>2 DEF m
        <5>2. Answers(f, cid)
          BY <1>6, <5>1 DEF Answers
        <5> QED BY <1>7, <2>1, <5>1, <5>2 DEF UnderWay, Answers
      <4>3. CASE i # 1
        BY <1>3, <4>1, <4>3 DEF UnderWay
      <4> QED BY <4>2, <4>3
    <3> QED BY <2>1, <3>1, <3>2 DEF UnderWay
  <2> QED BY <1>1, <1>2, <1>4, <1>5, <2>1, StillWaits
<1>11. Closed(me.journal, Acc)'
  BY <1>1, <1>2, <1>5, AccGrows
<1> QED BY <1>7, <1>8, <1>9, <1>10, <1>11 DEF Inv

LEMMA AcceptTheirsKeeps ==
  ASSUME Inv, NEW m \in Theirs, AcceptTheirs(m)
  PROVE  Inv'
<1> DEFINE f == Broadcast(Len(log) + 1, m, FALSE)
<1>1. /\ log' = Append(log, m) /\ ToBrowser(f)
      /\ UNCHANGED << me, queue, open, used, crossed, deferred >>
  BY DEF AcceptTheirs
<1>2. Types /\ Mail /\ Owned /\ Writes /\ Closed(me.journal, Acc)
  BY DEF Inv
<1>3. Grows /\ Len(log') = Len(log) + 1 /\ log'[Len(log')] = m
  BY <1>1, <1>2, GrowsAppended DEF Mutations
<1>4. Len(log) \in Nat
  BY <1>2 DEF Types
<1>5. /\ f \in Frame /\ f.kind = "mutation" /\ f.seq = Len(log') /\ f.seq \in 1..Len(log')
      /\ f.mut = m
  BY <1>3, <1>4 DEF Broadcast, Frame, Mutations
<1> HIDE DEF f
<1>6. /\ Mail' /\ frames' \in Seq(Frame)
      /\ \A i \in 1..Len(frames) : i \in 1..Len(frames') /\ frames'[i] = frames[i]
  BY <1>1, <1>2, <1>3, <1>5, Mailed
<1>7. Types'
  <2>1. me.seq \in Nat
    BY <1>2 DEF Types, IsBrowser, Browser
  <2> QED BY <1>1, <1>2, <1>3, <1>4, <1>6, <2>1 DEF Types, Grows
<1>8. Owned'
  <2>1. ASSUME NEW i \in 1..Len(log')
        PROVE  log'[i].cid \in used.mine \/ log'[i] \in Theirs \cup Range(Drawn)
    <3>1. CASE i \in 1..Len(log)
      BY <1>2, <1>3, <3>1 DEF Owned, Grows
    <3>2. CASE i \notin 1..Len(log)
      <4>1. i = Len(log')
        BY <1>3, <1>4, <2>1, <3>2
      <4> QED BY <1>3, <4>1
    <3> QED BY <3>1, <3>2
  <2> QED BY <1>1, <1>2, <2>1 DEF Owned
<1>9. Writes'
  <2>1. ASSUME NEW cid, UnderWay(cid) PROVE UnderWay(cid)'
    BY <1>1, <1>6, <2>1 DEF UnderWay, Answers
  <2> QED BY <1>1, <1>2, <1>3, <2>1, StillWaits
<1>10. Closed(me.journal, Acc)'
  BY <1>1, <1>2, <1>3, AccGrows
<1> QED BY <1>6, <1>7, <1>8, <1>9, <1>10 DEF Inv

\* The connection ends: what is under way is cut short, and its end is last.
LEMMA EndsKeep ==
  ASSUME Inv, open, NEW kept, CutOff(kept), open' = FALSE,
         NEW sent \in Seq(Frame),
         \A i \in 1..Len(sent) : \/ sent[i] = [kind |-> "limited"]
                                 \/ i \in 1..Len(frames) /\ sent[i] = frames[i],
         frames' = Append(sent, [kind |-> "closed"]),
         used' = [used EXCEPT !.faults = @ + 1], UNCHANGED << me, log, deferred >>
  PROVE  Inv'
<1>1. Types /\ Mail /\ Owned /\ Writes /\ Closed(me.journal, Acc)
  BY DEF Inv
<1>2. /\ queue' \in Seq(Sent) /\ Range(queue') \subseteq Range(queue)
  <2> DEFINE ours(k) == Cardinality({j \in 1..k : queue[j].here})
             places == {k \in DOMAIN queue : ~queue[k].here \/ ours(k) <= kept}
  <2>1. queue' = Chosen(queue, places) /\ places \in SUBSET (DOMAIN queue)
    BY DEF CutOff
  <2> HIDE DEF places
  <2>2. queue \in Seq(Sent)
    BY <1>1 DEF Types
  <2>3. queue' \in Seq(Sent) /\ Range(queue') = {queue[p] : p \in places}
    BY <2>1, <2>2, ChosenIs
  <2> QED BY <2>1, <2>3 DEF Range
<1>3. used' \in [mine : SUBSET Ids, faults : Nat] /\ used'.mine = used.mine
  BY <1>1 DEF Types
<1> DEFINE end == [kind |-> "closed"]
<1>4. end \in Frame /\ end.kind = "closed"
  BY DEF Frame
<1> HIDE DEF end
<1>5. /\ frames' \in Seq(Frame) /\ Len(frames') = Len(sent) + 1
      /\ \A i \in 1..Len(sent) : frames'[i] = sent[i]
      /\ frames'[Len(frames')] = end
  BY <1>4 DEF end
<1>6. \A i \in 1..Len(frames') : i \in 1..Len(sent) \/ i = Len(frames')
  BY <1>5
<1>7. ASSUME NEW i \in 1..Len(frames'), frames'[i].kind \in {"mutation", "batch", "closed"}
      PROVE  \/ i = Len(frames') /\ frames'[i].kind = "closed"
             \/ i \in 1..Len(frames) /\ frames'[i] = frames[i]
  <2>1. CASE i = Len(frames')
    BY <1>4, <1>5, <2>1
  <2>2. CASE i \in 1..Len(sent)
    <3>1. frames'[i] # [kind |-> "limited"]
      BY <1>7
    <3> QED BY <1>5, <2>2, <3>1
  <2> QED BY <1>6, <2>1, <2>2
<1>8. me.link \notin {"down", "fetched"}
  BY <1>1 DEF Mail
<1>9. frames' # << >>
  BY <1>5
<1>10. Mail'
  <2>1. ASSUME NEW i \in 1..Len(frames'), frames'[i].kind = "mutation"
        PROVE  frames'[i].seq \in 1..Len(log) /\ log[frames'[i].seq].cid = frames'[i].mut.cid
    <3>1. i \in 1..Len(frames) /\ frames'[i] = frames[i]
      BY <1>7, <2>1
    <3> QED BY <1>1, <2>1, <3>1 DEF Mail
  <2>2. ASSUME NEW i \in 1..Len(frames'), frames'[i].kind = "batch"
        PROVE  i = 1 /\ me.link = "replaying" /\ me.seq + Len(frames'[i].muts) <= Len(log)
    <3>1. i \in 1..Len(frames) /\ frames'[i] = frames[i]
      BY <1>7, <2>2
    <3> QED BY <1>1, <2>2, <3>1 DEF Mail
  <2>3. ASSUME NEW i \in 1..Len(frames'), frames'[i].kind = "closed"
        PROVE  i = Len(frames')
    <3>1. ASSUME i \in 1..Len(frames), frames'[i] = frames[i] PROVE FALSE
      BY <1>1, <2>3, <3>1 DEF Mail
    <3> QED BY <1>7, <2>3, <3>1
  <2> QED BY <1>4, <1>5, <1>8, <1>9, <2>1, <2>2, <2>3 DEF Mail
<1>11. Types'
  BY <1>1, <1>2, <1>3, <1>5 DEF Types
<1>12. Owned'
  <2>1. ASSUME NEW i \in 1..Len(queue') PROVE queue'[i].mut.cid \in used.mine
    <3>1. queue'[i] \in Range(queue')
      BY <1>2 DEF Range
    <3>2. PICK j \in DOMAIN queue : queue'[i] = queue[j]
      BY <1>2, <3>1 DEF Range
    <3>3. j \in 1..Len(queue)
      <4>1. queue \in Seq(Sent)
        BY <1>1 DEF Types
      <4> QED BY <4>1
    <3> QED BY <1>1, <3>2, <3>3 DEF Owned
  <2> QED BY <1>1, <1>3, <2>1 DEF Owned
<1>13. Grows
  BY <1>1 DEF Types, Grows
<1>14. Writes'
  BY <1>1, <1>3, <1>13, StillWaits
<1>15. Closed(me.journal, Acc)'
  BY <1>1, <1>13, AccGrows
<1> QED BY <1>10, <1>11, <1>12, <1>14, <1>15 DEF Inv

LEMMA RateLimitKeeps ==
  ASSUME Inv, RateLimit
  PROVE  Inv'
<1> DEFINE limited == [kind |-> "limited"]
           sent == Append(frames, limited)
<1>1. PICK kept \in 0..Cardinality(Unseen) - 1 : CutOff(kept)
  BY DEF RateLimit
<1>2. frames \in Seq(Frame) /\ limited \in Frame
  BY DEF Inv, Types, Frame
<1>3. frames \o << limited, [kind |-> "closed"] >> = Append(sent, [kind |-> "closed"])
  BY <1>2
<1>4. sent \in Seq(Frame) /\ \A i \in 1..Len(sent) :
        sent[i] = limited \/ (i \in 1..Len(frames) /\ sent[i] = frames[i])
  <2> HIDE DEF limited
  <2> QED BY <1>2
<1>5. /\ open /\ open' = FALSE /\ used' = [used EXCEPT !.faults = @ + 1]
      /\ UNCHANGED << me, log, deferred >> /\ frames' = Append(sent, [kind |-> "closed"])
  BY <1>3 DEF RateLimit
<1> HIDE DEF sent
<1> QED BY <1>1, <1>4, <1>5, EndsKeep

LEMMA LoseConnectionKeeps ==
  ASSUME Inv, LoseConnection
  PROVE  Inv'
<1>1. PICK kept \in 0..Cardinality(Unseen) : CutOff(kept)
  BY DEF LoseConnection
<1>2. PICK n \in 0..Len(frames) : frames' = Append(SubSeq(frames, 1, n), [kind |-> "closed"])
  BY DEF LoseConnection
<1> DEFINE sent == SubSeq(frames, 1, n)
<1>3. frames \in Seq(Frame)
  BY DEF Inv, Types
<1>4. sent \in Seq(Frame) /\ \A i \in 1..Len(sent) :
        i \in 1..Len(frames) /\ sent[i] = frames[i]
  BY <1>3
<1>5. /\ open /\ open' = FALSE /\ used' = [used EXCEPT !.faults = @ + 1]
      /\ UNCHANGED << me, log, deferred >> /\ frames' = Append(sent, [kind |-> "closed"])
  BY <1>2 DEF LoseConnection
<1> HIDE DEF sent
<1> QED BY <1>1, <1>4, <1>5, EndsKeep

-----------------------------------------------------------------------------
(* The steps of the browser.                                                *)

\* A baseline is fetched, a connection is made or refused: what is left of the
\* writes has been put back by a rate limit.
LEMMA FetchKeeps ==
  ASSUME Inv, FetchBaseline
  PROVE  Inv'
<1>1. Types /\ Mail /\ Owned /\ Writes
  BY DEF Inv
<1>2. PICK n \in 0..Len(log) :
        me' = [me EXCEPT !.view = Board(n), !.seq = n, !.journal = << >>, !.link = "fetched"]
  BY DEF FetchBaseline
<1>3. me.link = "down" /\ UNCHANGED << log, queue, frames, open, used, deferred >>
  BY DEF FetchBaseline
<1> DEFINE v == Board(n)
<1>4. me' = [me EXCEPT !.view = v, !.seq = n, !.journal = << >>, !.link = "fetched"]
  BY <1>2
<1> HIDE DEF v
<1>5. n \in Nat /\ n <= Len(log)
  BY <1>1 DEF Types
<1>6. /\ IsBrowser(me)' /\ me'.seq = n /\ me'.journal = << >> /\ me'.link = "fetched"
      /\ me'.paused = me.paused /\ me'.buffered = me.buffered
  <2>1. IsBrowser(me)
    BY <1>1 DEF Types
  <2> QED BY <1>4, <1>5, <2>1 DEF IsBrowser, Browser
<1>7. Types'
  BY <1>1, <1>3, <1>5, <1>6 DEF Types
<1>8. Mail'
  <2>1. frames = << >> /\ ~open
    BY <1>1, <1>3 DEF Mail
  <2> QED BY <1>3, <1>6, <2>1 DEF Mail
<1>9. Owned'
  BY <1>1, <1>3 DEF Owned
<1>10. Writes'
  BY <1>1, <1>3, <1>6 DEF Writes, WritesOf, Fresh
<1>11. Closed(me.journal, Acc)'
  BY <1>6, EmptyClosed
<1> QED BY <1>7, <1>8, <1>9, <1>10, <1>11 DEF Inv

LEMMA JoinKeeps ==
  ASSUME Inv, Join
  PROVE  Inv'
<1>1. Types /\ Mail /\ Owned /\ Writes /\ Closed(me.journal, Acc)
  BY DEF Inv
<1> DEFINE muts == SubSeq(log, me.seq + 1, Len(log))
           batch == [kind |-> "batch", muts |-> muts]
<1>2. /\ me.link = "fetched" /\ me' = [me EXCEPT !.link = "replaying"] /\ open' = TRUE
      /\ queue' = [k \in DOMAIN queue |-> [queue[k] EXCEPT !.here = FALSE]]
      /\ frames' = << batch >> /\ UNCHANGED << log, used, deferred >>
  BY DEF Join
<1>3. /\ IsBrowser(me)' /\ me'.seq = me.seq /\ me'.journal = me.journal
      /\ me'.link = "replaying" /\ me'.paused = me.paused /\ me'.buffered = me.buffered
  <2>1. IsBrowser(me)
    BY <1>1 DEF Types
  <2> QED BY <1>2, <2>1 DEF IsBrowser, Browser
<1>4. muts \in Seq(Mutations) /\ me.seq + Len(muts) <= Len(log)
  <2>1. me.seq \in Nat /\ me.seq <= Len(log) /\ log \in Seq(Mutations)
    BY <1>1 DEF Types, IsBrowser, Browser
  <2>2. muts \in Seq(Mutations) /\ Len(muts) = Len(log) - me.seq
    BY <2>1
  <2> QED BY <2>1, <2>2
<1> HIDE DEF muts
<1>5. batch \in Frame /\ batch.kind = "batch" /\ batch.muts = muts
  BY <1>4 DEF Frame
<1> HIDE DEF batch
<1>6. frames' \in Seq(Frame) /\ Len(frames') = 1 /\ frames'[1] = batch
  BY <1>2, <1>5
<1>7. queue \in Seq(Sent)
  BY <1>1 DEF Types
<1>8. /\ queue' \in Seq(Sent) /\ Len(queue') = Len(queue)
      /\ \A k \in 1..Len(queue) : queue'[k].mut = queue[k].mut
  <2> DEFINE old(k) == [queue[k] EXCEPT !.here = FALSE]
  <2>1. ASSUME NEW k \in 1..Len(queue) PROVE old(k) \in Sent /\ old(k).mut = queue[k].mut
    <3>1. queue[k] \in Sent
      BY <1>7
    <3> QED BY <3>1 DEF Sent
  <2>2. DOMAIN queue = 1..Len(queue) /\ Len(queue) \in Nat
    BY <1>7
  <2>3. queue' = [k \in 1..Len(queue) |-> old(k)]
    BY <1>2, <2>2
  <2> HIDE DEF old
  <2> QED BY <2>1, <2>2, <2>3
<1>9. Types'
  BY <1>1, <1>2, <1>3, <1>6, <1>8 DEF Types
<1>10. Mail'
  <2>1. \A i \in 1..Len(frames') : i = 1
    BY <1>6
  <2> QED BY <1>2, <1>3, <1>4, <1>5, <1>6, <2>1 DEF Mail
<1>11. Owned'
  BY <1>1, <1>2, <1>8 DEF Owned
<1>12. Writes'
  BY <1>1, <1>2, <1>3 DEF Writes, WritesOf, Fresh
<1>13. Closed(me.journal, Acc)'
  BY <1>1, <1>2, <1>3 DEF Acc
<1> QED BY <1>9, <1>10, <1>11, <1>12, <1>13 DEF Inv

\* A resynchronisation begins with nothing under way.
LEMMA ResyncKeeps ==
  ASSUME Inv, NEW preserve \in BOOLEAN, me' = Resync(me, preserve),
         preserve => me.link # "live" \/ me.paused,
         open' = FALSE, frames' = << >>, used' \in [mine : SUBSET Ids, faults : Nat],
         used'.mine = used.mine, UNCHANGED << log, queue, deferred >>
  PROVE  Inv'
<1>1. Types /\ Mail /\ Owned /\ Writes
  BY DEF Inv
<1>2. IsBrowser(me)
  BY <1>1 DEF Types
<1>3. /\ IsBrowser(me)' /\ me'.link = "down" /\ me'.paused = me.paused /\ me'.seq = me.seq
      /\ me'.journal = << >> /\ me'.buffered = (IF preserve THEN me.buffered ELSE << >>)
  BY <1>2, ResyncIs
<1>4. Types'
  <2>1. open' \in BOOLEAN
    BY ONLY open' = FALSE
  <2>2. frames' \in Seq(Frame)
    BY ONLY frames' = << >>
  <2> QED BY <1>1, <1>3, <2>1, <2>2 DEF Types
<1>5. Mail'
  BY <1>3 DEF Mail
<1>6. Owned'
  BY <1>1 DEF Owned
<1>7. Writes'
  <2>1. CASE preserve
    BY <1>1, <1>3, <2>1 DEF Writes, WritesOf, Fresh
  <2>2. CASE ~preserve
    <3>1. Range(me'.buffered) = {}
      BY <1>3, <2>2 DEF Range
    <3> QED BY <3>1 DEF Writes, WritesOf
  <2> QED BY <2>1, <2>2
<1>8. Closed(me.journal, Acc)'
  BY <1>3, EmptyClosed
<1> QED BY <1>4, <1>5, <1>6, <1>7, <1>8 DEF Inv

LEMMA JoinRefusedKeeps ==
  ASSUME Inv, JoinRefused
  PROVE  Inv'
<1>1. /\ me.link = "fetched" /\ me' = Resync(me, FALSE)
      /\ used' = [used EXCEPT !.faults = @ + 1]
      /\ UNCHANGED << log, queue, frames, open, deferred >>
  BY DEF JoinRefused
<1>2. used' \in [mine : SUBSET Ids, faults : Nat] /\ used'.mine = used.mine
  <2>1. used \in [mine : SUBSET Ids, faults : Nat]
    BY DEF Inv, Types
  <2> QED BY ONLY <1>1, <2>1
<1>3. frames = << >> /\ open = FALSE
  BY <1>1 DEF Inv, Mail, Types
<1> QED BY <1>1, <1>2, <1>3, ResyncKeeps

-----------------------------------------------------------------------------
(* What the pump sends.                                                     *)

\* A client c, which the browser becomes but for the pump: the writes that go out
\* join the queue.
LEMMA PumpKeeps ==
  ASSUME Types, Owned, NEW c, IsBrowser(c), Closed(c.journal, Acc),
         NEW mine, used.mine \subseteq mine, WritesOf(c, mine),
         NEW upto \in 0..Len(c.buffered), NEW sent, sent = Pump(c, upto).sent,
         Emitted(sent), UNCHANGED << log, open, deferred >>,
         \/ \A i \in 1..Len(frames) : i \in 1..Len(frames') /\ frames'[i] = frames[i]
         \/ \A w \in Range(c.buffered) : w.mut.cid \in deferred,
         NEW d, d.link = c.link, d.paused = c.paused, d.seq = c.seq,
         d.buffered = Pump(c, upto).client.buffered
  PROVE  /\ queue' \in Seq(Sent)
         /\ \A n \in 1..Len(queue') : queue'[n].mut.cid \in mine
         /\ WritesOf(d, mine)'
<1> DEFINE r == Pump(c, upto)
           new == [k \in DOMAIN sent |-> [mut |-> sent[k], here |-> TRUE]]
<1>1. Pumped(c, Acc, r)
  BY PumpIs
<1> HIDE DEF r
<1>2. /\ sent \in Seq(Mine) /\ Range(sent) \subseteq {w.mut : w \in Range(c.buffered)}
      /\ IsBrowser(r.client) /\ Len(r.client.buffered) = Len(c.buffered)
      /\ d.buffered = r.client.buffered
  BY <1>1 DEF Pumped, r
<1>3. queue \in Seq(Sent) /\ open \in BOOLEAN
  BY DEF Types
<1>4. /\ new \in Seq(Sent) /\ Len(new) = Len(sent) /\ Len(sent) \in Nat
      /\ \A k \in 1..Len(sent) : new[k] = [mut |-> sent[k], here |-> TRUE]
  <2>1. DOMAIN sent = 1..Len(sent) /\ Len(sent) \in Nat
    BY <1>2
  <2>2. \A k \in 1..Len(sent) : [mut |-> sent[k], here |-> TRUE] \in Sent
    BY <1>2 DEF Sent
  <2> QED BY <2>1, <2>2
<1>5. queue' = IF open THEN queue \o new ELSE queue
  BY DEF Emitted
<1> HIDE DEF new
<1>6. queue' \in Seq(Sent)
  BY <1>3, <1>4, <1>5
<1>7. \A n \in 1..Len(queue') :
        \/ n \in 1..Len(queue) /\ queue'[n] = queue[n]
        \/ \E k \in 1..Len(sent) : queue'[n] = new[k]
  BY <1>3, <1>4, <1>5
<1>8. \A n \in 1..Len(queue) : n \in 1..Len(queue') /\ queue'[n] = queue[n]
  BY <1>3, <1>4, <1>5
<1>9. open => \A k \in 1..Len(sent) :
        Len(queue) + k \in 1..Len(queue') /\ queue'[Len(queue) + k] = new[k]
  BY <1>3, <1>4, <1>5
<1>10. \A k \in 1..Len(sent) : sent[k].cid \in mine
  <2> SUFFICES ASSUME NEW k \in 1..Len(sent) PROVE sent[k].cid \in mine
    OBVIOUS
  <2>1. sent[k] \in Range(sent)
    BY <1>2 DEF Range
  <2>2. PICK w \in Range(c.buffered) : sent[k] = w.mut
    BY <1>2, <2>1
  <2> QED BY <2>2 DEF WritesOf
<1>11. ASSUME NEW n \in 1..Len(queue') PROVE queue'[n].mut.cid \in mine
  <2>1. CASE n \in 1..Len(queue) /\ queue'[n] = queue[n]
    <3>1. queue[n].mut.cid \in used.mine
      BY <2>1 DEF Owned
    <3> QED BY <2>1, <3>1
  <2>2. CASE \E k \in 1..Len(sent) : queue'[n] = new[k]
    <3>1. PICK k \in 1..Len(sent) : queue'[n] = new[k]
      BY <2>2
    <3>2. new[k] = [mut |-> sent[k], here |-> TRUE]
      BY <1>4
    <3>3. queue'[n] = [mut |-> sent[k], here |-> TRUE]
      BY <3>1, <3>2
    <3> QED BY <1>10, <3>3
  <2> QED BY <1>7, <2>1, <2>2
<1>12. ASSUME NEW w \in Range(d.buffered)
       PROVE  w.mut.cid \in mine /\ (w.mut.cid \in deferred \/ Fresh(d, w)')
  <2>1. DOMAIN d.buffered = 1..Len(c.buffered)
        /\ c.buffered \in Seq(Write) /\ d.buffered \in Seq(Write)
    BY <1>2 DEF IsBrowser, Browser
  <2>2. PICK k \in 1..Len(c.buffered) : w = d.buffered[k]
    BY <2>1 DEF Range
  <2> DEFINE u == c.buffered[k]
  <2>3. u \in Range(c.buffered)
    BY <2>1 DEF Range
  <2>4. /\ w.mut = u.mut
        /\ w.state = "inflight" => u.state = "inflight" \/ w.mut \in Range(sent)
    BY <1>1, <1>2, <2>2 DEF Pumped, r
  <2> HIDE DEF u
  <2>5. u.mut.cid \in mine /\ (u.mut.cid \in deferred \/ Fresh(c, u))
    BY <2>3 DEF WritesOf
  <2>6. ASSUME u.mut.cid \notin deferred PROVE Fresh(d, w)'
    <3>1. Fresh(c, u)
      BY <2>5, <2>6
    <3>2. /\ d.link = "live" /\ ~d.paused
          /\ \A n \in 1..d.seq : log[n].cid # w.mut.cid
      BY <2>4, <3>1 DEF Fresh
    <3>3. ASSUME w.state = "inflight", open PROVE UnderWay(w.mut.cid)'
      <4>1. CASE u.state = "inflight"
        <5>1. UnderWay(w.mut.cid)
          BY <2>4, <3>1, <3>3, <4>1 DEF Fresh
        <5>2. \A i \in 1..Len(frames) : i \in 1..Len(frames') /\ frames'[i] = frames[i]
          BY <2>3, <2>6
        <5> QED BY <1>8, <5>1, <5>2 DEF UnderWay, Answers
      <4>2. CASE w.mut \in Range(sent)
        <5>1. PICK j \in 1..Len(sent) : sent[j] = w.mut
          BY <1>2, <4>2 DEF Range
        <5>2. queue'[Len(queue) + j] = [mut |-> w.mut, here |-> TRUE]
              /\ Len(queue) + j \in 1..Len(queue')
          BY <1>4, <1>9, <3>3, <5>1
        <5>3. queue'[Len(queue) + j].here /\ queue'[Len(queue) + j].mut.cid = w.mut.cid
          BY <5>2
        <5> QED BY <5>2, <5>3 DEF UnderWay
      <4> QED BY <2>4, <3>3, <4>1, <4>2
    <3> QED BY <3>2, <3>3 DEF Fresh
  <2> QED BY <2>4, <2>5, <2>6
<1>13. WritesOf(d, mine)'
  BY <1>12 DEF WritesOf
<1> QED BY <1>6, <1>11, <1>13

LEMMA PumpedKeeps ==
  ASSUME Inv, NEW c, IsBrowser(c), c.seq <= Len(log), Closed(c.journal, Acc),
         WritesOf(c, used.mine), NEW upto \in 0..Len(c.buffered),
         me' = Pump(c, upto).client, Emitted(Pump(c, upto).sent),
         UNCHANGED << log, open, used, deferred >>,
         UNCHANGED frames \/ \A w \in Range(c.buffered) : w.mut.cid \in deferred,
         frames' \in Seq(Frame), Mail'
  PROVE  Inv'
<1> DEFINE r == Pump(c, upto)
<1>1. Types /\ Owned
  BY DEF Inv
<1>2. Pumped(c, Acc, r)
  BY PumpIs
<1>3. PICK d : d = r.client
  OBVIOUS
<1>4. PICK sent : sent = r.sent
  OBVIOUS
<1>5. /\ IsBrowser(d) /\ d.link = c.link /\ d.paused = c.paused /\ d.seq = c.seq
      /\ Closed(d.journal, Acc)
  BY <1>2, <1>3 DEF Pumped
<1>6. frames \in Seq(Frame) /\ used.mine \in SUBSET Ids
  BY <1>1 DEF Types
<1>7. \/ \A i \in 1..Len(frames) : i \in 1..Len(frames') /\ frames'[i] = frames[i]
      \/ \A w \in Range(c.buffered) : w.mut.cid \in deferred
  OBVIOUS
<1>8. PICK mine : mine = used.mine
  OBVIOUS
<1>9. Emitted(sent) /\ sent = Pump(c, upto).sent
      /\ d.buffered = Pump(c, upto).client.buffered /\ me' = d
  BY <1>3, <1>4
<1> HIDE DEF r
<1>10. /\ queue' \in Seq(Sent)
       /\ \A n \in 1..Len(queue') : queue'[n].mut.cid \in mine
       /\ WritesOf(d, mine)'
  BY <1>1, <1>5, <1>7, <1>8, <1>9, PumpKeeps
<1>11. Types'
  BY <1>1, <1>5, <1>9, <1>10 DEF Types, IsBrowser
<1>12. Owned'
  BY <1>1, <1>8, <1>10 DEF Owned
<1>13. Writes'
  BY <1>8, <1>9, <1>10 DEF Writes, WritesOf, Fresh
<1>14. Closed(me.journal, Acc)'
  BY <1>5, <1>9 DEF Acc
<1> QED BY <1>11, <1>12, <1>13, <1>14 DEF Inv

\* A browser that is live has no batch under way, so its mail is as it was.
LEMMA MailStays ==
  ASSUME Mail, me.link = "live", me'.link = "live", UNCHANGED << log, frames, open >>
  PROVE  Mail'
BY DEF Mail

LEMMA FlushKeeps ==
  ASSUME Inv, Flush
  PROVE  Inv'
<1>1. Types /\ Mail /\ Writes /\ Closed(me.journal, Acc)
  BY DEF Inv
<1>2. PICK upto \in DOMAIN me.buffered :
        me' = Pump(me, upto).client /\ Emitted(Pump(me, upto).sent)
  BY DEF Flush
<1>3. me.link = "live" /\ UNCHANGED << log, frames, open, used, deferred >>
  BY DEF Flush, Writable
<1>4. PICK c : c = me
  OBVIOUS
<1>5. IsBrowser(c) /\ c.seq <= Len(log) /\ Closed(c.journal, Acc)
  BY <1>1, <1>4 DEF Types
<1>6. WritesOf(c, used.mine)
  BY <1>1, <1>4 DEF Writes
<1>7. upto \in 0..Len(c.buffered)
  BY <1>2, <1>4, <1>5 DEF IsBrowser, Browser
<1>8. me' = Pump(c, upto).client /\ Emitted(Pump(c, upto).sent)
  BY <1>2, <1>4
<1>9. me'.link = "live"
  BY <1>3, <1>4, <1>5, <1>7, <1>8, PumpIs DEF Pumped
<1>10. Mail'
  BY <1>1, <1>3, <1>9, MailStays
<1>11. frames' \in Seq(Frame)
  BY <1>1, <1>3 DEF Types
<1> QED BY <1>3, <1>5, <1>6, <1>7, <1>8, <1>10, <1>11, PumpedKeeps

\* While a browser is paused, all its writes have been put back.
LEMMA PausedOrDown ==
  ASSUME Writes, me.paused \/ me.link # "live"
  PROVE  \A w \in Range(me.buffered) : w.mut.cid \in used.mine /\ w.mut.cid \in deferred
BY DEF Writes, WritesOf, Fresh

LEMMA EndPauseKeeps ==
  ASSUME Inv, EndPause
  PROVE  Inv'
<1> DEFINE woken == [me EXCEPT !.paused = FALSE]
<1>1. Types /\ Mail /\ Owned /\ Writes /\ Closed(me.journal, Acc)
  BY DEF Inv
<1>2. me.paused /\ UNCHANGED << log, frames, open, used, deferred >>
  BY DEF EndPause
<1>3. PICK c : c = woken
  OBVIOUS
<1>4. /\ IsBrowser(c) /\ c.link = me.link /\ c.seq = me.seq /\ c.journal = me.journal
      /\ c.buffered = me.buffered
  <2>1. IsBrowser(me)
    BY <1>1 DEF Types
  <2> QED BY <1>3, <2>1 DEF IsBrowser, Browser
<1>5. \A w \in Range(c.buffered) : w.mut.cid \in used.mine /\ w.mut.cid \in deferred
  BY <1>1, <1>2, <1>4, PausedOrDown
<1>6. \/ /\ Writable(c)
         /\ \E upto \in 0..Len(c.buffered) :
              me' = Pump(c, upto).client /\ Emitted(Pump(c, upto).sent)
      \/ me' = c /\ UNCHANGED queue
  BY <1>3, <1>4 DEF EndPause
<1> HIDE DEF woken
<1>7. CASE Writable(c) /\ \E upto \in 0..Len(c.buffered) :
             me' = Pump(c, upto).client /\ Emitted(Pump(c, upto).sent)
  <2>1. PICK upto \in 0..Len(c.buffered) :
          me' = Pump(c, upto).client /\ Emitted(Pump(c, upto).sent)
    BY <1>7
  <2>2. c.link = "live" /\ me.link = "live"
    BY <1>4, <1>7 DEF Writable
  <2>3. c.seq <= Len(log) /\ Closed(c.journal, Acc) /\ frames' \in Seq(Frame)
    BY <1>1, <1>2, <1>4 DEF Types
  <2>4. me'.link = "live"
    BY <1>4, <2>1, <2>2, <2>3, PumpIs DEF Pumped
  <2>5. Mail'
    BY <1>1, <1>2, <2>2, <2>4, MailStays
  <2>6. WritesOf(c, used.mine)
    BY <1>5 DEF WritesOf
  <2> QED BY <1>2, <1>4, <2>1, <2>3, <2>5, <2>6, PumpedKeeps
<1>8. CASE me' = c /\ UNCHANGED queue
  <2>1. Types'
    BY <1>1, <1>2, <1>4, <1>8 DEF Types, IsBrowser
  <2>2. Mail'
    BY <1>1, <1>2, <1>4, <1>8 DEF Mail
  <2>3. Owned'
    BY <1>1, <1>2, <1>8 DEF Owned
  <2>4. Writes'
    BY <1>2, <1>5, <1>8 DEF Writes, WritesOf
  <2>5. Closed(me.journal, Acc)'
    BY <1>1, <1>2, <1>4, <1>8 DEF Acc
  <2> QED BY <2>1, <2>2, <2>3, <2>4, <2>5 DEF Inv
<1> QED BY <1>6, <1>7, <1>8

\* The write that was pumped may be journalled yet.
LEMMA SentOff ==
  ASSUME NEW c, NEW r, NEW acc, Pumped(c, acc, r), NEW n, NEW undo,
         NEW d, d = r.client \/ d = Track(r.client, n, undo)
  PROVE  /\ IsBrowser(d) /\ d.link = c.link /\ d.paused = c.paused /\ d.seq = c.seq
         /\ Closed(d.journal, acc) /\ d.buffered = r.client.buffered
<1>1. PICK e : e = r.client
  OBVIOUS
<1>2. /\ IsBrowser(e) /\ Closed(e.journal, acc)
      /\ e.seq = c.seq /\ e.link = c.link /\ e.paused = c.paused
  BY <1>1 DEF Pumped
<1>3. CASE d = Track(e, n, undo)
  <2>1. /\ IsBrowser(d) /\ Closed(d.journal, acc) /\ d.seq = e.seq
        /\ d.buffered = e.buffered /\ d.link = e.link /\ d.paused = e.paused
    BY ONLY <1>2, <1>3, Tracked
  <2> QED BY <1>1, <1>2, <2>1
<1> QED BY <1>1, <1>2, <1>3

\* A write that is made is not on the board: its id is new.
LEMMA DrawAndSendKeeps ==
  ASSUME Inv, NEW m, m \in Mine, DrawAndSend(m)
  PROVE  Inv'
<1>1. Types /\ Mail /\ Owned /\ Writes /\ Closed(me.journal, Acc)
  BY DEF Inv
<1> DEFINE new == [mut |-> m, state |-> "queued", redraw |-> FALSE]
           shown == Draw(me.view, m)
           more == Append(me.buffered, new)
           drawn == [me EXCEPT !.view = shown, !.buffered = more]
<1>2. /\ m.cid \notin used.mine /\ me.link = "live" /\ ~me.paused
      /\ used' = [used EXCEPT !.mine = used.mine \cup {m.cid}]
      /\ UNCHANGED << log, frames, open, deferred >>
  BY DEF DrawAndSend, Writable
<1>3. PICK c : c = drawn
  OBVIOUS
<1>4. PICK upto \in 0..Len(me.buffered) + 1 :
        /\ me' = IF Pump(c, upto).broken THEN Pump(c, upto).client
                 ELSE Track(Pump(c, upto).client, m, Rollback(me.view, m))
        /\ Emitted(Pump(c, upto).sent)
  BY <1>3 DEF DrawAndSend
<1>5. /\ more \in Seq(Write) /\ Len(more) = Len(me.buffered) + 1
      /\ Range(more) = Range(me.buffered) \cup {new}
  <2>1. me.buffered \in Seq(Write) /\ new \in Write
    BY <1>1 DEF Types, IsBrowser, Browser, Write
  <2> HIDE DEF new
  <2> QED BY <2>1, Appended
<1> HIDE DEF new, shown, more
<1>6. /\ IsBrowser(c) /\ c.link = "live" /\ ~c.paused /\ c.seq = me.seq
      /\ c.journal = me.journal /\ c.buffered = more
  <2>1. IsBrowser(me)
    BY <1>1 DEF Types
  <2>2. more \in Seq(Write)
    BY <1>5
  <2>3. /\ IsBrowser(c) /\ c.link = me.link /\ c.paused = me.paused /\ c.seq = me.seq
        /\ c.journal = me.journal /\ c.buffered = more
    BY <1>3, <2>1, <2>2 DEF IsBrowser, Browser
  <2> QED BY <1>2, <2>3
<1> HIDE DEF drawn
<1>7. upto \in 0..Len(c.buffered) /\ Closed(c.journal, Acc)
  BY <1>1, <1>4, <1>5, <1>6
<1>8. PICK mine : mine = used.mine \cup {m.cid}
  OBVIOUS
<1>9. me.seq \in Nat /\ me.seq <= Len(log) /\ log \in Seq(Mutations)
  BY <1>1 DEF Types, IsBrowser, Browser
<1>10. \A n \in 1..me.seq : log[n].cid # m.cid
  <2> SUFFICES ASSUME NEW n \in 1..me.seq PROVE log[n].cid # m.cid
    OBVIOUS
  <2>1. log[n].cid \in used.mine \/ log[n] \in Theirs \cup Range(Drawn)
    BY <1>1, <1>9 DEF Owned
  <2> QED BY <1>2, <2>1, IdsAssumption
<1>11. WritesOf(c, mine)
  <2> SUFFICES ASSUME NEW w \in Range(c.buffered)
               PROVE  w.mut.cid \in mine /\ (w.mut.cid \in deferred \/ Fresh(c, w))
    BY DEF WritesOf
  <2>1. CASE w \in Range(me.buffered)
    <3>1. w.mut.cid \in used.mine /\ (w.mut.cid \in deferred \/ Fresh(me, w))
      BY <1>1, <2>1 DEF Writes, WritesOf
    <3>2. Fresh(me, w) => Fresh(c, w)
      BY <1>6 DEF Fresh
    <3> QED BY <1>8, <3>1, <3>2
  <2>2. CASE w = new
    <3>1. w.mut = m /\ w.state = "queued"
      BY <2>2 DEF new
    <3>2. Fresh(c, w)
      BY <1>6, <1>10, <3>1 DEF Fresh
    <3> QED BY <1>8, <3>1, <3>2
  <2> QED BY <1>5, <1>6, <2>1, <2>2
<1> DEFINE r == Pump(c, upto)
<1>12. Pumped(c, Acc, r)
  BY <1>6, <1>7, PumpIs
<1>13. PICK d : d = me'
  OBVIOUS
<1>14. /\ IsBrowser(d) /\ d.link = c.link /\ d.paused = c.paused /\ d.seq = c.seq
       /\ Closed(d.journal, Acc) /\ d.buffered = r.client.buffered
  <2> DEFINE undo == Rollback(me.view, m)
  <2>1. d = r.client \/ d = Track(r.client, m, undo)
    BY <1>4, <1>13
  <2> HIDE DEF r, undo
  <2> QED BY ONLY <1>12, <2>1, SentOff
<1>15. PICK sent : sent = r.sent
  OBVIOUS
<1>16. frames \in Seq(Frame)
  BY <1>1 DEF Types
<1>17. /\ queue' \in Seq(Sent)
       /\ \A n \in 1..Len(queue') : queue'[n].mut.cid \in mine
       /\ WritesOf(d, mine)'
  <2>1. \A i \in 1..Len(frames) : i \in 1..Len(frames') /\ frames'[i] = frames[i]
    BY <1>2
  <2>2. sent = Pump(c, upto).sent /\ Emitted(sent) /\ UNCHANGED << log, open, deferred >>
        /\ d.buffered = Pump(c, upto).client.buffered
    BY <1>2, <1>4, <1>14, <1>15
  <2>3. used.mine \subseteq mine
    BY <1>8
  <2> HIDE DEF r
  <2> QED BY <1>1, <1>6, <1>7, <1>11, <1>14, <2>1, <2>2, <2>3, PumpKeeps
<1> HIDE DEF r
<1>18. used' \in [mine : SUBSET Ids, faults : Nat] /\ used'.mine = mine
  <2>1. m.cid \in Ids
    BY DEF Ids, Mutations
  <2>2. used \in [mine : SUBSET Ids, faults : Nat]
    BY <1>1 DEF Types
  <2> QED BY <1>2, <1>8, <2>1, <2>2
<1>19. Types'
  BY <1>1, <1>2, <1>6, <1>13, <1>14, <1>17, <1>18 DEF Types, IsBrowser
<1>20. Mail'
  BY <1>1, <1>2, <1>6, <1>13, <1>14, MailStays
<1>21. Owned'
  BY <1>1, <1>2, <1>8, <1>17, <1>18 DEF Owned
<1>22. Writes'
  BY <1>13, <1>17, <1>18 DEF Writes, WritesOf, Fresh
<1>23. Closed(me.journal, Acc)'
  BY <1>2, <1>13, <1>14 DEF Acc
<1> QED BY <1>19, <1>20, <1>21, <1>22, <1>23 DEF Inv

-----------------------------------------------------------------------------
(* What the browser hears.                                                  *)

\* The frame at the head is dealt with, and it was not the end of the connection.
LEMMA TailMail ==
  ASSUME Types, Mail, frames # << >>, frames' = Tail(frames), Head(frames).kind # "closed",
         UNCHANGED << log, open >>, me'.link \notin {"down", "fetched"}
  PROVE  /\ Mail' /\ frames' \in Seq(Frame)
         /\ \A i \in 1..Len(frames) :
              i = 1 \/ (i - 1 \in 1..Len(frames') /\ frames'[i - 1] = frames[i])
<1>1. frames \in Seq(Frame)
  BY DEF Types
<1>2. /\ Head(frames) = frames[1] /\ 1 \in 1..Len(frames)
      /\ frames' \in Seq(Frame) /\ Len(frames') = Len(frames) - 1
      /\ \A i \in 1..Len(frames') : i + 1 \in 1..Len(frames) /\ frames'[i] = frames[i + 1]
  BY <1>1
<1>3. \A i \in 1..Len(frames) :
        i = 1 \/ (i - 1 \in 1..Len(frames') /\ frames'[i - 1] = frames[i])
  BY <1>1, <1>2
<1>4. ASSUME NEW i \in 1..Len(frames'), frames'[i].kind = "mutation"
      PROVE  frames'[i].seq \in 1..Len(log') /\ log'[frames'[i].seq].cid = frames'[i].mut.cid
  <2>1. PICK j \in 1..Len(frames) : frames[j] = frames'[i] /\ frames[j].kind = "mutation"
    BY <1>2, <1>4
  <2>2. frames[j].seq \in 1..Len(log) /\ log[frames[j].seq].cid = frames[j].mut.cid
    BY <2>1 DEF Mail
  <2> QED BY <2>1, <2>2
<1>5. ASSUME NEW i \in 1..Len(frames'), frames'[i].kind = "batch" PROVE FALSE
  <2>1. PICK j \in 1..Len(frames) : j = i + 1 /\ frames[j].kind = "batch"
    BY <1>2, <1>5
  <2>2. j = 1
    BY <2>1 DEF Mail
  <2> QED BY <2>1, <2>2
<1>6. ASSUME NEW i \in 1..Len(frames'), frames'[i].kind = "closed"
      PROVE  i = Len(frames') /\ ~open'
  <2>1. PICK j \in 1..Len(frames) : j = i + 1 /\ frames[j].kind = "closed"
    BY <1>2, <1>6
  <2>2. j = Len(frames) /\ ~open
    BY <2>1 DEF Mail
  <2>3. Len(frames) \in Nat /\ Len(frames') = Len(frames) - 1 /\ i \in Int
    BY <1>1, <1>2
  <2>4. i = Len(frames')
    BY ONLY <2>1, <2>2, <2>3
  <2> QED BY <2>2, <2>4
<1>7. ASSUME ~open' PROVE frames' # << >> /\ frames'[Len(frames')].kind = "closed"
  <2>0. me.link \notin {"down", "fetched"} /\ ~open
    BY <1>7 DEF Mail
  <2>1. frames[Len(frames)].kind = "closed" /\ Len(frames) \in Nat
    BY <1>1, <2>0 DEF Mail
  <2>2. Len(frames) # 1
    BY <1>2, <2>1
  <2>3. Len(frames') \in 1..Len(frames') /\ Len(frames') + 1 = Len(frames)
    BY <1>2, <2>1, <2>2
  <2>4. frames'[Len(frames')] = frames[Len(frames)]
    BY <1>2, <2>3
  <2>5. frames' # << >>
    <3>1. Len(frames') # 0
      BY ONLY <2>1, <2>2, <2>3
    <3> QED BY ONLY <3>1
  <2>6. frames'[Len(frames')].kind = "closed"
    BY ONLY <2>1, <2>4
  <2> QED BY ONLY <2>5, <2>6
<1>8. Mail'
  BY <1>4, <1>5, <1>6, <1>7 DEF Mail
<1> QED BY <1>2, <1>3, <1>8

\* The browser becomes d: a write that is left and has not been put back is an old
\* one, not the one that is answered, and not on the board yet.
LEMMA HeardKeeps ==
  ASSUME Inv, frames # << >>, frames' = Tail(frames), Head(frames).kind # "closed",
         UNCHANGED << log, queue, open, used >>, deferred \subseteq deferred',
         NEW d, me' = d, IsBrowser(d), d.seq <= Len(log), Closed(d.journal, Acc),
         d.link \notin {"down", "fetched"},
         \A w \in Range(d.buffered) :
           /\ w.mut.cid \in used.mine
           /\ \/ w.mut.cid \in deferred'
              \/ /\ w \in Range(me.buffered) /\ ~Answers(Head(frames), w.mut.cid)
                 /\ d.link = me.link /\ d.paused = me.paused
                 /\ Fresh(me, w) => \A n \in 1..d.seq : log[n].cid # w.mut.cid
  PROVE  Inv'
<1>1. Types /\ Mail /\ Owned /\ Writes
  BY DEF Inv
<1>2. /\ Mail' /\ frames' \in Seq(Frame)
      /\ \A i \in 1..Len(frames) :
           i = 1 \/ (i - 1 \in 1..Len(frames') /\ frames'[i - 1] = frames[i])
  BY <1>1, TailMail
<1>3. Head(frames) = frames[1]
  BY <1>1 DEF Types
<1>4. Types'
  BY <1>1, <1>2 DEF Types, IsBrowser
<1>5. Owned'
  BY <1>1 DEF Owned
<1>6. ASSUME NEW w \in Range(d.buffered), w.mut.cid \notin deferred'
      PROVE  Fresh(d, w)'
  <2>1. /\ w \in Range(me.buffered) /\ ~Answers(Head(frames), w.mut.cid)
        /\ d.link = me.link /\ d.paused = me.paused
        /\ Fresh(me, w) => \A n \in 1..d.seq : log[n].cid # w.mut.cid
    BY <1>6
  <2>2. Fresh(me, w)
    BY <1>1, <1>6, <2>1 DEF Writes, WritesOf
  <2>3. ASSUME UnderWay(w.mut.cid) PROVE UnderWay(w.mut.cid)'
    <3>1. CASE \E i \in 1..Len(queue) : queue[i].here /\ queue[i].mut.cid = w.mut.cid
      BY <3>1 DEF UnderWay
    <3>2. CASE \E i \in 1..Len(frames) : Answers(frames[i], w.mut.cid)
      <4>1. PICK i \in 1..Len(frames) : Answers(frames[i], w.mut.cid)
        BY <3>2
      <4>2. i # 1
        BY <1>3, <2>1, <4>1
      <4>3. i - 1 \in 1..Len(frames') /\ frames'[i - 1] = frames[i]
        BY <1>2, <4>2
      <4> QED BY <4>1, <4>3 DEF UnderWay, Answers
    <3> QED BY <2>3, <3>1, <3>2 DEF UnderWay
  <2> QED BY <2>1, <2>2, <2>3 DEF Fresh
<1>7. Writes'
  BY <1>6 DEF Writes, WritesOf, Fresh
<1>8. Closed(me.journal, Acc)'
  BY DEF Acc
<1> QED BY <1>2, <1>4, <1>5, <1>7, <1>8 DEF Inv

LEMMA DeliverMutationKeeps ==
  ASSUME Inv, frames # << >>, DeliverMutation(Head(frames))
  PROVE  Inv'
<1> DEFINE frame == Head(frames)
           m == frame.mut
<1>1. Types /\ Mail /\ Owned /\ Writes /\ Closed(me.journal, Acc)
  BY DEF Inv
<1>2. frame.kind = "mutation" /\ UNCHANGED << log, queue, used, deferred >>
  BY DEF DeliverMutation
<1>3. /\ IsBrowser(me) /\ me.seq \in Nat /\ me.seq <= Len(log)
      /\ log \in Seq(Mutations) /\ frames \in Seq(Frame)
  BY <1>1 DEF Types, IsBrowser, Browser
<1>4. frame = frames[1] /\ 1 \in 1..Len(frames)
  BY <1>3
<1>5. frame.seq \in 1..Len(log) /\ log[frame.seq].cid = m.cid
  BY <1>1, <1>2, <1>4 DEF Mail
<1>6. me.link \notin {"down", "fetched"}
  BY <1>1 DEF Mail
<1>7. \A cid : Answers(frame, cid) <=> cid = m.cid
  BY <1>2 DEF Answers
<1>8. \A w \in Range(me.buffered) : w.mut.cid \in used.mine
  BY <1>1 DEF Writes, WritesOf
<1> HIDE DEF m, frame
<1>9. CASE frame.seq <= me.seq /\ UNCHANGED << me, crossed, open >> /\ frames' = Tail(frames)
  <2>1. PICK d : d = me
    OBVIOUS
  <2>2. ASSUME NEW w \in Range(me.buffered), Fresh(me, w)
        PROVE  w.mut.cid # m.cid
    BY <1>3, <1>5, <1>9, <2>2 DEF Fresh
  <2>3. ASSUME NEW w \in Range(d.buffered)
        PROVE  /\ w.mut.cid \in used.mine
               /\ \/ w.mut.cid \in deferred'
                  \/ /\ w \in Range(me.buffered) /\ ~Answers(Head(frames), w.mut.cid)
                     /\ d.link = me.link /\ d.paused = me.paused
                     /\ Fresh(me, w) => \A n \in 1..d.seq : log[n].cid # w.mut.cid
    <3>1. w \in Range(me.buffered) /\ w.mut.cid \in used.mine
      BY <1>8, <2>1
    <3>2. w.mut.cid \in deferred \/ Fresh(me, w)
      BY <1>1, <3>1 DEF Writes, WritesOf
    <3>3. CASE Fresh(me, w)
      <4>1. ~Answers(Head(frames), w.mut.cid)
        BY <1>7, <2>2, <3>1, <3>3 DEF frame
      <4>2. \A n \in 1..d.seq : log[n].cid # w.mut.cid
        BY <2>1, <3>3 DEF Fresh
      <4> QED BY <2>1, <3>1, <4>1, <4>2
    <3> QED BY <1>2, <3>1, <3>2, <3>3
  <2>4. /\ me' = d /\ IsBrowser(d) /\ d.seq <= Len(log) /\ Closed(d.journal, Acc)
        /\ d.link \notin {"down", "fetched"}
    BY <1>1, <1>3, <1>6, <1>9, <2>1
  <2>5. /\ Head(frames).kind # "closed" /\ frames' = Tail(frames)
        /\ UNCHANGED << log, queue, open, used >> /\ deferred \subseteq deferred'
    BY <1>2, <1>9 DEF frame
  <2> QED BY <2>3, <2>4, <2>5, HeardKeeps
<1>10. CASE me' = Resync(me, FALSE) /\ open' = FALSE /\ frames' = << >>
  <2>1. used' \in [mine : SUBSET Ids, faults : Nat] /\ used'.mine = used.mine
    BY <1>1, <1>2 DEF Types
  <2> QED BY <1>2, <1>10, <2>1, ResyncKeeps
<1>11. ASSUME frame.seq = me.seq + 1, frames' = Tail(frames), UNCHANGED open,
              NEW d, me' = d, Shrunk(me, d, {m.cid}), d.seq \in {me.seq, me.seq + 1},
              Closed(d.journal, Acc)
       PROVE  Inv'
  <2>1. ASSUME NEW w \in Range(d.buffered)
        PROVE  /\ w.mut.cid \in used.mine
               /\ \/ w.mut.cid \in deferred'
                  \/ /\ w \in Range(me.buffered) /\ ~Answers(Head(frames), w.mut.cid)
                     /\ d.link = me.link /\ d.paused = me.paused
                     /\ Fresh(me, w) => \A n \in 1..d.seq : log[n].cid # w.mut.cid
    <3>1. w \in Range(me.buffered) /\ w.mut.cid # m.cid
      BY <1>11 DEF Shrunk
    <3>2. ~Answers(Head(frames), w.mut.cid)
      BY <1>7, <3>1 DEF frame
    <3>3. ASSUME Fresh(me, w), NEW n \in 1..d.seq PROVE log[n].cid # w.mut.cid
      <4>1. n \in 1..me.seq \/ n = frame.seq
        BY <1>3, <1>11, <3>3
      <4> QED BY <1>5, <3>1, <3>3, <4>1 DEF Fresh
    <3> QED BY <1>8, <1>11, <3>1, <3>2, <3>3 DEF Shrunk
  <2>2. d.seq <= Len(log)
    BY <1>3, <1>5, <1>11
  <2>3. /\ me' = d /\ IsBrowser(d) /\ Closed(d.journal, Acc)
        /\ d.link \notin {"down", "fetched"}
    BY <1>6, <1>11 DEF Shrunk
  <2>4. /\ Head(frames).kind # "closed" /\ frames' = Tail(frames)
        /\ UNCHANGED << log, queue, open, used >> /\ deferred \subseteq deferred'
    BY <1>2, <1>11 DEF frame
  <2> QED BY <2>1, <2>2, <2>3, <2>4, HeardKeeps
<1>12. CASE /\ frame.seq = me.seq + 1 /\ frames' = Tail(frames) /\ UNCHANGED open
            /\ me' = ConfirmOwn(me, m.cid)
  <2>1. m.cid \in Acc
    BY <1>5 DEF Acc
  <2>2. PICK d : d = ConfirmOwn(me, m.cid)
    OBVIOUS
  <2>3. Shrunk(me, d, {m.cid}) /\ d.seq = me.seq + 1 /\ Closed(d.journal, Acc)
    BY <1>1, <1>3, <2>1, <2>2, ConfirmIs
  <2> QED BY <1>11, <1>12, <2>2, <2>3
<1>13. CASE /\ frame.seq = me.seq + 1 /\ frames' = Tail(frames) /\ UNCHANGED open
            /\ me' = HandleMessage(PruneForAuthoritative(me, m), m)
  <2>1. PICK e : e = PruneForAuthoritative(me, m)
    OBVIOUS
  <2>2. Shrunk(me, e, {}) /\ e.seq = me.seq /\ Closed(e.journal, Acc)
    BY <1>1, <1>3, <2>1, AuthoritativeIs
  <2>3. PICK d : d = HandleMessage(e, m)
    OBVIOUS
  <2>4. /\ Shrunk(e, d, {m.cid}) /\ d.seq \in {e.seq, e.seq + 1} /\ d.journal = e.journal
    <3>1. IsBrowser(e)
      BY <2>2 DEF Shrunk
    <3> QED BY ONLY <2>3, <3>1, HandleIs
  <2>5. Shrunk(me, d, {m.cid})
    BY <2>2, <2>4 DEF Shrunk
  <2>6. d.seq \in {me.seq, me.seq + 1} /\ Closed(d.journal, Acc) /\ me' = d
    BY <1>13, <2>1, <2>2, <2>3, <2>4
  <2> QED BY <1>11, <1>13, <2>5, <2>6
<1>14. \/ frame.seq <= me.seq /\ UNCHANGED << me, crossed, open >> /\ frames' = Tail(frames)
       \/ me' = Resync(me, FALSE) /\ open' = FALSE /\ frames' = << >>
       \/ /\ frame.seq = me.seq + 1 /\ frames' = Tail(frames) /\ UNCHANGED open
          /\ me' = ConfirmOwn(me, m.cid) \/ me' = HandleMessage(PruneForAuthoritative(me, m), m)
  BY DEF DeliverMutation, frame, m
<1> QED BY <1>9, <1>10, <1>12, <1>13, <1>14

LEMMA DeliverRejectionKeeps ==
  ASSUME Inv, frames # << >>, DeliverRejection(Head(frames))
  PROVE  Inv'
<1> DEFINE frame == Head(frames)
<1>1. Types /\ Mail /\ Owned /\ Writes /\ Closed(me.journal, Acc)
  BY DEF Inv
<1>2. /\ frame.kind = "rejected" /\ me' = Rejected(me, frame.cid) /\ frames' = Tail(frames)
      /\ UNCHANGED << log, queue, open, used, deferred >>
  BY DEF DeliverRejection
<1>3. IsBrowser(me) /\ me.seq <= Len(log) /\ me.link \notin {"down", "fetched"}
  BY <1>1 DEF Types, Mail
<1>4. PICK cid : cid = frame.cid
  OBVIOUS
<1>5. PICK e : e = ResolveBuffered(me, cid)
  OBVIOUS
<1>6. Shrunk(me, e, {cid}) /\ e.seq = me.seq /\ e.journal = me.journal
  BY <1>3, <1>5, ResolveIs
<1>7. PICK d : d = RejectEntries(e, {cid})
  OBVIOUS
<1>8. /\ IsBrowser(d) /\ Closed(d.journal, Acc) /\ d.seq = e.seq /\ d.buffered = e.buffered
      /\ d.link = e.link /\ d.paused = e.paused
  <2>1. IsBrowser(e) /\ Closed(e.journal, Acc)
    BY <1>1, <1>6 DEF Shrunk
  <2> QED BY <1>7, <2>1, RejectClosed
<1>9. me' = d
  BY <1>2, <1>4, <1>5, <1>7 DEF Rejected
<1>10. ASSUME NEW w \in Range(d.buffered)
       PROVE  /\ w.mut.cid \in used.mine
              /\ \/ w.mut.cid \in deferred'
                 \/ /\ w \in Range(me.buffered) /\ ~Answers(Head(frames), w.mut.cid)
                    /\ d.link = me.link /\ d.paused = me.paused
                    /\ Fresh(me, w) => \A n \in 1..d.seq : log[n].cid # w.mut.cid
  <2>1. w \in Range(me.buffered) /\ w.mut.cid # cid
    BY <1>6, <1>8 DEF Shrunk
  <2>2. ~Answers(Head(frames), w.mut.cid)
    BY <1>2, <1>4, <2>1 DEF Answers
  <2>3. d.link = me.link /\ d.paused = me.paused /\ d.seq = me.seq
    BY <1>6, <1>8 DEF Shrunk
  <2>4. w.mut.cid \in used.mine
    BY <1>1, <2>1 DEF Writes, WritesOf
  <2>5. Fresh(me, w) => \A n \in 1..d.seq : log[n].cid # w.mut.cid
    BY <2>3 DEF Fresh
  <2> QED BY <2>1, <2>2, <2>3, <2>4, <2>5
<1>11. d.seq <= Len(log) /\ d.link \notin {"down", "fetched"}
  BY <1>3, <1>6, <1>8 DEF Shrunk
<1>12. /\ Head(frames).kind # "closed" /\ frames' = Tail(frames)
       /\ UNCHANGED << log, queue, open, used >> /\ deferred \subseteq deferred'
  BY <1>2
<1> HIDE DEF frame
<1> QED BY <1>8, <1>9, <1>10, <1>11, <1>12, HeardKeeps

\* A rate limit puts every write back.
LEMMA DeferIs ==
  ASSUME NEW c, IsBrowser(c), NEW d, d = [Defer(c) EXCEPT !.paused = TRUE]
  PROVE  /\ IsBrowser(d) /\ d.seq = c.seq /\ d.link = c.link /\ d.journal = c.journal
         /\ \A w \in Range(d.buffered) : \E v \in Range(c.buffered) : w.mut = v.mut
<1> DEFINE back(w) == [w EXCEPT !.state = "queued", !.redraw = TRUE]
           b == [k \in DOMAIN c.buffered |-> back(c.buffered[k])]
<1>1. c.buffered \in Seq(Write)
  BY DEF IsBrowser, Browser
<1>2. \A w \in Write : back(w) \in Write /\ back(w).mut = w.mut
  BY DEF Write
<1>3. d = [c EXCEPT !.buffered = b, !.paused = TRUE]
  BY DEF Defer, IsBrowser, Browser
<1> HIDE DEF back
<1>4. b \in Seq(Write) /\ \A w \in Range(b) : \E v \in Range(c.buffered) : w.mut = v.mut
  <2>1. DOMAIN c.buffered = 1..Len(c.buffered) /\ Len(c.buffered) \in Nat
    BY <1>1
  <2>2. \A k \in 1..Len(c.buffered) : back(c.buffered[k]) \in Write
                                      /\ back(c.buffered[k]).mut = c.buffered[k].mut
    BY <1>1, <1>2
  <2>3. b \in Seq(Write)
    BY <2>1, <2>2
  <2> QED BY <2>1, <2>2, <2>3 DEF Range
<1> HIDE DEF b
<1>5. /\ IsBrowser(d) /\ d.seq = c.seq /\ d.link = c.link /\ d.journal = c.journal
      /\ d.buffered = b
  BY <1>3, <1>4 DEF IsBrowser, Browser
<1> QED BY <1>4, <1>5

LEMMA DeliverRateLimitKeeps ==
  ASSUME Inv, frames # << >>, DeliverRateLimit(Head(frames))
  PROVE  Inv'
<1>1. Types /\ Mail /\ Owned /\ Writes /\ Closed(me.journal, Acc)
  BY DEF Inv
<1>2. /\ Head(frames).kind # "closed" /\ me' = [Defer(me) EXCEPT !.paused = TRUE]
      /\ frames' = Tail(frames) /\ deferred' = deferred \cup BufferedIds(me)
      /\ UNCHANGED << log, queue, open, used >>
  BY DEF DeliverRateLimit
<1>3. IsBrowser(me) /\ me.seq <= Len(log) /\ me.link \notin {"down", "fetched"}
  BY <1>1 DEF Types, Mail
<1>4. PICK d : d = me'
  OBVIOUS
<1>5. /\ IsBrowser(d) /\ d.seq = me.seq /\ d.link = me.link /\ d.journal = me.journal
      /\ \A w \in Range(d.buffered) : \E v \in Range(me.buffered) : w.mut = v.mut
  BY <1>2, <1>3, <1>4, DeferIs
<1>6. ASSUME NEW w \in Range(d.buffered)
      PROVE  w.mut.cid \in used.mine /\ w.mut.cid \in deferred'
  <2>1. PICK v \in Range(me.buffered) : w.mut = v.mut
    BY <1>5
  <2>2. v.mut.cid \in used.mine
    BY <1>1 DEF Writes, WritesOf
  <2>3. v.mut.cid \in BufferedIds(me)
    BY DEF BufferedIds, Range
  <2> QED BY <1>2, <2>1, <2>2, <2>3
<1>7. d.seq <= Len(log) /\ d.link \notin {"down", "fetched"} /\ Closed(d.journal, Acc)
      /\ deferred \subseteq deferred'
  BY <1>1, <1>2, <1>3, <1>5
<1> QED BY <1>2, <1>4, <1>5, <1>6, <1>7, HeardKeeps

LEMMA DeliverCloseKeeps ==
  ASSUME Inv, frames # << >>, DeliverClose(Head(frames))
  PROVE  Inv'
<1>1. Types /\ Mail
  BY DEF Inv
<1>2. /\ Head(frames).kind = "closed" /\ me' = Resync(me, me.paused)
      /\ frames' = Tail(frames) /\ UNCHANGED << log, queue, open, used, deferred >>
  BY DEF DeliverClose
<1>3. frames \in Seq(Frame) /\ me.paused \in BOOLEAN
  BY <1>1 DEF Types, IsBrowser, Browser
<1>4. Head(frames) = frames[1] /\ 1 \in 1..Len(frames)
  BY <1>3
<1>5. Len(frames) = 1 /\ open = FALSE
  BY <1>1, <1>2, <1>4 DEF Mail, Types
<1>6. frames' = << >> /\ open' = FALSE
  BY <1>2, <1>3, <1>5
<1>7. used' \in [mine : SUBSET Ids, faults : Nat] /\ used'.mine = used.mine
  BY <1>1, <1>2 DEF Types
<1> QED BY <1>2, <1>3, <1>6, <1>7, ResyncKeeps

LEMMA DeliverBatchKeeps ==
  ASSUME Inv, frames # << >>, DeliverBatch(Head(frames))
  PROVE  Inv'
<1> DEFINE frame == Head(frames)
<1>1. Types /\ Mail /\ Owned /\ Writes /\ Closed(me.journal, Acc)
  BY DEF Inv
<1>2. /\ frame.kind = "batch" /\ frames' = Tail(frames)
      /\ UNCHANGED << log, open, used, deferred >>
  BY DEF DeliverBatch
<1>3. /\ IsBrowser(me) /\ me.seq \in Nat /\ log \in Seq(Mutations) /\ frames \in Seq(Frame)
  BY <1>1 DEF Types, IsBrowser, Browser
<1>4. frame = frames[1] /\ 1 \in 1..Len(frames) /\ frame \in Frame
  BY <1>3
<1>5. me.link = "replaying" /\ me.seq + Len(frame.muts) <= Len(log) /\ Len(frame.muts) \in Nat
  BY <1>1, <1>2, <1>4 DEF Mail, Frame
<1>6. PICK muts : muts = frame.muts
  OBVIOUS
<1>7. PICK e : e = Replayed(me, muts)
  OBVIOUS
<1>8. Shrunk(me, e, {}) /\ e.journal = me.journal /\ e.seq <= me.seq + Len(muts)
  BY <1>3, <1>5, <1>6, <1>7, ReplayedIs
<1>9. PICK c : c = [e EXCEPT !.link = "live"]
  OBVIOUS
<1>10. /\ IsBrowser(c) /\ c.link = "live" /\ c.seq = e.seq /\ c.journal = e.journal
       /\ c.buffered = e.buffered
  <2>1. IsBrowser(e)
    BY <1>8 DEF Shrunk
  <2> QED BY <1>9, <2>1 DEF IsBrowser, Browser
<1>11. c.seq <= Len(log) /\ Closed(c.journal, Acc)
  <2>1. e.seq \in Nat /\ Len(log) \in Nat
    BY <1>3, <1>8 DEF Shrunk, IsBrowser, Browser
  <2> QED BY <1>1, <1>3, <1>5, <1>6, <1>8, <1>10, <2>1
<1>12. \A w \in Range(c.buffered) : w.mut.cid \in used.mine /\ w.mut.cid \in deferred
  <2>1. \A w \in Range(me.buffered) : w.mut.cid \in used.mine /\ w.mut.cid \in deferred
    BY <1>1, <1>5, PausedOrDown
  <2> QED BY <1>8, <1>10, <2>1 DEF Shrunk
<1>13. \/ \E upto \in 0..Len(c.buffered) :
            me' = Pump(c, upto).client /\ Emitted(Pump(c, upto).sent)
       \/ me' = c /\ UNCHANGED queue
  <2>1. c = [Replayed(me, frame.muts) EXCEPT !.link = "live"]
    BY <1>6, <1>7, <1>9
  <2> HIDE DEF frame
  <2> QED BY <2>1 DEF DeliverBatch, frame
<1>14. CASE \E upto \in 0..Len(c.buffered) :
              me' = Pump(c, upto).client /\ Emitted(Pump(c, upto).sent)
  <2>1. PICK upto \in 0..Len(c.buffered) :
          me' = Pump(c, upto).client /\ Emitted(Pump(c, upto).sent)
    BY <1>14
  <2>2. me'.link = "live"
    BY <1>10, <1>11, <2>1, PumpIs DEF Pumped
  <2>3. Mail' /\ frames' \in Seq(Frame)
    BY <1>1, <1>2, <2>2, TailMail
  <2>4. WritesOf(c, used.mine)
    BY <1>12 DEF WritesOf
  <2> HIDE DEF frame
  <2> QED BY <1>2, <1>10, <1>11, <1>12, <2>1, <2>3, <2>4, PumpedKeeps
<1>15. CASE me' = c /\ UNCHANGED queue
  <2>1. Head(frames).kind # "closed" /\ deferred \subseteq deferred'
    BY <1>2
  <2>2. ASSUME NEW w \in Range(c.buffered)
        PROVE  w.mut.cid \in used.mine /\ w.mut.cid \in deferred'
    BY <1>2, <1>12
  <2> HIDE DEF frame
  <2> QED BY <1>2, <1>10, <1>11, <1>15, <2>1, <2>2, HeardKeeps
<1> QED BY <1>13, <1>14, <1>15

-----------------------------------------------------------------------------
(* The theorems.                                                            *)

LEMMA InvNext == Inv /\ [Next]_vars => Inv'
<1> SUFFICES ASSUME Inv, [Next]_vars PROVE Inv'
  OBVIOUS
<1>1. ASSUME NEW m \in Mine, DrawAndSend(m) PROVE Inv'
  BY <1>1, DrawAndSendKeeps
<1>2. CASE Flush
  BY <1>2, FlushKeeps
<1>3. CASE EndPause
  BY <1>3, EndPauseKeeps
<1>4. CASE FetchBaseline
  BY <1>4, FetchKeeps
<1>5. CASE Join
  BY <1>5, JoinKeeps
<1>6. CASE JoinRefused
  BY <1>6, JoinRefusedKeeps
<1>7. CASE Deliver
  BY <1>7, DeliverMutationKeeps, DeliverRejectionKeeps, DeliverRateLimitKeeps,
     DeliverCloseKeeps, DeliverBatchKeeps DEF Deliver
<1>8. CASE Accept
  BY <1>8, AcceptKeeps
<1>9. CASE Refuse
  BY <1>9, RefuseKeeps
<1>10. CASE RateLimit
  BY <1>10, RateLimitKeeps
<1>11. CASE LoseConnection
  BY <1>11, LoseConnectionKeeps
<1>12. ASSUME NEW m \in Theirs, AcceptTheirs(m) PROVE Inv'
  BY <1>12, AcceptTheirsKeeps
<1>13. CASE UNCHANGED vars
  <2>1. UNCHANGED << me, log, queue, frames, open, used, deferred >>
    BY <1>13 DEF vars
  <2>2. Types' /\ Mail' /\ Owned' /\ Closed(me.journal, Acc)'
    BY <2>1 DEF Inv, Types, Mail, Owned, Acc, IsBrowser
  <2>3. Writes'
    BY <2>1 DEF Inv, Writes, WritesOf, Fresh, UnderWay, Answers
  <2> QED BY <2>2, <2>3 DEF Inv
<1> QED BY <1>1, <1>2, <1>3, <1>4, <1>5, <1>6, <1>7, <1>8, <1>9, <1>10, <1>11, <1>12, <1>13
        DEF Next

LEMMA InvHolds == Spec => []Inv
BY InvInit, InvNext, PTL DEF Spec

\* What rests on a rejected write goes when it goes (expandRejectedIds): whatever an
\* entry of the journal needs is pending itself or on the board of the server.
THEOREM DependentsFollow == Spec => []DependentsGoTogether
<1>1. Inv => DependentsGoTogether
  <2> SUFFICES ASSUME Inv, NEW e \in Range(me.journal), NEW cid \in e.needs
               PROVE  cid \in EntryIds(me) \/ Accepted(cid)
    BY DEF DependentsGoTogether
  <2>1. cid \in Entries(me.journal) \cup Acc
    BY DEF Inv, Closed
  <2>2. CASE cid \in Entries(me.journal)
    BY <2>2 DEF Entries, EntryIds, Range
  <2>3. CASE cid \in Acc
    <3>1. DOMAIN log = 1..Len(log)
      BY DEF Inv, Types
    <3> QED BY <2>3, <3>1 DEF Acc, Accepted
  <2> QED BY <2>1, <2>2, <2>3
<1> QED BY <1>1, InvHolds, PTL

\* A write in flight that no rate limit has put back is never left without an answer:
\* when nothing is under way either way, none of these waits any more, whatever
\* connections, rejections and resynchronisations there were.
THEOREM AnswersCome == Spec => []AnswersSettle
<1>1. Inv => AnswersSettle
  <2> SUFFICES ASSUME Inv, me.link = "live", queue = << >>, frames = << >>,
                      NEW w \in Range(me.buffered), w.state = "inflight"
               PROVE  w.mut.cid \in deferred
    BY DEF AnswersSettle, InFlight
  <2>1. open
    BY DEF Inv, Mail
  <2>2. ~UnderWay(w.mut.cid)
    BY DEF UnderWay
  <2> QED BY <2>1, <2>2 DEF Inv, Writes, WritesOf, Fresh
<1> QED BY <1>1, InvHolds, PTL

-----------------------------------------------------------------------------
(* The screen.                                                              *)

IsView(v) == v = [i \in Items |-> v[i]]

\* What a mutation leaves on an item.
Put(v, m, i) ==
  IF i \notin Draws(m) THEN v[i]
  ELSE IF m.op = "copy" THEN v[m.from]
  ELSE IF m.op \in {"delete", "clear"} THEN Nothing ELSE m.cid

LEMMA DrawIs ==
  ASSUME NEW v, IsView(v), NEW m
  PROVE  IsView(Draw(v, m)) /\ \A i \in Items : Draw(v, m)[i] = Put(v, m, i)
<1>1. DOMAIN v = Items
  BY DEF IsView
<1>2. CASE m.op = "copy"
  BY <1>1, <1>2 DEF IsView, Draw, Put, Draws
<1>3. CASE m.op = "delete"
  BY <1>1, <1>3 DEF IsView, Draw, Put, Draws
<1>4. CASE m.op = "clear"
  BY <1>1, <1>4 DEF IsView, Draw, Put, Draws
<1>5. CASE m.op \notin {"copy", "delete", "clear"}
  BY <1>1, <1>5 DEF IsView, Draw, Put, Draws
<1> QED BY <1>2, <1>3, <1>4, <1>5

LEMMA AfterIs ==
  ASSUME NEW muts, NEW n \in Nat
  PROVE  /\ After(muts, 0) = [i \in Items |-> Nothing]
         /\ After(muts, n + 1) = Draw(After(muts, n), muts[n + 1])
<1> DEFINE Start == [i \in Items |-> Nothing]
           Is(f, k) == f = [j \in 0..k |-> IF j = 0 THEN Start ELSE Draw(f[j - 1], muts[j])]
           board(k) == CHOOSE f : Is(f, k)
<1>1. ASSUME NEW k \in Nat PROVE After(muts, k) = board(k)[k]
  BY DEF After
<1> HIDE DEF Start
<1>2. ASSUME NEW N \in Nat PROVE \E f : Is(f, N)
  <2> DEFINE P == {k \in 0..N : \E f : Is(f, k)}
  <2>1. 0 \in P
    <3> DEFINE f == [k \in 0..0 |-> Start]
    <3>1. Is(f, 0)
      OBVIOUS
    <3> HIDE DEF f, Is
    <3> QED BY <3>1
  <2>2. ASSUME NEW k \in 0..N, k # N, k \in P PROVE k + 1 \in P
    <3>1. PICK f : Is(f, k)
      BY <2>2
    <3> DEFINE g == [j \in 0..(k + 1) |-> IF j = k + 1 THEN Draw(f[k], muts[k + 1]) ELSE f[j]]
    <3>2. /\ k \in Nat /\ k + 1 \in 0..N
          /\ \A j \in 0..k : j \in 0..(k + 1) /\ j # k + 1
          /\ \A j \in 0..(k + 1) : j # 0 /\ j # k + 1 => j \in 0..k /\ j - 1 \in 0..k /\ j \in Int
      BY <2>2
    <3>3. g[0] = Start /\ g[k + 1] = Draw(g[k], muts[k + 1])
      BY <3>1, <3>2
    <3>4. ASSUME NEW j \in 0..(k + 1), j # 0, j # k + 1 PROVE g[j] = Draw(g[j - 1], muts[j])
      BY <3>1, <3>2, <3>4
    <3>5. ASSUME NEW j \in 0..(k + 1)
          PROVE  g[j] = IF j = 0 THEN Start ELSE Draw(g[j - 1], muts[j])
      <4>1. CASE j = 0
        BY <3>3, <4>1
      <4>2. CASE j = k + 1
        <5>1. j - 1 = k /\ j # 0
          BY <3>2, <4>2
        <5> HIDE DEF g
        <5> QED BY <3>3, <4>2, <5>1
      <4>3. CASE j # 0 /\ j # k + 1
        BY <3>4, <4>3
      <4> QED BY <4>1, <4>2, <4>3
    <3>6. g = [j \in 0..(k + 1) |-> g[j]]
      OBVIOUS
    <3> HIDE DEF g
    <3>7. Is(g, k + 1)
      BY <3>5, <3>6
    <3> HIDE DEF Is
    <3> QED BY <3>2, <3>7
  <2>3. 0..N \subseteq P
    <3> HIDE DEF P
    <3> QED BY <2>1, <2>2, HandedOn
  <2> QED BY <2>3
<1>3. ASSUME NEW k \in Nat PROVE Is(board(k), k)
  <2> HIDE DEF Is
  <2> QED BY <1>2
<1> HIDE DEF board
<1>4. ASSUME NEW k \in Nat
      PROVE  board(k)[0] = Start
             /\ \A j \in 0..k : j # 0 => board(k)[j] = Draw(board(k)[j - 1], muts[j])
  <2>1. Is(board(k), k)
    BY <1>3
  <2> DEFINE f == board(k)
  <2>2. f = [j \in 0..k |-> IF j = 0 THEN Start ELSE Draw(f[j - 1], muts[j])]
    BY <2>1
  <2> HIDE DEF f
  <2>3. f[0] = Start /\ \A j \in 0..k : j # 0 => f[j] = Draw(f[j - 1], muts[j])
    BY <2>2
  <2> QED BY <2>3 DEF f
<1> HIDE DEF Is
<1>5. board(n)[n] = board(n + 1)[n]
  <2> DEFINE P == {k \in 0..n : board(n)[k] = board(n + 1)[k]}
  <2>1. 0 \in P
    BY <1>4
  <2>2. ASSUME NEW k \in 0..n, k # n, k \in P PROVE k + 1 \in P
    <3>1. k + 1 \in 0..n /\ k + 1 \in 0..(n + 1) /\ k + 1 # 0 /\ (k + 1) - 1 = k /\ n + 1 \in Nat
      BY <2>2
    <3>2. /\ board(n)[k + 1] = Draw(board(n)[k], muts[k + 1])
          /\ board(n + 1)[k + 1] = Draw(board(n + 1)[k], muts[k + 1])
      BY <1>4, <3>1
    <3> QED BY <2>2, <3>1, <3>2
  <2>3. 0..n \subseteq P
    <3> HIDE DEF P
    <3> QED BY <2>1, <2>2, HandedOn
  <2> QED BY <2>3
<1>6. board(n + 1)[n + 1] = Draw(board(n + 1)[n], muts[n + 1])
  <2>1. n + 1 \in 0..(n + 1) /\ n + 1 # 0 /\ (n + 1) - 1 = n /\ n + 1 \in Nat
    OBVIOUS
  <2> QED BY <1>4, <2>1
<1>7. After(muts, 0) = Start
  BY <1>1, <1>4
<1>8. After(muts, n) = board(n)[n] /\ After(muts, n + 1) = board(n + 1)[n + 1]
  BY <1>1
<1> QED BY <1>5, <1>6, <1>7, <1>8 DEF Start

\* The board depends on the mutations so far only.
LEMMA AfterSame ==
  ASSUME NEW muts, NEW others, NEW n \in Nat, \A k \in 1..n : muts[k] = others[k]
  PROVE  After(muts, n) = After(others, n)
<1> DEFINE P == {k \in 0..n : After(muts, k) = After(others, k)}
<1>1. 0 \in P
  BY AfterIs
<1>2. ASSUME NEW k \in 0..n, k # n, k \in P PROVE k + 1 \in P
  <2>1. k \in Nat /\ k + 1 \in 1..n
    BY <1>2
  <2>2. /\ After(muts, k + 1) = Draw(After(muts, k), muts[k + 1])
        /\ After(others, k + 1) = Draw(After(others, k), others[k + 1])
    BY <2>1, AfterIs
  <2> QED BY <1>2, <2>1, <2>2
<1>3. 0..n \subseteq P
  <2> HIDE DEF P
  <2> QED BY <1>1, <1>2, HandedOn
<1> QED BY <1>3

LEMMA AfterView == ASSUME NEW muts, NEW n \in Nat PROVE IsView(After(muts, n))
<1> DEFINE P == {k \in 0..n : IsView(After(muts, k))}
<1>1. 0 \in P
  <2>1. After(muts, 0) = [i \in Items |-> Nothing]
    BY AfterIs
  <2> QED BY ONLY <2>1 DEF IsView
<1>2. ASSUME NEW k \in 0..n, k # n, k \in P PROVE k + 1 \in P
  <2>1. k \in Nat /\ k + 1 \in 0..n
    BY <1>2
  <2>2. After(muts, k + 1) = Draw(After(muts, k), muts[k + 1])
    BY <2>1, AfterIs
  <2> QED BY <1>2, <2>1, <2>2, DrawIs
<1>3. 0..n \subseteq P
  <2> HIDE DEF P
  <2> QED BY <1>1, <1>2, HandedOn
<1> QED BY <1>3

\* What nothing changes stays.
LEMMA Constant ==
  ASSUME NEW h, NEW i, NEW x \in Nat, NEW y \in Nat, x <= y,
         \A z \in x..(y - 1) : h[z + 1][i] = h[z][i]
  PROVE  h[y][i] = h[x][i]
<1> DEFINE n == y - x
           P == {k \in 0..n : h[x + k][i] = h[x][i]}
<1>1. n \in Nat /\ x + n = y
  OBVIOUS
<1>2. 0 \in P
  BY <1>1
<1>3. ASSUME NEW k \in 0..n, k # n, k \in P PROVE k + 1 \in P
  <2>1. x + k \in x..(y - 1) /\ (x + k) + 1 = x + (k + 1) /\ k + 1 \in 0..n
    BY <1>1, <1>3
  <2>2. h[(x + k) + 1][i] = h[x + k][i]
    BY <2>1
  <2> QED BY <1>3, <2>1, <2>2
<1> HIDE DEF n
<1>4. 0..n \subseteq P
  <2> HIDE DEF P
  <2> QED BY <1>1, <1>2, <1>3, HandedOn
<1>5. n \in 0..n
  BY <1>1
<1> QED BY <1>1, <1>4, <1>5

\* What is taken back leaves each item as the first write that draws it found it.
LEMMA UndoneIs ==
  ASSUME NEW view, IsView(view), NEW rejected, Len(rejected) \in Nat,
         \A k \in 1..Len(rejected) : DOMAIN rejected[k].undo \subseteq Items,
         NEW v, v = Undone(view, rejected)
  PROVE  /\ IsView(v)
         /\ \A i \in Items :
              /\ (\A k \in 1..Len(rejected) : i \notin DOMAIN rejected[k].undo) => v[i] = view[i]
              /\ \A k \in 1..Len(rejected) :
                   i \in DOMAIN rejected[k].undo
                     /\ (\A l \in 1..(k - 1) : i \notin DOMAIN rejected[l].undo)
                   => v[i] = rejected[k].undo[i]
<1> DEFINE N == Len(rejected)
           Step(k, x) == Restored(x, rejected[N + 1 - k].undo)
           Is(f, n) == f = [k \in 0..n |-> IF k = 0 THEN view ELSE Step(k, f[k - 1])]
           back == CHOOSE f : Is(f, N)
           undo(k) == rejected[k].undo
           OK(k, x) == /\ IsView(x)
                       /\ \A i \in Items :
                            /\ (\A l \in (N + 1 - k)..N : i \notin DOMAIN undo(l)) => x[i] = view[i]
                            /\ \A l \in (N + 1 - k)..N :
                                 i \in DOMAIN undo(l)
                                   /\ (\A j \in (N + 1 - k)..(l - 1) : i \notin DOMAIN undo(j))
                                 => x[i] = undo(l)[i]
<1>1. v = back[N]
  BY DEF Undone
<1>2. OK(0, view)
  <2>1. (N + 1 - 0)..N = {}
    OBVIOUS
  <2> QED BY <2>1
<1>3. ASSUME NEW k \in 0..N, k # N, NEW x, OK(k, x) PROVE OK(k + 1, Step(k + 1, x))
  <2> DEFINE p == N + 1 - (k + 1)
             w == Step(k + 1, x)
  <2>1. p \in 1..N /\ N + 1 - k = p + 1 /\ p \in Int /\ N \in Int
    BY <1>3
  <2>2. /\ DOMAIN undo(p) \subseteq Items /\ w = [i \in Items |-> w[i]]
        /\ \A i \in Items : w[i] = IF i \in DOMAIN undo(p) THEN undo(p)[i] ELSE x[i]
    BY <2>1 DEF Restored
  <2> HIDE DEF w
  <2>4. IsView(w)
    BY <2>2 DEF IsView
  <2>5. \A l \in p..N : l # p => l \in (p + 1)..N
    BY <2>1
  <2>6. \A l \in (p + 1)..N : l \in p..N /\ p \in p..(l - 1) /\ (p + 1)..(l - 1) \subseteq p..(l - 1)
    BY <2>1
  <2>7. p \in p..N
    BY <2>1
  <2>8. \A i \in Items :
          /\ (\A l \in (p + 1)..N : i \notin DOMAIN undo(l)) => x[i] = view[i]
          /\ \A l \in (p + 1)..N :
               i \in DOMAIN undo(l) /\ (\A j \in (p + 1)..(l - 1) : i \notin DOMAIN undo(j))
               => x[i] = undo(l)[i]
    BY <1>3, <2>1
  <2> HIDE DEF p, undo
  <2>9. ASSUME NEW i \in Items
        PROVE  /\ (\A l \in p..N : i \notin DOMAIN undo(l)) => w[i] = view[i]
               /\ \A l \in p..N :
                    i \in DOMAIN undo(l) /\ (\A j \in p..(l - 1) : i \notin DOMAIN undo(j))
                    => w[i] = undo(l)[i]
    <3>1. CASE i \in DOMAIN undo(p)
      <4>1. \A l \in p..N : (\A j \in p..(l - 1) : i \notin DOMAIN undo(j)) => l = p
        BY <2>5, <2>6, <3>1
      <4> QED BY <2>2, <2>7, <3>1, <4>1
    <3>2. CASE i \notin DOMAIN undo(p)
      <4>1. w[i] = x[i]
        BY <2>2, <3>2
      <4>2. ASSUME \A l \in p..N : i \notin DOMAIN undo(l) PROVE w[i] = view[i]
        BY <2>6, <2>8, <4>1, <4>2
      <4>3. ASSUME NEW l \in p..N, i \in DOMAIN undo(l),
                   \A j \in p..(l - 1) : i \notin DOMAIN undo(j)
            PROVE  w[i] = undo(l)[i]
        <5>1. l \in (p + 1)..N
          BY <2>5, <3>2, <4>3
        <5>2. \A j \in (p + 1)..(l - 1) : i \notin DOMAIN undo(j)
          BY <2>6, <4>3, <5>1
        <5> QED BY <2>8, <4>1, <4>3, <5>1, <5>2
      <4> QED BY <4>2, <4>3
    <3> QED BY <3>1, <3>2
  <2> QED BY <2>4, <2>9 DEF p, w
<1> HIDE DEF Step, OK
<1>4. \E f : Is(f, N)
  <2> DEFINE P == {n \in 0..N : \E f : Is(f, n)}
  <2>1. 0 \in P
    <3> DEFINE f == [k \in 0..0 |-> view]
    <3>1. Is(f, 0)
      OBVIOUS
    <3> HIDE DEF f, Is
    <3> QED BY <3>1
  <2>2. ASSUME NEW n \in 0..N, n # N, n \in P PROVE n + 1 \in P
    <3>1. PICK f : Is(f, n)
      BY <2>2
    <3> DEFINE g == [k \in 0..(n + 1) |-> IF k = n + 1 THEN Step(n + 1, f[n]) ELSE f[k]]
    <3>2. /\ n \in Nat /\ n + 1 \in 0..N
          /\ \A k \in 0..n : k \in 0..(n + 1) /\ k # n + 1
          /\ \A k \in 0..(n + 1) : k # 0 /\ k # n + 1 => k \in 0..n /\ k - 1 \in 0..n /\ k \in Int
      BY <2>2
    <3>3. g[0] = view /\ g[n + 1] = Step(n + 1, g[n])
      BY <3>1, <3>2
    <3>4. ASSUME NEW k \in 0..(n + 1), k # 0, k # n + 1 PROVE g[k] = Step(k, g[k - 1])
      BY <3>1, <3>2, <3>4
    <3>5. ASSUME NEW k \in 0..(n + 1)
          PROVE  g[k] = IF k = 0 THEN view ELSE Step(k, g[k - 1])
      <4>1. CASE k = 0
        BY <3>3, <4>1
      <4>2. CASE k = n + 1
        <5>1. k - 1 = n /\ k # 0
          BY <3>2, <4>2
        <5> HIDE DEF g
        <5> QED BY <3>3, <4>2, <5>1
      <4>3. CASE k # 0 /\ k # n + 1
        BY <3>4, <4>3
      <4> QED BY <4>1, <4>2, <4>3
    <3>6. g = [k \in 0..(n + 1) |-> g[k]]
      OBVIOUS
    <3> HIDE DEF g
    <3>7. Is(g, n + 1)
      BY <3>5, <3>6
    <3> HIDE DEF Is
    <3> QED BY <3>2, <3>7
  <2>3. 0..N \subseteq P
    <3> HIDE DEF P
    <3> QED BY <2>1, <2>2, HandedOn
  <2> QED BY <2>3
<1>5. Is(back, N)
  <2> HIDE DEF Is
  <2> QED BY <1>4
<1> HIDE DEF back
<1>6. back[0] = view /\ \A k \in 0..N : k # 0 => back[k] = Step(k, back[k - 1])
  BY <1>5
<1> DEFINE Q == {k \in 0..N : OK(k, back[k])}
<1>7. 0 \in Q
  BY <1>2, <1>6
<1>8. ASSUME NEW k \in 0..N, k # N, k \in Q PROVE k + 1 \in Q
  <2>1. k + 1 \in 0..N /\ k + 1 # 0 /\ (k + 1) - 1 = k
    BY <1>8
  <2>2. back[k + 1] = Step(k + 1, back[k])
    BY <1>6, <2>1
  <2> QED BY <1>3, <1>8, <2>1, <2>2
<1>9. 0..N \subseteq Q
  <2> HIDE DEF Q
  <2> QED BY <1>7, <1>8, HandedOn
<1>10. OK(N, back[N])
  BY <1>9
<1>11. N + 1 - N = 1
  OBVIOUS
<1> QED BY <1>1, <1>10, <1>11 DEF OK

-----------------------------------------------------------------------------
(* Places of a sequence.                                                    *)

\* The embedding g of what is chosen: increasing, its image the places chosen, at
\* nothing else than which it jumps over.
Embeds(g, s, t, places) ==
  LET n == Len(s)
      next(k) == IF k = Len(t) THEN n + 1 ELSE g[k + 1]
      first   == IF Len(t) = 0 THEN n + 1 ELSE g[1]
  IN /\ \A k \in 1..Len(t) : g[k] \in places /\ t[k] = s[g[k]]
     /\ \A p \in places : \E k \in 1..Len(t) : g[k] = p
     /\ \A k, l \in 1..Len(t) : k < l => g[k] < g[l]
     /\ first \in 1..(n + 1) /\ \A x \in 1..(first - 1) : x \notin places
     /\ \A k \in 1..Len(t) : /\ next(k) \in (g[k] + 1)..(n + 1)
                             /\ \A x \in (g[k] + 1)..(next(k) - 1) : x \notin places

LEMMA ChosenEmbeds ==
  ASSUME NEW S, NEW s \in Seq(S), NEW places \in SUBSET (1..Len(s))
  PROVE  \E g : Embeds(g, s, Chosen(s, places), places)
<1> DEFINE n == Len(s)
           m == Cardinality(places)
           at(r) == CHOOSE p \in places : Rank(places, p) = r
           g == [r \in 1..m |-> at(r)]
           t == Chosen(s, places)
<1>1. /\ IsFiniteSet(places) /\ m \in Nat /\ n \in Nat
      /\ \A i \in places : Rank(places, i) \in 1..m
      /\ \A i, j \in places : i < j => Rank(places, i) < Rank(places, j)
  <2>1. n \in Nat /\ places \in SUBSET (1..n)
    OBVIOUS
  <2> QED BY <2>1, Ranks
<1>2. \A r \in 1..m : \E p \in places : Rank(places, p) = r
  <2> DEFINE f == [i \in places |-> Rank(places, i)]
  <2>1. f \in [places -> 1..m]
    BY <1>1
  <2>2. \A i, j \in places : f[i] = f[j] => i = j
    <3> SUFFICES ASSUME NEW i \in places, NEW j \in places, i # j PROVE f[i] # f[j]
      OBVIOUS
    <3>1. i < j \/ j < i
      OBVIOUS
    <3>2. f[i] \in Int /\ f[j] \in Int
      BY <1>1
    <3>3. (i < j => f[i] < f[j]) /\ (j < i => f[j] < f[i])
      BY <1>1
    <3> HIDE DEF f
    <3> QED BY <3>1, <3>2, <3>3
  <2>3. f \in Injection(places, 1..m)
    <3> HIDE DEF f, m
    <3> QED BY <2>1, <2>2 DEF Injection, IsInjective
  <2>4. IsFiniteSet(1..m) /\ Cardinality(1..m) = m
    BY <1>1, FS_Interval
  <2>5. f \in Surjection(places, 1..m)
    <3> HIDE DEF f
    <3> QED BY <1>1, <2>3, <2>4, FS_Injection
  <2>6. \A r \in 1..m : \E p \in places : f[p] = r
    <3> HIDE DEF f, m
    <3> QED BY <2>5 DEF Surjection
  <2> QED BY <2>6
<1>3. \A r \in 1..m : g[r] \in places /\ Rank(places, g[r]) = r
  BY <1>2
<1>4. t = [r \in 1..m |-> s[g[r]]]
  BY DEF Chosen, Rank
<1>5. Len(t) = m /\ \A k \in 1..m : t[k] = s[g[k]]
  BY <1>1, <1>4
<1>6. \A p \in places : Rank(places, p) \in 1..m /\ g[Rank(places, p)] = p
  <2> SUFFICES ASSUME NEW p \in places
               PROVE  Rank(places, p) \in 1..m /\ g[Rank(places, p)] = p
    OBVIOUS
  <2> DEFINE q == g[Rank(places, p)]
  <2>1. /\ Rank(places, p) \in 1..m /\ q \in places /\ Rank(places, q) = Rank(places, p)
    BY <1>1, <1>3
  <2> HIDE DEF g
  <2>2. ~(p < q) /\ ~(q < p)
    <3>1. p < q => Rank(places, p) < Rank(places, q)
      BY <1>1, <2>1
    <3>2. q < p => Rank(places, q) < Rank(places, p)
      BY <1>1, <2>1
    <3>3. Rank(places, p) \in Int
      BY <2>1
    <3> QED BY <2>1, <3>1, <3>2, <3>3
  <2>3. p \in Int /\ q \in Int
    <3>1. places \subseteq Int
      OBVIOUS
    <3> HIDE DEF q
    <3> QED BY <2>1, <3>1
  <2> QED BY <2>1, <2>2, <2>3
<1>7. \A k, l \in 1..m : k < l => g[k] < g[l]
  <2> SUFFICES ASSUME NEW k \in 1..m, NEW l \in 1..m, k < l PROVE g[k] < g[l]
    OBVIOUS
  <2>1. g[k] \in places /\ g[l] \in places /\ Rank(places, g[k]) = k /\ Rank(places, g[l]) = l
    BY <1>3
  <2> HIDE DEF g
  <2>2. g[k] # g[l] /\ ~(g[l] < g[k]) /\ g[k] \in Int /\ g[l] \in Int
    <3>1. g[l] < g[k] => l < k
      BY <1>1, <2>1
    <3>2. places \subseteq Int
      OBVIOUS
    <3>3. g[k] \in Int /\ g[l] \in Int
      BY <2>1, <3>2
    <3>4. g[k] # g[l]
      BY <2>1
    <3> QED BY <3>1, <3>3, <3>4
  <2> QED BY <2>2
<1> HIDE DEF g, t, m
<1> DEFINE next(k) == IF k = m THEN n + 1 ELSE g[k + 1]
           first == IF m = 0 THEN n + 1 ELSE g[1]
<1>8. \A k \in 1..m : g[k] \in 1..n
  BY <1>3
<1>9. first \in 1..(n + 1) /\ \A x \in 1..(first - 1) : x \notin places
  <2>1. first \in 1..(n + 1)
    BY <1>1, <1>8
  <2>2. ASSUME NEW x \in 1..(first - 1), x \in places PROVE FALSE
    <3>1. PICK k \in 1..m : g[k] = x
      BY <1>6, <2>2
    <3>2. m # 0 /\ first = g[1] /\ 1 \in 1..m
      BY <1>1, <3>1
    <3>3. k = 1 \/ g[1] < g[k]
      BY <1>7, <3>1, <3>2
    <3>4. x < first
      BY <2>1, <2>2
    <3> QED BY <1>8, <3>1, <3>2, <3>3, <3>4
  <2> QED BY <2>1, <2>2
<1>10. ASSUME NEW k \in 1..m
       PROVE  next(k) \in (g[k] + 1)..(n + 1) /\ \A x \in (g[k] + 1)..(next(k) - 1) : x \notin places
  <2>1. next(k) \in (g[k] + 1)..(n + 1)
    <3>1. k # m => k + 1 \in 1..m /\ k < k + 1
      BY <1>1
    <3>2. k # m => g[k] < g[k + 1]
      BY <1>7, <3>1
    <3> QED BY <1>1, <1>8, <3>1, <3>2
  <2>2. ASSUME NEW x \in (g[k] + 1)..(next(k) - 1), x \in places PROVE FALSE
    <3>1. PICK l \in 1..m : g[l] = x
      BY <1>6, <2>2
    <3>2. g[k] < x /\ x < next(k) /\ g[k] \in Int /\ x \in Int
      BY <1>8, <2>1, <2>2
    <3>3. l > k
      BY <1>7, <1>8, <3>1, <3>2
    <3>4. k + 1 \in 1..m /\ next(k) = g[k + 1]
      BY <1>1, <3>3
    <3>5. l = k + 1 \/ g[k + 1] < g[l]
      BY <1>7, <3>3, <3>4
    <3> QED BY <1>8, <3>1, <3>2, <3>4, <3>5
  <2> QED BY <2>1, <2>2
<1> QED BY <1>3, <1>5, <1>6, <1>7, <1>9, <1>10 DEF Embeds, t

LEMMA ChosenAll ==
  ASSUME NEW S, NEW s \in Seq(S) PROVE Chosen(s, 1..Len(s)) = s
<1> DEFINE n == Len(s)
           at(r) == CHOOSE p \in 1..n : Rank(1..n, p) = r
<1>1. n \in Nat /\ Cardinality(1..n) = n
  <2>1. n \in Nat /\ 1 \in Int
    OBVIOUS
  <2>2. Cardinality(1..n) = IF 1 > n THEN 0 ELSE n - 1 + 1
    BY <2>1, FS_Interval
  <2> QED BY <2>1, <2>2
<1>2. \A p \in 1..n : Rank(1..n, p) = p
  <2> SUFFICES ASSUME NEW p \in 1..n PROVE Rank(1..n, p) = p
    OBVIOUS
  <2>1. {j \in 1..n : j <= p} = 1..p
    OBVIOUS
  <2>2. Cardinality(1..p) = p
    BY FS_Interval
  <2> QED BY <2>1, <2>2 DEF Rank
<1>3. \A r \in 1..n : at(r) = r
  BY <1>2
<1>4. Chosen(s, 1..n) = [r \in 1..n |-> s[at(r)]]
  BY <1>1 DEF Chosen, Rank
<1> HIDE DEF at
<1>5. Chosen(s, 1..n) = [r \in 1..n |-> s[r]]
  BY <1>3, <1>4
<1>6. s = [r \in 1..n |-> s[r]]
  OBVIOUS
<1> QED BY <1>5, <1>6

LEMMA Least ==
  ASSUME NEW T \in SUBSET Nat, T # {} PROVE \E x \in T : \A y \in T : x <= y
<1> DEFINE R == OpToRel(<, Nat)
<1>1. IsWellFoundedOn(R, Nat)
  BY NatLessThanWellFounded
<1>2. \A x, y \in Nat : x < y => << x, y >> \in R
  BY DEF OpToRel
<1> HIDE DEF R
<1>3. PICK x \in T : \A y \in T : ~ (<< y, x >> \in R)
  BY <1>1, WFMin, Zenon
<1>4. ASSUME NEW y \in T PROVE x <= y
  <2>1. x \in Nat /\ y \in Nat /\ ~(y < x)
    BY <1>2, <1>3
  <2> QED BY <2>1
<1> QED BY <1>3, <1>4

LEMMA Drawing ==
  ASSUME NEW m \in Mutations
  PROVE  /\ m.id \in Items /\ m.from \in Items /\ Draws(m) \subseteq Items /\ m.id \in Draws(m)
         /\ Affected(m) \subseteq Draws(m) /\ (m.op # "clear" => Draws(m) = {m.id})
<1>1. m.id \in Items /\ m.from \in Items
  BY IdsAssumption
<1> QED BY <1>1 DEF Draws, Affected

\* The entries of a journal: own writes, each once, with what each item it draws is
\* to be taken back to.
Journalled(journal, mine) ==
  /\ journal \in Seq(Range(journal))
  /\ \A p \in 1..Len(journal) :
       /\ journal[p].mut \in Mine /\ journal[p].mut.cid \in mine
       /\ DOMAIN journal[p].undo = Draws(journal[p].mut)
  /\ \A p, q \in 1..Len(journal) : journal[p].mut.cid = journal[q].mut.cid => p = q

\* a tells how the screen has come about from the board base, but for the lost items:
\* a[p] is what the p-th pending write has found, and what it is to be taken back to.
\* At the places skipped nothing has happened.
Told(a, view, journal, base, lost, skipped) ==
  \A i \in Items \ lost :
    /\ a[1][i] = base[i] /\ a[Len(journal) + 1][i] = view[i]
    /\ \A p \in 1..Len(journal) :
         IF p \in skipped THEN a[p + 1][i] = a[p][i]
         ELSE /\ a[p + 1][i] = Put(a[p], journal[p].mut, i)
              /\ i \in Draws(journal[p].mut) => journal[p].undo[i] = a[p][i]

SpreadOver(journal, lost) ==
  \A p \in 1..Len(journal) :
    journal[p].mut.op = "copy" /\ journal[p].mut.from \in lost => journal[p].mut.id \in lost

\* What a pending copy copies comes from a pending write it needs, if from any.
Needed(journal, lost) ==
  \A p \in 1..Len(journal) :
    journal[p].mut.op = "copy" /\ journal[p].mut.id \notin lost =>
      \A q \in 1..(p - 1) : journal[p].mut.from \in Draws(journal[q].mut) =>
        \E r \in q..(p - 1) : /\ journal[p].mut.from \in Affected(journal[r].mut)
                              /\ journal[r].mut.cid \in journal[p].needs

Story(view, journal, base, lost) ==
  /\ SpreadOver(journal, lost) /\ Needed(journal, lost)
  /\ \E a : Told(a, view, journal, base, lost, {})

LEMMA StoryMore ==
  ASSUME NEW view, NEW journal, NEW base, NEW lost, NEW more, lost \subseteq more,
         Story(view, journal, base, lost), SpreadOver(journal, more)
  PROVE  Story(view, journal, base, more)
<1>1. PICK a : Told(a, view, journal, base, lost, {})
  BY DEF Story
<1>2. Told(a, view, journal, base, more, {})
  BY <1>1 DEF Told
<1>3. Needed(journal, more)
  BY DEF Story, Needed
<1> QED BY <1>2, <1>3 DEF Story

\* What is left of a journal tells the story without the places skipped.
LEMMA SkippedTold ==
  ASSUME NEW journal, journal \in Seq(Range(journal)), NEW kept \in SUBSET (1..Len(journal)),
         NEW h, NEW view, NEW base, NEW lost,
         Told(h, view, journal, base, lost, (1..Len(journal)) \ kept)
  PROVE  \E a : Told(a, view, Chosen(journal, kept), base, lost, {})
<1> DEFINE n == Len(journal)
           t == Chosen(journal, kept)
<1>1. t \in Seq(Range(journal)) /\ n \in Nat
  <2>1. kept \in SUBSET (DOMAIN journal)
    OBVIOUS
  <2> QED BY <2>1, ChosenIs
<1>2. PICK g : Embeds(g, journal, t, kept)
  BY ChosenEmbeds
<1> HIDE DEF t
<1> DEFINE m == Len(t)
           place(k) == IF k = m + 1 THEN n + 1 ELSE g[k]
           a == [k \in 1..(m + 1) |-> h[place(k)]]
<1>3. m \in Nat
  BY <1>1
<1>4. place(1) \in 1..(n + 1) /\ \A x \in 1..(place(1) - 1) : x \notin kept
  <2>1. place(1) = IF m = 0 THEN n + 1 ELSE g[1]
    BY <1>3
  <2> QED BY <1>2, <2>1 DEF Embeds
<1>5. ASSUME NEW k \in 1..m
      PROVE  /\ place(k) = g[k] /\ g[k] \in kept /\ g[k] \in 1..n /\ t[k] = journal[g[k]]
             /\ place(k + 1) \in (g[k] + 1)..(n + 1)
             /\ \A x \in (g[k] + 1)..(place(k + 1) - 1) : x \notin kept
  <2>1. k # m + 1 /\ (k + 1 = m + 1 <=> k = m)
    BY <1>3
  <2>2. place(k + 1) = IF k = m THEN n + 1 ELSE g[k + 1]
    BY <2>1
  <2>3. g[k] \in kept /\ t[k] = journal[g[k]]
    BY <1>2 DEF Embeds
  <2>4. place(k + 1) \in (g[k] + 1)..(n + 1)
        /\ \A x \in (g[k] + 1)..(place(k + 1) - 1) : x \notin kept
    BY <1>2, <2>2 DEF Embeds
  <2> QED BY <2>1, <2>3, <2>4
<1>6. \A k \in 1..(m + 1) : a[k] = h[place(k)]
  OBVIOUS
<1>7. place(m + 1) = n + 1 /\ 1 \in 1..(m + 1) /\ m + 1 \in 1..(m + 1)
      /\ \A k \in 1..m : k \in 1..(m + 1) /\ k + 1 \in 1..(m + 1)
  BY <1>3
<1> HIDE DEF a, place
<1>8. ASSUME NEW i \in Items \ lost
      PROVE  /\ a[1][i] = base[i] /\ a[m + 1][i] = view[i]
             /\ \A k \in 1..m : /\ a[k + 1][i] = Put(a[k], t[k].mut, i)
                                /\ i \in Draws(t[k].mut) => t[k].undo[i] = a[k][i]
  <2>1. \A x \in 1..n : x \notin kept => h[x + 1][i] = h[x][i]
    BY DEF Told
  <2>2. a[1][i] = base[i]
    <3>1. h[place(1)][i] = h[1][i]
      <4>1. place(1) \in Nat /\ 1 <= place(1)
        BY <1>1, <1>4
      <4>2. \A z \in 1..(place(1) - 1) : h[z + 1][i] = h[z][i]
        BY <1>1, <1>4, <2>1
      <4> QED BY <4>1, <4>2, Constant
    <3> QED BY <1>6, <1>7, <3>1 DEF Told
  <2>3. a[m + 1][i] = view[i]
    BY <1>6, <1>7 DEF Told
  <2>4. ASSUME NEW k \in 1..m
        PROVE  /\ a[k + 1][i] = Put(a[k], t[k].mut, i)
               /\ i \in Draws(t[k].mut) => t[k].undo[i] = a[k][i]
    <3>1. h[place(k + 1)][i] = h[g[k] + 1][i]
      <4> DEFINE x == g[k] + 1
                 y == place(k + 1)
      <4>1. x \in Nat /\ y \in Nat /\ x <= y
        BY <1>1, <1>5
      <4>2. \A z \in x..(y - 1) : h[z + 1][i] = h[z][i]
        BY <1>1, <1>5, <2>1
      <4> HIDE DEF x, y
      <4>3. h[y][i] = h[x][i]
        BY ONLY <4>1, <4>2, Constant
      <4> QED BY <4>3 DEF x, y
    <3>2. /\ h[g[k] + 1][i] = Put(h[g[k]], journal[g[k]].mut, i)
          /\ i \in Draws(journal[g[k]].mut) => journal[g[k]].undo[i] = h[g[k]][i]
      BY <1>5 DEF Told
    <3>3. a[k] = h[g[k]] /\ a[k + 1] = h[place(k + 1)] /\ t[k] = journal[g[k]]
      BY <1>5, <1>6, <1>7
    <3> QED BY <3>1, <3>2, <3>3
  <2> QED BY <2>2, <2>3, <2>4
<1>9. Told(a, view, t, base, lost, {})
  BY <1>8 DEF Told
<1> QED BY <1>9 DEF t

\* The rest of what a journal promises survives the choice of some places, if no copy
\* that stays needs a write that goes from between it and what it copies.
LEMMA SkippedKeeps ==
  ASSUME NEW journal, NEW mine, Journalled(journal, mine), NEW kept \in SUBSET (1..Len(journal)),
         NEW lost, Needed(journal, lost),
         \A q, p \in kept, r \in (1..Len(journal)) \ kept :
           /\ q < r /\ r < p /\ journal[p].mut.op = "copy" /\ journal[p].mut.id \notin lost
           /\ journal[p].mut.from \in Draws(journal[q].mut)
           /\ journal[p].mut.from \in Affected(journal[r].mut)
           => journal[r].mut.cid \notin journal[p].needs
  PROVE  /\ Journalled(Chosen(journal, kept), mine) /\ Needed(Chosen(journal, kept), lost)
         /\ Range(Chosen(journal, kept)) = {journal[p] : p \in kept}
<1> DEFINE t == Chosen(journal, kept)
           n == Len(journal)
<1>1. /\ journal \in Seq(Range(journal)) /\ n \in Nat
      /\ t \in Seq(Range(journal)) /\ Range(t) = {journal[p] : p \in kept}
  <2>1. journal \in Seq(Range(journal))
    BY DEF Journalled
  <2>2. kept \in SUBSET (DOMAIN journal)
    BY <2>1
  <2> QED BY <2>1, <2>2, ChosenIs
<1>2. PICK g : Embeds(g, journal, t, kept)
  BY <1>1, ChosenEmbeds
<1> HIDE DEF t
<1> DEFINE m == Len(t)
<1>3. /\ m \in Nat
      /\ \A k \in 1..m : g[k] \in kept /\ g[k] \in 1..n /\ t[k] = journal[g[k]]
      /\ \A p \in kept : \E k \in 1..m : g[k] = p
      /\ \A k, l \in 1..m : k < l => g[k] < g[l]
  <2>1. m \in Nat
    BY <1>1
  <2>2. \A k \in 1..m : g[k] \in kept /\ t[k] = journal[g[k]]
    BY <1>2 DEF Embeds
  <2>3. \A p \in kept : \E k \in 1..m : g[k] = p
    BY <1>2 DEF Embeds
  <2>4. \A k, l \in 1..m : k < l => g[k] < g[l]
    BY <1>2 DEF Embeds
  <2> QED BY <2>1, <2>2, <2>3, <2>4
<1>4. \A k, l \in 1..m : g[k] = g[l] => k = l
  <2> SUFFICES ASSUME NEW k \in 1..m, NEW l \in 1..m, k # l PROVE g[k] # g[l]
    OBVIOUS
  <2>1. k < l \/ l < k
    OBVIOUS
  <2>2. g[k] \in 1..n /\ g[l] \in 1..n
    BY <1>3
  <2> QED BY <1>3, <2>1, <2>2
<1>5. t \in Seq(Range(t))
  BY <1>1 DEF Range
<1>6. Journalled(t, mine)
  <2>1. \A k \in 1..m : /\ t[k].mut \in Mine /\ t[k].mut.cid \in mine
                        /\ DOMAIN t[k].undo = Draws(t[k].mut)
    BY <1>3 DEF Journalled
  <2>2. \A k, l \in 1..m : t[k].mut.cid = t[l].mut.cid => k = l
    <3> SUFFICES ASSUME NEW k \in 1..m, NEW l \in 1..m, t[k].mut.cid = t[l].mut.cid
                 PROVE  k = l
      OBVIOUS
    <3>1. /\ g[k] \in 1..n /\ g[l] \in 1..n
          /\ journal[g[k]].mut.cid = journal[g[l]].mut.cid
      BY <1>3
    <3>2. g[k] = g[l]
      BY <3>1 DEF Journalled
    <3> QED BY <1>4, <3>2
  <2> QED BY <1>5, <2>1, <2>2 DEF Journalled
<1>7. Needed(t, lost)
  <2> SUFFICES ASSUME NEW k \in 1..m, t[k].mut.op = "copy", t[k].mut.id \notin lost,
                      NEW l \in 1..(k - 1), t[k].mut.from \in Draws(t[l].mut)
               PROVE  \E x \in l..(k - 1) : /\ t[k].mut.from \in Affected(t[x].mut)
                                            /\ t[x].mut.cid \in t[k].needs
    BY DEF Needed
  <2>1. l \in 1..m /\ l < k
    BY <1>3
  <2>2. g[l] \in 1..(g[k] - 1) /\ g[l] \in kept /\ g[k] \in kept /\ g[k] \in 1..n
    BY <1>3, <2>1
  <2>3. t[k] = journal[g[k]] /\ t[l] = journal[g[l]]
    BY <1>3, <2>1
  <2>4. PICK r \in g[l]..(g[k] - 1) : /\ t[k].mut.from \in Affected(journal[r].mut)
                                      /\ journal[r].mut.cid \in t[k].needs
    BY <2>2, <2>3 DEF Needed
  <2>5. r \in kept
    <3> SUFFICES ASSUME r \notin kept PROVE FALSE
      OBVIOUS
    <3>1. r \in (1..n) \ kept /\ g[l] # r /\ g[l] < r /\ r < g[k]
      BY <2>2, <2>4
    <3> QED BY <2>2, <2>3, <2>4, <3>1
  <2>6. PICK x \in 1..m : g[x] = r
    BY <1>3, <2>5
  <2>7. x \in l..(k - 1)
    <3>1. ~(x < l)
      BY <1>3, <2>1, <2>2, <2>4, <2>6
    <3>2. ~(k < x) /\ k # x
      BY <1>3, <2>1, <2>2, <2>4, <2>6
    <3> QED BY <2>1, <3>1, <3>2
  <2>8. t[x] = journal[r]
    BY <1>3, <2>6
  <2> QED BY <2>4, <2>7, <2>8
<1> QED BY <1>1, <1>6, <1>7 DEF t

\* The writes at the places gone are taken back: the screen is as if they had never
\* been drawn, where none of them is under a write that stays.
LEMMA TakenBack ==
  ASSUME NEW journal, NEW mine, Journalled(journal, mine),
         NEW kept \in SUBSET (1..Len(journal)),
         NEW view, IsView(view), NEW base, NEW lost, Needed(journal, lost),
         \A p \in kept : journal[p].mut.op = "copy" /\ journal[p].mut.from \in lost
                           => journal[p].mut.id \in lost,
         NEW a, Told(a, view, journal, base, lost, {}),
         \A j \in (1..Len(journal)) \ kept, k \in kept :
           /\ journal[j].mut.cid \notin journal[k].needs
           /\ j < k => Draws(journal[j].mut) \cap Draws(journal[k].mut) \subseteq lost
  PROVE  LET gone == (1..Len(journal)) \ kept
             back == Undone(view, Chosen(journal, gone))
         IN IsView(back) /\ \E h : Told(h, back, journal, base, lost, gone)
<1> DEFINE n == Len(journal)
           gone == (1..n) \ kept
           t == Chosen(journal, gone)
           back == Undone(view, t)
           mut(p) == journal[p].mut
<1>1. journal \in Seq(Range(journal)) /\ n \in Nat /\ gone \in SUBSET (1..n)
  BY DEF Journalled
<1>2. t \in Seq(Range(journal)) /\ Len(t) \in Nat
  <2>1. gone \in SUBSET (DOMAIN journal)
    BY <1>1
  <2> QED BY <1>1, <2>1, ChosenIs
<1>3. PICK g : Embeds(g, journal, t, gone)
  BY <1>1, ChosenEmbeds
<1> HIDE DEF t
<1>4. \A l \in 1..Len(t) : g[l] \in gone /\ t[l] = journal[g[l]]
  BY <1>3 DEF Embeds
<1>5. \A p \in 1..n : /\ mut(p) \in Mutations /\ DOMAIN journal[p].undo = Draws(mut(p))
                      /\ Draws(mut(p)) \subseteq Items
  <2>1. \A p \in 1..n : mut(p) \in Mutations /\ DOMAIN journal[p].undo = Draws(mut(p))
    BY DEF Journalled, Mutations
  <2> QED BY <2>1, Drawing
<1>6. \A l \in 1..Len(t) : DOMAIN t[l].undo = Draws(mut(g[l])) /\ Draws(mut(g[l])) \subseteq Items
  BY <1>4, <1>5
<1>7. /\ IsView(back)
      /\ \A i \in Items :
           /\ (\A k \in 1..Len(t) : i \notin DOMAIN t[k].undo) => back[i] = view[i]
           /\ \A k \in 1..Len(t) :
                i \in DOMAIN t[k].undo /\ (\A l \in 1..(k - 1) : i \notin DOMAIN t[l].undo)
                => back[i] = t[k].undo[i]
  <2>1. IsView(view) /\ Len(t) \in Nat /\ \A k \in 1..Len(t) : DOMAIN t[k].undo \subseteq Items
    BY <1>2, <1>6
  <2>2. back = Undone(view, t)
    OBVIOUS
  <2> HIDE DEF back
  <2>3. IsView(back)
    BY ONLY <2>1, <2>2, UndoneIs
  <2>4. \A i \in Items : (\A k \in 1..Len(t) : i \notin DOMAIN t[k].undo) => back[i] = view[i]
    BY ONLY <2>1, <2>2, UndoneIs
  <2>5. \A i \in Items : \A k \in 1..Len(t) :
          i \in DOMAIN t[k].undo /\ (\A l \in 1..(k - 1) : i \notin DOMAIN t[l].undo)
          => back[i] = t[k].undo[i]
    BY ONLY <2>1, <2>2, UndoneIs
  <2> QED BY ONLY <2>3, <2>4, <2>5
<1> HIDE DEF back
<1> DEFINE First(y, i) == /\ y \in gone /\ i \in Draws(mut(y))
                          /\ \A z \in gone : i \in Draws(mut(z)) => y <= z
           f(i) == CHOOSE y : First(y, i)
           G(i) == {y \in gone : i \in Draws(mut(y))}
           h == [x \in 1..(n + 1) |->
                  [i \in Items |-> IF G(i) # {} /\ f(i) < x THEN a[f(i)][i] ELSE a[x][i]]]
<1>8. ASSUME NEW i, G(i) # {} PROVE First(f(i), i)
  <2>1. G(i) \in SUBSET Nat
    OBVIOUS
  <2>2. \E y \in G(i) : \A z \in G(i) : y <= z
    BY <1>8, <2>1, Least
  <2>3. \E y : First(y, i)
    BY <2>2
  <2> HIDE DEF First
  <2> QED BY <2>3
<1>9. \A x \in 1..(n + 1), i \in Items :
        h[x][i] = IF G(i) # {} /\ f(i) < x THEN a[f(i)][i] ELSE a[x][i]
  OBVIOUS
<1>10. \A i : G(i) # {} => f(i) \in gone /\ f(i) \in 1..n /\ i \in Draws(mut(f(i)))
  BY <1>8
<1>11. \A i : \A z \in gone : i \in Draws(mut(z)) => G(i) # {} /\ f(i) <= z
  BY <1>8
<1> HIDE DEF h, f
<1>12. ASSUME NEW i \in Items \ lost
       PROVE  /\ h[1][i] = base[i] /\ h[n + 1][i] = back[i]
              /\ \A x \in gone : h[x + 1][i] = h[x][i]
              /\ \A x \in kept : /\ h[x + 1][i] = Put(h[x], mut(x), i)
                                 /\ i \in Draws(mut(x)) => journal[x].undo[i] = h[x][i]
  <2>1. /\ a[1][i] = base[i] /\ a[n + 1][i] = view[i]
        /\ \A p \in 1..n : /\ a[p + 1][i] = Put(a[p], mut(p), i)
                           /\ i \in Draws(mut(p)) => journal[p].undo[i] = a[p][i]
    BY DEF Told
  <2>2. h[1][i] = base[i]
    <3>1. 1 \in 1..(n + 1) /\ ~(G(i) # {} /\ f(i) < 1)
      BY <1>1, <1>10
    <3> HIDE DEF G
    <3> QED BY <1>9, <2>1, <3>1
  <2>3. h[n + 1][i] = back[i]
    <3>1. n + 1 \in 1..(n + 1)
      BY <1>1
    <3>2. CASE G(i) = {}
      <4>1. \A l \in 1..Len(t) : i \notin DOMAIN t[l].undo
        BY <1>4, <1>6, <3>2
      <4>2. back[i] = view[i]
        BY <1>7, <4>1
      <4> HIDE DEF G
      <4> QED BY <1>9, <2>1, <3>1, <3>2, <4>2
    <3>3. CASE G(i) # {}
      <4>1. f(i) \in gone /\ f(i) \in 1..n /\ i \in Draws(mut(f(i))) /\ f(i) < n + 1
        BY <1>1, <1>10, <3>3
      <4>2. PICK k \in 1..Len(t) : g[k] = f(i)
        BY <1>3, <4>1 DEF Embeds
      <4>3. ASSUME NEW l \in 1..(k - 1) PROVE i \notin DOMAIN t[l].undo
        <5>1. l \in 1..Len(t) /\ l < k
          BY <1>2
        <5>2. g[l] < g[k] /\ g[l] \in gone
          BY <1>3, <5>1 DEF Embeds
        <5>3. i \notin Draws(mut(g[l]))
          <6>1. g[l] \in Int /\ f(i) \in Int /\ ~(f(i) <= g[l])
            BY <4>1, <4>2, <5>2
          <6> HIDE DEF G
          <6> QED BY <1>11, <5>2, <6>1
        <5> QED BY <1>6, <5>1, <5>3
      <4>4. t[k] = journal[f(i)] /\ DOMAIN t[k].undo = Draws(mut(f(i)))
        BY <1>4, <1>6, <4>2
      <4>5. back[i] = t[k].undo[i]
        <5>1. i \in DOMAIN t[k].undo
          BY <4>1, <4>4
        <5> QED BY <1>7, <4>3, <5>1
      <4>6. back[i] = a[f(i)][i]
        BY <2>1, <4>1, <4>4, <4>5
      <4>7. h[n + 1][i] = a[f(i)][i]
        <5> HIDE DEF G
        <5> QED BY <1>9, <3>1, <3>3, <4>1
      <4> QED BY <4>6, <4>7
    <3> QED BY <3>2, <3>3
  <2>4. ASSUME NEW x \in 1..n
        PROVE  /\ x \in 1..(n + 1) /\ x + 1 \in 1..(n + 1) /\ x \in Int
               /\ i \notin Draws(mut(x)) => a[x + 1][i] = a[x][i]
    BY <1>1, <2>1 DEF Put
  <2>5. ASSUME NEW x \in gone PROVE h[x + 1][i] = h[x][i]
    <3>1. x \in 1..n
      OBVIOUS
    <3>2. CASE G(i) # {} /\ f(i) < x
      <4>1. f(i) < x + 1
        BY <1>10, <3>1, <3>2
      <4> HIDE DEF G
      <4> QED BY <1>9, <2>4, <3>1, <3>2, <4>1
    <3>3. CASE G(i) # {} /\ f(i) = x
      <4>1. f(i) < x + 1 /\ ~(f(i) < x)
        BY <3>1, <3>3
      <4> HIDE DEF G
      <4> QED BY <1>9, <2>4, <3>1, <3>3, <4>1
    <3>4. CASE G(i) = {} \/ f(i) > x
      <4>1. i \notin Draws(mut(x))
        BY <1>10, <1>11, <3>1, <3>4
      <4>2. ~(G(i) # {} /\ f(i) < x) /\ ~(G(i) # {} /\ f(i) < x + 1)
        BY <1>10, <3>1, <3>4
      <4> HIDE DEF G
      <4> QED BY <1>9, <2>4, <3>1, <4>1, <4>2
    <3>5. G(i) # {} => f(i) \in Int
      BY <1>10
    <3> QED BY <3>1, <3>2, <3>3, <3>4, <3>5
  <2>6. ASSUME NEW x \in kept
        PROVE  /\ h[x + 1][i] = Put(h[x], mut(x), i)
               /\ i \in Draws(mut(x)) => journal[x].undo[i] = h[x][i]
    <3>1. x \in 1..n /\ x \notin gone
      OBVIOUS
    <3>2. CASE i \notin Draws(mut(x))
      <4>1. a[x + 1][i] = a[x][i]
        BY <2>4, <3>1, <3>2
      <4>2. G(i) # {} => f(i) \in Int /\ f(i) # x
        BY <1>10, <3>1
      <4>3. G(i) # {} /\ f(i) < x + 1 <=> G(i) # {} /\ f(i) < x
        BY <3>1, <4>2
      <4>4. h[x + 1][i] = h[x][i]
        <5> HIDE DEF G
        <5> QED BY <1>9, <2>4, <3>1, <4>1, <4>3
      <4> QED BY <3>2, <4>4 DEF Put
    <3>3. CASE i \in Draws(mut(x))
      <4>1. ASSUME NEW y \in gone, y < x PROVE i \notin Draws(mut(y))
        BY <3>3, <4>1
      <4>2. G(i) # {} => f(i) \in Int /\ f(i) > x
        BY <1>10, <3>1, <4>1
      <4>3. ~(G(i) # {} /\ f(i) < x) /\ ~(G(i) # {} /\ f(i) < x + 1)
        BY <3>1, <4>2
      <4>4. h[x + 1][i] = a[x + 1][i] /\ h[x][i] = a[x][i]
        <5> HIDE DEF G
        <5> QED BY <1>9, <2>4, <3>1, <4>3
      <4>5. a[x + 1][i] = Put(a[x], mut(x), i) /\ journal[x].undo[i] = a[x][i]
        BY <2>1, <3>1, <3>3
      <4>6. Put(h[x], mut(x), i) = Put(a[x], mut(x), i)
        <5>1. CASE mut(x).op # "copy"
          BY <3>3, <5>1 DEF Put
        <5>2. CASE mut(x).op = "copy"
          <6> DEFINE from == mut(x).from
          <6>1. Draws(mut(x)) = {mut(x).id} /\ i = mut(x).id
            BY <3>3, <5>2 DEF Draws
          <6>2. from \notin lost /\ from \in Items
            <7>1. mut(x) \in Mutations
              BY <1>5, <3>1
            <7> QED BY <5>2, <6>1, <7>1, Drawing
          <6>3. ~(G(from) # {} /\ f(from) < x)
            <7> SUFFICES ASSUME G(from) # {}, f(from) < x PROVE FALSE
              OBVIOUS
            <7>1. /\ f(from) \in gone /\ f(from) \in 1..(x - 1) /\ f(from) \in 1..n
                  /\ from \in Draws(mut(f(from)))
              BY <1>10, <3>1
            <7>2. PICK r \in f(from)..(x - 1) : /\ from \in Affected(mut(r))
                                                /\ mut(r).cid \in journal[x].needs
              BY <3>1, <5>2, <6>1, <7>1 DEF Needed
            <7>3. r \in 1..n
              BY <1>1, <3>1, <7>1, <7>2
            <7>4. r \in kept
              BY <7>2, <7>3
            <7>5. from \in Draws(mut(r))
              BY <7>2, <7>3, <1>5, Drawing
            <7>6. f(from) < r
              <8>1. f(from) # r
                BY <7>1, <7>4
              <8> QED BY <7>1, <7>2, <8>1
            <7>7. from \in lost
              BY <7>1, <7>4, <7>5, <7>6
            <7> QED BY <6>2, <7>7
          <6>4. h[x][from] = a[x][from]
            <7> HIDE DEF G, from
            <7> QED BY <1>9, <2>4, <3>1, <6>2, <6>3
          <6> QED BY <3>3, <5>2, <6>4 DEF Put
        <5> QED BY <5>1, <5>2
      <4> QED BY <4>4, <4>5, <4>6
    <3> QED BY <3>2, <3>3
  <2> QED BY <2>2, <2>3, <2>5, <2>6
<1> HIDE DEF gone
<1>13. Told(h, back, journal, base, lost, gone)
  <2>1. \A p \in 1..n : p \notin gone => p \in kept
    BY DEF gone
  <2> QED BY <1>12, <2>1 DEF Told
<1> QED BY <1>7, <1>13 DEF back, t, gone

LEMMA Places ==
  ASSUME NEW s, s \in Seq(Range(s))
  PROVE  /\ DOMAIN s = 1..Len(s) /\ Len(s) \in Nat
         /\ \A e : e \in Range(s) <=> \E p \in 1..Len(s) : e = s[p]
BY DEF Range

\* A roll back leaves a story, with what is taken back from under what stays lost.
LEMMA RejectStory ==
  ASSUME NEW c, IsBrowser(c), NEW cids, NEW d, d = RejectEntries(c, cids),
         NEW mine, Journalled(c.journal, mine), IsView(c.view),
         NEW base, NEW lost, NEW more, lost \subseteq more,
         Story(c.view, c.journal, base, lost),
         Uncovered(c.journal, PendingMuts(d)) \subseteq more, SpreadOver(d.journal, more)
  PROVE  /\ IsView(d.view) /\ Journalled(d.journal, mine)
         /\ Story(d.view, d.journal, base, more)
<1> DEFINE j == c.journal
           n == Len(j)
           gone == Dependents(j, cids \cap EntryIds(c))
           kept == {k \in 1..n : j[k].mut.cid \notin gone}
           rest == (1..n) \ kept
           v == Undone(c.view, Chosen(j, rest))
<1>1. /\ j \in Seq(Range(j)) /\ n \in Nat /\ DOMAIN j = 1..n
      /\ kept \in SUBSET (1..n) /\ rest \in SUBSET (1..n)
  BY DEF Journalled
<1>2. d.journal = Chosen(j, kept) /\ d.view = v
  <2>1. Without(j, gone) = Chosen(j, kept)
    BY <1>1 DEF Without
  <2>2. {k \in 1..n : j[k].mut.cid \notin EntryIds(c) \ gone} = rest
    BY <1>1 DEF EntryIds
  <2>3. Without(j, EntryIds(c) \ gone) = Chosen(j, rest)
    BY <1>1, <2>2 DEF Without
  <2>4. d = [c EXCEPT !.journal = Without(j, gone),
                      !.view = Undone(c.view, Without(j, EntryIds(c) \ gone))]
    BY DEF RejectEntries
  <2> HIDE DEF gone, kept, rest
  <2>5. d = [c EXCEPT !.journal = Chosen(j, kept), !.view = v]
    BY <2>1, <2>3, <2>4
  <2> HIDE DEF v, j
  <2> QED BY <2>5 DEF IsBrowser, Browser
<1>3. /\ \A p \in 1..n : j[p] \in Range(j) /\ j[p].mut \in Mutations
      /\ \A p, q \in 1..n : j[p].mut.cid = j[q].mut.cid => p = q
  BY <1>1 DEF Journalled, Mutations, Range
<1>4. PendingMuts(d) = {j[p].mut : p \in kept}
      /\ \A p \in kept : \E x \in 1..Len(d.journal) : d.journal[x] = j[p]
  <2>1. Chosen(j, kept) \in Seq(Range(j)) /\ Range(Chosen(j, kept)) = {j[p] : p \in kept}
    <3>1. kept \in SUBSET (DOMAIN j)
      BY <1>1
    <3> HIDE DEF kept
    <3> QED BY <1>1, <3>1, ChosenIs
  <2> HIDE DEF kept, j
  <2>2. Range(d.journal) = {j[p] : p \in kept} /\ DOMAIN d.journal = 1..Len(d.journal)
    BY <1>2, <2>1
  <2>3. PendingMuts(d) = {j[p].mut : p \in kept}
    BY <2>2 DEF PendingMuts
  <2>4. ASSUME NEW p \in kept PROVE \E x \in 1..Len(d.journal) : d.journal[x] = j[p]
    <3>1. j[p] \in Range(d.journal)
      BY <2>2, <2>4
    <3> QED BY ONLY <2>2, <3>1 DEF Range
  <2> QED BY <2>3, <2>4
<1>5. ASSUME NEW p \in rest, NEW k \in kept
      PROVE  /\ j[p].mut.cid \notin j[k].needs
             /\ p < k => Draws(j[p].mut) \cap Draws(j[k].mut) \subseteq more
  <2>1. p \in 1..n /\ k \in 1..n /\ j[p].mut.cid \in gone /\ j[k].mut.cid \notin gone
    OBVIOUS
  <2>2. j[p].mut.cid \notin j[k].needs
    <3> HIDE DEF j, kept, rest
    <3>1. j[k] \in Range(j)
      BY <1>3, <2>1
    <3> QED BY <2>1, <3>1, DependentsClosed
  <2>3. ASSUME p < k, NEW i \in Draws(j[p].mut) \cap Draws(j[k].mut) PROVE i \in more
    <3>1. j[k].mut \in PendingMuts(d)
      BY <1>4
    <3>2. j[p].mut \notin PendingMuts(d)
      <4> SUFFICES ASSUME NEW x \in kept, j[p].mut = j[x].mut PROVE FALSE
        BY <1>4
      <4> QED BY <1>3, <2>1
    <3>3. i \in Items
      BY <1>3, <2>1, Drawing
    <3>4. i \in Uncovered(j, PendingMuts(d))
      BY <1>1, <2>1, <2>3, <3>1, <3>2, <3>3 DEF Uncovered
    <3> QED BY <3>4
  <2> QED BY <2>2, <2>3
<1>6. \A p \in kept : j[p].mut.op = "copy" /\ j[p].mut.from \in more => j[p].mut.id \in more
  <2> HIDE DEF kept, j
  <2> QED BY <1>4 DEF SpreadOver
<1>7. PICK a : Told(a, c.view, j, base, more, {})
  BY DEF Story, Told
<1>8. Needed(j, more)
  BY DEF Story, Needed
<1> HIDE DEF gone, kept
<1>9. IsView(v) /\ \E h : Told(h, v, j, base, more, rest)
  BY <1>1, <1>5, <1>6, <1>7, <1>8, TakenBack
<1> HIDE DEF v
<1>10. \E h : Told(h, v, Chosen(j, kept), base, more, {})
  <2>1. PICK h : Told(h, v, j, base, more, (1..Len(j)) \ kept)
    BY <1>9
  <2> HIDE DEF j
  <2> QED BY <1>1, <2>1, SkippedTold
<1>11. Journalled(Chosen(j, kept), mine) /\ Needed(Chosen(j, kept), more)
  <2>1. \A r \in (1..Len(j)) \ kept, p \in kept : j[r].mut.cid \notin j[p].needs
    BY <1>5
  <2>2. Journalled(j, mine) /\ kept \in SUBSET (1..Len(j))
    BY <1>1
  <2> HIDE DEF j
  <2> QED BY <1>8, <2>1, <2>2, SkippedKeeps
<1> QED BY <1>2, <1>9, <1>10, <1>11 DEF Story

\* A confirmed write leaves the journal and joins the board: earlier pending writes
\* do not meet it.
LEMMA ConfirmStory ==
  ASSUME NEW journal, NEW mine, Journalled(journal, mine), NEW p \in 1..Len(journal),
         NEW view, NEW base, NEW next, NEW lost,
         Story(view, journal, base, lost),
         \A i \in Items : next[i] = Put(base, journal[p].mut, i),
         \A q \in 1..(p - 1) : Meet(journal[q].mut, journal[p].mut) \subseteq lost
  PROVE  LET t == Chosen(journal, (1..Len(journal)) \ {p}) IN
         Journalled(t, mine) /\ Story(view, t, next, lost)
<1> DEFINE n == Len(journal)
           mut(q) == journal[q].mut
           kept == (1..n) \ {p}
           t == Chosen(journal, kept)
<1>1. /\ journal \in Seq(Range(journal)) /\ n \in Nat /\ kept \in SUBSET (1..n)
      /\ p \in Int /\ (1..n) \ kept = {p}
  BY DEF Journalled
<1>2. ASSUME NEW q \in 1..n
      PROVE  /\ mut(q) \in Mutations /\ Draws(mut(q)) \subseteq Items
             /\ mut(q).id \in Items /\ mut(q).from \in Items
             /\ Affected(mut(q)) \subseteq Draws(mut(q))
             /\ mut(q).op = "copy" => Draws(mut(q)) = {mut(q).id}
             /\ mut(q).op = "copy" /\ mut(q).from \in lost => mut(q).id \in lost
  <2>1. mut(q) \in Mutations
    BY DEF Journalled, Mutations
  <2>2. mut(q).op = "copy" /\ mut(q).from \in lost => mut(q).id \in lost
    BY DEF Story, SpreadOver
  <2> HIDE DEF mut
  <2> QED BY <2>1, <2>2, Drawing
<1>3. PICK a : Told(a, view, journal, base, lost, {})
  BY DEF Story
<1>4. \A i \in Items \ lost :
        /\ a[1][i] = base[i] /\ a[n + 1][i] = view[i]
        /\ \A q \in 1..n : /\ a[q + 1][i] = Put(a[q], mut(q), i)
                           /\ i \in Draws(mut(q)) => journal[q].undo[i] = a[q][i]
  BY <1>3 DEF Told
<1>5. ASSUME NEW q \in 1..(p - 1)
      PROVE  /\ q \in 1..n /\ q # p
             /\ \A i \in Items \ lost : i \in Draws(mut(p)) => i \notin Draws(mut(q))
             /\ mut(p).op = "copy" /\ mut(p).id \notin lost => mut(p).from \notin Draws(mut(q))
             /\ mut(q).op = "copy" /\ mut(q).id \notin lost => mut(q).from \notin Draws(mut(p))
  <2>1. q \in 1..n /\ q # p
    BY <1>1
  <2>2. Meet(mut(q), mut(p)) \subseteq lost
    OBVIOUS
  <2> HIDE DEF mut
  <2> QED BY <2>1, <2>2 DEF Meet, Taken
<1> HIDE DEF mut
<1> DEFINE h == [x \in 1..(n + 1) |->
                  [i \in Items |-> IF x <= p /\ i \in Draws(mut(p)) THEN a[p + 1][i] ELSE a[x][i]]]
<1>6. \A x \in 1..(n + 1), i \in Items :
        h[x][i] = IF x <= p /\ i \in Draws(mut(p)) THEN a[p + 1][i] ELSE a[x][i]
  OBVIOUS
<1> HIDE DEF h
<1>7. ASSUME NEW i \in Items \ lost
      PROVE  /\ h[1][i] = next[i] /\ h[n + 1][i] = view[i]
             /\ h[p + 1][i] = h[p][i]
             /\ \A q \in kept : /\ h[q + 1][i] = Put(h[q], mut(q), i)
                                /\ i \in Draws(mut(q)) => journal[q].undo[i] = h[q][i]
  <2>1. 1 \in 1..(n + 1) /\ n + 1 \in 1..(n + 1) /\ 1 <= p /\ ~(n + 1 <= p)
        /\ p \in 1..(n + 1) /\ p + 1 \in 1..(n + 1) /\ ~(p + 1 <= p) /\ p <= p
        /\ p \in Nat /\ 1 \in Nat
    BY <1>1
  <2>2. next[i] = Put(base, mut(p), i)
    BY DEF mut
  <2>3. h[1][i] = next[i]
    <3>1. CASE i \notin Draws(mut(p))
      <4>1. h[1][i] = a[1][i] /\ next[i] = base[i]
        BY <1>6, <2>1, <2>2, <3>1 DEF Put
      <4> QED BY <1>4, <4>1
    <3>2. CASE i \in Draws(mut(p)) /\ mut(p).op # "copy"
      <4>1. h[1][i] = a[p + 1][i]
        BY <1>6, <2>1, <3>2
      <4>2. a[p + 1][i] = Put(a[p], mut(p), i)
        BY <1>4
      <4> QED BY <2>2, <3>2, <4>1, <4>2 DEF Put
    <3>3. CASE i \in Draws(mut(p)) /\ mut(p).op = "copy"
      <4> DEFINE from == mut(p).from
      <4>1. h[1][i] = a[p + 1][i]
        BY <1>6, <2>1, <3>3
      <4>2. a[p + 1][i] = a[p][from] /\ next[i] = base[from]
        BY <1>4, <2>2, <3>3 DEF Put
      <4>3. mut(p).id = i /\ from \in Items \ lost
        BY <1>2, <3>3
      <4>4. \A q \in 1..(p - 1) : a[q + 1][from] = a[q][from]
        <5> SUFFICES ASSUME NEW q \in 1..(p - 1) PROVE a[q + 1][from] = a[q][from]
          OBVIOUS
        <5>1. q \in 1..n /\ from \notin Draws(mut(q))
          BY <1>5, <3>3, <4>3
        <5>2. a[q + 1][from] = Put(a[q], mut(q), from)
          BY <1>4, <4>3, <5>1
        <5> QED BY <5>1, <5>2 DEF Put
      <4> HIDE DEF from
      <4>5. a[p][from] = a[1][from]
        BY ONLY <2>1, <4>4, Constant
      <4>6. a[1][from] = base[from]
        BY <1>4, <4>3
      <4> QED BY <4>1, <4>2, <4>5, <4>6
    <3> QED BY <3>1, <3>2, <3>3
  <2>4. h[n + 1][i] = view[i]
    BY <1>4, <1>6, <2>1
  <2>5. h[p + 1][i] = h[p][i]
    <3>1. i \notin Draws(mut(p)) => a[p + 1][i] = a[p][i]
      BY <1>4 DEF Put
    <3>2. h[p + 1][i] = a[p + 1][i]
      BY <1>6, <2>1
    <3>3. h[p][i] = IF i \in Draws(mut(p)) THEN a[p + 1][i] ELSE a[p][i]
      BY <1>6, <2>1
    <3> QED BY <3>1, <3>2, <3>3
  <2>6. ASSUME NEW q \in kept, q > p
        PROVE  /\ h[q + 1][i] = Put(h[q], mut(q), i)
               /\ i \in Draws(mut(q)) => journal[q].undo[i] = h[q][i]
    <3>1. q \in 1..n /\ q \in 1..(n + 1) /\ q + 1 \in 1..(n + 1) /\ ~(q <= p) /\ ~(q + 1 <= p)
      BY <1>1, <2>6
    <3>2. \A x \in Items : h[q][x] = a[q][x] /\ h[q + 1][x] = a[q + 1][x]
      BY <1>6, <3>1
    <3>3. Put(h[q], mut(q), i) = Put(a[q], mut(q), i)
      BY <1>2, <3>1, <3>2 DEF Put
    <3> QED BY <1>4, <3>1, <3>2, <3>3
  <2>7. ASSUME NEW q \in kept, q < p
        PROVE  /\ h[q + 1][i] = Put(h[q], mut(q), i)
               /\ i \in Draws(mut(q)) => journal[q].undo[i] = h[q][i]
    <3>1. q \in 1..n /\ q \in 1..(n + 1) /\ q + 1 \in 1..(n + 1) /\ q <= p /\ q + 1 <= p
          /\ q \in 1..(p - 1)
      BY <1>1, <2>7
    <3>2. \A x \in Items :
            /\ h[q][x] = IF x \in Draws(mut(p)) THEN a[p + 1][x] ELSE a[q][x]
            /\ h[q + 1][x] = IF x \in Draws(mut(p)) THEN a[p + 1][x] ELSE a[q + 1][x]
      BY <1>6, <3>1
    <3>3. /\ a[q + 1][i] = Put(a[q], mut(q), i)
          /\ i \in Draws(mut(q)) => journal[q].undo[i] = a[q][i]
      BY <1>4, <3>1
    <3>4. CASE i \in Draws(mut(p))
      <4>1. i \notin Draws(mut(q))
        BY <1>5, <3>1, <3>4
      <4> QED BY <3>2, <3>4, <4>1 DEF Put
    <3>5. CASE i \notin Draws(mut(p))
      <4>1. h[q][i] = a[q][i] /\ h[q + 1][i] = a[q + 1][i]
        BY <3>2, <3>5
      <4>2. Put(h[q], mut(q), i) = Put(a[q], mut(q), i)
        <5>1. CASE i \in Draws(mut(q)) /\ mut(q).op = "copy"
          <6>1. mut(q).from \notin Draws(mut(p)) /\ mut(q).from \in Items
            BY <1>2, <1>5, <3>1, <5>1
          <6>2. h[q][mut(q).from] = a[q][mut(q).from]
            BY <3>2, <6>1
          <6> QED BY <5>1, <6>2 DEF Put
        <5>2. CASE ~(i \in Draws(mut(q)) /\ mut(q).op = "copy")
          BY <4>1, <5>2 DEF Put
        <5> QED BY <5>1, <5>2
      <4> QED BY <3>3, <4>1, <4>2
    <3> QED BY <3>4, <3>5
  <2>8. \A q \in kept : q > p \/ q < p
    BY <1>1
  <2> QED BY <2>3, <2>4, <2>5, <2>6, <2>7, <2>8
<1>8. Told(h, view, journal, next, lost, (1..n) \ kept)
  <2>1. \A q \in 1..n : (q \in (1..n) \ kept => q = p) /\ (q \notin (1..n) \ kept => q \in kept)
    BY <1>1
  <2> HIDE DEF kept
  <2> QED BY <1>7, <2>1 DEF Told, mut
<1>9. \E b : Told(b, view, t, next, lost, {})
  BY <1>1, <1>8, SkippedTold
<1>10. Journalled(t, mine) /\ Needed(t, lost) /\ Range(t) = {journal[q] : q \in kept}
  <2>1. ASSUME NEW q \in kept, NEW k \in kept, NEW r \in (1..n) \ kept,
               q < r, r < k, mut(k).op = "copy", mut(k).id \notin lost,
               mut(k).from \in Draws(mut(q)), mut(k).from \in Affected(mut(r))
        PROVE  FALSE
    <3>1. r = p /\ q \in 1..(p - 1) /\ k \in 1..n /\ r \in 1..n
      BY <1>1, <2>1
    <3>2. mut(k).from \in Draws(mut(p)) /\ mut(k).from \in Items
      BY <1>2, <2>1, <3>1
    <3>3. mut(k).from \in lost
      BY <1>5, <2>1, <3>1, <3>2
    <3> QED BY <1>2, <2>1, <3>1, <3>3
  <2>2. Needed(journal, lost)
    BY DEF Story
  <2> HIDE DEF kept
  <2> QED BY <1>1, <2>1, <2>2, SkippedKeeps DEF mut
<1>11. SpreadOver(t, lost)
  <2> SUFFICES ASSUME NEW x \in 1..Len(t), t[x].mut.op = "copy", t[x].mut.from \in lost
               PROVE  t[x].mut.id \in lost
    BY DEF SpreadOver
  <2>1. t \in Seq(Range(t))
    BY <1>10 DEF Journalled
  <2>2. t[x] \in Range(t)
    <3> HIDE DEF t
    <3> QED BY <2>1
  <2>3. PICK q \in kept : t[x] = journal[q]
    BY <1>10, <2>2
  <2> HIDE DEF t
  <2> QED BY <1>2, <2>3 DEF mut
<1> QED BY <1>9, <1>10, <1>11 DEF Story

LEMMA Greatest ==
  ASSUME NEW n \in Nat, NEW T \in SUBSET (1..n), T # {} PROVE \E x \in T : \A y \in T : y <= x
<1> DEFINE D == {n - x : x \in T}
<1>1. D \in SUBSET Nat /\ D # {}
  <2>1. \A x \in T : n - x \in Nat
    OBVIOUS
  <2>2. D \subseteq Nat
    BY <2>1
  <2> QED BY <2>2
<1>2. PICK d \in D : \A e \in D : d <= e
  BY <1>1, Least
<1>3. PICK x \in T : d = n - x
  BY <1>2
<1>4. ASSUME NEW y \in T PROVE y <= x
  <2>1. n - y \in D /\ x \in Int /\ y \in Int
    BY <1>1
  <2> QED BY <1>2, <1>3, <2>1
<1> QED BY <1>4

\* A mutation of the others that meets no pending write.
LEMMA TheirsStory ==
  ASSUME NEW journal, NEW mine, Journalled(journal, mine), NEW view, IsView(view),
         NEW base, IsView(base), NEW m \in Mutations, NEW lost,
         Story(view, journal, base, lost),
         \A q \in 1..Len(journal) : Meet(journal[q].mut, m) \subseteq lost,
         m.op = "copy" /\ m.from \in lost => m.id \in lost
  PROVE  /\ Story(Draw(view, m), journal, Draw(base, m), lost)
         /\ Applicable(base, m) /\ Throws(view, m) => Draws(m) \subseteq lost
<1> DEFINE n == Len(journal)
           mut(q) == journal[q].mut
           v == Draw(view, m)
           b == Draw(base, m)
<1>1. n \in Nat /\ 1 \in 1..(n + 1) /\ n + 1 \in 1..(n + 1) /\ n + 1 \in Nat /\ 1 <= n + 1
  BY DEF Journalled
<1>2. PICK a : Told(a, view, journal, base, lost, {})
  BY DEF Story
<1>3. \A i \in Items \ lost :
        /\ a[1][i] = base[i] /\ a[n + 1][i] = view[i]
        /\ \A q \in 1..n : /\ a[q + 1][i] = Put(a[q], mut(q), i)
                           /\ i \in Draws(mut(q)) => journal[q].undo[i] = a[q][i]
  BY <1>2 DEF Told
<1>4. /\ m.id \in Items /\ m.from \in Items /\ Draws(m) \subseteq Items
      /\ m.op # "clear" => Draws(m) = {m.id}
  BY Drawing
<1>5. ASSUME NEW q \in 1..n
      PROVE  /\ \A i \in Items \ lost : i \in Draws(m) => i \notin Draws(mut(q))
             /\ m.op = "copy" /\ m.id \notin lost => m.from \notin Draws(mut(q))
             /\ mut(q).op = "copy" /\ mut(q).id \notin lost => mut(q).from \notin Draws(m)
             /\ mut(q).op = "copy" => Draws(mut(q)) = {mut(q).id} /\ mut(q).from \in Items
  <2>1. Meet(mut(q), m) \subseteq lost /\ mut(q) \in Mutations
    BY DEF Journalled, Mutations
  <2> HIDE DEF mut
  <2> QED BY <2>1, Drawing DEF Meet, Taken
<1> HIDE DEF mut
<1>6. ASSUME NEW i \in Items \ lost, \A q \in 1..n : i \notin Draws(mut(q))
      PROVE  view[i] = base[i]
  <2>1. \A q \in 1..n : a[q + 1][i] = a[q][i]
    BY <1>3, <1>6 DEF Put
  <2>2. \A q \in 1..((n + 1) - 1) : a[q + 1][i] = a[q][i]
    BY <1>1, <2>1
  <2> DEFINE y == n + 1
  <2>3. y \in Nat /\ 1 <= y /\ 1 \in Nat /\ \A q \in 1..(y - 1) : a[q + 1][i] = a[q][i]
    BY <1>1, <2>2
  <2> HIDE DEF y
  <2>4. a[y][i] = a[1][i]
    BY ONLY <2>3, Constant
  <2> QED BY <1>3, <2>4 DEF y
<1>7. /\ \A i \in Items : v[i] = Put(view, m, i)
      /\ \A i \in Items : b[i] = Put(base, m, i)
  BY DrawIs
<1> HIDE DEF v, b
<1>8. ASSUME NEW i \in Items \ lost, i \in Draws(m) PROVE v[i] = b[i]
  <2>1. CASE m.op = "copy"
    <3>1. m.id \notin lost /\ m.from \in Items \ lost
      BY <1>4, <1>8, <2>1
    <3>2. view[m.from] = base[m.from]
      BY <1>5, <1>6, <2>1, <3>1
    <3> QED BY <1>7, <1>8, <2>1, <3>2 DEF Put
  <2>2. CASE m.op # "copy"
    BY <1>7, <1>8, <2>2 DEF Put
  <2> QED BY <2>1, <2>2
<1> DEFINE h == [x \in 1..(n + 1) |-> [i \in Items |-> IF i \in Draws(m) THEN b[i] ELSE a[x][i]]]
<1>9. \A x \in 1..(n + 1), i \in Items : h[x][i] = IF i \in Draws(m) THEN b[i] ELSE a[x][i]
  OBVIOUS
<1> HIDE DEF h
<1>10. ASSUME NEW i \in Items \ lost
       PROVE  /\ h[1][i] = b[i] /\ h[n + 1][i] = v[i]
              /\ \A q \in 1..n : /\ h[q + 1][i] = Put(h[q], mut(q), i)
                                 /\ i \in Draws(mut(q)) => journal[q].undo[i] = h[q][i]
  <2>1. h[1][i] = b[i]
    BY <1>1, <1>3, <1>7, <1>9 DEF Put
  <2>2. h[n + 1][i] = v[i]
    <3>1. i \notin Draws(m) => v[i] = view[i]
      BY <1>7 DEF Put
    <3> QED BY <1>1, <1>3, <1>8, <1>9, <3>1
  <2>3. ASSUME NEW q \in 1..n
        PROVE  /\ h[q + 1][i] = Put(h[q], mut(q), i)
               /\ i \in Draws(mut(q)) => journal[q].undo[i] = h[q][i]
    <3>1. q \in 1..(n + 1) /\ q + 1 \in 1..(n + 1)
      BY <1>1
    <3>2. CASE i \in Draws(m)
      <4>1. i \notin Draws(mut(q))
        BY <1>5, <3>2
      <4> QED BY <1>9, <3>1, <3>2, <4>1 DEF Put
    <3>3. CASE i \notin Draws(m)
      <4>1. h[q][i] = a[q][i] /\ h[q + 1][i] = a[q + 1][i]
        BY <1>9, <3>1, <3>3
      <4>2. Put(h[q], mut(q), i) = Put(a[q], mut(q), i)
        <5>1. CASE i \in Draws(mut(q)) /\ mut(q).op = "copy"
          <6>1. mut(q).from \notin Draws(m) /\ mut(q).from \in Items
            BY <1>5, <5>1
          <6>2. h[q][mut(q).from] = a[q][mut(q).from]
            BY <1>9, <3>1, <6>1
          <6> QED BY <5>1, <6>2 DEF Put
        <5>2. CASE ~(i \in Draws(mut(q)) /\ mut(q).op = "copy")
          BY <4>1, <5>2 DEF Put
        <5> QED BY <5>1, <5>2
      <4> QED BY <1>3, <4>1, <4>2
    <3> QED BY <3>2, <3>3
  <2> QED BY <2>1, <2>2, <2>3
<1>11. Story(v, journal, b, lost)
  <2>1. Told(h, v, journal, b, lost, {})
    BY <1>10 DEF Told, mut
  <2> QED BY <2>1 DEF Story
<1>12. ASSUME Applicable(base, m), Throws(view, m) PROVE Draws(m) \subseteq lost
  <2>1. m.op \in {"move", "copy"} /\ Draws(m) = {m.id}
    BY <1>4, <1>12 DEF Throws
  <2> SUFFICES ASSUME m.id \notin lost PROVE FALSE
    BY <2>1
  <2>2. CASE m.op = "move"
    <3>1. view[m.id] = base[m.id]
      BY <1>4, <1>5, <1>6, <2>1
    <3> QED BY <1>12, <2>2, <3>1 DEF Applicable, Throws
  <2>3. CASE m.op = "copy"
    <3>1. m.from \in Items \ lost
      BY <1>4, <2>3
    <3>2. view[m.from] = base[m.from]
      BY <1>5, <1>6, <2>3, <3>1
    <3> QED BY <1>12, <2>3, <3>2 DEF Applicable, Throws
  <2> QED BY <2>1, <2>2, <2>3
<1> QED BY <1>11, <1>12 DEF v, b

\* A new write on top of a story.
LEMMA AppendStory ==
  ASSUME NEW journal, NEW mine, Journalled(journal, mine), NEW w, NEW base, NEW lost,
         Story(w, journal, base, lost),
         NEW e, e.mut \in Mutations,
         \A i \in Draws(e.mut) \ lost : e.undo[i] = w[i],
         e.needs = UNION {LatestOn(journal, i) : i \in RestsOn(e.mut)},
         e.mut.op = "copy" /\ e.mut.from \in lost => e.mut.id \in lost,
         e.mut.op = "copy" /\ e.mut.id \notin lost => w[e.mut.from] # Nothing,
         NEW v, \A i \in Items \ lost : v[i] = Put(w, e.mut, i)
  PROVE  Story(v, Append(journal, e), base, lost)
<1> DEFINE n == Len(journal)
           j == Append(journal, e)
           m == e.mut
<1>1. /\ n \in Nat /\ journal \in Seq(Range(journal)) /\ DOMAIN journal = 1..n
      /\ \A p \in 1..n : journal[p].mut \in Mutations
  BY DEF Journalled, Mutations
<1>2. Len(j) = n + 1 /\ j[n + 1] = e /\ \A p \in 1..n : j[p] = journal[p]
  BY <1>1, AppendProperties
<1>3. \A p \in 1..(n + 1) : p \in 1..n \/ p = n + 1
  BY <1>1
<1>4. m.id \in Items /\ m.from \in Items /\ (m.op # "clear" => Draws(m) = {m.id})
  BY Drawing
<1>5. PICK a : Told(a, w, journal, base, lost, {})
  BY DEF Story
<1> HIDE DEF j
<1>6. SpreadOver(j, lost)
  BY <1>2, <1>3 DEF Story, SpreadOver
<1>7. \E h : Told(h, v, j, base, lost, {})
  <2> DEFINE h == [k \in 1..(n + 2) |-> IF k = n + 2 THEN v ELSE a[k]]
  <2>1. /\ h[n + 2] = v /\ \A k \in 1..(n + 1) : h[k] = a[k]
        /\ n + 1 \in 1..(n + 1) /\ 1 \in 1..(n + 1) /\ (n + 1) + 1 = n + 2
        /\ \A p \in 1..n : p \in 1..(n + 1) /\ p + 1 \in 1..(n + 1)
    BY <1>1
  <2> HIDE DEF h, m
  <2>2. ASSUME NEW i \in Items \ lost
        PROVE  /\ h[1][i] = base[i] /\ h[Len(j) + 1][i] = v[i]
               /\ \A p \in 1..Len(j) : /\ h[p + 1][i] = Put(h[p], j[p].mut, i)
                                       /\ i \in Draws(j[p].mut) => j[p].undo[i] = h[p][i]
    <3>1. /\ a[1][i] = base[i] /\ a[n + 1][i] = w[i]
          /\ \A p \in 1..n : /\ a[p + 1][i] = Put(a[p], journal[p].mut, i)
                             /\ i \in Draws(journal[p].mut) => journal[p].undo[i] = a[p][i]
      BY <1>5 DEF Told
    <3>2. \A p \in 1..n : /\ h[p + 1][i] = Put(h[p], j[p].mut, i)
                          /\ i \in Draws(j[p].mut) => j[p].undo[i] = h[p][i]
      BY <1>2, <2>1, <3>1
    <3>3. h[n + 1] = a[n + 1]
      BY <2>1
    <3>4. Put(a[n + 1], m, i) = Put(w, m, i)
      <4>1. CASE i \in Draws(m) /\ m.op = "copy"
        <5>1. m.from \in Items \ lost
          BY <1>4, <4>1 DEF m
        <5>2. a[n + 1][m.from] = w[m.from]
          BY <1>5, <5>1 DEF Told
        <5> QED BY <4>1, <5>2 DEF Put
      <4>2. CASE ~(i \in Draws(m) /\ m.op = "copy")
        BY <3>1, <4>2 DEF Put
      <4> QED BY <4>1, <4>2
    <3>5. i \in Draws(m) => e.undo[i] = a[n + 1][i]
      BY <3>1 DEF m
    <3>6. v[i] = Put(w, m, i)
      BY DEF m
    <3>7. /\ h[(n + 1) + 1][i] = Put(h[n + 1], j[n + 1].mut, i)
          /\ i \in Draws(j[n + 1].mut) => j[n + 1].undo[i] = h[n + 1][i]
      BY <1>2, <2>1, <3>3, <3>4, <3>5, <3>6 DEF m
    <3> QED BY <1>2, <1>3, <2>1, <3>1, <3>2, <3>7
  <2>3. Told(h, v, j, base, lost, {})
    BY <2>2 DEF Told
  <2> QED BY <2>3
<1>8. Needed(j, lost)
  <2>1. ASSUME m.op = "copy", m.id \notin lost, NEW q \in 1..n, m.from \in Draws(journal[q].mut)
        PROVE  \E r \in q..n : m.from \in Affected(journal[r].mut) /\ journal[r].mut.cid \in e.needs
    <3> DEFINE from == m.from
               T == {x \in 1..n : from \in Draws(journal[x].mut)}
    <3>1. from \in Items \ lost /\ w[from] # Nothing
      BY <1>4, <2>1
    <3>2. PICK r \in T : \A y \in T : y <= r
      <4>1. T \in SUBSET (1..n) /\ T # {}
        BY <2>1
      <4> HIDE DEF T
      <4> QED BY <1>1, <4>1, Greatest
    <3>3. r \in q..n
      BY <2>1, <3>2
    <3>4. from \in Affected(journal[r].mut)
      <4> SUFFICES ASSUME from \notin Affected(journal[r].mut) PROVE FALSE
        OBVIOUS
      <4>1. journal[r].mut.op = "clear"
        BY <3>2 DEF Affected, Draws
      <4>2. a[r + 1][from] = Nothing
        <5>1. a[r + 1][from] = Put(a[r], journal[r].mut, from)
          BY <1>5, <3>1, <3>2 DEF Told
        <5>2. from \in Draws(journal[r].mut)
          BY <3>2
        <5> HIDE DEF from
        <5> QED BY <4>1, <5>1, <5>2 DEF Put
      <4>3. \A z \in (r + 1)..n : a[z + 1][from] = a[z][from]
        <5> SUFFICES ASSUME NEW z \in (r + 1)..n PROVE a[z + 1][from] = a[z][from]
          OBVIOUS
        <5>1. z \in 1..n /\ ~(z <= r)
          BY <1>1, <3>2
        <5>2. from \notin Draws(journal[z].mut)
          BY <3>2, <5>1
        <5>3. a[z + 1][from] = Put(a[z], journal[z].mut, from)
          BY <1>5, <3>1, <5>1 DEF Told
        <5> QED BY <5>2, <5>3 DEF Put
      <4> DEFINE x == r + 1
                 y == n + 1
      <4>4. x \in Nat /\ y \in Nat /\ x <= y /\ \A z \in x..(y - 1) : a[z + 1][from] = a[z][from]
        BY <1>1, <3>2, <4>3
      <4> HIDE DEF x, y, from
      <4>5. a[y][from] = a[x][from]
        BY ONLY <4>4, Constant
      <4>6. a[n + 1][from] = w[from]
        BY <1>5, <3>1 DEF Told
      <4> QED BY <3>1, <4>2, <4>5, <4>6 DEF x, y
    <3>5. journal[r].mut.cid \in LatestOn(journal, from)
      <4>1. \A y \in 1..n : from \in Affected(journal[y].mut) => y \in T
        BY <1>1, Drawing
      <4>2. r \in 1..n
        BY <3>2
      <4> HIDE DEF T, from
      <4> QED BY <1>1, <3>2, <3>4, <4>1, <4>2 DEF LatestOn
    <3>6. from \in RestsOn(m)
      BY <2>1 DEF RestsOn
    <3> QED BY <3>3, <3>4, <3>5, <3>6
  <2> SUFFICES ASSUME NEW p \in 1..Len(j), j[p].mut.op = "copy", j[p].mut.id \notin lost,
                      NEW q \in 1..(p - 1), j[p].mut.from \in Draws(j[q].mut)
               PROVE  \E r \in q..(p - 1) : /\ j[p].mut.from \in Affected(j[r].mut)
                                            /\ j[r].mut.cid \in j[p].needs
    BY DEF Needed
  <2>2. CASE p \in 1..n
    <3>1. q \in 1..n /\ q \in 1..(p - 1)
      BY <2>2
    <3>2. j[p] = journal[p] /\ j[q] = journal[q]
      BY <1>2, <2>2, <3>1
    <3>3. PICK r \in q..(p - 1) : /\ journal[p].mut.from \in Affected(journal[r].mut)
                                  /\ journal[r].mut.cid \in journal[p].needs
      BY <2>2, <3>2 DEF Story, Needed
    <3>4. r \in 1..n
      BY <2>2, <3>1, <3>3
    <3>5. j[r] = journal[r]
      BY <1>2, <3>4
    <3> QED BY <3>2, <3>3, <3>5
  <2>3. CASE p = n + 1
    <3>1. q \in 1..n /\ p - 1 = n
      BY <1>1, <2>3
    <3>2. j[p] = e /\ j[q] = journal[q]
      BY <1>2, <2>3, <3>1
    <3>3. PICK r \in q..n : m.from \in Affected(journal[r].mut) /\ journal[r].mut.cid \in e.needs
      BY <2>1, <3>1, <3>2
    <3>4. r \in 1..n
      BY <3>1, <3>3
    <3>5. j[r] = journal[r]
      BY <1>2, <3>4
    <3> QED BY <3>1, <3>2, <3>3, <3>5
  <2> QED BY <1>2, <1>3, <2>2, <2>3
<1> QED BY <1>6, <1>7, <1>8 DEF Story, j

LEMMA PumpRun ==
  ASSUME NEW c, NEW upto \in Nat
  PROVE  \E run : /\ run[0] = [client |-> c, sent |-> << >>, broken |-> FALSE]
                  /\ run[upto] = Pump(c, upto)
                  /\ \A k \in 1..upto :
                       run[k] = IF run[k - 1].broken \/ c.buffered[k].state # "queued"
                                THEN run[k - 1] ELSE EmitNth(run[k - 1], k)
<1> DEFINE Start == [client |-> c, sent |-> << >>, broken |-> FALSE]
           Step(r, k) == IF r.broken \/ c.buffered[k].state # "queued" THEN r ELSE EmitNth(r, k)
           Is(f, n) == f = [k \in 0..n |-> IF k = 0 THEN Start ELSE Step(f[k - 1], k)]
           run == CHOOSE f : Is(f, upto)
<1>2. Pump(c, upto) = run[upto]
  BY DEF Pump
<1> HIDE DEF Start, Step
<1>5. \E f : Is(f, upto)
  <2> DEFINE P == {n \in 0..upto : \E f : Is(f, n)}
  <2>1. 0 \in P
    <3> DEFINE f == [k \in 0..0 |-> Start]
    <3>1. Is(f, 0)
      OBVIOUS
    <3> HIDE DEF f, Is
    <3> QED BY <3>1
  <2>2. ASSUME NEW n \in 0..upto, n # upto, n \in P PROVE n + 1 \in P
    <3>1. PICK f : Is(f, n)
      BY <2>2
    <3> DEFINE g == [k \in 0..(n + 1) |-> IF k = n + 1 THEN Step(f[n], n + 1) ELSE f[k]]
    <3>2. /\ n \in Nat /\ n + 1 \in 0..upto
          /\ \A k \in 0..n : k \in 0..(n + 1) /\ k # n + 1
          /\ \A k \in 0..(n + 1) : k # 0 /\ k # n + 1 => k \in 0..n /\ k - 1 \in 0..n /\ k \in Int
      BY <2>2
    <3>3. g[0] = Start /\ g[n + 1] = Step(g[n], n + 1)
      BY <3>1, <3>2
    <3>4. ASSUME NEW k \in 0..(n + 1), k # 0, k # n + 1 PROVE g[k] = Step(g[k - 1], k)
      BY <3>1, <3>2, <3>4
    <3>5. ASSUME NEW k \in 0..(n + 1)
          PROVE  g[k] = IF k = 0 THEN Start ELSE Step(g[k - 1], k)
      <4>1. CASE k = 0
        BY <3>3, <4>1
      <4>2. CASE k = n + 1
        <5>1. k - 1 = n /\ k # 0
          BY <3>2, <4>2
        <5> HIDE DEF g
        <5> QED BY <3>3, <4>2, <5>1
      <4>3. CASE k # 0 /\ k # n + 1
        BY <3>4, <4>3
      <4> QED BY <4>1, <4>2, <4>3
    <3>6. g = [k \in 0..(n + 1) |-> g[k]]
      OBVIOUS
    <3> HIDE DEF g
    <3>7. Is(g, n + 1)
      BY <3>5, <3>6
    <3> HIDE DEF Is
    <3> QED BY <3>2, <3>7
  <2>3. 0..upto \subseteq P
    <3> HIDE DEF P
    <3> QED BY <2>1, <2>2, HandedOn
  <2> QED BY <2>3
<1>6. Is(run, upto)
  <2> HIDE DEF Is
  <2> QED BY <1>5
<1> HIDE DEF run
<1>7. run[0] = Start /\ \A k \in 0..upto : k # 0 => run[k] = Step(run[k - 1], k)
  BY <1>6
<1>8. \A k \in 1..upto : run[k] = Step(run[k - 1], k)
  BY <1>7
<1> QED BY <1>2, <1>7, <1>8 DEF Start, Step

LEMMA WithoutNone ==
  ASSUME NEW journal, journal \in Seq(Range(journal)), NEW cid,
         \A p \in 1..Len(journal) : journal[p].mut.cid # cid
  PROVE  Without(journal, {cid}) = journal
<1>1. {k \in DOMAIN journal : journal[k].mut.cid \notin {cid}} = 1..Len(journal)
  OBVIOUS
<1> QED BY <1>1, ChosenAll DEF Without

LEMMA TrackNew ==
  ASSUME NEW c, IsBrowser(c), c.journal \in Seq(Range(c.journal)), NEW m, NEW undo,
         \A p \in 1..Len(c.journal) : c.journal[p].mut.cid # m.cid,
         NEW d, d = Track(c, m, undo)
  PROVE  /\ d.journal = Append(c.journal,
                          [mut |-> m, undo |-> undo,
                           needs |-> UNION {LatestOn(c.journal, i) : i \in RestsOn(m)}])
         /\ IsBrowser(d) /\ d.view = c.view /\ d.seq = c.seq /\ d.buffered = c.buffered
         /\ d.link = c.link /\ d.paused = c.paused
<1> DEFINE entry == [mut |-> m, undo |-> undo,
                     needs |-> UNION {LatestOn(c.journal, i) : i \in RestsOn(m)}]
           new == Append(c.journal, entry)
<1>1. Without(c.journal, {m.cid}) = c.journal
  <2>1. PICK j : j = c.journal
    OBVIOUS
  <2>2. j \in Seq(Range(j)) /\ \A p \in 1..Len(j) : j[p].mut.cid # m.cid
    BY <2>1
  <2>3. Without(j, {m.cid}) = j
    BY ONLY <2>2, WithoutNone
  <2> QED BY <2>1, <2>3
<1>2. d = [c EXCEPT !.journal = new]
  BY <1>1 DEF Track
<1> HIDE DEF new
<1>3. d.journal = new /\ IsBrowser(d) /\ d.view = c.view /\ d.seq = c.seq
      /\ d.buffered = c.buffered /\ d.link = c.link /\ d.paused = c.paused
  <2>1. IsBrowser(c)
    OBVIOUS
  <2> QED BY ONLY <1>2, <2>1 DEF IsBrowser, Browser
<1> QED BY <1>3 DEF new

\* What one emission makes of a run.
Emits(r, k, e) ==
  LET d == r.client
      w == d.buffered[k]
  IN /\ \A j \in 1..Len(d.buffered) : j # k => e.client.buffered[j] = d.buffered[j]
     /\ e.client.buffered[k].mut = w.mut /\ e.client.buffered[k].redraw = FALSE
     /\ \/ /\ w.redraw /\ Throws(d.view, w.mut)
           /\ e.broken = TRUE /\ e.sent = r.sent
           /\ e.client.view = d.view /\ e.client.journal = d.journal
           /\ e.client.buffered[k].state = w.state
        \/ /\ e.broken = r.broken /\ e.sent = Append(r.sent, w.mut)
           /\ e.client.buffered[k].state = "inflight"
           /\ \/ /\ ~w.redraw /\ e.client.view = d.view /\ e.client.journal = d.journal
              \/ /\ w.redraw /\ ~Throws(d.view, w.mut)
                 /\ e.client.view = Draw(d.view, w.mut)
                 /\ e.client.journal =
                      Append(d.journal,
                        [mut |-> w.mut, undo |-> Rollback(d.view, w.mut),
                         needs |-> UNION {LatestOn(d.journal, i) : i \in RestsOn(w.mut)}])

LEMMA EmitIs ==
  ASSUME NEW r, r = [client |-> r.client, sent |-> r.sent, broken |-> r.broken],
         IsBrowser(r.client), r.client.journal \in Seq(Range(r.client.journal)),
         NEW k \in 1..Len(r.client.buffered),
         r.client.buffered[k].redraw =>
           \A p \in 1..Len(r.client.journal) :
             r.client.journal[p].mut.cid # r.client.buffered[k].mut.cid,
         NEW e, e = EmitNth(r, k)
  PROVE  Emits(r, k, e)
<1> DEFINE d == r.client
           w == d.buffered[k]
           n == Len(d.buffered)
           v == [w EXCEPT !.redraw = FALSE]
           u == [v EXCEPT !.state = "inflight"]
           plain == [d EXCEPT !.buffered[k].redraw = FALSE]
           shown == [plain EXCEPT !.view = Draw(@, w.mut)]
           drawn == Track(shown, w.mut, Rollback(d.view, w.mut))
           gone(x) == [x EXCEPT !.buffered[k].state = "inflight"]
<1>1. /\ d.buffered \in Seq(Write) /\ n \in Nat /\ DOMAIN d.buffered = 1..n /\ w \in Write
      /\ v \in Write /\ u \in Write /\ v.mut = w.mut /\ u.mut = w.mut
      /\ v.redraw = FALSE /\ u.redraw = FALSE /\ u.state = "inflight" /\ v.state = w.state
  <2>1. d.buffered \in Seq(Write)
    BY DEF IsBrowser, Browser
  <2>2. w \in Write
    BY <2>1
  <2>3. n \in Nat /\ DOMAIN d.buffered = 1..n
    BY <2>1
  <2> HIDE DEF w, d
  <2> QED BY <2>1, <2>2, <2>3 DEF Write
<1> HIDE DEF u, v
<1>2. /\ plain = [d EXCEPT !.buffered = [d.buffered EXCEPT ![k] = v]]
      /\ IsBrowser(plain) /\ plain.view = d.view /\ plain.journal = d.journal
      /\ plain.buffered = [d.buffered EXCEPT ![k] = v]
  <2> DEFINE b == [d.buffered EXCEPT ![k] = v]
  <2>1. plain = [d EXCEPT !.buffered = b]
    BY <1>1 DEF IsBrowser, Browser, v
  <2>2. b \in Seq(Write)
    BY <1>1
  <2> HIDE DEF b, plain
  <2>3. IsBrowser(plain) /\ plain.view = d.view /\ plain.journal = d.journal /\ plain.buffered = b
    BY <2>1, <2>2 DEF IsBrowser, Browser
  <2> QED BY <2>1, <2>3 DEF b
<1> HIDE DEF plain
<1>3. /\ IsBrowser(shown) /\ shown.view = Draw(d.view, w.mut) /\ shown.journal = d.journal
      /\ shown.buffered = plain.buffered
  BY <1>2 DEF IsBrowser, Browser
<1> HIDE DEF shown
<1>4. ASSUME w.redraw
      PROVE  /\ IsBrowser(drawn) /\ drawn.view = Draw(d.view, w.mut)
             /\ drawn.buffered = plain.buffered
             /\ drawn.journal =
                  Append(d.journal,
                    [mut |-> w.mut, undo |-> Rollback(d.view, w.mut),
                     needs |-> UNION {LatestOn(d.journal, i) : i \in RestsOn(w.mut)}])
  <2> DEFINE x == drawn
             rb == Rollback(d.view, w.mut)
  <2>1. x = Track(shown, w.mut, rb)
    OBVIOUS
  <2>2. /\ shown.journal \in Seq(Range(shown.journal))
        /\ \A p \in 1..Len(shown.journal) : shown.journal[p].mut.cid # w.mut.cid
    BY <1>3, <1>4
  <2>4. IsBrowser(shown)
    BY <1>3
  <2> HIDE DEF x, rb
  <2>3. /\ x.journal = Append(shown.journal,
                         [mut |-> w.mut, undo |-> rb,
                          needs |-> UNION {LatestOn(shown.journal, i) : i \in RestsOn(w.mut)}])
        /\ IsBrowser(x) /\ x.view = shown.view /\ x.buffered = shown.buffered
    BY ONLY <2>1, <2>2, <2>4, TrackNew
  <2> QED BY <1>3, <2>3 DEF x, rb
<1>5. ASSUME NEW x, IsBrowser(x), x.buffered = plain.buffered
      PROVE  /\ gone(x).view = x.view /\ gone(x).journal = x.journal
             /\ gone(x).buffered = [d.buffered EXCEPT ![k] = u]
  <2> DEFINE b == [x.buffered EXCEPT ![k] = u]
  <2>1. x.buffered[k] = v
    BY <1>1, <1>2, <1>5
  <2>2. gone(x) = [x EXCEPT !.buffered = b]
    BY <2>1 DEF IsBrowser, Browser, u
  <2>3. b = [d.buffered EXCEPT ![k] = u]
    <3>1. x.buffered = [d.buffered EXCEPT ![k] = v]
      BY <1>2, <1>5
    <3> HIDE DEF d
    <3> QED BY <1>1, <3>1
  <2> HIDE DEF b, gone
  <2>4. gone(x).view = x.view /\ gone(x).journal = x.journal /\ gone(x).buffered = b
    BY <1>5, <2>2 DEF IsBrowser, Browser
  <2> QED BY <2>3, <2>4
<1> HIDE DEF drawn, gone
<1>6. CASE w.redraw /\ Throws(d.view, w.mut)
  <2>1. e = [r EXCEPT !.client = plain, !.broken = TRUE]
    BY <1>6 DEF EmitNth, plain
  <2>2. e.client = plain /\ e.broken = TRUE /\ e.sent = r.sent
    <3> HIDE DEF d, w
    <3> QED BY <2>1
  <2> QED BY <1>1, <1>2, <1>6, <2>2 DEF Emits
<1>7. ASSUME ~(w.redraw /\ Throws(d.view, w.mut)), NEW x, IsBrowser(x),
             x.buffered = plain.buffered, e = [r EXCEPT !.client = gone(x),
                                                        !.sent = Append(r.sent, w.mut)]
      PROVE  /\ e.client.view = x.view /\ e.client.journal = x.journal
             /\ e.broken = r.broken /\ e.sent = Append(r.sent, w.mut)
             /\ e.client.buffered[k].state = "inflight"
             /\ \A j \in 1..n : j # k => e.client.buffered[j] = d.buffered[j]
             /\ e.client.buffered[k].mut = w.mut /\ e.client.buffered[k].redraw = FALSE
  <2>1. e.client = gone(x) /\ e.broken = r.broken /\ e.sent = Append(r.sent, w.mut)
    <3> HIDE DEF d, w
    <3> QED BY <1>7
  <2>2. /\ gone(x).view = x.view /\ gone(x).journal = x.journal
        /\ gone(x).buffered = [d.buffered EXCEPT ![k] = u]
    BY <1>5, <1>7
  <2> QED BY <1>1, <2>1, <2>2
<1>8. CASE w.redraw /\ ~Throws(d.view, w.mut)
  <2>1. e = [r EXCEPT !.client = gone(drawn), !.sent = Append(r.sent, w.mut)]
    BY <1>8 DEF EmitNth, gone, drawn, shown, plain
  <2> QED BY <1>4, <1>7, <1>8, <2>1 DEF Emits
<1>9. CASE ~w.redraw
  <2>1. e = [r EXCEPT !.client = gone(plain), !.sent = Append(r.sent, w.mut)]
    BY <1>9 DEF EmitNth, gone, plain
  <2> QED BY <1>2, <1>7, <1>9, <2>1 DEF Emits
<1> QED BY <1>6, <1>8, <1>9

\* t gives the writes of the browser a number each; those buffered are in its order.
Turns == [Ids -> Nat]
BufferSorted(t, buffered) ==
  \A k, l \in 1..Len(buffered) : k < l => t[buffered[k].mut.cid] < t[buffered[l].mut.cid]
FlagsFit(buffered) ==
  \A k \in 1..Len(buffered) : buffered[k].redraw => buffered[k].state = "queued"

\* Two writes are in their turn, or what they meet on is lost.
InTurn(t, lost, m, o) == Meet(m, o) \subseteq lost \/ t[m.cid] < t[o.cid]
Ordered(t, journal, buffered, lost) ==
  /\ \A p, q \in 1..Len(journal) : p < q => InTurn(t, lost, journal[p].mut, journal[q].mut)
  /\ \A p \in 1..Len(journal), k \in 1..Len(buffered) : buffered[k].redraw =>
       /\ journal[p].mut.cid # buffered[k].mut.cid
       /\ InTurn(t, lost, journal[p].mut, buffered[k].mut)

\* What the pump has done with the first k writes of a buffer: it has sent them in
\* order, or it was broken off.
Paced(buffered, t, r, k) ==
  LET b == r.client.buffered IN
  /\ \A j \in (k + 1)..Len(buffered) : b[j] = buffered[j]
  /\ \A j \in 1..Len(buffered) :
       /\ b[j].redraw => buffered[j].redraw /\ b[j].state = "queued"
       /\ b[j].state = "queued" => buffered[j].state = "queued"
       /\ buffered[j].state = "queued" =>
            b[j].state = "queued" \/ \E x \in 1..Len(r.sent) : r.sent[x] = buffered[j].mut
  /\ ~r.broken => \A j \in 1..k : b[j].state = "inflight"
  /\ \A x \in 1..Len(r.sent) :
       /\ \E j \in 1..k : r.sent[x] = buffered[j].mut /\ buffered[j].state = "queued"
       /\ \A y \in 1..Len(r.sent) : x < y => t[r.sent[x].cid] <= t[r.sent[y].cid]
       /\ \A j \in 1..Len(buffered) :
            b[j].state = "queued" => t[r.sent[x].cid] <= t[buffered[j].mut.cid]

LEMMA PacedStart ==
  ASSUME NEW c, IsBrowser(c), FlagsFit(c.buffered), NEW t
  PROVE  Paced(c.buffered, t, [client |-> c, sent |-> << >>, broken |-> FALSE], 0)
BY DEF Paced, FlagsFit

LEMMA PacedStays ==
  ASSUME NEW c, IsBrowser(c), NEW t, NEW r, NEW k \in 1..Len(c.buffered),
         Paced(c.buffered, t, r, k - 1), r.broken \/ c.buffered[k].state # "queued"
  PROVE  Paced(c.buffered, t, r, k)
<1> DEFINE b == c.buffered
           n == Len(b)
<1>1. /\ n \in Nat /\ k \in Int /\ b[k] \in Write
      /\ \A j \in (k + 1)..n : j \in ((k - 1) + 1)..n
      /\ \A j \in 1..k : j = k \/ j \in 1..(k - 1)
      /\ \A j \in 1..(k - 1) : j \in 1..k
      /\ k \in ((k - 1) + 1)..n
  <2>1. b \in Seq(Write)
    BY DEF IsBrowser, Browser
  <2>2. b[k] \in Write /\ n \in Nat /\ k \in 1..n
    BY <2>1
  <2> HIDE DEF b, n
  <2> QED BY <2>2
<1>2. b[k].state # "queued" => b[k].state = "inflight"
  BY <1>1 DEF Write
<1> HIDE DEF b
<1>3. Paced(b, t, r, k - 1) /\ (r.broken \/ b[k].state # "queued")
  BY DEF b
<1>4. \A j \in (k + 1)..n : r.client.buffered[j] = b[j]
  BY <1>1, <1>3 DEF Paced
<1>5. ~r.broken => \A j \in 1..k : r.client.buffered[j].state = "inflight"
  BY <1>1, <1>2, <1>3 DEF Paced
<1>6. \A x \in 1..Len(r.sent) :
        \E j \in 1..k : r.sent[x] = b[j].mut /\ b[j].state = "queued"
  BY <1>1, <1>3 DEF Paced
<1> QED BY <1>3, <1>4, <1>5, <1>6 DEF Paced, b

LEMMA PacedStep ==
  ASSUME NEW c, IsBrowser(c), NEW t \in Turns, BufferSorted(t, c.buffered), NEW acc,
         NEW r, Pumped(c, acc, r), NEW k \in 1..Len(c.buffered),
         Paced(c.buffered, t, r, k - 1), ~r.broken, c.buffered[k].state = "queued",
         r.client.buffered[k].redraw =>
           \A p \in 1..Len(r.client.journal) :
             r.client.journal[p].mut.cid # r.client.buffered[k].mut.cid,
         NEW e, e = EmitNth(r, k)
  PROVE  Paced(c.buffered, t, e, k)
<1> DEFINE b == c.buffered
           d == r.client.buffered
           n == Len(b)
           w == d[k]
<1>1. /\ n \in Nat /\ k \in Int /\ k \in 1..n /\ Len(d) = n
      /\ \A j \in (k + 1)..n : j \in ((k - 1) + 1)..n /\ j \in 1..n /\ j # k
      /\ \A j \in 1..k : j = k \/ j \in 1..(k - 1)
      /\ \A j \in 1..(k - 1) : j \in 1..k /\ j # k /\ j \in 1..n
      /\ k \in ((k - 1) + 1)..n /\ k \in 1..k
      /\ \A j \in 1..n : b[j].mut.cid \in Ids
  <2>1. b \in Seq(Write)
    BY DEF IsBrowser, Browser
  <2>2. \A j \in 1..n : b[j].mut.cid \in Ids
    <3>1. \A j \in 1..n : b[j] \in Write
      BY <2>1
    <3> HIDE DEF b
    <3> QED BY <3>1 DEF Write, Ids, Mutations
  <2>3. Len(d) = n /\ n \in Nat
    BY <2>1 DEF Pumped
  <2> HIDE DEF b, d, n
  <2>4. k \in 1..n
    BY DEF n, b
  <2> QED BY <2>2, <2>3, <2>4
<1>2. w = b[k] /\ w.mut = b[k].mut
  BY <1>1 DEF Paced
<1>3. /\ r = [client |-> r.client, sent |-> r.sent, broken |-> r.broken]
      /\ IsBrowser(r.client) /\ r.client.journal \in Seq(Range(r.client.journal))
      /\ r.sent \in Seq(Mine) /\ Len(r.sent) \in Nat
  BY DEF Pumped, Closed
<1>4. /\ \A j \in 1..n : j # k => e.client.buffered[j] = d[j]
      /\ e.client.buffered[k].mut = w.mut /\ e.client.buffered[k].redraw = FALSE
      /\ \/ e.broken = TRUE /\ e.sent = r.sent /\ e.client.buffered[k].state = w.state
         \/ e.broken = FALSE /\ e.sent = Append(r.sent, w.mut)
            /\ e.client.buffered[k].state = "inflight"
  <2>1. /\ k \in 1..Len(r.client.buffered)
        /\ r.client.buffered[k].redraw =>
             \A p \in 1..Len(r.client.journal) :
               r.client.journal[p].mut.cid # r.client.buffered[k].mut.cid
    BY <1>1
  <2>2. r.broken = FALSE
    BY DEF Pumped
  <2>3. Emits(r, k, e)
    BY <1>3, <2>1, EmitIs
  <2> QED BY <1>1, <2>2, <2>3 DEF Emits
<1>5. /\ \A j \in k..n : d[j] = b[j]
      /\ \A j \in 1..n :
           /\ d[j].redraw => b[j].redraw /\ d[j].state = "queued"
           /\ d[j].state = "queued" => b[j].state = "queued"
           /\ b[j].state = "queued" =>
                d[j].state = "queued" \/ \E x \in 1..Len(r.sent) : r.sent[x] = b[j].mut
      /\ \A j \in 1..(k - 1) : d[j].state = "inflight"
      /\ \A x \in 1..Len(r.sent) :
           /\ \E j \in 1..(k - 1) : r.sent[x] = b[j].mut /\ b[j].state = "queued"
           /\ \A y \in 1..Len(r.sent) : x < y => t[r.sent[x].cid] <= t[r.sent[y].cid]
           /\ \A j \in 1..n : d[j].state = "queued" => t[r.sent[x].cid] <= t[b[j].mut.cid]
  BY <1>1 DEF Paced
<1>0. /\ b[k].state = "queued" /\ \A l \in 1..n : k < l => t[b[k].mut.cid] < t[b[l].mut.cid]
      /\ \A j \in 1..n : t[b[j].mut.cid] \in Int
  BY <1>1 DEF BufferSorted, Turns
<1> HIDE DEF b, d, w
<1> DEFINE f == e.client.buffered
<1>6. \A j \in (k + 1)..n : f[j] = b[j]
  BY <1>1, <1>4, <1>5
<1>7. /\ \A x \in 1..Len(r.sent) : x \in 1..Len(e.sent) /\ e.sent[x] = r.sent[x]
      /\ \A x \in 1..Len(e.sent) :
           \/ x \in 1..Len(r.sent) /\ e.sent[x] = r.sent[x]
           \/ x = Len(r.sent) + 1 /\ x = Len(e.sent) /\ e.sent[x] = w.mut /\ f[k].state = "inflight"
      /\ f[k].state = "inflight" => e.sent[Len(e.sent)] = w.mut /\ Len(e.sent) \in 1..Len(e.sent)
  <2>1. CASE e.broken = TRUE /\ e.sent = r.sent /\ e.client.buffered[k].state = w.state
    BY <1>0, <1>2, <2>1
  <2>2. CASE e.broken = FALSE /\ e.sent = Append(r.sent, w.mut) /\ f[k].state = "inflight"
    <3>1. /\ Len(e.sent) = Len(r.sent) + 1 /\ e.sent[Len(r.sent) + 1] = w.mut
          /\ \A x \in 1..Len(r.sent) : e.sent[x] = r.sent[x]
      BY <1>3, <2>2, AppendProperties
    <3> QED BY <1>3, <2>2, <3>1
  <2> QED BY <1>4, <2>1, <2>2
<1>8. ASSUME NEW j \in 1..n
      PROVE  /\ f[j].redraw => b[j].redraw /\ f[j].state = "queued"
             /\ f[j].state = "queued" => b[j].state = "queued"
             /\ b[j].state = "queued" =>
                  f[j].state = "queued" \/ \E x \in 1..Len(e.sent) : e.sent[x] = b[j].mut
  <2>1. CASE j # k
    BY <1>4, <1>5, <1>7, <2>1
  <2>2. CASE j = k
    <3>1. f[k].state = "queued" \/ f[k].state = "inflight"
      BY <1>0, <1>2, <1>4
    <3> QED BY <1>0, <1>2, <1>4, <1>7, <2>2, <3>1
  <2> QED BY <2>1, <2>2
<1>9. ~e.broken => \A j \in 1..k : f[j].state = "inflight"
  BY <1>1, <1>4, <1>5
<1>10. ASSUME NEW x \in 1..Len(e.sent)
       PROVE  /\ \E j \in 1..k : e.sent[x] = b[j].mut /\ b[j].state = "queued"
              /\ \A y \in 1..Len(e.sent) : x < y => t[e.sent[x].cid] <= t[e.sent[y].cid]
              /\ \A j \in 1..n : f[j].state = "queued" => t[e.sent[x].cid] <= t[b[j].mut.cid]
  <2>1. CASE x \in 1..Len(r.sent) /\ e.sent[x] = r.sent[x]
    <3>1. \E j \in 1..k : e.sent[x] = b[j].mut /\ b[j].state = "queued"
      BY <1>1, <1>5, <2>1
    <3>2. t[r.sent[x].cid] <= t[b[k].mut.cid]
      BY <1>0, <1>1, <1>2, <1>5, <2>1
    <3>3. \A y \in 1..Len(e.sent) : x < y => t[e.sent[x].cid] <= t[e.sent[y].cid]
      BY <1>2, <1>5, <1>7, <2>1, <3>2
    <3>4. \A j \in 1..n : f[j].state = "queued" => t[e.sent[x].cid] <= t[b[j].mut.cid]
      <4>1. ASSUME NEW j \in 1..n, f[j].state = "queued"
            PROVE  t[e.sent[x].cid] <= t[b[j].mut.cid]
        <5>1. CASE j = k
          BY <2>1, <3>2, <5>1
        <5>2. CASE j # k
          <6>1. f[j] = d[j] /\ d[j].state = "queued"
            BY <1>4, <4>1, <5>2
          <6> QED BY <1>5, <2>1, <6>1
        <5> QED BY <5>1, <5>2
      <4> QED BY <4>1
    <3> QED BY <3>1, <3>3, <3>4
  <2>2. CASE x = Len(e.sent) /\ e.sent[x] = w.mut /\ f[k].state = "inflight"
    <3>1. e.sent[x] = b[k].mut
      BY <1>2, <2>2
    <3>2. \A j \in 1..n : f[j].state = "queued" => j > k
      <4> SUFFICES ASSUME NEW j \in 1..n, f[j].state = "queued", ~(j > k) PROVE FALSE
        OBVIOUS
      <4>1. j \in 1..(k - 1)
        BY <1>1, <2>2
      <4> QED BY <1>1, <1>4, <1>5, <4>1
    <3>3. \A j \in 1..n : f[j].state = "queued" => t[e.sent[x].cid] <= t[b[j].mut.cid]
      BY <1>0, <1>1, <3>1, <3>2
    <3> QED BY <1>0, <1>1, <2>2, <3>1, <3>3
  <2> QED BY <1>7, <2>1, <2>2
<1> QED BY <1>6, <1>8, <1>9, <1>10 DEF Paced, b

\* w is what the screen shows without m, which has been drawn over it and is not in
\* the journal yet; where m draws and copies from, w is what m has found.
Under(w, view, top, m, old, lost) ==
  /\ \A i \in Items \ lost : view[i] = IF top THEN Put(w, m, i) ELSE w[i]
  /\ top => /\ \A i \in Draws(m) \ lost : w[i] = old[i]
            /\ m.op = "copy" /\ m.id \notin lost => w[m.from] = old[m.from]

Fits(buffered, journal, top, m, lost, more) ==
  /\ lost \subseteq more /\ SpreadOver(journal, more)
  /\ top => \A j \in 1..Len(buffered) : buffered[j].redraw => Meet(buffered[j].mut, m) \subseteq more

Telling(c, r, t, mine, base, lost, top, m, old) ==
  LET d == r.client IN
  /\ IsView(d.view) /\ Journalled(d.journal, mine) /\ Len(c.journal) <= Len(d.journal)
  /\ \A p \in 1..Len(c.journal) : d.journal[p] = c.journal[p]
  /\ \A p \in 1..Len(d.journal) :
       \/ p \in 1..Len(c.journal)
       \/ /\ \E x \in 1..Len(r.sent) : r.sent[x] = d.journal[p].mut
          /\ \E j \in 1..Len(c.buffered) :
               d.journal[p].mut = c.buffered[j].mut /\ c.buffered[j].redraw
  /\ Ordered(t, d.journal, d.buffered, lost)
  /\ \A more \in SUBSET Items :
       Fits(c.buffered, d.journal, top, m, lost, more) =>
         \E w : Story(w, d.journal, base, more) /\ Under(w, d.view, top, m, old, more)

LEMMA RollbackIs ==
  ASSUME NEW v, IsView(v), NEW m \in Mutations
  PROVE  /\ DOMAIN Rollback(v, m) = Draws(m) /\ \A i \in Draws(m) : Rollback(v, m)[i] = v[i]
<1>1. CASE m.op = "clear"
  BY <1>1 DEF Rollback, Draws, IsView
<1>2. CASE m.op # "clear"
  BY <1>2 DEF Rollback, Draws, Affected
<1> QED BY <1>1, <1>2

\* The entry of a write that is drawn on a view.
EntryOf(journal, view, n) ==
  [mut |-> n, undo |-> Rollback(view, n), needs |-> UNION {LatestOn(journal, i) : i \in RestsOn(n)}]

\* A write drawn again, possibly under another one that has just been drawn.
LEMMA RedrawStory ==
  ASSUME NEW journal, NEW mine, Journalled(journal, mine), NEW view, IsView(view), NEW base,
         NEW n \in Mutations, ~Throws(view, n),
         NEW top \in BOOLEAN, NEW m, top => m \in Mutations, NEW old, NEW more,
         NEW w, Story(w, journal, base, more), Under(w, view, top, m, old, more),
         top => Meet(n, m) \subseteq more,
         NEW e, e = EntryOf(journal, view, n),
         SpreadOver(Append(journal, e), more)
  PROVE  \E v : /\ Story(v, Append(journal, e), base, more)
                /\ Under(v, Draw(view, n), top, m, old, more)
<1> DEFINE v == [i \in Items |-> Put(w, n, i)]
           s == Draw(view, n)
<1>1. /\ e.mut = n /\ e.undo = Rollback(view, n)
      /\ e.needs = UNION {LatestOn(journal, i) : i \in RestsOn(n)}
  BY DEF EntryOf
<1>2. n.op = "copy" /\ n.from \in more => n.id \in more
  <2>1. journal \in Seq(Range(journal)) /\ Len(journal) \in Nat
    BY DEF Journalled
  <2>2. /\ Len(Append(journal, e)) = Len(journal) + 1
        /\ Append(journal, e)[Len(journal) + 1] = e
    BY <2>1, AppendProperties
  <2>3. Len(journal) + 1 \in 1..Len(Append(journal, e))
    BY <2>1, <2>2
  <2> QED BY <1>1, <2>2, <2>3 DEF SpreadOver
<1>3. /\ Draws(n) \subseteq Items /\ n.from \in Items /\ n.id \in Draws(n)
      /\ n.op = "copy" => Draws(n) = {n.id}
  BY Drawing
<1>4. top => /\ Draws(m) \subseteq Items /\ m.from \in Items /\ m.id \in Draws(m)
             /\ m.op = "copy" => Draws(m) = {m.id}
  BY Drawing
<1>5. /\ top => \A i \in Items \ more : ~(i \in Draws(n) /\ i \in Draws(m))
      /\ top /\ n.op = "copy" /\ n.id \notin more => n.from \notin Draws(m)
      /\ top /\ m.op = "copy" /\ m.id \notin more => m.from \notin Draws(n)
  BY DEF Meet, Taken
<1>6. \A i \in Items \ more : view[i] = IF top THEN Put(w, m, i) ELSE w[i]
  BY DEF Under
<1>7. \A i \in Items : v[i] = Put(w, n, i) /\ s[i] = Put(view, n, i)
  BY DrawIs
<1>8. \A i \in Draws(n) \ more : e.undo[i] = w[i]
  <2> SUFFICES ASSUME NEW i \in Draws(n) \ more PROVE e.undo[i] = w[i]
    OBVIOUS
  <2>1. e.undo[i] = view[i] /\ i \in Items \ more
    BY <1>1, <1>3, RollbackIs
  <2>2. top => i \notin Draws(m)
    BY <1>5, <2>1
  <2> QED BY <1>6, <2>1, <2>2 DEF Put
<1>9. n.op = "copy" /\ n.id \notin more => n.from \in Items \ more /\ view[n.from] = w[n.from]
  BY <1>2, <1>3, <1>5, <1>6 DEF Put
<1>10. n.op = "copy" /\ n.id \notin more => w[n.from] # Nothing
  BY <1>9 DEF Throws
<1> HIDE DEF v, s
<1>11. Story(v, Append(journal, e), base, more)
  <2>1. /\ e.mut \in Mutations /\ \A i \in Draws(e.mut) \ more : e.undo[i] = w[i]
        /\ e.needs = UNION {LatestOn(journal, i) : i \in RestsOn(e.mut)}
        /\ e.mut.op = "copy" /\ e.mut.from \in more => e.mut.id \in more
        /\ e.mut.op = "copy" /\ e.mut.id \notin more => w[e.mut.from] # Nothing
        /\ \A i \in Items \ more : v[i] = Put(w, e.mut, i)
    BY <1>1, <1>2, <1>7, <1>8, <1>10
  <2> QED BY ONLY <2>1, Journalled(journal, mine), Story(w, journal, base, more), AppendStory
<1>12. ASSUME NEW i \in Items \ more PROVE s[i] = IF top THEN Put(v, m, i) ELSE v[i]
  <2>1. s[i] = Put(view, n, i) /\ v[i] = Put(w, n, i)
    BY <1>7
  <2>2. CASE i \in Draws(n)
    <3>1. s[i] = v[i]
      <4>1. CASE n.op = "copy"
        <5>1. i = n.id
          BY <1>3, <2>2, <4>1
        <5> QED BY <1>9, <2>1, <2>2, <4>1, <5>1 DEF Put
      <4>2. CASE n.op # "copy"
        BY <2>1, <2>2, <4>2 DEF Put
      <4> QED BY <4>1, <4>2
    <3>2. top => i \notin Draws(m)
      BY <1>5, <2>2
    <3> QED BY <3>1, <3>2 DEF Put
  <2>3. CASE i \notin Draws(n)
    <3>1. s[i] = view[i] /\ v[i] = w[i]
      BY <2>1, <2>3 DEF Put
    <3>2. top => Put(v, m, i) = Put(w, m, i)
      <4>1. CASE top /\ m.op = "copy" /\ i \in Draws(m)
        <5>1. m.id = i /\ m.from \in Items /\ m.from \notin Draws(n)
          BY <1>4, <1>5, <4>1
        <5>2. v[m.from] = w[m.from]
          BY <1>7, <5>1 DEF Put
        <5> QED BY <4>1, <5>2 DEF Put
      <4>2. CASE ~(m.op = "copy" /\ i \in Draws(m))
        BY <3>1, <4>2 DEF Put
      <4> QED BY <4>1, <4>2
    <3> QED BY <1>6, <3>1, <3>2
  <2> QED BY <2>2, <2>3
<1>13. top => /\ \A i \in Draws(m) \ more : v[i] = old[i]
              /\ m.op = "copy" /\ m.id \notin more => v[m.from] = old[m.from]
  <2> SUFFICES ASSUME top
               PROVE  /\ \A i \in Draws(m) \ more : v[i] = old[i]
                      /\ m.op = "copy" /\ m.id \notin more => v[m.from] = old[m.from]
    OBVIOUS
  <2>1. ASSUME NEW i \in Draws(m) \ more PROVE v[i] = old[i]
    <3>1. i \in Items \ more /\ i \notin Draws(n)
      BY <1>4, <1>5
    <3> QED BY <1>7, <3>1 DEF Put, Under
  <2>2. ASSUME m.op = "copy", m.id \notin more PROVE v[m.from] = old[m.from]
    <3>1. m.from \in Items /\ m.from \notin Draws(n)
      BY <1>4, <1>5, <2>2
    <3> QED BY <1>7, <2>2, <3>1 DEF Put, Under
  <2> QED BY <2>1, <2>2
<1> QED BY <1>11, <1>12, <1>13 DEF Under, s

LEMMA TellingStays ==
  ASSUME NEW c, NEW r, NEW e, NEW t, NEW mine, NEW base, NEW lost, NEW top, NEW m, NEW old,
         Telling(c, r, t, mine, base, lost, top, m, old), Len(r.sent) \in Nat, NEW x,
         r.sent \in Seq(Mine), x \in Mine, e.sent = r.sent \/ e.sent = Append(r.sent, x),
         e.client.view = r.client.view, e.client.journal = r.client.journal,
         Len(e.client.buffered) = Len(r.client.buffered),
         \A j \in 1..Len(r.client.buffered) :
           /\ e.client.buffered[j].mut = r.client.buffered[j].mut
           /\ e.client.buffered[j].redraw => r.client.buffered[j].redraw
  PROVE  Telling(c, e, t, mine, base, lost, top, m, old)
<1>1. \A y \in 1..Len(r.sent) : y \in 1..Len(e.sent) /\ e.sent[y] = r.sent[y]
  <2>1. e.sent = Append(r.sent, x) =>
          Len(e.sent) = Len(r.sent) + 1 /\ \A y \in 1..Len(r.sent) : e.sent[y] = r.sent[y]
    BY AppendProperties
  <2> QED BY <2>1
<1>2. Ordered(t, e.client.journal, e.client.buffered, lost)
  <2> DEFINE b == r.client.buffered
             f == e.client.buffered
             j == r.client.journal
  <2>1. Ordered(t, j, b, lost)
    BY DEF Telling
  <2>2. /\ Len(f) = Len(b)
        /\ \A k \in 1..Len(b) : f[k].mut = b[k].mut /\ (f[k].redraw => b[k].redraw)
    OBVIOUS
  <2>3. e.client.journal = j
    OBVIOUS
  <2> HIDE DEF b, f, j
  <2>4. Ordered(t, j, f, lost)
    BY <2>1, <2>2 DEF Ordered
  <2> QED BY <2>3, <2>4 DEF f
<1>3. \A p \in 1..Len(e.client.journal) :
        \/ p \in 1..Len(c.journal)
        \/ /\ \E y \in 1..Len(e.sent) : e.sent[y] = e.client.journal[p].mut
           /\ \E j \in 1..Len(c.buffered) :
                e.client.journal[p].mut = c.buffered[j].mut /\ c.buffered[j].redraw
  <2> SUFFICES ASSUME NEW p \in 1..Len(e.client.journal), p \notin 1..Len(c.journal)
               PROVE  /\ \E y \in 1..Len(e.sent) : e.sent[y] = e.client.journal[p].mut
                      /\ \E j \in 1..Len(c.buffered) :
                           e.client.journal[p].mut = c.buffered[j].mut /\ c.buffered[j].redraw
    OBVIOUS
  <2>1. PICK y \in 1..Len(r.sent) : r.sent[y] = e.client.journal[p].mut
    BY DEF Telling
  <2> QED BY <1>1, <2>1 DEF Telling
<1> QED BY <1>2, <1>3 DEF Telling

LEMMA TellingStep ==
  ASSUME NEW c, IsBrowser(c), NEW t \in Turns, BufferSorted(t, c.buffered), NEW acc,
         NEW mine, \A j \in 1..Len(c.buffered) : c.buffered[j].mut.cid \in mine,
         NEW base, NEW lost \in SUBSET Items, NEW top \in BOOLEAN, NEW m,
         top => m \in Mutations, NEW old,
         NEW r, Pumped(c, acc, r), NEW k \in 1..Len(c.buffered),
         Paced(c.buffered, t, r, k - 1), ~r.broken, c.buffered[k].state = "queued",
         Telling(c, r, t, mine, base, lost, top, m, old),
         NEW e, e = EmitNth(r, k), Pumped(c, acc, e), Paced(c.buffered, t, e, k)
  PROVE  Telling(c, e, t, mine, base, lost, top, m, old)
<1> DEFINE b == c.buffered
           d == r.client
           n == Len(b)
           w == d.buffered[k]
           j0 == d.journal
<1>1. /\ n \in Nat /\ k \in Int /\ k \in 1..n /\ Len(d.buffered) = n /\ Len(e.client.buffered) = n
      /\ \A j \in 1..n : b[j] \in Write /\ b[j].mut \in Mine /\ b[j].mut.cid \in Ids
      /\ k \in ((k - 1) + 1)..n
      /\ \A j \in 1..n : e.client.buffered[j].mut = b[j].mut /\ d.buffered[j].mut = b[j].mut
  <2>1. b \in Seq(Write)
    BY DEF IsBrowser, Browser
  <2>2. \A j \in 1..n : b[j] \in Write /\ b[j].mut \in Mine /\ b[j].mut.cid \in Ids
    <3>1. \A j \in 1..n : b[j] \in Write
      BY <2>1
    <3> HIDE DEF b
    <3> QED BY <3>1 DEF Write, Ids, Mutations
  <2>3. n \in Nat
    BY <2>1
  <2>4. Len(d.buffered) = n /\ Len(e.client.buffered) = n
    BY DEF Pumped
  <2>5. \A j \in 1..n : e.client.buffered[j].mut = b[j].mut /\ d.buffered[j].mut = b[j].mut
    BY DEF Pumped
  <2>6. k \in 1..n
    OBVIOUS
  <2> HIDE DEF b, d, n
  <2> QED BY <2>2, <2>3, <2>4, <2>5, <2>6
<1>2. w = b[k] /\ w.mut = b[k].mut /\ w.mut \in Mine /\ w.mut \in Mutations
  BY <1>1 DEF Paced, Mutations
<1>3. /\ r = [client |-> r.client, sent |-> r.sent, broken |-> r.broken]
      /\ IsBrowser(d) /\ j0 \in Seq(Range(j0)) /\ Len(j0) \in Nat
      /\ r.sent \in Seq(Mine) /\ Len(r.sent) \in Nat
  BY DEF Pumped, Closed
<1>4. /\ IsView(d.view) /\ Journalled(j0, mine) /\ Ordered(t, j0, d.buffered, lost)
  BY DEF Telling
<1>5. w.redraw => \A p \in 1..Len(j0) : j0[p].mut.cid # w.mut.cid
  BY <1>1, <1>4 DEF Ordered
<1>6. Emits(r, k, e)
  BY <1>1, <1>3, <1>5, EmitIs
<1>7. \A j \in 1..n : e.client.buffered[j].redraw =>
        j # k /\ d.buffered[j].redraw /\ e.client.buffered[j].state = "queued"
  <2>1. /\ \A j \in 1..n : j # k => e.client.buffered[j] = d.buffered[j]
        /\ e.client.buffered[k].redraw = FALSE
    BY <1>1, <1>6 DEF Emits
  <2>2. \A j \in 1..n : e.client.buffered[j].redraw => e.client.buffered[j].state = "queued"
    BY DEF Paced
  <2> HIDE DEF d, n
  <2> QED BY <2>1, <2>2
<1>8. CASE e.client.view = d.view /\ e.client.journal = j0
  <2>1. e.sent = r.sent \/ e.sent = Append(r.sent, w.mut)
    BY <1>6 DEF Emits
  <2>2. \A j \in 1..n : e.client.buffered[j].mut = d.buffered[j].mut
    BY <1>1
  <2>3. /\ Len(e.client.buffered) = Len(d.buffered)
        /\ \A j \in 1..Len(d.buffered) :
             /\ e.client.buffered[j].mut = d.buffered[j].mut
             /\ e.client.buffered[j].redraw => d.buffered[j].redraw
    <3>1. Len(d.buffered) = n /\ Len(e.client.buffered) = n
      BY <1>1
    <3>2. \A j \in 1..n : e.client.buffered[j].redraw => d.buffered[j].redraw
      BY <1>7
    <3> HIDE DEF d, n
    <3> QED BY <2>2, <3>1, <3>2
  <2>4. /\ Telling(c, r, t, mine, base, lost, top, m, old) /\ Len(r.sent) \in Nat
        /\ r.sent \in Seq(Mine) /\ w.mut \in Mine
        /\ e.client.view = r.client.view /\ e.client.journal = r.client.journal
    BY <1>2, <1>3, <1>8
  <2>5. /\ Len(e.client.buffered) = Len(r.client.buffered)
        /\ \A j \in 1..Len(r.client.buffered) :
             /\ e.client.buffered[j].mut = r.client.buffered[j].mut
             /\ e.client.buffered[j].redraw => r.client.buffered[j].redraw
    BY <2>3 DEF d
  <2> HIDE DEF w
  <2> QED BY ONLY <2>1, <2>4, <2>5, TellingStays
<1>9. CASE /\ w.redraw /\ ~Throws(d.view, w.mut)
           /\ e.broken = r.broken /\ e.sent = Append(r.sent, w.mut)
           /\ e.client.view = Draw(d.view, w.mut)
           /\ e.client.journal =
                Append(j0, [mut |-> w.mut, undo |-> Rollback(d.view, w.mut),
                            needs |-> UNION {LatestOn(j0, i) : i \in RestsOn(w.mut)}])
  <2> DEFINE en == [mut |-> w.mut, undo |-> Rollback(d.view, w.mut),
                    needs |-> UNION {LatestOn(j0, i) : i \in RestsOn(w.mut)}]
             j1 == Append(j0, en)
             N == Len(j0)
  <2>1. /\ en.mut = w.mut /\ en.undo = Rollback(d.view, w.mut)
        /\ e.client.journal = j1
    BY <1>9
  <2>2. /\ Len(j1) = N + 1 /\ j1[N + 1] = en /\ \A p \in 1..N : j1[p] = j0[p]
        /\ j1 \in Seq(Range(j1))
        /\ \A p \in 1..(N + 1) : p \in 1..N \/ p = N + 1
    <3>1. j1 \in Seq(Range(j0) \cup {en}) /\ Range(j1) = Range(j0) \cup {en}
      <4>1. j0 \in Seq(Range(j0))
        BY <1>3
      <4> HIDE DEF en, j0
      <4> QED BY ONLY <4>1, Appended DEF j1
    <3> HIDE DEF en
    <3>2. Len(j1) = N + 1 /\ j1[N + 1] = en /\ \A p \in 1..N : j1[p] = j0[p]
      BY <1>3, AppendProperties
    <3> HIDE DEF j1
    <3> QED BY <1>3, <3>1, <3>2
  <2> HIDE DEF en, j1
  <2>3. IsView(e.client.view)
    BY <1>4, <1>9, DrawIs
  <2>4. Journalled(j1, mine)
    <3>1. /\ en.mut \in Mine /\ en.mut.cid \in mine /\ DOMAIN en.undo = Draws(en.mut)
          /\ \A p \in 1..N : j0[p].mut.cid # en.mut.cid
      BY <1>1, <1>2, <1>4, <1>5, <1>9, <2>1, RollbackIs
    <3>2. \A p \in 1..(N + 1) : /\ j1[p].mut \in Mine /\ j1[p].mut.cid \in mine
                                /\ DOMAIN j1[p].undo = Draws(j1[p].mut)
      BY <1>4, <2>2, <3>1 DEF Journalled
    <3>3. \A p, q \in 1..(N + 1) : j1[p].mut.cid = j1[q].mut.cid => p = q
      BY <1>4, <2>2, <3>1 DEF Journalled
    <3> QED BY <2>2, <3>2, <3>3 DEF Journalled
  <2>5. /\ Len(c.journal) <= Len(j1)
        /\ \A p \in 1..Len(c.journal) : j1[p] = c.journal[p]
    <3>1. Len(c.journal) <= N /\ \A p \in 1..Len(c.journal) : j0[p] = c.journal[p]
      BY DEF Telling
    <3>2. \A p \in 1..Len(c.journal) : p \in 1..N
      BY <1>3, <3>1
    <3>3. N <= Len(j1)
      BY <1>3, <2>2
    <3>4. Len(c.journal) <= Len(j1)
      <4>1. N \in Nat /\ Len(j1) = N + 1
        BY <1>3, <2>2
      <4>2. CASE Len(c.journal) \in Int
        BY <3>1, <4>1, <4>2
      <4>3. Len(c.journal) \in Int
        BY DEF Pumped
      <4> QED BY <4>2, <4>3
    <3> QED BY <2>2, <3>1, <3>2, <3>4
  <2>6. \A p \in 1..Len(j1) :
          \/ p \in 1..Len(c.journal)
          \/ /\ \E x \in 1..Len(e.sent) : e.sent[x] = j1[p].mut
             /\ \E j \in 1..n : j1[p].mut = b[j].mut /\ b[j].redraw
    <3>1. /\ Len(e.sent) = Len(r.sent) + 1 /\ e.sent[Len(r.sent) + 1] = w.mut
          /\ \A x \in 1..Len(r.sent) : e.sent[x] = r.sent[x]
      BY <1>2, <1>3, <1>9, AppendProperties
    <3>2. /\ Len(e.sent) \in 1..Len(e.sent) /\ e.sent[Len(e.sent)] = w.mut
          /\ \A x \in 1..Len(r.sent) : x \in 1..Len(e.sent)
      BY <1>3, <3>1
    <3>3. ASSUME NEW p \in 1..N, p \notin 1..Len(c.journal)
          PROVE  /\ \E x \in 1..Len(e.sent) : e.sent[x] = j1[p].mut
                 /\ \E j \in 1..n : j1[p].mut = b[j].mut /\ b[j].redraw
      <4>1. PICK x \in 1..Len(r.sent) : r.sent[x] = j0[p].mut
        BY <3>3 DEF Telling
      <4>2. \E j \in 1..n : j0[p].mut = b[j].mut /\ b[j].redraw
        BY <3>3 DEF Telling
      <4> QED BY <2>2, <3>1, <3>2, <4>1, <4>2
    <3>4. /\ \E x \in 1..Len(e.sent) : e.sent[x] = j1[N + 1].mut
          /\ \E j \in 1..n : j1[N + 1].mut = b[j].mut /\ b[j].redraw
      BY <1>1, <1>2, <1>9, <2>1, <2>2, <3>2
    <3> QED BY <2>2, <3>3, <3>4
  <2>7. Ordered(t, j1, e.client.buffered, lost)
    <3>1. ASSUME NEW p \in 1..(N + 1), NEW q \in 1..(N + 1), p < q
          PROVE  InTurn(t, lost, j1[p].mut, j1[q].mut)
      <4>1. p \in 1..N
        BY <1>3, <2>2, <3>1
      <4>2. CASE q \in 1..N
        BY <1>4, <2>2, <3>1, <4>1, <4>2 DEF Ordered
      <4>3. CASE q = N + 1
        <5>1. InTurn(t, lost, j0[p].mut, w.mut)
          BY <1>1, <1>4, <1>9, <4>1 DEF Ordered
        <5> QED BY <2>1, <2>2, <4>1, <4>3, <5>1
      <4> QED BY <2>2, <4>2, <4>3
    <3>2. ASSUME NEW p \in 1..(N + 1), NEW j \in 1..n, e.client.buffered[j].redraw
          PROVE  /\ j1[p].mut.cid # e.client.buffered[j].mut.cid
                 /\ InTurn(t, lost, j1[p].mut, e.client.buffered[j].mut)
      <4>0. e.client.buffered[j].mut = b[j].mut /\ d.buffered[j].mut = b[j].mut
            /\ d.buffered[j].redraw /\ j # k
        BY <1>1, <1>7, <3>2
      <4>1. CASE p \in 1..N
        <5>1. /\ j0[p].mut.cid # d.buffered[j].mut.cid
              /\ InTurn(t, lost, j0[p].mut, d.buffered[j].mut)
          BY <1>1, <1>4, <4>0, <4>1 DEF Ordered
        <5> QED BY <2>2, <4>0, <4>1, <5>1
      <4>2. CASE p = N + 1
        <5>1. e.client.buffered[j].state = "queued" /\ ~e.broken
          BY <1>7, <1>9, <3>2
        <5>2. j > k
          <6> SUFFICES ASSUME ~(j > k) PROVE FALSE
            OBVIOUS
          <6>1. j \in 1..k
            BY <1>1
          <6>2. e.client.buffered[j].state = "inflight"
            BY <5>1, <6>1 DEF Paced
          <6> QED BY <5>1, <6>2
        <5>3. t[b[k].mut.cid] < t[b[j].mut.cid]
          BY <1>1, <5>2 DEF BufferSorted
        <5>4. t[b[k].mut.cid] \in Int
          BY <1>1 DEF Turns
        <5>5. b[k].mut.cid # b[j].mut.cid
          BY <5>3, <5>4
        <5> QED BY <1>2, <2>1, <2>2, <4>0, <4>2, <5>3, <5>5 DEF InTurn
      <4> QED BY <2>2, <4>1, <4>2
    <3> QED BY <1>1, <2>2, <3>1, <3>2 DEF Ordered
  <2>8. ASSUME NEW more \in SUBSET Items, Fits(b, j1, top, m, lost, more)
        PROVE  \E v : Story(v, j1, base, more) /\ Under(v, e.client.view, top, m, old, more)
    <3>1. SpreadOver(j0, more)
      <4>1. \A p \in 1..N : p \in 1..Len(j1) /\ j1[p] = j0[p]
        BY <1>3, <2>2
      <4> QED BY <2>8, <4>1 DEF Fits, SpreadOver
    <3>2. Fits(b, j0, top, m, lost, more)
      BY <2>8, <3>1 DEF Fits
    <3>3. PICK v : Story(v, j0, base, more) /\ Under(v, d.view, top, m, old, more)
      BY <3>2 DEF Telling
    <3>4. top => Meet(w.mut, m) \subseteq more
      BY <1>1, <1>2, <1>9, <2>8 DEF Fits
    <3>5. SpreadOver(Append(j0, en), more)
      BY <2>8 DEF Fits, j1
    <3>6. \E x : /\ Story(x, Append(j0, en), base, more)
                 /\ Under(x, Draw(d.view, w.mut), top, m, old, more)
      <4> DEFINE f == d.view
                 g == w.mut
      <4>1. en = EntryOf(j0, f, g)
        BY DEF en, EntryOf
      <4>2. IsView(f) /\ g \in Mutations /\ ~Throws(f, g)
        BY <1>2, <1>4, <1>9
      <4>3. Under(v, f, top, m, old, more) /\ (top => Meet(g, m) \subseteq more)
        BY <3>3, <3>4
      <4> HIDE DEF f, g, j0
      <4>5. /\ Journalled(j0, mine) /\ Story(v, j0, base, more) /\ SpreadOver(Append(j0, en), more)
            /\ top \in BOOLEAN /\ (top => m \in Mutations)
        BY <1>4, <3>3, <3>5
      <4>4. \E x : /\ Story(x, Append(j0, en), base, more)
                   /\ Under(x, Draw(f, g), top, m, old, more)
        BY ONLY <4>1, <4>2, <4>3, <4>5, RedrawStory
      <4> QED BY <4>4 DEF f, g
    <3> QED BY <1>9, <3>6 DEF j1
  <2> QED BY <2>1, <2>3, <2>4, <2>5, <2>6, <2>7, <2>8 DEF Telling
<1> QED BY <1>6, <1>8, <1>9 DEF Emits

\* What holds of a pump from before it starts to after it ends.
Pumping(c, acc, r, t, k, mine, base, lost, top, m, old) ==
  /\ Pumped(c, acc, r) /\ Paced(c.buffered, t, r, k)
  /\ Telling(c, r, t, mine, base, lost, top, m, old)

LEMMA PumpingStart ==
  ASSUME NEW c, IsBrowser(c), NEW acc, Closed(c.journal, acc), FlagsFit(c.buffered), NEW t,
         NEW mine, IsView(c.view), Journalled(c.journal, mine), NEW base,
         NEW lost, Ordered(t, c.journal, c.buffered, lost), NEW top, NEW m, NEW old,
         \A more \in SUBSET Items :
           Fits(c.buffered, c.journal, top, m, lost, more) =>
             \E w : Story(w, c.journal, base, more) /\ Under(w, c.view, top, m, old, more),
         NEW r, r = [client |-> c, sent |-> << >>, broken |-> FALSE]
  PROVE  Pumping(c, acc, r, t, 0, mine, base, lost, top, m, old)
<1>1. r.client = c /\ r.sent = << >> /\ r.broken = FALSE
      /\ r = [client |-> r.client, sent |-> r.sent, broken |-> r.broken]
  OBVIOUS
<1>2. Pumped(c, acc, r)
  <2>1. r.sent \in Seq(Mine) /\ Range(r.sent) = {}
    BY <1>1 DEF Range
  <2> QED BY <1>1, <2>1 DEF Pumped
<1>3. Paced(c.buffered, t, r, 0)
  BY PacedStart
<1>4. Len(c.journal) <= Len(c.journal)
  BY DEF Journalled
<1>5. Telling(c, r, t, mine, base, lost, top, m, old)
  BY <1>1, <1>4 DEF Telling
<1> QED BY <1>2, <1>3, <1>5 DEF Pumping

LEMMA PumpingStep ==
  ASSUME NEW c, IsBrowser(c), NEW t \in Turns, BufferSorted(t, c.buffered), NEW acc,
         NEW mine, \A j \in 1..Len(c.buffered) : c.buffered[j].mut.cid \in mine,
         NEW base, NEW lost \in SUBSET Items, NEW top \in BOOLEAN, NEW m,
         top => m \in Mutations, NEW old, NEW k \in 1..Len(c.buffered),
         NEW r, Pumping(c, acc, r, t, k - 1, mine, base, lost, top, m, old),
         NEW e, e = IF r.broken \/ c.buffered[k].state # "queued" THEN r ELSE EmitNth(r, k)
  PROVE  Pumping(c, acc, e, t, k, mine, base, lost, top, m, old)
<1>1. CASE r.broken \/ c.buffered[k].state # "queued"
  BY <1>1, PacedStays DEF Pumping
<1>2. CASE ~(r.broken \/ c.buffered[k].state # "queued")
  <2>1. e = EmitNth(r, k) /\ ~r.broken /\ c.buffered[k].state = "queued"
    BY <1>2
  <2>2. Pumped(c, acc, r) /\ Paced(c.buffered, t, r, k - 1)
        /\ Telling(c, r, t, mine, base, lost, top, m, old)
    BY DEF Pumping
  <2>3. Pumped(c, acc, e)
    BY <2>1, <2>2, EmitPumps
  <2>4. r.client.buffered[k].redraw =>
          \A p \in 1..Len(r.client.journal) :
            r.client.journal[p].mut.cid # r.client.buffered[k].mut.cid
    <3>1. Ordered(t, r.client.journal, r.client.buffered, lost)
      BY <2>2 DEF Telling
    <3>2. k \in 1..Len(r.client.buffered)
      BY <2>2 DEF Pumped
    <3> QED BY <3>1, <3>2 DEF Ordered
  <2>5. Paced(c.buffered, t, e, k)
    BY <2>1, <2>2, <2>4, PacedStep
  <2>6. Telling(c, e, t, mine, base, lost, top, m, old)
    BY <2>1, <2>2, <2>3, <2>5, TellingStep
  <2> QED BY <2>3, <2>5, <2>6 DEF Pumping
<1> QED BY <1>1, <1>2

LEMMA PumpTells ==
  ASSUME NEW c, IsBrowser(c), NEW t \in Turns, BufferSorted(t, c.buffered), NEW acc,
         Closed(c.journal, acc), FlagsFit(c.buffered),
         NEW mine, \A j \in 1..Len(c.buffered) : c.buffered[j].mut.cid \in mine,
         IsView(c.view), Journalled(c.journal, mine), NEW base,
         NEW lost \in SUBSET Items, Ordered(t, c.journal, c.buffered, lost),
         NEW top \in BOOLEAN, NEW m, top => m \in Mutations, NEW old,
         \A more \in SUBSET Items :
           Fits(c.buffered, c.journal, top, m, lost, more) =>
             \E w : Story(w, c.journal, base, more) /\ Under(w, c.view, top, m, old, more),
         NEW upto \in 0..Len(c.buffered), NEW r, r = Pump(c, upto)
  PROVE  Pumping(c, acc, r, t, upto, mine, base, lost, top, m, old)
<1> DEFINE n == Len(c.buffered)
           Good(x, k) == Pumping(c, acc, x, t, k, mine, base, lost, top, m, old)
           step(x, k) == IF x.broken \/ c.buffered[k].state # "queued" THEN x ELSE EmitNth(x, k)
<1>1. n \in Nat /\ upto \in Nat /\ upto <= n
  <2>1. c.buffered \in Seq(Write)
    BY DEF IsBrowser, Browser
  <2> QED BY <2>1
<1>2. PICK run : /\ run[0] = [client |-> c, sent |-> << >>, broken |-> FALSE]
                 /\ run[upto] = Pump(c, upto)
                 /\ \A k \in 1..upto : run[k] = step(run[k - 1], k)
  BY <1>1, PumpRun
<1>3. Good(run[0], 0)
  BY <1>2, PumpingStart
<1>4. ASSUME NEW k \in 1..n, NEW x, Good(x, k - 1) PROVE Good(step(x, k), k)
  <2> DEFINE e == step(x, k)
  <2>1. e = IF x.broken \/ c.buffered[k].state # "queued" THEN x ELSE EmitNth(x, k)
    OBVIOUS
  <2>2. IsBrowser(c) /\ t \in Turns /\ BufferSorted(t, c.buffered)
        /\ (\A j \in 1..Len(c.buffered) : c.buffered[j].mut.cid \in mine)
        /\ lost \in SUBSET Items /\ top \in BOOLEAN /\ (top => m \in Mutations)
        /\ k \in 1..Len(c.buffered)
        /\ Pumping(c, acc, x, t, k - 1, mine, base, lost, top, m, old)
    BY <1>4
  <2> HIDE DEF e
  <2>3. Pumping(c, acc, e, t, k, mine, base, lost, top, m, old)
    BY ONLY <2>1, <2>2, PumpingStep
  <2> QED BY <2>3 DEF e
<1> HIDE DEF Good, step
<1> DEFINE P == {k \in 0..upto : Good(run[k], k)}
<1>5. 0 \in P
  BY <1>1, <1>3
<1>6. ASSUME NEW k \in 0..upto, k # upto, k \in P PROVE k + 1 \in P
  <2>1. k + 1 \in 0..upto /\ (k + 1) - 1 = k /\ k + 1 \in 1..n /\ k + 1 \in 1..upto
    BY <1>1, <1>6
  <2>2. run[k + 1] = step(run[k], k + 1)
    BY <1>2, <2>1
  <2>3. Good(run[k], (k + 1) - 1)
    BY <1>6, <2>1
  <2>4. Good(step(run[k], k + 1), k + 1)
    BY <1>4, <2>1, <2>3
  <2> QED BY <2>1, <2>2, <2>4
<1>7. 0..upto \subseteq P
  <2> HIDE DEF P
  <2> QED BY <1>1, <1>5, <1>6, HandedOn
<1>8. Good(run[upto], upto)
  BY <1>1, <1>7
<1> QED BY <1>2, <1>8 DEF Good

\* What tells the browser what has become of a write of its own.
IsAnswer(frame) == (frame.kind = "mutation" /\ frame.mine) \/ frame.kind = "rejected"
AnswerOf(frame) == IF frame.kind = "rejected" THEN frame.cid ELSE frame.mut.cid

\* The answers come in the order of the writes.
Sorted(t, fs, q, b) ==
  /\ \A i, j \in 1..Len(fs) : i < j /\ IsAnswer(fs[i]) /\ IsAnswer(fs[j]) =>
       t[AnswerOf(fs[i])] <= t[AnswerOf(fs[j])]
  /\ \A i \in 1..Len(fs), j \in 1..Len(q) : IsAnswer(fs[i]) /\ q[j].here =>
       t[AnswerOf(fs[i])] <= t[q[j].mut.cid]
  /\ \A i \in 1..Len(fs), k \in 1..Len(b) : IsAnswer(fs[i]) /\ b[k].state = "queued" =>
       t[AnswerOf(fs[i])] <= t[b[k].mut.cid]
  /\ \A i, j \in 1..Len(q) : i < j /\ q[i].here /\ q[j].here =>
       t[q[i].mut.cid] <= t[q[j].mut.cid]
  /\ \A j \in 1..Len(q), k \in 1..Len(b) : q[j].here /\ b[k].state = "queued" =>
       t[q[j].mut.cid] <= t[b[k].mut.cid]

\* Every pending write has an answer coming, but for those whose items are lost.
Expected(cid, fs, q, b) ==
  \/ \E i \in 1..Len(fs) : IsAnswer(fs[i]) /\ AnswerOf(fs[i]) = cid
  \/ \E j \in 1..Len(q) : q[j].here /\ q[j].mut.cid = cid
  \/ \E k \in 1..Len(b) : b[k].state = "queued" /\ b[k].mut.cid = cid
Alive(journal, fs, q, b, lost) ==
  \A p \in 1..Len(journal) :
    Draws(journal[p].mut) \subseteq lost \/ Expected(journal[p].mut.cid, fs, q, b)

\* A pending write the browser knows to be on the board has lost its items.
Seen(journal, lg, seq, lost) ==
  \A p \in 1..Len(journal), n \in 1..seq :
    lg[n].cid = journal[p].mut.cid => Draws(journal[p].mut) \subseteq lost

\* What is under way are accepted mutations and answers to own writes.
Posted(fs, lg, mine) ==
  \A i \in 1..Len(fs) :
    /\ fs[i].kind = "mutation" =>
         fs[i].mut = lg[fs[i].seq] /\ (fs[i].mine => fs[i].mut \in Mine /\ fs[i].mut.cid \in mine)
    /\ fs[i].kind = "rejected" => fs[i].cid \in mine
    /\ fs[i].kind # "limited"

\* What the browser has not seen of the board is under way, unless its items are lost.
Covered(fs, lg, seq, lost) ==
  /\ \A s \in (seq + 1)..Len(lg) :
       \/ \E i \in 1..Len(fs) : fs[i].kind = "mutation" /\ fs[i].seq = s
       \/ Len(fs) # 0 /\ fs[1].kind = "batch" /\ s <= seq + Len(fs[1].muts)
       \/ s = seq + 1 /\ Draws(lg[s]) \subseteq lost
  /\ Len(fs) # 0 /\ fs[1].kind = "batch" =>
       \A k \in 1..Len(fs[1].muts) : fs[1].muts[k] = lg[seq + k]

Legit(lg) == \A n \in 1..Len(lg) : Applicable(After(lg, n - 1), lg[n])
Preserved(c) ==
  c.link # "live" \/ c.paused =>
    \A k \in 1..Len(c.buffered) : c.buffered[k].redraw /\ c.buffered[k].state = "queued"
Detached(c, lg, lost) ==
  /\ c.link # "live" => c.journal = << >>
  /\ c.link \in {"fetched", "replaying"} => lost = {} /\ c.view = After(lg, c.seq)
BatchFirst(c, fs) ==
  c.link = "replaying" => Len(fs) # 0 /\ fs[1].kind \in {"batch", "closed"}

Attached(t, c, lg, q, fs, mine, lost) ==
  /\ IsView(c.view) /\ Journalled(c.journal, mine)
  /\ Story(c.view, c.journal, After(lg, c.seq), lost)
  /\ FlagsFit(c.buffered) /\ Ordered(t, c.journal, c.buffered, lost)
  /\ Alive(c.journal, fs, q, c.buffered, lost) /\ Seen(c.journal, lg, c.seq, lost)
  /\ Sorted(t, fs, q, c.buffered) /\ Posted(fs, lg, mine) /\ Covered(fs, lg, c.seq, lost)
Numbered(t, N, c, mine) ==
  BufferSorted(t, c.buffered) /\ \A x \in mine : t[x] < N

Screen ==
  /\ Legit(log) /\ Preserved(me) /\ Detached(me, log, crossed) /\ BatchFirst(me, frames)
  /\ crossed \subseteq Items
  /\ \E t \in Turns, N \in Nat :
       /\ Numbered(t, N, me, used.mine)
       /\ open => Attached(t, me, log, queue, frames, used.mine, crossed)

LEMMA SpreadIs ==
  ASSUME NEW items, NEW muts, muts \subseteq Mutations, crossed \subseteq Items,
         NEW s, s = Spread(items, muts)
  PROVE  /\ s \in SUBSET Items /\ crossed \subseteq s /\ items \cap Items \subseteq s
         /\ \A m \in muts : m.op = "copy" /\ m.from \in s => m.id \in s
<1> DEFINE closed(x) == \A m \in muts : m.op = "copy" /\ m.from \in x => m.id \in x
<1>1. s = {i \in Items : \A x \in SUBSET Items : crossed \cup items \subseteq x /\ closed(x) => i \in x}
  BY DEF Spread
<1>2. ASSUME NEW m \in muts, m.op = "copy", m.from \in s PROVE m.id \in s
  <2>1. m.id \in Items
    BY Drawing
  <2>2. ASSUME NEW x \in SUBSET Items, crossed \cup items \subseteq x, closed(x)
        PROVE  m.id \in x
    BY <1>1, <1>2, <2>2
  <2> QED BY <1>1, <2>1, <2>2
<1>3. s \in SUBSET Items /\ crossed \subseteq s /\ items \cap Items \subseteq s
  BY <1>1
<1> QED BY <1>2, <1>3

-----------------------------------------------------------------------------
(* The server answers.                                                      *)

LEMMA Appending ==
  ASSUME NEW S, NEW s \in Seq(S), NEW x
  PROVE  /\ Len(s) \in Nat /\ Len(Append(s, x)) = Len(s) + 1 /\ Append(s, x)[Len(s) + 1] = x
         /\ \A i \in 1..Len(s) : Append(s, x)[i] = s[i]
         /\ \A i \in 1..Len(s) : i \in 1..Len(Append(s, x))
         /\ \A i \in 1..Len(Append(s, x)) : i \in 1..Len(s) \/ i = Len(s) + 1
<1>1. s \in Seq(S \cup {x}) /\ x \in S \cup {x} /\ Len(s) \in Nat
  OBVIOUS
<1>2. /\ Len(Append(s, x)) = Len(s) + 1 /\ Append(s, x)[Len(s) + 1] = x
      /\ \A i \in 1..Len(s) : Append(s, x)[i] = s[i]
  BY <1>1, AppendProperties
<1> QED BY <1>1, <1>2

LEMMA Tailing ==
  ASSUME NEW S, NEW s \in Seq(S), s # << >>
  PROVE  /\ Len(s) \in Nat \ {0} /\ Len(Tail(s)) = Len(s) - 1 /\ Head(s) = s[1]
         /\ \A i \in 1..Len(Tail(s)) : Tail(s)[i] = s[i + 1] /\ i + 1 \in 1..Len(s)
         /\ \A i \in 1..Len(s) : i = 1 \/ (i - 1 \in 1..Len(Tail(s)) /\ Tail(s)[i - 1] = s[i])
<1>1. /\ Len(s) \in Nat \ {0} /\ Len(Tail(s)) = Len(s) - 1 /\ Head(s) = s[1]
      /\ \A i \in 1..Len(Tail(s)) : Tail(s)[i] = s[i + 1]
  OBVIOUS
<1>2. ASSUME NEW i \in 1..Len(s), i # 1 PROVE i - 1 \in 1..Len(Tail(s)) /\ Tail(s)[i - 1] = s[i]
  BY <1>1, <1>2
<1> QED BY <1>1, <1>2

LEMMA NewsSorted ==
  ASSUME NEW t, NEW fs \in Seq(Frame), NEW q, NEW b, Sorted(t, fs, q, b), NEW x, ~IsAnswer(x)
  PROVE  Sorted(t, Append(fs, x), q, b)
<1> DEFINE gs == Append(fs, x)
<1>1. \A i \in 1..Len(gs) : IsAnswer(gs[i]) => i \in 1..Len(fs) /\ gs[i] = fs[i]
  BY Appending
<1> HIDE DEF gs
<1> QED BY <1>1 DEF Sorted, gs

LEMMA DroppedSorted ==
  ASSUME NEW t, NEW fs, NEW q \in Seq(Sent), q # << >>, NEW b, Sorted(t, fs, q, b)
  PROVE  Sorted(t, fs, Tail(q), b)
<1> DEFINE p == Tail(q)
<1>1. \A i \in 1..Len(p) : i + 1 \in 1..Len(q) /\ p[i] = q[i + 1]
  BY Tailing
<1>2. \A i, j \in 1..Len(p) : i < j => i + 1 < j + 1
  OBVIOUS
<1> HIDE DEF p
<1> QED BY <1>1, <1>2 DEF Sorted, p

LEMMA AnsweredSorted ==
  ASSUME NEW t, NEW fs \in Seq(Frame), NEW q \in Seq(Sent), q # << >>, NEW b,
         Sorted(t, fs, q, b), Head(q).here,
         NEW x, IsAnswer(x), AnswerOf(x) = Head(q).mut.cid
  PROVE  Sorted(t, Append(fs, x), Tail(q), b)
<1> DEFINE p == Tail(q)
           gs == Append(fs, x)
<1>1. /\ \A i \in 1..Len(p) : i + 1 \in 1..Len(q) /\ p[i] = q[i + 1] /\ 1 < i + 1
      /\ \A i, j \in 1..Len(p) : i < j => i + 1 < j + 1
      /\ 1 \in 1..Len(q) /\ q[1] = Head(q)
  BY Tailing
<1>2. \A i \in 1..Len(gs) : (i \in 1..Len(fs) /\ gs[i] = fs[i]) \/ (i = Len(gs) /\ gs[i] = x)
  BY Appending
<1>3. \A i, j \in 1..Len(gs) : i < j => i # Len(gs)
  OBVIOUS
<1> HIDE DEF p, gs
<1>4. \A i, j \in 1..Len(gs) : i < j /\ IsAnswer(gs[i]) /\ IsAnswer(gs[j]) =>
        t[AnswerOf(gs[i])] <= t[AnswerOf(gs[j])]
  <2> SUFFICES ASSUME NEW i \in 1..Len(gs), NEW j \in 1..Len(gs), i < j,
                      IsAnswer(gs[i]), IsAnswer(gs[j])
               PROVE  t[AnswerOf(gs[i])] <= t[AnswerOf(gs[j])]
    OBVIOUS
  <2>1. i \in 1..Len(fs) /\ gs[i] = fs[i]
    BY <1>2, <1>3
  <2>2. CASE j \in 1..Len(fs) /\ gs[j] = fs[j]
    BY <2>1, <2>2 DEF Sorted
  <2>3. CASE gs[j] = x
    <3>1. t[AnswerOf(fs[i])] <= t[q[1].mut.cid]
      BY <1>1, <2>1 DEF Sorted
    <3> QED BY <1>1, <2>1, <2>3, <3>1
  <2> QED BY <1>2, <2>2, <2>3
<1>5. \A i \in 1..Len(gs), j \in 1..Len(p) : IsAnswer(gs[i]) /\ p[j].here =>
       t[AnswerOf(gs[i])] <= t[p[j].mut.cid]
  <2> SUFFICES ASSUME NEW i \in 1..Len(gs), NEW j \in 1..Len(p), IsAnswer(gs[i]), p[j].here
               PROVE  t[AnswerOf(gs[i])] <= t[p[j].mut.cid]
    OBVIOUS
  <2>1. CASE i \in 1..Len(fs) /\ gs[i] = fs[i]
    BY <1>1, <2>1 DEF Sorted
  <2>2. CASE gs[i] = x
    BY <1>1, <2>2 DEF Sorted
  <2> QED BY <1>2, <2>1, <2>2
<1>6. \A i \in 1..Len(gs), k \in 1..Len(b) : IsAnswer(gs[i]) /\ b[k].state = "queued" =>
       t[AnswerOf(gs[i])] <= t[b[k].mut.cid]
  BY <1>1, <1>2 DEF Sorted
<1>7. /\ \A i, j \in 1..Len(p) : i < j /\ p[i].here /\ p[j].here =>
           t[p[i].mut.cid] <= t[p[j].mut.cid]
      /\ \A j \in 1..Len(p), k \in 1..Len(b) : p[j].here /\ b[k].state = "queued" =>
           t[p[j].mut.cid] <= t[b[k].mut.cid]
  BY <1>1 DEF Sorted
<1> QED BY <1>4, <1>5, <1>6, <1>7 DEF Sorted, p, gs

LEMMA NewsAlive ==
  ASSUME NEW fs \in Seq(Frame), NEW x, NEW cid, NEW q, NEW b, Expected(cid, fs, q, b)
  PROVE  Expected(cid, Append(fs, x), q, b)
<1> DEFINE gs == Append(fs, x)
<1>1. \A i \in 1..Len(fs) : i \in 1..Len(gs) /\ gs[i] = fs[i]
  BY Appending
<1> HIDE DEF gs
<1> QED BY <1>1 DEF Expected, gs

LEMMA DroppedAlive ==
  ASSUME NEW fs, NEW cid, NEW q \in Seq(Sent), q # << >>, NEW b, Expected(cid, fs, q, b)
  PROVE  Expected(cid, fs, Tail(q), b) \/ (Head(q).here /\ Head(q).mut.cid = cid)
<1> DEFINE p == Tail(q)
<1>1. \A j \in 1..Len(q) : q[j] = Head(q) \/ (j - 1 \in 1..Len(p) /\ p[j - 1] = q[j])
  BY Tailing
<1> HIDE DEF p
<1> QED BY <1>1 DEF Expected, p

\* The next write is dealt with: it is answered if it came on the current socket.
LEMMA Answered ==
  ASSUME NEW t, NEW fs \in Seq(Frame), NEW q \in Seq(Sent), q # << >>, NEW b,
         Sorted(t, fs, q, b), NEW journal, NEW lost, Alive(journal, fs, q, b, lost),
         NEW gs,
         \/ gs = fs /\ ~Head(q).here
         \/ \E x : gs = Append(fs, x) /\ ~Head(q).here /\ ~IsAnswer(x)
         \/ \E x : gs = Append(fs, x) /\ Head(q).here /\ IsAnswer(x) /\ AnswerOf(x) = Head(q).mut.cid
  PROVE  Sorted(t, gs, Tail(q), b) /\ Alive(journal, gs, Tail(q), b, lost)
<1> DEFINE p == Tail(q)
<1>1. CASE gs = fs /\ ~Head(q).here
  BY <1>1, DroppedSorted, DroppedAlive DEF Alive
<1>2. ASSUME NEW x, gs = Append(fs, x), ~Head(q).here, ~IsAnswer(x)
      PROVE  Sorted(t, gs, Tail(q), b) /\ Alive(journal, gs, Tail(q), b, lost)
  <2>1. Sorted(t, gs, Tail(q), b)
    BY <1>2, DroppedSorted, NewsSorted
  <2>2. ASSUME NEW cid, Expected(cid, fs, q, b) PROVE Expected(cid, gs, Tail(q), b)
    <3>1. Expected(cid, fs, Tail(q), b)
      BY <1>2, <2>2, DroppedAlive
    <3> QED BY <1>2, <3>1, NewsAlive
  <2> QED BY <2>1, <2>2 DEF Alive
<1>3. ASSUME NEW x, gs = Append(fs, x), Head(q).here, IsAnswer(x), AnswerOf(x) = Head(q).mut.cid
      PROVE  Sorted(t, gs, Tail(q), b) /\ Alive(journal, gs, Tail(q), b, lost)
  <2>1. Sorted(t, gs, Tail(q), b)
    BY <1>3, AnsweredSorted
  <2>2. ASSUME NEW cid, Expected(cid, fs, q, b) PROVE Expected(cid, gs, Tail(q), b)
    <3>1. CASE Expected(cid, fs, Tail(q), b)
      BY <1>3, <3>1, NewsAlive
    <3>2. CASE Head(q).mut.cid = cid
      <4>1. Len(gs) \in 1..Len(gs) /\ gs[Len(gs)] = x
        BY <1>3, Appending
      <4> QED BY <1>3, <3>2, <4>1 DEF Expected
    <3> QED BY <2>2, <3>1, <3>2, DroppedAlive
  <2> QED BY <2>1, <2>2 DEF Alive
<1> QED BY <1>1, <1>2, <1>3

LogMore(lg, next) == Len(lg) <= Len(next) /\ \A k \in 1..Len(lg) : next[k] = lg[k]

LEMMA GrownBoard ==
  ASSUME NEW lg, NEW next, Len(lg) \in Nat, LogMore(lg, next), NEW n \in Nat, n <= Len(lg)
  PROVE  After(next, n) = After(lg, n)
<1>1. \A k \in 1..n : next[k] = lg[k]
  BY DEF LogMore
<1> QED BY <1>1, AfterSame

LEMMA GrownLegit ==
  ASSUME NEW lg \in Seq(Mutations), Legit(lg), NEW m, Applicable(After(lg, Len(lg)), m)
  PROVE  Legit(Append(lg, m)) /\ LogMore(lg, Append(lg, m)) /\ Len(Append(lg, m)) = Len(lg) + 1
<1> DEFINE next == Append(lg, m)
<1>1. /\ Len(lg) \in Nat /\ Len(next) = Len(lg) + 1 /\ next[Len(lg) + 1] = m
      /\ \A k \in 1..Len(lg) : next[k] = lg[k]
      /\ \A k \in 1..Len(next) : k \in 1..Len(lg) \/ k = Len(lg) + 1
  BY Appending
<1> HIDE DEF next
<1>2. LogMore(lg, next)
  BY <1>1 DEF LogMore
<1>3. ASSUME NEW k \in 1..Len(next) PROVE Applicable(After(next, k - 1), next[k])
  <2>1. k - 1 \in Nat /\ k - 1 <= Len(lg)
    BY <1>1
  <2>2. After(next, k - 1) = After(lg, k - 1)
    BY <1>1, <1>2, <2>1, GrownBoard
  <2>3. CASE k \in 1..Len(lg)
    BY <1>1, <2>2, <2>3 DEF Legit
  <2>4. CASE k = Len(lg) + 1
    <3>1. k - 1 = Len(lg)
      BY <1>1, <2>4
    <3> QED BY <1>1, <2>2, <2>4, <3>1
  <2> QED BY <1>1, <2>3, <2>4
<1> QED BY <1>1, <1>2, <1>3 DEF Legit, next

\* What the server can send of a log.
Newly(x, lg, mine) ==
  /\ x.kind \in {"mutation", "rejected"}
  /\ x.kind = "mutation" => x.mut = lg[x.seq] /\ (x.mine => x.mut \in Mine /\ x.mut.cid \in mine)
  /\ x.kind = "rejected" => x.cid \in mine

LEMMA PostedMore ==
  ASSUME NEW fs \in Seq(Frame), NEW lg, Len(lg) \in Nat, NEW next, LogMore(lg, next), NEW mine,
         Posted(fs, lg, mine),
         \A i \in 1..Len(fs) : fs[i].kind = "mutation" => fs[i].seq \in 1..Len(lg)
  PROVE  /\ Posted(fs, next, mine)
         /\ \A x : Newly(x, next, mine) => Posted(Append(fs, x), next, mine)
<1>1. Posted(fs, next, mine)
  BY DEF Posted, LogMore
<1>2. ASSUME NEW x, Newly(x, next, mine) PROVE Posted(Append(fs, x), next, mine)
  <2> DEFINE gs == Append(fs, x)
  <2>1. \A i \in 1..Len(gs) : (i \in 1..Len(fs) /\ gs[i] = fs[i]) \/ gs[i] = x
    BY Appending
  <2> HIDE DEF gs
  <2>2. Posted(gs, next, mine)
    BY <1>1, <1>2, <2>1 DEF Posted, Newly
  <2> QED BY <2>2 DEF gs
<1> QED BY <1>1, <1>2

LEMMA CoveredMore ==
  ASSUME NEW fs \in Seq(Frame), NEW lg \in Seq(Mutations), NEW next, LogMore(lg, next),
         NEW seq \in Nat, seq <= Len(lg), NEW lost, Covered(fs, lg, seq, lost),
         Len(fs) # 0 /\ fs[1].kind = "batch" => seq + Len(fs[1].muts) <= Len(lg),
         NEW x, x.kind \in {"mutation", "rejected"},
         \/ Len(next) = Len(lg)
         \/ Len(next) = Len(lg) + 1 /\ x.kind = "mutation" /\ x.seq = Len(next)
  PROVE  /\ Covered(Append(fs, x), next, seq, lost)
         /\ Len(next) = Len(lg) => Covered(fs, next, seq, lost)
<1> DEFINE gs == Append(fs, x)
<1>1. /\ Len(fs) \in Nat /\ Len(gs) = Len(fs) + 1 /\ gs[Len(fs) + 1] = x
      /\ \A i \in 1..Len(fs) : gs[i] = fs[i] /\ i \in 1..Len(gs)
      /\ Len(fs) + 1 \in 1..Len(gs)
  BY Appending
<1>2. /\ Len(gs) # 0
      /\ Len(fs) # 0 => gs[1] = fs[1]
      /\ Len(fs) = 0 => gs[1] = x
  BY <1>1
<1> HIDE DEF gs
<1>3. /\ Len(lg) \in Nat
      /\ \A s \in (seq + 1)..Len(lg) : next[s] = lg[s]
  BY DEF LogMore
<1>4. \A s \in (seq + 1)..Len(lg) :
        \/ \E i \in 1..Len(fs) : fs[i].kind = "mutation" /\ fs[i].seq = s
        \/ Len(fs) # 0 /\ fs[1].kind = "batch" /\ s <= seq + Len(fs[1].muts)
        \/ s = seq + 1 /\ Draws(next[s]) \subseteq lost
  BY <1>3 DEF Covered
<1>5. ASSUME Len(fs) # 0, fs[1].kind = "batch"
      PROVE  \A k \in 1..Len(fs[1].muts) : fs[1].muts[k] = next[seq + k]
  <2>0. fs[1] \in Frame /\ fs[1].kind = "batch"
    <3>1. 1 \in 1..Len(fs)
      BY <1>1, <1>5
    <3> QED BY <1>5, <3>1
  <2>1. Len(fs[1].muts) \in Nat
    <3>1. fs[1].muts \in Seq(Mutations)
      BY <2>0 DEF Frame
    <3> QED BY <3>1
  <2>2. \A k \in 1..Len(fs[1].muts) : seq + k \in 1..Len(lg)
    BY <1>3, <1>5, <2>1
  <2> QED BY <1>5, <2>2 DEF Covered, LogMore
<1>6. Len(next) = Len(lg) => Covered(fs, next, seq, lost)
  BY <1>4, <1>5 DEF Covered
<1>7. ASSUME NEW s \in (seq + 1)..Len(next)
      PROVE  \/ \E i \in 1..Len(gs) : gs[i].kind = "mutation" /\ gs[i].seq = s
             \/ Len(gs) # 0 /\ gs[1].kind = "batch" /\ s <= seq + Len(gs[1].muts)
             \/ s = seq + 1 /\ Draws(next[s]) \subseteq lost
  <2>1. CASE s \in (seq + 1)..Len(lg)
    BY <1>1, <1>2, <1>4, <2>1
  <2>2. CASE s = Len(lg) + 1 /\ Len(next) = Len(lg) + 1 /\ x.kind = "mutation" /\ x.seq = Len(next)
    BY <1>1, <2>2
  <2> QED BY <1>3, <2>1, <2>2
<1>8. Covered(gs, next, seq, lost)
  BY <1>2, <1>5, <1>7 DEF Covered
<1> QED BY <1>6, <1>8 DEF gs

\* What a step of the server keeps that says no more than it has to.
LEMMA ServerKeeps ==
  ASSUME Inv, Screen, UNCHANGED << me, open, crossed >>, used'.mine = used.mine,
         \/ log' = log
         \/ \E m : log' = Append(log, m) /\ Applicable(Board(Len(log)), m),
         \/ frames' = frames /\ (open => log' = log)
         \/ \E x : /\ frames' = Append(frames, x) /\ open /\ Newly(x, log', used.mine)
                   /\ log' # log => x.kind = "mutation" /\ x.seq = Len(log'),
         open => \A t, lost :
           Sorted(t, frames, queue, me.buffered) /\ Alive(me.journal, frames, queue, me.buffered, lost)
           => Sorted(t, frames', queue', me.buffered)
                /\ Alive(me.journal, frames', queue', me.buffered, lost)
  PROVE  Screen'
<1>1. /\ log \in Seq(Mutations) /\ frames \in Seq(Frame) /\ Len(log) \in Nat /\ Len(frames) \in Nat
      /\ me.seq \in Nat /\ me.seq <= Len(log)
      /\ \A i \in 1..Len(frames) : frames[i].kind = "mutation" => frames[i].seq \in 1..Len(log)
      /\ Len(frames) # 0 /\ frames[1].kind = "batch" => me.seq + Len(frames[1].muts) <= Len(log)
  <2>1. /\ log \in Seq(Mutations) /\ frames \in Seq(Frame) /\ me.seq <= Len(log) /\ me.seq \in Nat
    BY DEF Inv, Types, IsBrowser, Browser
  <2>2. /\ \A i \in 1..Len(frames) : frames[i].kind = "mutation" => frames[i].seq \in 1..Len(log)
        /\ \A i \in 1..Len(frames) : frames[i].kind = "batch" => me.seq + Len(frames[i].muts) <= Len(log)
    BY DEF Inv, Mail
  <2>3. Len(log) \in Nat /\ Len(frames) \in Nat
    BY <2>1
  <2>4. Len(frames) # 0 => 1 \in 1..Len(frames)
    BY <2>3
  <2> QED BY <2>1, <2>2, <2>3, <2>4
<1>2. /\ Legit(log') /\ LogMore(log, log')
      /\ Len(log') = Len(log) \/ (log' # log /\ Len(log') = Len(log) + 1)
  <2>1. CASE log' = log
    BY <1>1, <2>1 DEF Screen, LogMore
  <2>2. ASSUME NEW m, log' = Append(log, m), Applicable(Board(Len(log)), m)
        PROVE  Legit(log') /\ LogMore(log, log') /\ Len(log') = Len(log) + 1
    BY <1>1, <2>2, GrownLegit DEF Screen, Board
  <2>3. ASSUME NEW m, log' = Append(log, m) PROVE log' # log
    <3>1. Len(log') = Len(log) + 1
      BY <1>1, <2>3, Appending
    <3> QED BY <1>1, <3>1
  <2> QED BY <2>1, <2>2, <2>3
<1>3. After(log', me.seq) = After(log, me.seq)
  BY <1>1, <1>2, GrownBoard
<1>4. Preserved(me') /\ Detached(me', log', crossed') /\ crossed' \subseteq Items
  BY <1>3 DEF Screen, Detached
<1>5. BatchFirst(me', frames')
  <2>1. CASE frames' = frames
    BY <2>1 DEF Screen
  <2>2. ASSUME NEW x, frames' = Append(frames, x) PROVE BatchFirst(me', frames')
    <3>1. Len(frames) # 0 => Len(frames') # 0 /\ frames'[1] = frames[1]
      <4>1. Len(frames) # 0 => 1 \in 1..Len(frames)
        BY <1>1
      <4>2. Len(frames') = Len(frames) + 1 /\ \A i \in 1..Len(frames) : frames'[i] = frames[i]
        BY <1>1, <2>2, Appending
      <4> QED BY <1>1, <4>1, <4>2
    <3> QED BY <3>1 DEF Screen, BatchFirst
  <2> QED BY <2>1, <2>2
<1>6. PICK t \in Turns, N \in Nat :
        /\ Numbered(t, N, me, used.mine)
        /\ open => Attached(t, me, log, queue, frames, used.mine, crossed)
  BY DEF Screen
<1>7. ASSUME open PROVE Attached(t, me, log', queue', frames', used.mine, crossed)
  <2>1. /\ IsView(me.view) /\ Journalled(me.journal, used.mine)
        /\ Story(me.view, me.journal, After(log, me.seq), crossed)
        /\ FlagsFit(me.buffered) /\ Ordered(t, me.journal, me.buffered, crossed)
        /\ Alive(me.journal, frames, queue, me.buffered, crossed)
        /\ Seen(me.journal, log, me.seq, crossed)
        /\ Sorted(t, frames, queue, me.buffered) /\ Posted(frames, log, used.mine)
        /\ Covered(frames, log, me.seq, crossed)
    BY <1>6, <1>7 DEF Attached
  <2>2. /\ Alive(me.journal, frames', queue', me.buffered, crossed)
        /\ Sorted(t, frames', queue', me.buffered)
    BY <1>7, <2>1
  <2>3. Seen(me.journal, log', me.seq, crossed)
    <3>1. \A n \in 1..me.seq : log'[n] = log[n]
      BY <1>1, <1>2 DEF LogMore
    <3> QED BY <2>1, <3>1 DEF Seen
  <2>4. Posted(frames', log', used.mine) /\ Covered(frames', log', me.seq, crossed)
    <3>1. CASE frames' = frames /\ log' = log
      BY <2>1, <3>1
    <3>2. ASSUME NEW x, frames' = Append(frames, x), Newly(x, log', used.mine),
                 log' # log => x.kind = "mutation" /\ x.seq = Len(log')
          PROVE  Posted(frames', log', used.mine) /\ Covered(frames', log', me.seq, crossed)
      <4>1. Posted(frames', log', used.mine)
        BY <1>1, <1>2, <2>1, <3>2, PostedMore
      <4>2. x.kind \in {"mutation", "rejected"}
        BY <3>2 DEF Newly
      <4>3. \/ Len(log') = Len(log)
            \/ Len(log') = Len(log) + 1 /\ x.kind = "mutation" /\ x.seq = Len(log')
        BY <1>2, <3>2
      <4>4. Covered(Append(frames, x), log', me.seq, crossed)
        BY <1>1, <1>2, <2>1, <4>2, <4>3, CoveredMore
      <4> QED BY <3>2, <4>1, <4>4
    <3> QED BY <1>7, <3>1, <3>2
  <2> QED BY <1>3, <2>1, <2>2, <2>3, <2>4 DEF Attached
<1>8. Numbered(t, N, me', used'.mine)
  BY <1>6 DEF Numbered
<1>9. open' => Attached(t, me', log', queue', frames', used'.mine, crossed')
  BY <1>7
<1> QED BY <1>2, <1>4, <1>5, <1>8, <1>9 DEF Screen

LEMMA AcceptShows == Inv /\ Screen /\ Accept => Screen'
<1> SUFFICES ASSUME Inv, Screen, Accept PROVE Screen'
  OBVIOUS
<1> DEFINE m == Head(queue).mut
           mine == Head(queue).here
<1>1. /\ queue # << >> /\ queue' = Tail(queue) /\ UNCHANGED << me, open, used, crossed >>
      /\ log \in Seq(Mutations) /\ queue \in Seq(Sent) /\ frames \in Seq(Frame)
  BY DEF Accept, Inv, Types
<1>2. m \in Mine /\ m \in Mutations /\ mine \in BOOLEAN /\ m.cid \in used.mine
  <2>1. queue[1].mut.cid \in used.mine /\ queue[1] \in Sent /\ Head(queue) = queue[1]
    BY <1>1, Tailing DEF Inv, Owned
  <2> QED BY <2>1 DEF Sent, Mutations
<1>3. PICK n \in 1..Len(log') :
        /\ ToBrowser(Broadcast(n, m, mine)) /\ log'[n] = m
        /\ \/ log' = log
           \/ log' = Append(log, m) /\ Applicable(Board(Len(log)), m) /\ n = Len(log')
  <2>1. CASE \E k \in DOMAIN log :
               log[k].cid = m.cid /\ ToBrowser(Broadcast(k, m, mine)) /\ UNCHANGED log
    <3>1. PICK k \in 1..Len(log) :
            log[k].cid = m.cid /\ ToBrowser(Broadcast(k, m, mine)) /\ UNCHANGED log
      BY <1>1, <2>1
    <3>2. log[k] = m
      <4>1. log[k] \in Mutations
        BY <1>1
      <4> QED BY <1>2, <3>1, <4>1, IdsAssumption
    <3> QED BY <3>1, <3>2
  <2>2. CASE /\ log' = Append(log, m) /\ Applicable(Board(Len(log)), m)
             /\ ToBrowser(Broadcast(Len(log) + 1, m, mine))
    <3>1. Len(log') = Len(log) + 1 /\ log'[Len(log) + 1] = m /\ Len(log) + 1 \in 1..Len(log')
      BY <1>1, <2>2, Appending
    <3> QED BY <2>2, <3>1
  <2> QED BY <2>1, <2>2 DEF Accept
<1> DEFINE f == Broadcast(n, m, mine)
<1>4. /\ f.kind = "mutation" /\ f.seq = n /\ f.mut = m /\ f.mine = mine
      /\ (IsAnswer(f) <=> mine) /\ AnswerOf(f) = m.cid
  BY <1>2 DEF Broadcast, IsAnswer, AnswerOf
<1>5. frames' = IF open THEN Append(frames, f) ELSE frames
  BY <1>3 DEF ToBrowser
<1>6. Newly(f, log', used.mine)
  BY <1>2, <1>3, <1>4 DEF Newly
<1> HIDE DEF f
<1>7. open => \A t, lost :
        Sorted(t, frames, queue, me.buffered) /\ Alive(me.journal, frames, queue, me.buffered, lost)
        => Sorted(t, frames', queue', me.buffered)
             /\ Alive(me.journal, frames', queue', me.buffered, lost)
  BY <1>1, <1>2, <1>4, <1>5, Answered
<1>8. \/ frames' = frames /\ (open => log' = log)
      \/ \E x : /\ frames' = Append(frames, x) /\ open /\ Newly(x, log', used.mine)
                /\ log' # log => x.kind = "mutation" /\ x.seq = Len(log')
  BY <1>3, <1>4, <1>5, <1>6
<1>9. log' = log \/ \E x : log' = Append(log, x) /\ Applicable(Board(Len(log)), x)
  BY <1>3
<1>10. used'.mine = used.mine /\ UNCHANGED << me, open, crossed >>
  BY <1>1
<1> HIDE DEF m, mine
<1> QED BY ONLY Inv, Screen, <1>7, <1>8, <1>9, <1>10, ServerKeeps

LEMMA RefuseShows == Inv /\ Screen /\ Refuse => Screen'
<1> SUFFICES ASSUME Inv, Screen, Refuse PROVE Screen'
  OBVIOUS
<1> DEFINE m == Head(queue).mut
           f == [kind |-> "rejected", cid |-> m.cid]
<1>1. /\ queue # << >> /\ queue' = Tail(queue) /\ UNCHANGED << me, log, open, crossed >>
      /\ frames' = IF Head(queue).here /\ open THEN Append(frames, f) ELSE frames
      /\ queue \in Seq(Sent) /\ frames \in Seq(Frame) /\ used'.mine = used.mine
  BY DEF Refuse, ToBrowser, Inv, Types
<1>2. m.cid \in used.mine
  <2>1. queue[1].mut.cid \in used.mine /\ Head(queue) = queue[1]
    BY <1>1, Tailing DEF Inv, Owned
  <2> QED BY <2>1
<1>3. IsAnswer(f) /\ AnswerOf(f) = m.cid /\ Newly(f, log', used.mine)
  BY <1>2 DEF IsAnswer, AnswerOf, Newly
<1> HIDE DEF f
<1>4. open => \A t, lost :
        Sorted(t, frames, queue, me.buffered) /\ Alive(me.journal, frames, queue, me.buffered, lost)
        => Sorted(t, frames', queue', me.buffered)
             /\ Alive(me.journal, frames', queue', me.buffered, lost)
  BY <1>1, <1>3, Answered
<1>5. \/ frames' = frames /\ (open => log' = log)
      \/ \E x : /\ frames' = Append(frames, x) /\ open /\ Newly(x, log', used.mine)
                /\ log' # log => x.kind = "mutation" /\ x.seq = Len(log')
  BY <1>1, <1>3
<1>6. log' = log /\ used'.mine = used.mine /\ UNCHANGED << me, open, crossed >>
  BY <1>1
<1> HIDE DEF m
<1> QED BY ONLY Inv, Screen, <1>4, <1>5, <1>6, ServerKeeps

LEMMA AcceptTheirsShows ==
  ASSUME Inv, Screen, NEW m \in Theirs, AcceptTheirs(m) PROVE Screen'
<1> DEFINE f == Broadcast(Len(log) + 1, m, FALSE)
<1>1. /\ UNCHANGED << me, queue, open, used, crossed >>
      /\ log' = Append(log, m) /\ Applicable(Board(Len(log)), m)
      /\ frames' = IF open THEN Append(frames, f) ELSE frames
      /\ log \in Seq(Mutations) /\ frames \in Seq(Frame)
  BY DEF AcceptTheirs, ToBrowser, Inv, Types
<1>2. Len(log') = Len(log) + 1 /\ log'[Len(log) + 1] = m
  BY <1>1, Appending
<1>3. f.kind = "mutation" /\ f.seq = Len(log') /\ ~IsAnswer(f) /\ Newly(f, log', used.mine)
  BY <1>2 DEF Broadcast, IsAnswer, Newly
<1> HIDE DEF f
<1>4. open => \A t, lost :
        Sorted(t, frames, queue, me.buffered) /\ Alive(me.journal, frames, queue, me.buffered, lost)
        => Sorted(t, frames', queue', me.buffered)
             /\ Alive(me.journal, frames', queue', me.buffered, lost)
  BY <1>1, <1>3, NewsSorted, NewsAlive DEF Alive
<1>5. \/ frames' = frames /\ (open => log' = log)
      \/ \E x : /\ frames' = Append(frames, x) /\ open /\ Newly(x, log', used.mine)
                /\ log' # log => x.kind = "mutation" /\ x.seq = Len(log')
  BY <1>1, <1>3
<1>6. log' = log \/ \E x : log' = Append(log, x) /\ Applicable(Board(Len(log)), x)
  BY <1>1
<1>7. used'.mine = used.mine /\ UNCHANGED << me, open, crossed >>
  BY <1>1
<1> QED BY ONLY Inv, Screen, <1>4, <1>5, <1>6, <1>7, ServerKeeps

\* The connection ends.
LEMMA RateLimitShows == Inv /\ Screen /\ RateLimit => Screen'
<1> SUFFICES ASSUME Inv, Screen, RateLimit PROVE Screen'
  OBVIOUS
<1>1. /\ open' = FALSE /\ used'.mine = used.mine /\ UNCHANGED << me, log, crossed >>
      /\ frames' = frames \o << [kind |-> "limited"], [kind |-> "closed"] >>
      /\ frames \in Seq(Frame)
  BY DEF RateLimit, Inv, Types
<1>2. BatchFirst(me', frames')
  <2> SUFFICES ASSUME me.link = "replaying"
               PROVE  Len(frames') # 0 /\ frames'[1].kind \in {"batch", "closed"}
    BY <1>1 DEF BatchFirst
  <2>1. Len(frames) # 0 /\ frames[1].kind \in {"batch", "closed"}
    BY DEF Screen, BatchFirst
  <2>2. Len(frames') # 0 /\ frames'[1] = frames[1]
    BY <1>1, <2>1
  <2> QED BY <2>1, <2>2
<1> QED BY <1>1, <1>2 DEF Screen, Numbered

LEMMA LoseConnectionShows == Inv /\ Screen /\ LoseConnection => Screen'
<1> SUFFICES ASSUME Inv, Screen, LoseConnection PROVE Screen'
  OBVIOUS
<1> DEFINE end == [kind |-> "closed"]
<1>1. /\ open' = FALSE /\ used'.mine = used.mine /\ UNCHANGED << me, log, crossed >>
      /\ \E n \in 0..Len(frames) : frames' = Append(SubSeq(frames, 1, n), end)
      /\ frames \in Seq(Frame)
  BY DEF LoseConnection, Inv, Types
<1>2. PICK n \in 0..Len(frames) : frames' = Append(SubSeq(frames, 1, n), end)
  BY <1>1
<1>3. BatchFirst(me', frames')
  <2> SUFFICES ASSUME me.link = "replaying"
               PROVE  Len(frames') # 0 /\ frames'[1].kind \in {"batch", "closed"}
    BY <1>1 DEF BatchFirst
  <2>1. Len(frames) # 0 /\ frames[1].kind \in {"batch", "closed"}
    BY DEF Screen, BatchFirst
  <2> DEFINE s == SubSeq(frames, 1, n)
  <2>2. s \in Seq(Frame) /\ Len(s) = n /\ n \in Nat /\ (n # 0 => s[1] = frames[1])
    BY <1>1
  <2>3. frames' = Append(s, end) /\ end.kind = "closed"
    BY <1>2
  <2> HIDE DEF s, end
  <2>4. /\ Len(frames') = n + 1 /\ frames'[n + 1] = end
        /\ \A i \in 1..n : frames'[i] = s[i]
    BY <2>2, <2>3, Appending
  <2>5. CASE n = 0
    BY <2>3, <2>4, <2>5
  <2>6. CASE n # 0
    <3>1. frames'[1] = s[1]
      BY <2>2, <2>4, <2>6
    <3> QED BY <2>1, <2>2, <2>4, <2>6, <3>1
  <2> QED BY <2>5, <2>6
<1> QED BY <1>1, <1>3 DEF Screen, Numbered

-----------------------------------------------------------------------------
(* The browser loses the connection and comes back.                         *)

\* Without a connection little has to hold.
LEMMA DownShows ==
  ASSUME Inv, Screen, me' = Resync(me, me.paused) \/ me' = Resync(me, FALSE),
         open' = FALSE, UNCHANGED log, used'.mine = used.mine, crossed' \subseteq Items
  PROVE  Screen'
<1>1. PICK t \in Turns, N \in Nat : Numbered(t, N, me, used.mine)
  BY DEF Screen
<1>2. /\ me'.link = "down" /\ me'.journal = << >>
      /\ me'.buffered = << >> \/ (me'.buffered = me.buffered /\ me.paused)
  BY DEF Resync, Inv, Types, IsBrowser, Browser
<1>3. Preserved(me')
  BY <1>2 DEF Preserved, Screen
<1>4. Numbered(t, N, me', used'.mine)
  BY <1>1, <1>2 DEF Numbered, BufferSorted
<1> QED BY <1>2, <1>3, <1>4 DEF Screen, Detached, BatchFirst

LEMMA JoinRefusedShows == Inv /\ Screen /\ JoinRefused => Screen'
<1> SUFFICES ASSUME Inv, Screen, JoinRefused PROVE Screen'
  OBVIOUS
<1>1. /\ me' = Resync(me, FALSE) /\ used'.mine = used.mine /\ UNCHANGED << open, log, crossed >>
      /\ me.link = "fetched"
  BY DEF JoinRefused, Inv, Types
<1>2. open' = FALSE
  BY <1>1 DEF Inv, Mail, Types
<1> QED BY <1>1, <1>2, DownShows DEF Screen

LEMMA DeliverCloseShows ==
  ASSUME Inv, Screen, frames # << >>, DeliverClose(Head(frames)) PROVE Screen'
<1>1. /\ me' = Resync(me, me.paused) /\ UNCHANGED << used, open, log, crossed >>
      /\ Head(frames).kind = "closed" /\ frames \in Seq(Frame)
  BY DEF DeliverClose, Inv, Types
<1>2. open' = FALSE
  <2>1. Head(frames) = frames[1] /\ 1 \in 1..Len(frames)
    BY <1>1, Tailing
  <2> QED BY <1>1, <2>1 DEF Inv, Mail, Types
<1> QED BY <1>1, <1>2, DownShows DEF Screen

LEMMA FetchShows == Inv /\ Screen /\ FetchBaseline => Screen'
<1> SUFFICES ASSUME Inv, Screen, FetchBaseline PROVE Screen'
  OBVIOUS
<1>1. /\ me.link = "down" /\ crossed' = {} /\ UNCHANGED << log, open, used >>
      /\ \E n \in 0..Len(log) :
           me' = [me EXCEPT !.view = Board(n), !.seq = n, !.journal = << >>, !.link = "fetched"]
  BY DEF FetchBaseline
<1>2. /\ me'.link = "fetched" /\ me'.journal = << >> /\ me'.buffered = me.buffered
      /\ me'.view = After(log, me'.seq)
  BY <1>1 DEF Inv, Types, IsBrowser, Browser, Board
<1>3. ~open'
  BY <1>1 DEF Inv, Mail
<1>4. Preserved(me') /\ Detached(me', log', crossed')
  BY <1>1, <1>2 DEF Preserved, Screen, Detached
<1> QED BY <1>1, <1>2, <1>3, <1>4 DEF Screen, BatchFirst, Numbered

LEMMA DeliverRateLimitShows ==
  ASSUME Inv, Screen, frames # << >>, DeliverRateLimit(Head(frames)) PROVE Screen'
<1>1. /\ me' = [Defer(me) EXCEPT !.paused = TRUE] /\ frames' = Tail(frames)
      /\ UNCHANGED << used, open, log, crossed >>
      /\ Head(frames).kind = "limited" /\ frames \in Seq(Frame)
  BY DEF DeliverRateLimit, Inv, Types
<1>2. Head(frames) = frames[1] /\ 1 \in 1..Len(frames)
  BY <1>1, Tailing
<1>3. ~open
  BY <1>1, <1>2 DEF Screen, Attached, Posted
<1> DEFINE b == [k \in DOMAIN me.buffered |->
                   [me.buffered[k] EXCEPT !.state = "queued", !.redraw = TRUE]]
<1>4. me.buffered \in Seq(Write)
  BY DEF Inv, Types, IsBrowser, Browser
<1>5. /\ Len(b) = Len(me.buffered)
      /\ \A k \in 1..Len(me.buffered) :
           b[k].mut = me.buffered[k].mut /\ b[k].redraw /\ b[k].state = "queued"
  <2> DEFINE c == me.buffered
             back(w) == [w EXCEPT !.state = "queued", !.redraw = TRUE]
  <2>1. DOMAIN c = 1..Len(c) /\ Len(c) \in Nat /\ \A k \in 1..Len(c) : c[k] \in Write
    BY <1>4
  <2>2. b = [k \in DOMAIN c |-> back(c[k])]
    OBVIOUS
  <2>3. \A w \in Write : back(w).mut = w.mut /\ back(w).redraw /\ back(w).state = "queued"
    BY DEF Write
  <2> HIDE DEF c, b, back
  <2>4. \A k \in 1..Len(c) : b[k].mut = c[k].mut /\ b[k].redraw /\ b[k].state = "queued"
    BY <2>1, <2>2, <2>3
  <2>5. Len(b) = Len(c)
    BY <2>1, <2>2
  <2> QED BY <2>4, <2>5 DEF c
<1>6. /\ me'.buffered = b /\ me'.link = me.link /\ me'.journal = me.journal
      /\ me'.view = me.view /\ me'.seq = me.seq
  <2>1. me' = [[me EXCEPT !.buffered = b] EXCEPT !.paused = TRUE]
    BY <1>1 DEF Defer
  <2> HIDE DEF b
  <2> QED BY <2>1 DEF Inv, Types, IsBrowser, Browser
<1> HIDE DEF b
<1>7. Preserved(me') /\ Detached(me', log', crossed')
  BY <1>1, <1>5, <1>6 DEF Preserved, Screen, Detached
<1>8. me.link # "replaying"
  BY <1>1, <1>2 DEF Screen, BatchFirst
<1>9. \A t, N : Numbered(t, N, me, used.mine) => Numbered(t, N, me', used'.mine)
  <2>1. /\ used' = used /\ Len(me'.buffered) = Len(me.buffered)
        /\ \A k \in 1..Len(me.buffered) : me'.buffered[k].mut = me.buffered[k].mut
    BY <1>1, <1>5, <1>6
  <2>2. ASSUME NEW t, BufferSorted(t, me.buffered) PROVE BufferSorted(t, me'.buffered)
    BY <2>1, <2>2 DEF BufferSorted
  <2> QED BY <2>1, <2>2 DEF Numbered
<1> QED BY <1>1, <1>3, <1>6, <1>7, <1>8, <1>9 DEF Screen, BatchFirst

LEMMA EmptyStory ==
  ASSUME NEW view, NEW lost
  PROVE  /\ Story(view, << >>, view, lost)
         /\ \A mine : Journalled(<< >>, mine)
         /\ \A t, b : Ordered(t, << >>, b, lost)
         /\ \A fs, q, b : Alive(<< >>, fs, q, b, lost)
         /\ \A lg, seq : Seen(<< >>, lg, seq, lost)
<1> DEFINE a == [x \in {1} |-> view]
<1>1. a[1] = view /\ Len(<< >>) = 0
  OBVIOUS
<1> HIDE DEF a
<1>2. Told(a, view, << >>, view, lost, {})
  BY <1>1 DEF Told
<1>3. Story(view, << >>, view, lost)
  BY <1>2 DEF Story, SpreadOver, Needed
<1>4. \A mine : Journalled(<< >>, mine)
  BY DEF Journalled
<1>5. \A t, b : Ordered(t, << >>, b, lost)
  BY DEF Ordered
<1>6. \A fs, q, b : Alive(<< >>, fs, q, b, lost)
  BY DEF Alive
<1>7. \A lg, seq : Seen(<< >>, lg, seq, lost)
  BY DEF Seen
<1> QED BY <1>3, <1>4, <1>5, <1>6, <1>7

LEMMA JoinShows == Inv /\ Screen /\ Join => Screen'
<1> SUFFICES ASSUME Inv, Screen, Join PROVE Screen'
  OBVIOUS
<1> DEFINE muts == SubSeq(log, me.seq + 1, Len(log))
           batch == [kind |-> "batch", muts |-> muts]
           asked == [k \in DOMAIN queue |-> [queue[k] EXCEPT !.here = FALSE]]
<1>1. /\ me.link = "fetched" /\ me' = [me EXCEPT !.link = "replaying"] /\ open' = TRUE
      /\ queue' = asked /\ frames' = << batch >> /\ UNCHANGED << log, used, crossed >>
  BY DEF Join
<1>2. /\ log \in Seq(Mutations) /\ queue \in Seq(Sent) /\ me.seq \in Nat /\ me.seq <= Len(log)
      /\ me.buffered \in Seq(Write)
  BY DEF Inv, Types, IsBrowser, Browser
<1>3. /\ me'.link = "replaying" /\ me'.view = me.view /\ me'.seq = me.seq
      /\ me'.journal = me.journal /\ me'.buffered = me.buffered
  BY <1>1 DEF Inv, Types, IsBrowser, Browser
<1>4. /\ me.journal = << >> /\ crossed = {} /\ me.view = After(log, me.seq)
      /\ \A k \in 1..Len(me.buffered) : me.buffered[k].redraw /\ me.buffered[k].state = "queued"
  BY <1>1 DEF Screen, Detached, Preserved
<1>5. /\ Len(frames') = 1 /\ frames'[1] = batch /\ batch.kind = "batch" /\ batch.muts = muts
  BY <1>1
<1>6. \A k \in 1..Len(queue') : ~queue'[k].here
  <2>1. DOMAIN queue = 1..Len(queue) /\ Len(queue) \in Nat
        /\ \A k \in 1..Len(queue) : queue[k] \in Sent
    BY <1>2
  <2>2. Len(asked) = Len(queue) /\ \A k \in 1..Len(queue) : ~asked[k].here
    BY <2>1 DEF Sent
  <2> QED BY <1>1, <2>2
<1>7. /\ Len(muts) = Len(log) - me.seq /\ Len(log) \in Nat
      /\ \A k \in 1..Len(muts) : muts[k] = log[me.seq + k]
  <2> DEFINE a == me.seq + 1
             n == Len(log)
  <2>1. a \in 1..(n + 1) /\ n \in Nat /\ \A k \in 1..n : log[k] \in Mutations
    BY <1>2
  <2>2. Len(muts) = n - a + 1 /\ \A k \in 1..(n - a + 1) : muts[k] = log[a + k - 1]
    BY <1>2, <2>1
  <2>3. \A k \in 1..(n - a + 1) : a + k - 1 = me.seq + k
    BY <1>2
  <2> QED BY <1>2, <2>2, <2>3
<1> HIDE DEF muts, batch, asked
<1>8. Preserved(me') /\ Detached(me', log', crossed') /\ BatchFirst(me', frames')
  <2>1. Preserved(me')
    BY <1>3, <1>4 DEF Preserved
  <2>2. Detached(me', log', crossed')
    BY <1>1, <1>3, <1>4 DEF Detached
  <2>3. BatchFirst(me', frames')
    BY <1>5 DEF BatchFirst
  <2> QED BY <2>1, <2>2, <2>3
<1>9. PICK t \in Turns, N \in Nat : Numbered(t, N, me, used.mine)
  BY DEF Screen
<1>10. Attached(t, me', log', queue', frames', used'.mine, crossed')
  <2>1. IsView(me'.view)
    BY <1>2, <1>3, <1>4, AfterView
  <2>2. /\ Journalled(me'.journal, used'.mine)
        /\ Story(me'.view, me'.journal, After(log', me'.seq), crossed')
        /\ Ordered(t, me'.journal, me'.buffered, crossed')
        /\ Alive(me'.journal, frames', queue', me'.buffered, crossed')
        /\ Seen(me'.journal, log', me'.seq, crossed')
    BY <1>1, <1>3, <1>4, EmptyStory
  <2>3. FlagsFit(me'.buffered)
    BY <1>3, <1>4 DEF FlagsFit
  <2>4. Posted(frames', log', used'.mine)
    BY <1>5 DEF Posted
  <2>5. Sorted(t, frames', queue', me'.buffered)
    BY <1>5, <1>6 DEF Sorted, IsAnswer
  <2>6. Covered(frames', log', me'.seq, crossed')
    BY <1>1, <1>2, <1>3, <1>5, <1>7 DEF Covered
  <2> QED BY <2>1, <2>2, <2>3, <2>4, <2>5, <2>6 DEF Attached
<1>11. Numbered(t, N, me', used'.mine)
  BY <1>1, <1>3, <1>9 DEF Numbered
<1> QED BY <1>1, <1>8, <1>10, <1>11 DEF Screen

LEMMA OrderedMore ==
  ASSUME NEW t, NEW journal, NEW b, NEW lost, NEW more, lost \subseteq more,
         Ordered(t, journal, b, lost)
  PROVE  Ordered(t, journal, b, more)
BY DEF Ordered, InTurn

LEMMA CoveredLost ==
  ASSUME NEW fs, NEW lg, NEW seq, NEW lost, NEW more, lost \subseteq more,
         Covered(fs, lg, seq, lost)
  PROVE  Covered(fs, lg, seq, more)
BY DEF Covered

LEMMA StoryShown ==
  ASSUME NEW w, NEW journal, NEW base, NEW lost, Story(w, journal, base, lost),
         NEW view, \A i \in Items \ lost : view[i] = w[i]
  PROVE  Story(view, journal, base, lost)
<1>1. PICK a : Told(a, w, journal, base, lost, {})
  BY DEF Story
<1>2. Told(a, view, journal, base, lost, {})
  BY <1>1 DEF Told
<1> QED BY <1>2 DEF Story

LEMMA Spreading ==
  ASSUME NEW journal, NEW mine, Journalled(journal, mine), NEW c, c.journal = journal,
         crossed \subseteq Items, NEW items, NEW s, s = Spread(items, PendingMuts(c))
  PROVE  /\ s \in SUBSET Items /\ crossed \subseteq s /\ items \cap Items \subseteq s
         /\ SpreadOver(journal, s)
<1> DEFINE muts == PendingMuts(c)
<1>1. \A m : m \in muts <=> \E p \in 1..Len(journal) : m = journal[p].mut
  <2>1. \A e : e \in Range(journal) <=> \E p \in 1..Len(journal) : e = journal[p]
    BY Places DEF Journalled
  <2> QED BY <2>1 DEF PendingMuts
<1>2. muts \subseteq Mutations
  <2>1. \A p \in 1..Len(journal) : journal[p].mut \in Mine
    BY DEF Journalled
  <2> HIDE DEF muts
  <2> QED BY <1>1, <2>1 DEF Mutations
<1>3. s = Spread(items, muts)
  OBVIOUS
<1> HIDE DEF muts
<1>4. /\ s \in SUBSET Items /\ crossed \subseteq s /\ items \cap Items \subseteq s
      /\ \A m \in muts : m.op = "copy" /\ m.from \in s => m.id \in s
  BY <1>2, <1>3, SpreadIs
<1>5. SpreadOver(journal, s)
  BY <1>1, <1>4 DEF SpreadOver
<1> QED BY <1>4, <1>5

-----------------------------------------------------------------------------
(* What a pump makes of what is under way.                                  *)

Gone(q, sent) == q \o [k \in DOMAIN sent |-> [mut |-> sent[k], here |-> TRUE]]

LEMMA GoneIs ==
  ASSUME NEW q \in Seq(Sent), NEW sent \in Seq(Mine), NEW p, p = Gone(q, sent)
  PROVE  /\ Len(q) \in Nat /\ Len(sent) \in Nat
         /\ \A i \in 1..Len(q) : i \in 1..Len(p) /\ p[i] = q[i]
         /\ \A x \in 1..Len(sent) :
              Len(q) + x \in 1..Len(p) /\ p[Len(q) + x].here /\ p[Len(q) + x].mut = sent[x]
         /\ \A i \in 1..Len(p) :
              \/ i \in 1..Len(q)
              \/ \E x \in 1..Len(sent) : i = Len(q) + x
<1> DEFINE more == [k \in 1..Len(sent) |-> [mut |-> sent[k], here |-> TRUE]]
<1>1. Len(sent) \in Nat /\ DOMAIN sent = 1..Len(sent) /\ \A k \in 1..Len(sent) : sent[k] \in Mine
  OBVIOUS
<1>2. more \in Seq(Sent) /\ Len(more) = Len(sent)
      /\ \A k \in 1..Len(sent) : more[k].mut = sent[k] /\ more[k].here
  BY <1>1 DEF Sent
<1>3. p = q \o more
  BY <1>1 DEF Gone
<1> HIDE DEF more
<1>4. /\ Len(q) \in Nat /\ Len(p) = Len(q) + Len(sent)
      /\ \A i \in 1..Len(p) : p[i] = IF i <= Len(q) THEN q[i] ELSE more[i - Len(q)]
  BY <1>2, <1>3
<1>5. ASSUME NEW x \in 1..Len(sent)
      PROVE  Len(q) + x \in 1..Len(p) /\ p[Len(q) + x] = more[x]
  <2>1. Len(q) + x \in 1..Len(p) /\ ~(Len(q) + x <= Len(q)) /\ (Len(q) + x) - Len(q) = x
    BY <1>1, <1>4
  <2> QED BY <1>4, <2>1
<1>6. ASSUME NEW i \in 1..Len(p), i \notin 1..Len(q)
      PROVE  \E x \in 1..Len(sent) : i = Len(q) + x
  <2>1. i - Len(q) \in 1..Len(sent) /\ i = Len(q) + (i - Len(q))
    BY <1>1, <1>4, <1>6
  <2> QED BY <2>1
<1>7. \A i \in 1..Len(q) : i \in 1..Len(p) /\ p[i] = q[i]
  BY <1>1, <1>4
<1> QED BY <1>1, <1>2, <1>4, <1>5, <1>6, <1>7

\* What is lost, and what is on the board already.
Known(lg, sent, lost, more) ==
  /\ lost \subseteq more
  /\ \A x \in 1..Len(sent), n \in 1..Len(lg) :
       lg[n].cid = sent[x].cid => Draws(sent[x]) \subseteq more

\* What is under way for a browser, and what a pump makes of it.
Waiting(t, fs, q, lg, seq, c, lost) ==
  /\ IsBrowser(c) /\ t \in Turns /\ BufferSorted(t, c.buffered) /\ q \in Seq(Sent)
  /\ seq \in Nat /\ Len(lg) \in Nat /\ seq <= Len(lg)
  /\ Sorted(t, fs, q, c.buffered) /\ Alive(c.journal, fs, q, c.buffered, lost)
  /\ Seen(c.journal, lg, seq, lost)
Waits(t, fs, q, lg, seq, c, lost) ==
  /\ Sorted(t, fs, q, c.buffered) /\ Alive(c.journal, fs, q, c.buffered, lost)
  /\ Seen(c.journal, lg, seq, lost) /\ FlagsFit(c.buffered) /\ BufferSorted(t, c.buffered)

LEMMA PumpMail ==
  ASSUME NEW c, NEW acc, NEW r, NEW t, NEW k, NEW mine, NEW base, NEW top,
         NEW m, NEW old, NEW lost, Pumping(c, acc, r, t, k, mine, base, lost, top, m, old),
         k \in 0..Len(c.buffered), NEW fs, NEW q, NEW lg, NEW seq,
         Waiting(t, fs, q, lg, seq, c, lost), NEW more, Known(lg, r.sent, lost, more)
  PROVE  Waits(t, fs, Gone(q, r.sent), lg, seq, r.client, more)
<1> DEFINE d == r.client
           p == Gone(q, r.sent)
<1>0. /\ IsBrowser(c) /\ t \in Turns /\ BufferSorted(t, c.buffered) /\ q \in Seq(Sent)
      /\ seq \in Nat /\ Len(lg) \in Nat /\ seq <= Len(lg)
      /\ Sorted(t, fs, q, c.buffered) /\ Alive(c.journal, fs, q, c.buffered, lost)
      /\ Seen(c.journal, lg, seq, lost)
  BY DEF Waiting
<1>m. d = r.client /\ p = Gone(q, r.sent)
  OBVIOUS
<1> HIDE DEF d, p
<1> USE <1>0, <1>m
<1> DEFINE b == c.buffered
           f == d.buffered
           s == r.sent
           n == Len(b)
<1>1. /\ Len(q) \in Nat /\ Len(s) \in Nat /\ s \in Seq(Mine)
      /\ \A i \in 1..Len(q) : i \in 1..Len(p) /\ p[i] = q[i]
      /\ \A x \in 1..Len(s) :
           Len(q) + x \in 1..Len(p) /\ p[Len(q) + x].here /\ p[Len(q) + x].mut = s[x]
      /\ \A i \in 1..Len(p) : i \in 1..Len(q) \/ \E x \in 1..Len(s) : i = Len(q) + x
  <2>1. s \in Seq(Mine)
    BY DEF Pumping, Pumped
  <2> QED BY <2>1, GoneIs
<1>2. Len(f) = n /\ \A j \in 1..n : f[j].mut = b[j].mut
  BY DEF Pumping, Pumped
<1>3. /\ \A j \in 1..n :
           /\ f[j].redraw => b[j].redraw /\ f[j].state = "queued"
           /\ f[j].state = "queued" => b[j].state = "queued"
           /\ b[j].state = "queued" =>
                f[j].state = "queued" \/ \E x \in 1..Len(s) : s[x] = b[j].mut
      /\ \A x \in 1..Len(s) :
           /\ \E j \in 1..n : s[x] = b[j].mut /\ b[j].state = "queued"
           /\ \A y \in 1..Len(s) : x < y => t[s[x].cid] <= t[s[y].cid]
           /\ \A j \in 1..n : f[j].state = "queued" => t[s[x].cid] <= t[b[j].mut.cid]
  <2>1. Paced(b, t, r, k)
    BY DEF Pumping
  <2>2. \A j \in 1..k : j \in 1..n
    <3>1. n \in Nat
      BY DEF IsBrowser, Browser
    <3> QED BY <3>1
  <2> QED BY <2>1, <2>2 DEF Paced
<1>4. /\ Len(c.journal) <= Len(d.journal)
      /\ \A x \in 1..Len(c.journal) : d.journal[x] = c.journal[x]
      /\ \A x \in 1..Len(d.journal) :
           x \in 1..Len(c.journal) \/ \E y \in 1..Len(s) : s[y] = d.journal[x].mut
  BY DEF Pumping, Telling
<1> HIDE DEF b, f, s, n
<1>5. FlagsFit(f) /\ BufferSorted(t, f)
  <2>1. BufferSorted(t, b)
    BY DEF b
  <2> QED BY <1>2, <1>3, <2>1 DEF FlagsFit, BufferSorted, n
<1>6. Sorted(t, fs, q, b) /\ Alive(c.journal, fs, q, b, lost) /\ n = Len(b)
  BY DEF b, n
<1>7. ASSUME NEW i \in 1..Len(fs), NEW j \in 1..Len(p), IsAnswer(fs[i]), p[j].here
      PROVE  t[AnswerOf(fs[i])] <= t[p[j].mut.cid]
  <2>1. CASE j \in 1..Len(q)
    BY <1>1, <1>6, <1>7, <2>1 DEF Sorted
  <2>2. ASSUME NEW x \in 1..Len(s), j = Len(q) + x
        PROVE  t[AnswerOf(fs[i])] <= t[p[j].mut.cid]
    <3>1. PICK l \in 1..n : s[x] = b[l].mut /\ b[l].state = "queued"
      BY <1>3
    <3>2. p[j].mut = b[l].mut
      BY <1>1, <2>2, <3>1
    <3> QED BY <1>6, <1>7, <3>1, <3>2 DEF Sorted
  <2> QED BY <1>1, <2>1, <2>2
<1>8. ASSUME NEW i \in 1..Len(p), NEW j \in 1..Len(p), i < j, p[i].here, p[j].here
      PROVE  t[p[i].mut.cid] <= t[p[j].mut.cid]
  <2>1. CASE i \in 1..Len(q) /\ j \in 1..Len(q)
    <3>1. p[i] = q[i] /\ p[j] = q[j]
      BY <1>1, <2>1
    <3> QED BY <1>6, <1>8, <2>1, <3>1 DEF Sorted
  <2>2. ASSUME i \in 1..Len(q), NEW x \in 1..Len(s), j = Len(q) + x
        PROVE  t[p[i].mut.cid] <= t[p[j].mut.cid]
    <3>1. PICK l \in 1..n : s[x] = b[l].mut /\ b[l].state = "queued"
      BY <1>3
    <3>2. p[j].mut = b[l].mut /\ p[i] = q[i]
      BY <1>1, <2>2, <3>1
    <3> QED BY <1>6, <1>8, <2>2, <3>1, <3>2 DEF Sorted
  <2>3. ASSUME NEW x \in 1..Len(s), i = Len(q) + x, NEW y \in 1..Len(s), j = Len(q) + y
        PROVE  t[p[i].mut.cid] <= t[p[j].mut.cid]
    <3>1. x < y
      BY <1>1, <1>8, <2>3
    <3>2. p[i].mut = s[x] /\ p[j].mut = s[y]
      BY <1>1, <2>3
    <3> QED BY <1>3, <3>1, <3>2
  <2>4. ~(i \notin 1..Len(q) /\ j \in 1..Len(q))
    BY <1>1, <1>8
  <2> QED BY <1>1, <2>1, <2>2, <2>3, <2>4
<1>9. ASSUME NEW i \in 1..Len(p), NEW j \in 1..Len(f), p[i].here, f[j].state = "queued"
      PROVE  t[p[i].mut.cid] <= t[f[j].mut.cid]
  <2>1. j \in 1..n /\ f[j].mut = b[j].mut /\ b[j].state = "queued"
    BY <1>2, <1>3, <1>9
  <2>2. CASE i \in 1..Len(q)
    BY <1>1, <1>6, <1>9, <2>1, <2>2 DEF Sorted
  <2>3. ASSUME NEW x \in 1..Len(s), i = Len(q) + x PROVE t[p[i].mut.cid] <= t[f[j].mut.cid]
    BY <1>1, <1>3, <1>9, <2>1, <2>3
  <2> QED BY <1>1, <2>2, <2>3
<1>10. Sorted(t, fs, p, f)
  <2>1. \A i \in 1..Len(fs), j \in 1..Len(f) : IsAnswer(fs[i]) /\ f[j].state = "queued" =>
          t[AnswerOf(fs[i])] <= t[f[j].mut.cid]
    BY <1>2, <1>3, <1>6 DEF Sorted
  <2>2. \A i, j \in 1..Len(fs) : i < j /\ IsAnswer(fs[i]) /\ IsAnswer(fs[j]) =>
          t[AnswerOf(fs[i])] <= t[AnswerOf(fs[j])]
    BY <1>6 DEF Sorted
  <2> QED BY <1>7, <1>8, <1>9, <2>1, <2>2 DEF Sorted
<1>11. \A x \in 1..Len(s) : Expected(s[x].cid, fs, p, f)
  BY <1>1 DEF Expected
<1>12. ASSUME NEW cid, Expected(cid, fs, q, b) PROVE Expected(cid, fs, p, f)
  <2>1. CASE \E i \in 1..Len(fs) : IsAnswer(fs[i]) /\ AnswerOf(fs[i]) = cid
    BY <2>1 DEF Expected
  <2>2. CASE \E j \in 1..Len(q) : q[j].here /\ q[j].mut.cid = cid
    BY <1>1, <2>2 DEF Expected
  <2>3. CASE \E j \in 1..Len(b) : b[j].state = "queued" /\ b[j].mut.cid = cid
    <3>1. PICK j \in 1..n : b[j].state = "queued" /\ b[j].mut.cid = cid
      BY <1>6, <2>3
    <3>2. CASE f[j].state = "queued"
      BY <1>2, <3>1, <3>2 DEF Expected
    <3>3. CASE \E x \in 1..Len(s) : s[x] = b[j].mut
      BY <1>11, <3>1, <3>3
    <3> QED BY <1>3, <3>1, <3>2, <3>3
  <2> QED BY <1>12, <2>1, <2>2, <2>3 DEF Expected
<1>13. Alive(d.journal, fs, p, f, more)
  BY <1>4, <1>6, <1>11, <1>12 DEF Alive, Known
<1>14. Seen(d.journal, lg, seq, more)
  <2> SUFFICES ASSUME NEW x \in 1..Len(d.journal), NEW l \in 1..seq,
                      lg[l].cid = d.journal[x].mut.cid
               PROVE  Draws(d.journal[x].mut) \subseteq more
    BY DEF Seen
  <2>1. CASE x \in 1..Len(c.journal)
    BY <1>4, <2>1 DEF Seen, Known
  <2>2. CASE \E y \in 1..Len(s) : s[y] = d.journal[x].mut
    <3>1. l \in 1..Len(lg)
      OBVIOUS
    <3>2. \A y \in 1..Len(s) : lg[l].cid = s[y].cid => Draws(s[y]) \subseteq more
      BY <3>1 DEF s, Known
    <3> QED BY <2>2, <3>2
  <2> QED BY <1>4, <2>1, <2>2
<1> QED BY <1>5, <1>10, <1>13, <1>14 DEF f, Waits

\* A retry of what the board has loses what it draws.
LEMMA RepeatedIs ==
  ASSUME NEW sent \in Seq(Mine), log \in Seq(Mutations), NEW x \in 1..Len(sent),
         NEW n \in 1..Len(log), log[n].cid = sent[x].cid, NEW items, items = Repeated(sent)
  PROVE  Draws(sent[x]) \subseteq items /\ Draws(sent[x]) \subseteq Items
<1>1. sent[x] \in Range(sent) /\ sent[x] \in Mutations
  BY DEF Range, Mutations
<1>2. Accepted(sent[x].cid)
  BY DEF Accepted
<1>3. Draws(sent[x]) \subseteq items
  BY <1>1, <1>2 DEF Repeated
<1> QED BY <1>1, <1>3, Drawing

\* With nothing drawn over it, the story the pump tells is that of the screen.
LEMMA PlainStory ==
  ASSUME NEW c, NEW acc, NEW r, NEW t, NEW k, NEW mine, NEW base, NEW lost, NEW m, NEW old,
         Pumping(c, acc, r, t, k, mine, base, lost, FALSE, m, old),
         NEW more \in SUBSET Items, lost \subseteq more, SpreadOver(r.client.journal, more)
  PROVE  Story(r.client.view, r.client.journal, base, more)
<1> DEFINE d == r.client
<1>1. Fits(c.buffered, d.journal, FALSE, m, lost, more)
  BY DEF Fits
<1>2. PICK w : Story(w, d.journal, base, more) /\ Under(w, d.view, FALSE, m, old, more)
  BY <1>1 DEF Pumping, Telling
<1>3. \A i \in Items \ more : d.view[i] = w[i]
  BY <1>2 DEF Under
<1> QED BY <1>2, <1>3, StoryShown

LEMMA PumpAttached ==
  ASSUME NEW c, IsBrowser(c), NEW acc, Closed(c.journal, acc), NEW t \in Turns,
         BufferSorted(t, c.buffered), NEW mine,
         \A j \in 1..Len(c.buffered) : c.buffered[j].mut.cid \in mine,
         NEW fs, NEW q \in Seq(Sent), log \in Seq(Mutations), c.seq <= Len(log),
         crossed \subseteq Items, Attached(t, c, log, q, fs, mine, crossed),
         NEW upto \in 0..Len(c.buffered), NEW r, r = Pump(c, upto),
         NEW s, s = Spread(Repeated(r.sent), PendingMuts(r.client))
  PROVE  Attached(t, r.client, log, Gone(q, r.sent), fs, mine, s)
<1> DEFINE base == After(log, c.seq)
           d == r.client
           p == Gone(q, r.sent)
<1>1. /\ IsView(c.view) /\ Journalled(c.journal, mine) /\ Story(c.view, c.journal, base, crossed)
      /\ FlagsFit(c.buffered) /\ Ordered(t, c.journal, c.buffered, crossed)
      /\ Alive(c.journal, fs, q, c.buffered, crossed) /\ Seen(c.journal, log, c.seq, crossed)
      /\ Sorted(t, fs, q, c.buffered) /\ Posted(fs, log, mine) /\ Covered(fs, log, c.seq, crossed)
  BY DEF Attached
<1>2. \A more \in SUBSET Items :
        Fits(c.buffered, c.journal, FALSE, c, crossed, more) =>
          \E w : Story(w, c.journal, base, more) /\ Under(w, c.view, FALSE, c, c, more)
  <2> SUFFICES ASSUME NEW more \in SUBSET Items,
                      Fits(c.buffered, c.journal, FALSE, c, crossed, more)
               PROVE  Story(c.view, c.journal, base, more) /\ Under(c.view, c.view, FALSE, c, c, more)
    OBVIOUS
  <2>1. crossed \subseteq more /\ SpreadOver(c.journal, more)
    BY DEF Fits
  <2> QED BY <1>1, <2>1, StoryMore DEF Under
<1> HIDE DEF base
<1>3. Pumping(c, acc, r, t, upto, mine, base, crossed, FALSE, c, c)
  <2>1. FALSE \in BOOLEAN /\ (FALSE => c \in Mutations) /\ crossed \in SUBSET Items
    OBVIOUS
  <2>2. /\ IsBrowser(c) /\ t \in Turns /\ BufferSorted(t, c.buffered) /\ Closed(c.journal, acc)
        /\ FlagsFit(c.buffered) /\ \A j \in 1..Len(c.buffered) : c.buffered[j].mut.cid \in mine
    BY <1>1
  <2>3. /\ IsView(c.view) /\ Journalled(c.journal, mine)
        /\ Ordered(t, c.journal, c.buffered, crossed)
        /\ upto \in 0..Len(c.buffered) /\ r = Pump(c, upto)
    BY <1>1
  <2> QED BY ONLY <1>2, <2>1, <2>2, <2>3, PumpTells
<1>4. /\ d.seq = c.seq /\ r.sent \in Seq(Mine) /\ IsView(d.view) /\ Journalled(d.journal, mine)
      /\ Ordered(t, d.journal, d.buffered, crossed)
  BY <1>3 DEF Pumping, Pumped, Telling
<1>5. /\ s \in SUBSET Items /\ crossed \subseteq s /\ Repeated(r.sent) \cap Items \subseteq s
      /\ SpreadOver(d.journal, s)
  <2> DEFINE items == Repeated(r.sent)
             j == d.journal
  <2>1. Journalled(j, mine) /\ s = Spread(items, PendingMuts(d)) /\ d.journal = j
    BY <1>4
  <2> HIDE DEF items, j, d
  <2>2. /\ s \in SUBSET Items /\ crossed \subseteq s /\ items \cap Items \subseteq s
        /\ SpreadOver(j, s)
    BY ONLY <2>1, crossed \subseteq Items, Spreading
  <2> QED BY <2>2 DEF items, j
<1>6. Story(d.view, d.journal, base, s)
  BY <1>3, <1>5, PlainStory
<1>7. Known(log, r.sent, crossed, s)
  <2> SUFFICES ASSUME NEW x \in 1..Len(r.sent), NEW n \in 1..Len(log), log[n].cid = r.sent[x].cid
               PROVE  Draws(r.sent[x]) \subseteq s
    BY <1>5 DEF Known
  <2> DEFINE z == r.sent
             items == Repeated(z)
  <2>1. z \in Seq(Mine) /\ x \in 1..Len(z) /\ log[n].cid = z[x].cid /\ items = Repeated(z)
    BY <1>4
  <2> HIDE DEF z, items
  <2>2. Draws(z[x]) \subseteq items /\ Draws(z[x]) \subseteq Items
    BY <2>1, RepeatedIs
  <2> QED BY <1>5, <2>2 DEF z, items
<1>8. Waits(t, fs, p, log, c.seq, d, s)
  <2>1. Waiting(t, fs, q, log, c.seq, c, crossed)
    BY <1>1 DEF Waiting, IsBrowser, Browser
  <2>2. upto \in 0..Len(c.buffered)
    OBVIOUS
  <2> QED BY ONLY <1>3, <1>7, <2>1, <2>2, PumpMail
<1>9. Ordered(t, d.journal, d.buffered, s) /\ Covered(fs, log, d.seq, s)
  BY <1>1, <1>4, <1>5, OrderedMore, CoveredLost
<1> QED BY <1>1, <1>4, <1>6, <1>8, <1>9 DEF Attached, base, Waits

LEMMA PumpShows ==
  ASSUME Inv, Legit(log), crossed \subseteq Items,
         NEW c, IsBrowser(c), Closed(c.journal, Acc), c.seq <= Len(log), Writable(c),
         \A j \in 1..Len(c.buffered) : c.buffered[j].mut.cid \in used.mine,
         NEW t \in Turns, NEW N \in Nat, Numbered(t, N, c, used.mine),
         open => Attached(t, c, log, queue, frames', used.mine, crossed),
         NEW upto \in 0..Len(c.buffered), me' = Pump(c, upto).client,
         Emitted(Pump(c, upto).sent),
         crossed' = Spread(Repeated(Pump(c, upto).sent), PendingMuts(me')),
         UNCHANGED << log, open, used >>
  PROVE  Screen'
<1> DEFINE r == Pump(c, upto)
<1>1. Pumped(c, Acc, r)
  BY PumpIs
<1>2. PICK x : x = r
  OBVIOUS
<1> HIDE DEF r
<1>3. /\ me' = x.client /\ Emitted(x.sent) /\ x = Pump(c, upto)
      /\ crossed' = Spread(Repeated(x.sent), PendingMuts(x.client)) /\ Pumped(c, Acc, x)
  BY <1>1, <1>2 DEF r
<1>4. /\ me'.link = "live" /\ ~me'.paused /\ Len(me'.buffered) = Len(c.buffered)
      /\ \A j \in 1..Len(c.buffered) : me'.buffered[j].mut = c.buffered[j].mut
  BY <1>3 DEF Pumped, Writable
<1>5. Preserved(me') /\ Detached(me', log', crossed') /\ BatchFirst(me', frames')
      /\ Numbered(t, N, me', used'.mine)
  BY <1>4 DEF Preserved, Detached, BatchFirst, Numbered, BufferSorted
<1>6. crossed' \subseteq Items
  BY <1>3 DEF Spread
<1>7. ASSUME open PROVE Attached(t, me', log, queue', frames', used.mine, crossed')
  <2>1. queue' = Gone(queue, x.sent)
    BY <1>3, <1>7 DEF Emitted, Gone
  <2>2. queue \in Seq(Sent) /\ log \in Seq(Mutations)
    BY DEF Inv, Types
  <2>3. BufferSorted(t, c.buffered)
    BY DEF Numbered
  <2>4. Attached(t, x.client, log, Gone(queue, x.sent), frames', used.mine, crossed')
    BY <1>3, <1>7, <2>2, <2>3, PumpAttached
  <2> QED BY <1>3, <2>1, <2>4
<1> QED BY <1>5, <1>6, <1>7 DEF Screen

LEMMA OwnBuffered ==
  ASSUME Inv PROVE \A j \in 1..Len(me.buffered) : me.buffered[j].mut.cid \in used.mine
<1>1. me.buffered \in Seq(Write)
  BY DEF Inv, Types, IsBrowser, Browser
<1>2. \A j \in 1..Len(me.buffered) : me.buffered[j] \in Range(me.buffered)
  BY <1>1 DEF Range
<1> QED BY <1>2 DEF Inv, Writes, WritesOf

LEMMA FlushShows == Inv /\ Screen /\ Flush => Screen'
<1> SUFFICES ASSUME Inv, Screen, Flush PROVE Screen'
  OBVIOUS
<1>1. /\ Writable(me) /\ UNCHANGED << log, frames, open, used >>
      /\ \E upto \in DOMAIN me.buffered :
           /\ me' = Pump(me, upto).client /\ Emitted(Pump(me, upto).sent)
           /\ crossed' = Spread(Repeated(Pump(me, upto).sent), PendingMuts(me'))
  BY DEF Flush
<1>2. PICK upto \in DOMAIN me.buffered :
        /\ me' = Pump(me, upto).client /\ Emitted(Pump(me, upto).sent)
        /\ crossed' = Spread(Repeated(Pump(me, upto).sent), PendingMuts(me'))
  BY <1>1
<1>3. upto \in 0..Len(me.buffered)
  BY DEF Inv, Types, IsBrowser, Browser
<1>4. PICK t \in Turns, N \in Nat :
        /\ Numbered(t, N, me, used.mine)
        /\ open => Attached(t, me, log, queue, frames, used.mine, crossed)
  BY DEF Screen
<1>5. PICK c : c = me
  OBVIOUS
<1>6. /\ IsBrowser(c) /\ Closed(c.journal, Acc) /\ c.seq <= Len(log) /\ Writable(c)
      /\ \A j \in 1..Len(c.buffered) : c.buffered[j].mut.cid \in used.mine
      /\ Legit(log) /\ crossed \subseteq Items
  BY <1>1, <1>5, OwnBuffered DEF Inv, Types, Screen
<1>7. /\ upto \in 0..Len(c.buffered) /\ Numbered(t, N, c, used.mine)
      /\ open => Attached(t, c, log, queue, frames', used.mine, crossed)
      /\ me' = Pump(c, upto).client /\ Emitted(Pump(c, upto).sent)
      /\ crossed' = Spread(Repeated(Pump(c, upto).sent), PendingMuts(me'))
  BY <1>1, <1>2, <1>3, <1>4, <1>5
<1> QED BY <1>1, <1>4, <1>6, <1>7, PumpShows

LEMMA EndPauseShows == Inv /\ Screen /\ EndPause => Screen'
<1> SUFFICES ASSUME Inv, Screen, EndPause PROVE Screen'
  OBVIOUS
<1>1. PICK c : c = [me EXCEPT !.paused = FALSE]
  OBVIOUS
<1>2. /\ IsBrowser(c) /\ c.view = me.view /\ c.seq = me.seq /\ c.journal = me.journal
      /\ c.buffered = me.buffered /\ c.link = me.link
  BY <1>1 DEF Inv, Types, IsBrowser, Browser
<1>3. /\ me.paused /\ UNCHANGED << log, frames, open, used >>
      /\ \/ /\ Writable(c)
            /\ \E upto \in 0..Len(me.buffered) :
                 /\ me' = Pump(c, upto).client /\ Emitted(Pump(c, upto).sent)
                 /\ crossed' = Spread(Repeated(Pump(c, upto).sent), PendingMuts(me'))
         \/ ~Writable(c) /\ me' = c /\ UNCHANGED << queue, crossed >>
  BY <1>1 DEF EndPause
<1>4. PICK t \in Turns, N \in Nat :
        /\ Numbered(t, N, me, used.mine)
        /\ open => Attached(t, me, log, queue, frames, used.mine, crossed)
  BY DEF Screen
<1>5. /\ Numbered(t, N, c, used.mine)
      /\ open => Attached(t, c, log, queue, frames, used.mine, crossed)
  BY <1>2, <1>4 DEF Numbered, Attached
<1>6. CASE Writable(c) /\ \E upto \in 0..Len(me.buffered) :
             /\ me' = Pump(c, upto).client /\ Emitted(Pump(c, upto).sent)
             /\ crossed' = Spread(Repeated(Pump(c, upto).sent), PendingMuts(me'))
  <2>1. PICK upto \in 0..Len(c.buffered) :
          /\ me' = Pump(c, upto).client /\ Emitted(Pump(c, upto).sent)
          /\ crossed' = Spread(Repeated(Pump(c, upto).sent), PendingMuts(me'))
    BY <1>2, <1>6
  <2>2. /\ Closed(c.journal, Acc) /\ c.seq <= Len(log)
        /\ \A j \in 1..Len(c.buffered) : c.buffered[j].mut.cid \in used.mine
        /\ Legit(log) /\ crossed \subseteq Items
    BY <1>2, OwnBuffered DEF Inv, Types, Screen
  <2>3. open => Attached(t, c, log, queue, frames', used.mine, crossed)
    BY <1>3, <1>5
  <2> QED BY <1>2, <1>3, <1>5, <1>6, <2>1, <2>2, <2>3, PumpShows
<1>7. CASE ~Writable(c) /\ me' = c /\ UNCHANGED << queue, crossed >>
  <2>1. Preserved(me') /\ Detached(me', log', crossed') /\ BatchFirst(me', frames')
    BY <1>2, <1>3, <1>7 DEF Preserved, Detached, BatchFirst, Screen
  <2> QED BY <1>3, <1>5, <1>7, <2>1 DEF Screen
<1> QED BY <1>3, <1>6, <1>7

-----------------------------------------------------------------------------
(* What the browser hears, and what is left of its writes.                  *)

\* f is what is left of b, in order.
Thins(b, f) ==
  \E g : /\ \A k \in 1..Len(f) : g[k] \in 1..Len(b) /\ f[k] = b[g[k]]
         /\ \A k, l \in 1..Len(f) : k < l => g[k] < g[l]

LEMMA ChosenThins ==
  ASSUME NEW S, NEW s \in Seq(S), NEW places \in SUBSET (1..Len(s))
  PROVE  Thins(s, Chosen(s, places))
<1> DEFINE f == Chosen(s, places)
<1>1. PICK g : Embeds(g, s, f, places)
  BY ChosenEmbeds
<1> HIDE DEF f
<1>2. /\ \A k \in 1..Len(f) : g[k] \in places /\ f[k] = s[g[k]]
      /\ \A k, l \in 1..Len(f) : k < l => g[k] < g[l]
  BY <1>1 DEF Embeds
<1>3. Thins(s, f)
  BY <1>2 DEF Thins
<1> QED BY <1>3 DEF f

LEMMA ThinsSelf == ASSUME NEW S, NEW b \in Seq(S) PROVE Thins(b, b)
<1> DEFINE g == [k \in 1..Len(b) |-> k]
<1>1. \A k \in 1..Len(b) : g[k] = k
  OBVIOUS
<1> HIDE DEF g
<1> QED BY <1>1 DEF Thins

LEMMA ThinsTwice ==
  ASSUME NEW b, NEW f, NEW h, Thins(b, f), Thins(f, h) PROVE Thins(b, h)
<1>1. PICK g : /\ \A k \in 1..Len(f) : g[k] \in 1..Len(b) /\ f[k] = b[g[k]]
               /\ \A k, l \in 1..Len(f) : k < l => g[k] < g[l]
  BY DEF Thins
<1>2. PICK i : /\ \A k \in 1..Len(h) : i[k] \in 1..Len(f) /\ h[k] = f[i[k]]
               /\ \A k, l \in 1..Len(h) : k < l => i[k] < i[l]
  BY DEF Thins
<1> DEFINE j == [k \in 1..Len(h) |-> g[i[k]]]
<1>3. \A k \in 1..Len(h) : j[k] = g[i[k]]
  OBVIOUS
<1>4. \A k \in 1..Len(h) : j[k] \in 1..Len(b) /\ h[k] = b[j[k]]
  BY <1>1, <1>2, <1>3
<1>5. \A k, l \in 1..Len(h) : k < l => j[k] < j[l]
  BY <1>1, <1>2, <1>3
<1> HIDE DEF j
<1> QED BY <1>4, <1>5 DEF Thins

LEMMA ThinsNone == ASSUME NEW b PROVE Thins(b, << >>)
BY DEF Thins

\* What holds of a buffer holds of what is left of it.
LEMMA ThinsKeeps ==
  ASSUME NEW b, NEW f, Thins(b, f), NEW t
  PROVE  /\ BufferSorted(t, b) => BufferSorted(t, f)
         /\ FlagsFit(b) => FlagsFit(f)
         /\ \A fs, q : Sorted(t, fs, q, b) => Sorted(t, fs, q, f)
<1>1. PICK g : /\ \A k \in 1..Len(f) : g[k] \in 1..Len(b) /\ f[k] = b[g[k]]
               /\ \A k, l \in 1..Len(f) : k < l => g[k] < g[l]
  BY DEF Thins
<1>2. BufferSorted(t, b) => BufferSorted(t, f)
  BY <1>1 DEF BufferSorted
<1>3. FlagsFit(b) => FlagsFit(f)
  BY <1>1 DEF FlagsFit
<1>4. ASSUME NEW fs, NEW q, Sorted(t, fs, q, b) PROVE Sorted(t, fs, q, f)
  <2>1. ASSUME NEW i \in 1..Len(fs), NEW k \in 1..Len(f), IsAnswer(fs[i]), f[k].state = "queued"
        PROVE  t[AnswerOf(fs[i])] <= t[f[k].mut.cid]
    <3>1. g[k] \in 1..Len(b) /\ b[g[k]].state = "queued" /\ f[k] = b[g[k]]
      BY <1>1, <2>1
    <3> QED BY <1>4, <2>1, <3>1 DEF Sorted
  <2>2. ASSUME NEW i \in 1..Len(q), NEW k \in 1..Len(f), q[i].here, f[k].state = "queued"
        PROVE  t[q[i].mut.cid] <= t[f[k].mut.cid]
    <3>1. g[k] \in 1..Len(b) /\ b[g[k]].state = "queued" /\ f[k] = b[g[k]]
      BY <1>1, <2>2
    <3> QED BY <1>4, <2>2, <3>1 DEF Sorted
  <2>3. /\ \A i, j \in 1..Len(fs) : i < j /\ IsAnswer(fs[i]) /\ IsAnswer(fs[j]) =>
             t[AnswerOf(fs[i])] <= t[AnswerOf(fs[j])]
        /\ \A i \in 1..Len(fs), j \in 1..Len(q) : IsAnswer(fs[i]) /\ q[j].here =>
             t[AnswerOf(fs[i])] <= t[q[j].mut.cid]
        /\ \A i, j \in 1..Len(q) : i < j /\ q[i].here /\ q[j].here =>
             t[q[i].mut.cid] <= t[q[j].mut.cid]
    BY <1>4 DEF Sorted
  <2> QED BY ONLY <2>1, <2>2, <2>3 DEF Sorted
<1> QED BY <1>2, <1>3, <1>4

LEMMA ThinsOrdered ==
  ASSUME NEW b, NEW f, Thins(b, f), NEW j, NEW h, Thins(j, h), NEW t, NEW lost, NEW more,
         lost \subseteq more, Ordered(t, j, b, lost)
  PROVE  Ordered(t, h, f, more)
<1>1. PICK g : /\ \A k \in 1..Len(f) : g[k] \in 1..Len(b) /\ f[k] = b[g[k]]
               /\ \A k, l \in 1..Len(f) : k < l => g[k] < g[l]
  BY DEF Thins
<1>2. PICK i : /\ \A k \in 1..Len(h) : i[k] \in 1..Len(j) /\ h[k] = j[i[k]]
               /\ \A k, l \in 1..Len(h) : k < l => i[k] < i[l]
  BY DEF Thins
<1>3. Ordered(t, j, b, more)
  BY OrderedMore
<1>4. \A p, q \in 1..Len(h) : p < q => InTurn(t, more, h[p].mut, h[q].mut)
  BY <1>2, <1>3 DEF Ordered
<1>5. \A p \in 1..Len(h), k \in 1..Len(f) : f[k].redraw =>
        h[p].mut.cid # f[k].mut.cid /\ InTurn(t, more, h[p].mut, f[k].mut)
  <2> SUFFICES ASSUME NEW p \in 1..Len(h), NEW k \in 1..Len(f), f[k].redraw
               PROVE  h[p].mut.cid # f[k].mut.cid /\ InTurn(t, more, h[p].mut, f[k].mut)
    OBVIOUS
  <2>1. PICK x \in 1..Len(j) : h[p] = j[x]
    BY <1>2
  <2>2. PICK y \in 1..Len(b) : f[k] = b[y]
    BY <1>1
  <2> QED BY <1>3, <2>1, <2>2 DEF Ordered
<1> QED BY <1>4, <1>5 DEF Ordered

LEMMA ThinsSeen ==
  ASSUME NEW j, NEW h, Thins(j, h), NEW lg, NEW seq, NEW lost, NEW more, lost \subseteq more,
         Seen(j, lg, seq, lost)
  PROVE  Seen(h, lg, seq, more)
BY DEF Thins, Seen

\* The first frame is taken from what is under way.
LEMMA Heard ==
  ASSUME NEW fs \in Seq(Frame), fs # << >>
  PROVE  /\ \A t, q, b : Sorted(t, fs, q, b) => Sorted(t, Tail(fs), q, b)
         /\ \A lg, mine : Posted(fs, lg, mine) => Posted(Tail(fs), lg, mine)
         /\ \A cid, q, b : Expected(cid, fs, q, b) =>
              Expected(cid, Tail(fs), q, b) \/ (IsAnswer(fs[1]) /\ AnswerOf(fs[1]) = cid)
<1> DEFINE gs == Tail(fs)
<1>1. /\ \A i \in 1..Len(gs) : gs[i] = fs[i + 1] /\ i + 1 \in 1..Len(fs)
      /\ \A i \in 1..Len(fs) : i = 1 \/ (i - 1 \in 1..Len(gs) /\ gs[i - 1] = fs[i])
      /\ \A i, j \in 1..Len(gs) : i < j => i + 1 < j + 1
  BY Tailing
<1> HIDE DEF gs
<1>2. ASSUME NEW t, NEW q, NEW b, Sorted(t, fs, q, b) PROVE Sorted(t, gs, q, b)
  BY <1>1, <1>2 DEF Sorted
<1>3. ASSUME NEW lg, NEW mine, Posted(fs, lg, mine) PROVE Posted(gs, lg, mine)
  BY <1>1, <1>3 DEF Posted
<1>4. ASSUME NEW cid, NEW q, NEW b, Expected(cid, fs, q, b)
      PROVE  Expected(cid, gs, q, b) \/ (IsAnswer(fs[1]) /\ AnswerOf(fs[1]) = cid)
  BY <1>1, <1>4 DEF Expected
<1> QED BY <1>2, <1>3, <1>4 DEF gs

LEMMA CoveredTail ==
  ASSUME NEW fs \in Seq(Frame), fs # << >>, NEW lg, NEW seq \in Nat, NEW lost, NEW more,
         Covered(fs, lg, seq, lost), \A i \in 1..Len(fs) : fs[i].kind # "batch",
         NEW next \in {seq, seq + 1}, next = seq => lost \subseteq more,
         fs[1].kind = "mutation" =>
           fs[1].seq <= next \/ (fs[1].seq = seq + 1 /\ next = seq /\ Draws(lg[seq + 1]) \subseteq more)
  PROVE  Covered(Tail(fs), lg, next, more)
<1> DEFINE gs == Tail(fs)
<1>1. /\ \A i \in 1..Len(gs) : gs[i] = fs[i + 1] /\ i + 1 \in 1..Len(fs)
      /\ \A i \in 1..Len(fs) : i = 1 \/ (i - 1 \in 1..Len(gs) /\ gs[i - 1] = fs[i])
      /\ Len(fs) \in Nat \ {0} /\ Len(gs) = Len(fs) - 1
  BY Tailing
<1> HIDE DEF gs
<1>2. ~(Len(gs) # 0 /\ gs[1].kind = "batch") /\ ~(Len(fs) # 0 /\ fs[1].kind = "batch")
  BY <1>1
<1>3. ASSUME NEW s \in (next + 1)..Len(lg)
      PROVE  \/ \E i \in 1..Len(gs) : gs[i].kind = "mutation" /\ gs[i].seq = s
             \/ s = next + 1 /\ Draws(lg[s]) \subseteq more
  <2>1. s \in (seq + 1)..Len(lg)
    OBVIOUS
  <2>2. \/ \E i \in 1..Len(fs) : fs[i].kind = "mutation" /\ fs[i].seq = s
        \/ s = seq + 1 /\ Draws(lg[s]) \subseteq lost
    BY <1>2, <2>1 DEF Covered
  <2>3. CASE s = seq + 1 /\ Draws(lg[s]) \subseteq lost
    BY <2>3
  <2>4. ASSUME NEW i \in 1..Len(fs), fs[i].kind = "mutation", fs[i].seq = s
        PROVE  \/ \E k \in 1..Len(gs) : gs[k].kind = "mutation" /\ gs[k].seq = s
               \/ s = next + 1 /\ Draws(lg[s]) \subseteq more
    <3>1. CASE i = 1
      <4>1. fs[1].kind = "mutation" /\ fs[1].seq = s /\ next \in Nat
        BY <2>4, <3>1
      <4>2. ~(fs[1].seq <= next)
        BY <4>1
      <4> QED BY <4>1, <4>2
    <3>2. CASE i - 1 \in 1..Len(gs) /\ gs[i - 1] = fs[i]
      BY <2>4, <3>2
    <3> QED BY <1>1, <3>1, <3>2
  <2> QED BY <2>2, <2>3, <2>4
<1> QED BY <1>2, <1>3 DEF Covered, gs

\* A lost write meets the others on lost items only.
LEMMA MeetLost ==
  ASSUME NEW journal, NEW mine, Journalled(journal, mine), NEW lost,
         SpreadOver(journal, lost), NEW p \in 1..Len(journal), NEW q \in 1..Len(journal),
         Draws(journal[q].mut) \subseteq lost
  PROVE  Meet(journal[q].mut, journal[p].mut) \subseteq lost
<1> DEFINE m == journal[q].mut
           o == journal[p].mut
<1>1. m \in Mutations /\ o \in Mutations
  BY DEF Journalled, Mutations
<1>2. m.id \in Draws(m) /\ Draws(m) \subseteq lost
  BY <1>1, Drawing
<1>3. o.op = "copy" /\ o.from \in lost => o.id \in lost
  BY DEF SpreadOver
<1> HIDE DEF m, o
<1>4. Meet(m, o) \subseteq lost
  BY <1>2, <1>3 DEF Meet, Taken
<1> QED BY <1>4 DEF m, o

\* The answer that comes first is that of the first pending write, but for lost items.
LEMMA FirstAnswer ==
  ASSUME NEW t \in Turns, NEW fs, NEW q, NEW b, Sorted(t, fs, q, b), 1 \in 1..Len(fs),
         IsAnswer(fs[1]), NEW cid, Expected(cid, fs, q, b),
         t[cid] \in Nat, t[AnswerOf(fs[1])] \in Nat, \A i \in 1..Len(fs) : i = 1 \/ 1 < i
  PROVE  t[AnswerOf(fs[1])] <= t[cid]
<1>1. CASE \E i \in 1..Len(fs) : IsAnswer(fs[i]) /\ AnswerOf(fs[i]) = cid
  BY <1>1 DEF Sorted
<1>2. CASE \E j \in 1..Len(q) : q[j].here /\ q[j].mut.cid = cid
  BY <1>2 DEF Sorted
<1>3. CASE \E k \in 1..Len(b) : b[k].state = "queued" /\ b[k].mut.cid = cid
  BY <1>3 DEF Sorted
<1> QED BY <1>1, <1>2, <1>3 DEF Expected

\* d is c with some of its buffered writes gone, for which the others stay in order.
Lighter(c, d) ==
  /\ IsBrowser(d) /\ d.view = c.view /\ d.seq = c.seq /\ d.journal = c.journal
  /\ d.link = c.link /\ d.paused = c.paused /\ Thins(c.buffered, d.buffered)

Leaves(c, d, places) ==
  /\ Lighter(c, d)
  /\ \A k \in places : \E j \in 1..Len(d.buffered) : d.buffered[j] = c.buffered[k]

LEMMA LighterIs ==
  ASSUME NEW c, IsBrowser(c), NEW places \in SUBSET (1..Len(c.buffered)),
         NEW b, b = Chosen(c.buffered, places), NEW d, d = [c EXCEPT !.buffered = b]
  PROVE  Leaves(c, d, places)
<1>1. c.buffered \in Seq(Write) /\ DOMAIN c.buffered = 1..Len(c.buffered)
  BY DEF IsBrowser, Browser
<1>2. b = Chosen(c.buffered, places)
  OBVIOUS
<1>3. b \in Seq(Write) /\ Range(b) = {c.buffered[p] : p \in places}
  BY <1>1, <1>2, ChosenWrites
<1>4. /\ IsBrowser(d) /\ d.view = c.view /\ d.seq = c.seq /\ d.journal = c.journal
      /\ d.link = c.link /\ d.paused = c.paused /\ d.buffered = b
  BY <1>2, <1>3 DEF IsBrowser, Browser
<1>5. Thins(c.buffered, b)
  BY <1>1, <1>2, ChosenThins
<1>6. \A k \in places : \E j \in 1..Len(b) : b[j] = c.buffered[k]
  <2>1. \A k \in places : c.buffered[k] \in Range(b)
    BY <1>3
  <2> QED BY <1>3, <2>1 DEF Range
<1> QED BY <1>4, <1>5, <1>6 DEF Lighter, Leaves

LEMMA ResolveLighter ==
  ASSUME NEW c, IsBrowser(c), NEW cid, NEW d, d = ResolveBuffered(c, cid)
  PROVE  /\ Lighter(c, d)
         /\ \A k \in 1..Len(c.buffered) : c.buffered[k].mut.cid # cid =>
              \E j \in 1..Len(d.buffered) : d.buffered[j] = c.buffered[k]
<1> DEFINE places == {k \in 1..Len(c.buffered) : c.buffered[k].mut.cid # cid}
<1>1. DOMAIN c.buffered = 1..Len(c.buffered)
  BY DEF IsBrowser, Browser
<1>2. d = [c EXCEPT !.buffered = Chosen(c.buffered, places)] /\ places \in SUBSET (1..Len(c.buffered))
  BY <1>1 DEF ResolveBuffered
<1>3. \A k \in 1..Len(c.buffered) : c.buffered[k].mut.cid # cid => k \in places
  OBVIOUS
<1> HIDE DEF places
<1>4. PICK b : b = Chosen(c.buffered, places)
  OBVIOUS
<1>5. d = [c EXCEPT !.buffered = b]
  BY ONLY <1>2, <1>4
<1>6. Leaves(c, d, places)
  BY ONLY <1>2, <1>4, <1>5, IsBrowser(c), LighterIs
<1> QED BY <1>3, <1>6 DEF Leaves

LEMMA PruneLighter ==
  ASSUME NEW c, IsBrowser(c), NEW m, NEW d, d = PruneBuffered(c, m)
  PROVE  /\ Lighter(c, d)
         /\ \A k \in 1..Len(c.buffered) :
              \/ \E j \in 1..Len(d.buffered) : d.buffered[j] = c.buffered[k]
              \/ m.op = "clear"
              \/ m.op = "delete" /\ m.id \in Affected(c.buffered[k].mut) \cup RestsOn(c.buffered[k].mut)
<1>1. DOMAIN c.buffered = 1..Len(c.buffered) /\ c.buffered \in Seq(Write)
  BY DEF IsBrowser, Browser
<1>2. CASE m.op = "clear"
  <2>1. d = [c EXCEPT !.buffered = << >>]
    BY <1>2 DEF PruneBuffered
  <2>0. << >> \in Seq(Write)
    OBVIOUS
  <2>2. /\ IsBrowser(d) /\ d.view = c.view /\ d.seq = c.seq /\ d.journal = c.journal
        /\ d.link = c.link /\ d.paused = c.paused /\ d.buffered = << >>
    BY <2>0, <2>1 DEF IsBrowser, Browser
  <2> QED BY <1>2, <2>2, ThinsNone DEF Lighter
<1>3. CASE m.op = "delete"
  <2> DEFINE places == {k \in 1..Len(c.buffered) :
                          m.id \notin Affected(c.buffered[k].mut) \cup RestsOn(c.buffered[k].mut)}
  <2>1. d = [c EXCEPT !.buffered = Chosen(c.buffered, places)] /\ places \in SUBSET (1..Len(c.buffered))
    BY <1>1, <1>3 DEF PruneBuffered
  <2>2. \A k \in 1..Len(c.buffered) :
          k \in places \/ m.id \in Affected(c.buffered[k].mut) \cup RestsOn(c.buffered[k].mut)
    OBVIOUS
  <2> HIDE DEF places
  <2>3. PICK b : b = Chosen(c.buffered, places)
    OBVIOUS
  <2>4. d = [c EXCEPT !.buffered = b]
    BY ONLY <2>1, <2>3
  <2>5. Leaves(c, d, places)
    BY ONLY <2>1, <2>3, <2>4, IsBrowser(c), LighterIs
  <2> QED BY <1>3, <2>2, <2>5 DEF Leaves
<1>4. CASE m.op \notin {"clear", "delete"}
  <2>1. d = c
    BY <1>4 DEF PruneBuffered
  <2> QED BY <1>1, <2>1, ThinsSelf DEF Lighter
<1> QED BY <1>2, <1>3, <1>4

\* A roll back leaves some entries in order, and none of those it was told of.
LEMMA RejectThins ==
  ASSUME NEW c, IsBrowser(c), c.journal \in Seq(Range(c.journal)), NEW cids,
         NEW d, d = RejectEntries(c, cids)
  PROVE  /\ Thins(c.journal, d.journal) /\ d.journal \in Seq(Range(d.journal))
         /\ d.seq = c.seq /\ d.buffered = c.buffered /\ d.link = c.link /\ d.paused = c.paused
         /\ \A p \in 1..Len(d.journal) : d.journal[p].mut.cid \notin cids
<1> DEFINE j == c.journal
           gone == Dependents(j, cids \cap EntryIds(c))
           kept == {k \in 1..Len(j) : j[k].mut.cid \notin gone}
           left == Without(j, gone)
           view == Undone(c.view, Without(j, EntryIds(c) \ gone))
<1>1. left = Chosen(j, kept) /\ kept \in SUBSET (1..Len(j))
  <2>1. DOMAIN j = 1..Len(j)
    OBVIOUS
  <2> QED BY <2>1 DEF Without
<1>2. left \in Seq(Range(left)) /\ Range(left) = {e \in Range(j) : e.mut.cid \notin gone}
  BY WithoutIs
<1>3. ASSUME NEW e \in Range(j), e.mut.cid \in cids PROVE e.mut.cid \in gone
  <2>1. e.mut.cid \in EntryIds(c)
    BY DEF EntryIds, Range
  <2> QED BY <1>3, <2>1 DEF Dependents
<1>4. d = [c EXCEPT !.journal = left, !.view = view]
  BY DEF RejectEntries
<1> HIDE DEF gone, kept, left, view
<1>5. /\ d.journal = left /\ d.seq = c.seq /\ d.buffered = c.buffered
      /\ d.link = c.link /\ d.paused = c.paused
  BY <1>4 DEF IsBrowser, Browser
<1>6. Thins(j, left)
  BY <1>1, ChosenThins
<1>7. \A p \in 1..Len(left) : left[p] \in Range(left)
  BY <1>2 DEF Range
<1>8. \A p \in 1..Len(left) : left[p].mut.cid \notin cids
  BY <1>2, <1>3, <1>7
<1> QED BY <1>2, <1>5, <1>6, <1>8 DEF j

LEMMA ThinsJournalled ==
  ASSUME NEW j, NEW h, Thins(j, h), NEW mine, Journalled(j, mine), h \in Seq(Range(h))
  PROVE  Journalled(h, mine)
<1>1. PICK g : /\ \A k \in 1..Len(h) : g[k] \in 1..Len(j) /\ h[k] = j[g[k]]
               /\ \A k, l \in 1..Len(h) : k < l => g[k] < g[l]
  BY DEF Thins
<1>2. \A p \in 1..Len(h) :
        /\ h[p].mut \in Mine /\ h[p].mut.cid \in mine
        /\ DOMAIN h[p].undo = Draws(h[p].mut)
  BY <1>1 DEF Journalled
<1>3. ASSUME NEW p \in 1..Len(h), NEW q \in 1..Len(h), h[p].mut.cid = h[q].mut.cid PROVE p = q
  <2>1. g[p] = g[q]
    <3>1. j[g[p]].mut.cid = j[g[q]].mut.cid /\ g[p] \in 1..Len(j) /\ g[q] \in 1..Len(j)
      BY <1>1, <1>3
    <3>2. \A x, y \in 1..Len(j) : j[x].mut.cid = j[y].mut.cid => x = y
      BY DEF Journalled
    <3> QED BY ONLY <3>1, <3>2
  <2>2. g[p] \in 1..Len(j) /\ ~(p < q) /\ ~(q < p)
    BY <1>1, <2>1
  <2>3. Len(h) \in Nat
    OBVIOUS
  <2> QED BY <2>2, <2>3
<1> QED BY <1>2, <1>3 DEF Journalled

LEMMA ThinsPreserved ==
  ASSUME NEW c, NEW d, Preserved(c), d.link = c.link, d.paused = c.paused,
         Thins(c.buffered, d.buffered)
  PROVE  Preserved(d)
BY DEF Preserved, Thins

\* Only a live browser hears of mutations and rejections.
LEMMA LiveHears ==
  ASSUME Inv, Screen, frames # << >>, Head(frames).kind \notin {"batch", "closed"}
  PROVE  /\ me.link = "live" /\ frames \in Seq(Frame) /\ Head(frames) = frames[1]
         /\ 1 \in 1..Len(frames) /\ Len(frames) \in Nat
         /\ \A i \in 1..Len(frames) : frames[i].kind # "batch"
<1>1. frames \in Seq(Frame) /\ me.link \in {"down", "fetched", "replaying", "live"}
  BY DEF Inv, Types, IsBrowser, Browser
<1>2. Len(frames) \in Nat \ {0} /\ Head(frames) = frames[1] /\ 1 \in 1..Len(frames)
  BY <1>1, Tailing
<1>3. me.link \notin {"down", "fetched"}
  BY DEF Inv, Mail
<1>4. me.link # "replaying"
  BY <1>2 DEF Screen, BatchFirst
<1> QED BY <1>1, <1>2, <1>3, <1>4 DEF Inv, Mail

LEMMA DeliverRejectionShows ==
  ASSUME Inv, Screen, frames # << >>, DeliverRejection(Head(frames))
  PROVE  Screen'
<1>1. PICK cid : cid = Head(frames).cid
  OBVIOUS
<1>2. /\ Head(frames).kind = "rejected" /\ me' = Rejected(me, cid) /\ frames' = Tail(frames)
      /\ crossed' = Spread(Uncovered(me.journal, PendingMuts(me')), PendingMuts(me'))
      /\ UNCHANGED << log, queue, open, used >>
  BY <1>1 DEF DeliverRejection
<1>3. /\ me.link = "live" /\ frames \in Seq(Frame) /\ Head(frames) = frames[1]
      /\ \A i \in 1..Len(frames) : frames[i].kind # "batch"
  BY <1>2, LiveHears
<1>4. PICK c : c = ResolveBuffered(me, cid)
  OBVIOUS
<1>5. /\ Lighter(me, c)
      /\ \A k \in 1..Len(me.buffered) : me.buffered[k].mut.cid # cid =>
           \E j \in 1..Len(c.buffered) : c.buffered[j] = me.buffered[k]
  <2>1. IsBrowser(me)
    BY DEF Inv, Types
  <2> QED BY ONLY <1>4, <2>1, ResolveLighter
<1>6. me' = RejectEntries(c, {cid})
  BY <1>2, <1>4 DEF Rejected
<1>7. PICK d : d = me'
  OBVIOUS
<1>8. /\ Thins(c.journal, d.journal) /\ d.journal \in Seq(Range(d.journal))
      /\ d.seq = c.seq /\ d.buffered = c.buffered /\ d.link = c.link /\ d.paused = c.paused
      /\ \A p \in 1..Len(d.journal) : d.journal[p].mut.cid \notin {cid}
  <2>1. IsBrowser(c) /\ c.journal \in Seq(Range(c.journal))
    BY <1>5 DEF Lighter, Inv, Closed
  <2>2. d = RejectEntries(c, {cid})
    BY <1>6, <1>7
  <2> QED BY ONLY <2>1, <2>2, RejectThins
<1>9. Thins(me.buffered, d.buffered) /\ Thins(me.journal, d.journal) /\ d.seq = me.seq
      /\ d.link = me.link /\ d.paused = me.paused
  BY <1>5, <1>8 DEF Lighter
<1>10. PICK t \in Turns, N \in Nat :
         /\ Numbered(t, N, me, used.mine)
         /\ open => Attached(t, me, log, queue, frames, used.mine, crossed)
  BY DEF Screen
<1>11. PICK s : s = Spread(Uncovered(me.journal, PendingMuts(d)), PendingMuts(d))
  OBVIOUS
<1>12. crossed' = s /\ me' = d /\ s \subseteq Items
  BY <1>2, <1>7, <1>11 DEF Spread
<1>13. Numbered(t, N, d, used.mine)
  BY <1>9, <1>10, ThinsKeeps DEF Numbered
<1>14. Preserved(d) /\ Detached(d, log, s) /\ BatchFirst(d, Tail(frames))
  BY <1>3, <1>9, ThinsPreserved DEF Screen, Detached, BatchFirst
<1>15. ASSUME open PROVE Attached(t, d, log, queue, Tail(frames), used.mine, s)
  <2> DEFINE base == After(log, me.seq)
  <2>1. /\ IsView(me.view) /\ Journalled(me.journal, used.mine)
        /\ Story(me.view, me.journal, base, crossed)
        /\ FlagsFit(me.buffered) /\ Ordered(t, me.journal, me.buffered, crossed)
        /\ Alive(me.journal, frames, queue, me.buffered, crossed)
        /\ Seen(me.journal, log, me.seq, crossed)
        /\ Sorted(t, frames, queue, me.buffered) /\ Posted(frames, log, used.mine)
        /\ Covered(frames, log, me.seq, crossed)
    BY <1>10, <1>15 DEF Attached
  <2> HIDE DEF base
  <2>2. Journalled(d.journal, used.mine)
    BY <1>8, <1>9, <2>1, ThinsJournalled
  <2>3. /\ s \in SUBSET Items /\ crossed \subseteq s /\ SpreadOver(d.journal, s)
        /\ Uncovered(me.journal, PendingMuts(d)) \subseteq s
    <3> DEFINE items == Uncovered(me.journal, PendingMuts(d))
    <3>1. items \subseteq Items
      BY DEF Uncovered
    <3>2. s = Spread(items, PendingMuts(d)) /\ d.journal = d.journal /\ crossed \subseteq Items
      BY <1>11 DEF Screen
    <3> HIDE DEF items
    <3>3. /\ s \in SUBSET Items /\ crossed \subseteq s /\ items \cap Items \subseteq s
          /\ SpreadOver(d.journal, s)
      BY <2>2, <3>2, Spreading
    <3> QED BY <3>1, <3>3 DEF items
  <2>4. IsView(d.view) /\ Story(d.view, d.journal, base, s)
    <3>1. IsBrowser(c) /\ c.journal = me.journal /\ c.view = me.view
      BY <1>5 DEF Lighter
    <3>2. d = RejectEntries(c, {cid})
      BY <1>6, <1>7
    <3>3. /\ Journalled(c.journal, used.mine) /\ IsView(c.view)
          /\ Story(c.view, c.journal, base, crossed)
          /\ Uncovered(c.journal, PendingMuts(d)) \subseteq s
      BY <2>1, <2>3, <3>1
    <3>4. crossed \subseteq s /\ SpreadOver(d.journal, s)
      BY <2>3
    <3> QED BY ONLY <3>1, <3>2, <3>3, <3>4, RejectStory
  <2>5. /\ FlagsFit(d.buffered) /\ Ordered(t, d.journal, d.buffered, s)
        /\ Seen(d.journal, log, d.seq, s)
    BY <1>9, <2>1, <2>3, ThinsKeeps, ThinsOrdered, ThinsSeen
  <2>6. Sorted(t, Tail(frames), queue, d.buffered) /\ Posted(Tail(frames), log, used.mine)
    BY <1>3, <1>9, <2>1, ThinsKeeps, Heard
  <2>7. Covered(Tail(frames), log, d.seq, s)
    <3>1. me.seq \in Nat /\ frames[1].kind # "mutation"
      BY <1>2, <1>3 DEF Inv, Types, IsBrowser, Browser
    <3> QED BY <1>3, <1>9, <2>1, <2>3, <3>1, CoveredTail
  <2>8. Alive(d.journal, Tail(frames), queue, d.buffered, s)
    <3> SUFFICES ASSUME NEW p \in 1..Len(d.journal), ~(Draws(d.journal[p].mut) \subseteq s)
                 PROVE  Expected(d.journal[p].mut.cid, Tail(frames), queue, d.buffered)
      BY DEF Alive
    <3>1. PICK x \in 1..Len(me.journal) : d.journal[p] = me.journal[x]
      BY <1>9 DEF Thins
    <3>2. PICK id : id = d.journal[p].mut.cid
      OBVIOUS
    <3>3. Expected(id, frames, queue, me.buffered)
      BY <2>1, <2>3, <3>1, <3>2 DEF Alive
    <3>4. id # cid /\ AnswerOf(frames[1]) = cid
      BY <1>1, <1>2, <1>3, <1>8, <3>2 DEF AnswerOf
    <3>5. Expected(id, Tail(frames), queue, me.buffered)
      BY <1>3, <3>3, <3>4, Heard
    <3>6. Expected(id, Tail(frames), queue, d.buffered)
      <4>1. \A k \in 1..Len(me.buffered) : me.buffered[k].mut.cid # cid =>
              \E j \in 1..Len(d.buffered) : d.buffered[j] = me.buffered[k]
        BY <1>5, <1>8
      <4> QED BY <3>4, <3>5, <4>1 DEF Expected
    <3> QED BY <3>2, <3>6
  <2> QED BY <1>9, <2>1, <2>2, <2>4, <2>5, <2>6, <2>7, <2>8 DEF Attached, base
<1> QED BY <1>2, <1>10, <1>12, <1>13, <1>14, <1>15 DEF Screen

\* A frame is dealt with: the pending writes that are left still wait for an answer,
\* if what is gone from the buffer is not among them.
LEMMA HeardAlive ==
  ASSUME NEW fs \in Seq(Frame), fs # << >>, NEW q, NEW b, NEW f, NEW j, NEW h, Thins(j, h),
         NEW lost, NEW more, lost \subseteq more, Alive(j, fs, q, b, lost),
         \A p \in 1..Len(h) : IsAnswer(fs[1]) /\ h[p].mut.cid = AnswerOf(fs[1]) =>
           Draws(h[p].mut) \subseteq more,
         \A k \in 1..Len(b) :
           \/ \E l \in 1..Len(f) : f[l] = b[k]
           \/ \A p \in 1..Len(h) : h[p].mut.cid = b[k].mut.cid => Draws(h[p].mut) \subseteq more
  PROVE  Alive(h, Tail(fs), q, f, more)
<1> SUFFICES ASSUME NEW p \in 1..Len(h), ~(Draws(h[p].mut) \subseteq more)
             PROVE  Expected(h[p].mut.cid, Tail(fs), q, f)
  BY DEF Alive
<1>1. PICK x \in 1..Len(j) : h[p] = j[x]
  BY DEF Thins
<1>2. PICK id : id = h[p].mut.cid
  OBVIOUS
<1>3. Expected(id, fs, q, b)
  BY <1>1, <1>2 DEF Alive
<1>4. Expected(id, Tail(fs), q, b)
  BY <1>2, <1>3, Heard
<1>5. \A k \in 1..Len(b) : b[k].mut.cid = id => \E l \in 1..Len(f) : f[l] = b[k]
  BY <1>2
<1>6. Expected(id, Tail(fs), q, f)
  BY <1>4, <1>5 DEF Expected
<1> QED BY <1>2, <1>6

-----------------------------------------------------------------------------
(* A mutation of the others.                                                *)

\* d is c after a message.
Handled(c, m, d) ==
  /\ IsBrowser(d) /\ d.journal = c.journal /\ d.link = c.link /\ d.paused = c.paused
  /\ Thins(c.buffered, d.buffered)
  /\ IF Throws(c.view, m) THEN d.view = c.view /\ d.seq = c.seq
     ELSE d.view = Draw(c.view, m) /\ d.seq = c.seq + 1
  /\ \A k \in 1..Len(c.buffered) :
       \/ \E l \in 1..Len(d.buffered) : d.buffered[l] = c.buffered[k]
       \/ c.buffered[k].mut.cid = m.cid \/ m.op = "clear"
       \/ m.op = "delete" /\ m.id \in Affected(c.buffered[k].mut) \cup RestsOn(c.buffered[k].mut)

LEMMA HandleShows ==
  ASSUME NEW c, IsBrowser(c), NEW m, NEW d, d = HandleMessage(c, m) PROVE Handled(c, m, d)
<1>1. PICK e : e = ResolveBuffered(c, m.cid)
  OBVIOUS
<1>2. PICK f : f = PruneBuffered(e, m)
  OBVIOUS
<1>3. /\ Lighter(c, e)
      /\ \A k \in 1..Len(c.buffered) : c.buffered[k].mut.cid # m.cid =>
           \E j \in 1..Len(e.buffered) : e.buffered[j] = c.buffered[k]
  BY ONLY <1>1, IsBrowser(c), ResolveLighter
<1>4. IsBrowser(e)
  BY <1>3 DEF Lighter
<1>5. /\ Lighter(e, f)
      /\ \A k \in 1..Len(e.buffered) :
           \/ \E j \in 1..Len(f.buffered) : f.buffered[j] = e.buffered[k]
           \/ m.op = "clear"
           \/ m.op = "delete" /\ m.id \in Affected(e.buffered[k].mut) \cup RestsOn(e.buffered[k].mut)
  BY ONLY <1>2, <1>4, PruneLighter
<1>6. /\ IsBrowser(f) /\ f.view = c.view /\ f.seq = c.seq /\ f.journal = c.journal
      /\ f.link = c.link /\ f.paused = c.paused /\ Thins(c.buffered, f.buffered)
  BY <1>3, <1>5, ThinsTwice DEF Lighter
<1>7. \A k \in 1..Len(c.buffered) :
       \/ \E l \in 1..Len(f.buffered) : f.buffered[l] = c.buffered[k]
       \/ c.buffered[k].mut.cid = m.cid \/ m.op = "clear"
       \/ m.op = "delete" /\ m.id \in Affected(c.buffered[k].mut) \cup RestsOn(c.buffered[k].mut)
  <2> SUFFICES ASSUME NEW k \in 1..Len(c.buffered), c.buffered[k].mut.cid # m.cid
               PROVE  \/ \E l \in 1..Len(f.buffered) : f.buffered[l] = c.buffered[k]
                      \/ m.op = "clear"
                      \/ m.op = "delete"
                           /\ m.id \in Affected(c.buffered[k].mut) \cup RestsOn(c.buffered[k].mut)
    OBVIOUS
  <2>1. PICK j \in 1..Len(e.buffered) : e.buffered[j] = c.buffered[k]
    BY <1>3
  <2> QED BY <1>5, <2>1
<1>8. CASE Throws(c.view, m)
  <2>1. d = f
    BY <1>1, <1>2, <1>8 DEF HandleMessage
  <2> QED BY <1>6, <1>7, <1>8, <2>1 DEF Handled
<1>9. CASE ~Throws(c.view, m)
  <2>1. PICK v, n : v = Draw(f.view, m) /\ n = f.seq + 1
    OBVIOUS
  <2>2. d = [f EXCEPT !.view = v, !.seq = n]
    BY <1>1, <1>2, <1>9, <2>1 DEF HandleMessage
  <2>3. n \in Nat
    BY <1>6, <2>1 DEF IsBrowser, Browser
  <2>4. /\ IsBrowser(d) /\ d.view = v /\ d.seq = n /\ d.journal = f.journal
        /\ d.link = f.link /\ d.paused = f.paused /\ d.buffered = f.buffered
    BY <1>6, <2>2, <2>3 DEF IsBrowser, Browser
  <2> QED BY <1>6, <1>7, <1>9, <2>1, <2>4 DEF Handled
<1> QED BY <1>8, <1>9

\* What pruning leaves of the journal.
LEMMA PrunedJournal ==
  ASSUME NEW c, IsBrowser(c), NEW mine, Journalled(c.journal, mine), NEW m,
         NEW d, d = PruneForAuthoritative(c, m), m.op # "clear"
  PROVE  /\ IsBrowser(d) /\ Thins(c.journal, d.journal) /\ Journalled(d.journal, mine)
         /\ d.seq = c.seq /\ d.buffered = c.buffered /\ d.link = c.link /\ d.paused = c.paused
         /\ m.op = "delete" => \A p \in 1..Len(d.journal) :
              m.id \notin Affected(d.journal[p].mut) \cup RestsOn(d.journal[p].mut)
<1>1. c.journal \in Seq(Range(c.journal))
  BY DEF Journalled
<1>2. CASE m.op = "delete"
  <2>1. PICK ids : ids = InvalidatedBy(c, m.id)
    OBVIOUS
  <2>2. d = RejectEntries(c, ids)
    BY <1>2, <2>1 DEF PruneForAuthoritative
  <2>3. /\ Thins(c.journal, d.journal) /\ d.journal \in Seq(Range(d.journal))
        /\ d.seq = c.seq /\ d.buffered = c.buffered /\ d.link = c.link /\ d.paused = c.paused
        /\ \A p \in 1..Len(d.journal) : d.journal[p].mut.cid \notin ids
    BY ONLY <1>1, <2>2, IsBrowser(c), RejectThins
  <2>4. Journalled(d.journal, mine)
    BY <2>3, ThinsJournalled
  <2>5. IsBrowser(d)
    <3>1. PICK v, j : d = [c EXCEPT !.journal = j, !.view = v]
      BY <2>2 DEF RejectEntries
    <3> QED BY <3>1 DEF IsBrowser, Browser
  <2>6. ASSUME NEW p \in 1..Len(d.journal)
        PROVE  m.id \notin Affected(d.journal[p].mut) \cup RestsOn(d.journal[p].mut)
    <3>1. PICK x \in 1..Len(c.journal) : d.journal[p] = c.journal[x]
      BY <2>3 DEF Thins
    <3>2. c.journal[x].mut.cid \notin ids /\ x \in DOMAIN c.journal
      BY <1>1, <2>3, <3>1
    <3>3. m.id \notin Affected(c.journal[x].mut) \cup RestsOn(c.journal[x].mut)
      BY <2>1, <3>2 DEF InvalidatedBy
    <3> QED BY <3>1, <3>3
  <2> QED BY <2>3, <2>4, <2>5, <2>6
<1>3. CASE m.op # "delete"
  <2>1. d = c
    BY <1>3 DEF PruneForAuthoritative
  <2> QED BY <1>1, <1>3, <2>1, ThinsSelf
<1> QED BY <1>2, <1>3

\* The items a mutation of the others crosses, spread over what is left and itself.
LEMMA CrossesIs ==
  ASSUME NEW mine, IsBrowser(me), Journalled(me.journal, mine), crossed \subseteq Items,
         NEW m \in Mutations, m.op # "clear", NEW a, a = PruneForAuthoritative(me, m),
         Journalled(a.journal, mine), NEW s, s = Crosses(m)
  PROVE  /\ s \in SUBSET Items /\ crossed \subseteq s /\ SpreadOver(a.journal, s)
         /\ Uncovered(me.journal, PendingMuts(a)) \subseteq s
         /\ m.op = "copy" /\ m.from \in s => m.id \in s
         /\ \A p \in 1..Len(a.journal) :
              Meet(a.journal[p].mut, m) \subseteq s
<1> DEFINE left == PendingMuts(a)
           under == Uncovered(me.journal, left)
           meets == UNION {Meet(o, m) : o \in left}
<1>1. s = Spread(under \cup meets, left \cup {m})
  BY DEF Crosses
<1>2. left \subseteq Mutations /\ \A p \in 1..Len(a.journal) : a.journal[p].mut \in left
  <2>1. \A e : e \in Range(a.journal) <=> \E p \in 1..Len(a.journal) : e = a.journal[p]
    BY Places DEF Journalled
  <2>2. \A p \in 1..Len(a.journal) : a.journal[p].mut \in Mine
    BY DEF Journalled
  <2> QED BY <2>1, <2>2 DEF PendingMuts, Mutations
<1>3. under \subseteq Items
  BY DEF Uncovered
<1>4. \A o \in left : Meet(o, m) \subseteq Items
  <2> SUFFICES ASSUME NEW o \in left PROVE Meet(o, m) \subseteq Items
    OBVIOUS
  <2>1. o \in Mutations
    BY <1>2
  <2> HIDE DEF left
  <2>2. o.id \in Items /\ m.id \in Items /\ Draws(o) \subseteq Items
    BY <2>1, Drawing
  <2> QED BY <2>2 DEF Meet, Taken
<1> HIDE DEF left, under
<1>5. meets \subseteq Items /\ \A o \in left : Meet(o, m) \subseteq meets
  BY <1>4
<1> HIDE DEF meets
<1> DEFINE items == under \cup meets
           muts == left \cup {m}
<1>6. s = Spread(items, muts) /\ muts \subseteq Mutations
  BY <1>1, <1>2
<1> HIDE DEF items, muts
<1>7. /\ s \in SUBSET Items /\ crossed \subseteq s /\ items \cap Items \subseteq s
      /\ \A o \in muts : o.op = "copy" /\ o.from \in s => o.id \in s
  BY ONLY <1>6, crossed \subseteq Items, SpreadIs
<1>8. SpreadOver(a.journal, s)
  BY <1>2, <1>7 DEF SpreadOver, muts
<1>9. under \subseteq s /\ meets \subseteq s
  BY <1>3, <1>5, <1>7 DEF items
<1>10. m.op = "copy" /\ m.from \in s => m.id \in s
  BY <1>7 DEF muts
<1>11. \A p \in 1..Len(a.journal) : Meet(a.journal[p].mut, m) \subseteq s
  BY <1>2, <1>5, <1>9
<1> QED BY <1>7, <1>8, <1>9, <1>10, <1>11 DEF under, left

LEMMA PrunedStory ==
  ASSUME NEW mine, IsBrowser(me), Journalled(me.journal, mine), IsView(me.view),
         crossed \subseteq Items, NEW base, Story(me.view, me.journal, base, crossed),
         NEW m \in Mutations, m.op # "clear", NEW a, a = PruneForAuthoritative(me, m),
         NEW s, crossed \subseteq s, SpreadOver(a.journal, s),
         Uncovered(me.journal, PendingMuts(a)) \subseteq s
  PROVE  IsView(a.view) /\ Story(a.view, a.journal, base, s)
<1>1. CASE m.op = "delete"
  <2>1. PICK ids : ids = InvalidatedBy(me, m.id)
    OBVIOUS
  <2>2. a = RejectEntries(me, ids)
    BY <1>1, <2>1 DEF PruneForAuthoritative
  <2>3. /\ IsBrowser(me) /\ Journalled(me.journal, mine) /\ IsView(me.view)
        /\ Story(me.view, me.journal, base, crossed) /\ crossed \subseteq s
        /\ Uncovered(me.journal, PendingMuts(a)) \subseteq s /\ SpreadOver(a.journal, s)
    OBVIOUS
  <2> QED BY ONLY <2>2, <2>3, RejectStory
<1>2. CASE m.op # "delete"
  <2>1. a = me
    BY <1>2 DEF PruneForAuthoritative
  <2> QED BY <2>1, StoryMore
<1> QED BY <1>1, <1>2

LEMMA PrunedBuffer ==
  ASSUME NEW c, IsBrowser(c), c.journal \in Seq(Range(c.journal)), NEW m,
         NEW d, d = PruneForAuthoritative(c, m)
  PROVE  /\ IsBrowser(d) /\ d.seq = c.seq /\ d.buffered = c.buffered
         /\ d.link = c.link /\ d.paused = c.paused
         /\ m.op = "clear" => d.journal = << >>
<1>1. PICK v, j : /\ d = c \/ d = [c EXCEPT !.journal = j, !.view = v]
                  /\ m.op = "clear" => d = [c EXCEPT !.journal = << >>, !.view = v]
  <2>1. CASE m.op = "clear"
    <3>1. PICK e : e = RejectEntries(c, EntryIds(c))
      OBVIOUS
    <3>2. PICK v, j : e = [c EXCEPT !.journal = j, !.view = v]
      BY <3>1 DEF RejectEntries
    <3>3. d = [e EXCEPT !.journal = << >>]
      BY <2>1, <3>1 DEF PruneForAuthoritative
    <3>4. d = [c EXCEPT !.journal = << >>, !.view = v]
      BY <3>2, <3>3 DEF IsBrowser, Browser
    <3> QED BY <3>4
  <2>2. CASE m.op = "delete"
    <3>1. PICK v, j : d = [c EXCEPT !.journal = j, !.view = v]
      BY <2>2 DEF PruneForAuthoritative, RejectEntries
    <3> QED BY <2>2, <3>1
  <2>3. CASE m.op \notin {"clear", "delete"}
    BY <2>3 DEF PruneForAuthoritative
  <2> QED BY <2>1, <2>2, <2>3
<1> QED BY <1>1 DEF IsBrowser, Browser

\* A live browser that stays live needs no more than what it shows.
LEMMA LiveShows ==
  ASSUME Inv, Screen, me.link = "live", UNCHANGED << log, open, used >>,
         NEW d, me' = d, d.link = "live", d.paused = me.paused, Thins(me.buffered, d.buffered),
         NEW s, crossed' = s, s \subseteq Items, NEW t \in Turns, NEW N \in Nat,
         Numbered(t, N, me, used.mine),
         open => Attached(t, d, log, queue', frames', used.mine, s)
  PROVE  Screen'
<1>1. Preserved(d) /\ Detached(d, log, s) /\ BatchFirst(d, frames')
  BY ThinsPreserved DEF Screen, Detached, BatchFirst
<1>2. Numbered(t, N, d, used.mine)
  BY ThinsKeeps DEF Numbered
<1> QED BY <1>1, <1>2 DEF Screen

\* A mutation the browser knows already.
LEMMA HearingAgain ==
  ASSUME Inv, Screen, frames # << >>, Head(frames).kind = "mutation", frames' = Tail(frames),
         Head(frames).seq <= me.seq, UNCHANGED << me, crossed, open, log, queue, used >>
  PROVE  Screen'
<1>1. /\ me.link = "live" /\ frames \in Seq(Frame) /\ Head(frames) = frames[1]
      /\ 1 \in 1..Len(frames) /\ \A i \in 1..Len(frames) : frames[i].kind # "batch"
  BY LiveHears
<1>2. PICK t \in Turns, N \in Nat :
        /\ Numbered(t, N, me, used.mine)
        /\ open => Attached(t, me, log, queue, frames, used.mine, crossed)
  BY DEF Screen
<1>3. me.buffered \in Seq(Write) /\ me.seq \in Nat
  BY DEF Inv, Types, IsBrowser, Browser
<1>4. ASSUME open PROVE Attached(t, me, log, queue, Tail(frames), used.mine, crossed)
  <2>1. /\ Journalled(me.journal, used.mine)
        /\ Alive(me.journal, frames, queue, me.buffered, crossed)
        /\ Seen(me.journal, log, me.seq, crossed)
        /\ Sorted(t, frames, queue, me.buffered) /\ Posted(frames, log, used.mine)
        /\ Covered(frames, log, me.seq, crossed)
    BY <1>2, <1>4 DEF Attached
  <2>2. Sorted(t, Tail(frames), queue, me.buffered) /\ Posted(Tail(frames), log, used.mine)
    BY <1>1, <2>1, Heard
  <2>3. Covered(Tail(frames), log, me.seq, crossed)
    BY <1>1, <1>3, <2>1, CoveredTail
  <2>4. \A p \in 1..Len(me.journal) :
          IsAnswer(frames[1]) /\ me.journal[p].mut.cid = AnswerOf(frames[1]) =>
            Draws(me.journal[p].mut) \subseteq crossed
    <3>1. /\ frames[1].seq \in 1..Len(log) /\ log[frames[1].seq].cid = frames[1].mut.cid
          /\ frames[1].seq <= me.seq
      BY <1>1 DEF Inv, Mail
    <3>2. frames[1].seq \in 1..me.seq
      BY <1>3, <3>1
    <3>3. AnswerOf(frames[1]) = log[frames[1].seq].cid
      BY <1>1, <3>1 DEF AnswerOf
    <3> QED BY <2>1, <3>2, <3>3 DEF Seen
  <2>5. Alive(me.journal, Tail(frames), queue, me.buffered, crossed)
    <3>1. Thins(me.journal, me.journal)
      BY <2>1, ThinsSelf DEF Journalled
    <3>2. \A k \in 1..Len(me.buffered) :
            \E l \in 1..Len(me.buffered) : me.buffered[l] = me.buffered[k]
      OBVIOUS
    <3> QED BY <1>1, <2>1, <2>4, <3>1, <3>2, HeardAlive
  <2> QED BY <1>2, <1>4, <2>2, <2>3, <2>5 DEF Attached
<1>5. crossed \subseteq Items /\ Thins(me.buffered, me.buffered)
  BY <1>3, ThinsSelf DEF Screen
<1> QED BY <1>1, <1>2, <1>4, <1>5, LiveShows

-----------------------------------------------------------------------------
(* An own mutation comes back.                                              *)

OtherThan(journal, cid) == {k \in 1..Len(journal) : journal[k].mut.cid # cid}
Confirmed(c, cid, d) ==
  /\ d.view = c.view /\ d.seq = c.seq + 1 /\ d.link = c.link /\ d.paused = c.paused
  /\ d.journal = Chosen(c.journal, OtherThan(c.journal, cid))
  /\ Thins(c.buffered, d.buffered)
  /\ \A k \in 1..Len(c.buffered) : c.buffered[k].mut.cid # cid =>
       \E j \in 1..Len(d.buffered) : d.buffered[j] = c.buffered[k]

LEMMA ConfirmThins ==
  ASSUME NEW c, IsBrowser(c), c.journal \in Seq(Range(c.journal)), NEW cid,
         NEW d, d = ConfirmOwn(c, cid)
  PROVE  Confirmed(c, cid, d)
<1>1. PICK e : e = ResolveBuffered(c, cid)
  OBVIOUS
<1>2. /\ Lighter(c, e)
      /\ \A k \in 1..Len(c.buffered) : c.buffered[k].mut.cid # cid =>
           \E j \in 1..Len(e.buffered) : e.buffered[j] = c.buffered[k]
  BY ONLY <1>1, IsBrowser(c), ResolveLighter
<1>3. PICK j, n : j = Without(e.journal, {cid}) /\ n = e.seq + 1
  OBVIOUS
<1>4. d = [e EXCEPT !.journal = j, !.seq = n]
  BY <1>1, <1>3 DEF ConfirmOwn
<1>5. /\ IsBrowser(e) /\ e.view = c.view /\ e.seq = c.seq /\ e.journal = c.journal
      /\ e.link = c.link /\ e.paused = c.paused /\ Thins(c.buffered, e.buffered)
  BY <1>2 DEF Lighter
<1>6. /\ d.view = e.view /\ d.seq = n /\ d.link = e.link /\ d.paused = e.paused
      /\ d.journal = j /\ d.buffered = e.buffered
  BY <1>4, <1>5 DEF IsBrowser, Browser
<1>7. j = Chosen(c.journal, OtherThan(c.journal, cid))
  <2>1. DOMAIN c.journal = 1..Len(c.journal)
    OBVIOUS
  <2> QED BY <1>3, <1>5, <2>1 DEF Without, OtherThan
<1> QED BY <1>2, <1>3, <1>5, <1>6, <1>7 DEF Confirmed

\* What the board is does not matter where it is lost.
LEMMA BoardShown ==
  ASSUME NEW view, NEW journal, NEW base, NEW next, NEW lost,
         Story(view, journal, base, lost), \A i \in Items \ lost : next[i] = base[i]
  PROVE  Story(view, journal, next, lost)
<1>1. PICK a : Told(a, view, journal, base, lost, {})
  BY DEF Story
<1>2. Told(a, view, journal, next, lost, {})
  BY <1>1 DEF Told
<1> QED BY <1>2 DEF Story

\* The story without the write that has come back.
LEMMA OwnStory ==
  ASSUME NEW t \in Turns, NEW q, NEW b, NEW fs, 1 \in 1..Len(fs), Len(fs) \in Nat,
         IsAnswer(fs[1]), NEW m \in Mine, AnswerOf(fs[1]) = m.cid,
         NEW mine, NEW view, NEW j, Journalled(j, mine), NEW base, IsView(base),
         NEW lost, Story(view, j, base, lost), Ordered(t, j, b, lost),
         Alive(j, fs, q, b, lost), Sorted(t, fs, q, b),
         NEW h, h = Chosen(j, OtherThan(j, m.cid)),
         NEW s, lost \subseteq s, SpreadOver(h, s),
         (\A p \in 1..Len(j) : j[p].mut.cid # m.cid) => Draws(m) \subseteq s
  PROVE  Journalled(h, mine) /\ Story(view, h, Draw(base, m), s)
<1> DEFINE next == Draw(base, m)
<1>1. \A i \in Items : next[i] = Put(base, m, i)
  BY DrawIs
<1> HIDE DEF next
<1>2. /\ \A p \in 1..Len(j) : j[p].mut \in Mine /\ j[p].mut \in Mutations
      /\ \A p, k \in 1..Len(j) : j[p].mut.cid = j[k].mut.cid => p = k
  BY DEF Journalled, Mutations
<1>3. \A o \in Mutations : t[o.cid] \in Nat
  BY DEF Turns, Ids
<1>4. ASSUME NEW p \in 1..Len(j), j[p].mut.cid = m.cid
      PROVE  Journalled(h, mine) /\ Story(view, h, next, s)
  <2>1. j[p].mut = m /\ m \in Mutations
    <3>1. m \in Mutations /\ j[p].mut \in Mutations
      BY <1>2 DEF Mutations
    <3> QED BY <1>4, <3>1, IdsAssumption
  <2>2. h = Chosen(j, (1..Len(j)) \ {p})
    <3>1. OtherThan(j, m.cid) = (1..Len(j)) \ {p}
      BY <1>2, <1>4 DEF OtherThan
    <3> QED BY <3>1
  <2>3. ASSUME NEW k \in 1..(p - 1) PROVE Meet(j[k].mut, j[p].mut) \subseteq lost
    <3>1. k \in 1..Len(j) /\ k < p
      OBVIOUS
    <3>2. InTurn(t, lost, j[k].mut, j[p].mut)
      BY <3>1 DEF Ordered
    <3>3. CASE Draws(j[k].mut) \subseteq lost
      <4>1. SpreadOver(j, lost)
        BY DEF Story
      <4> QED BY <3>1, <3>3, <4>1, MeetLost
    <3>4. CASE Expected(j[k].mut.cid, fs, q, b)
      <4>1. t[j[k].mut.cid] \in Nat /\ t[m.cid] \in Nat
        BY <1>2, <1>3, <2>1, <3>1
      <4>2. \A i \in 1..Len(fs) : i = 1 \/ 1 < i
        OBVIOUS
      <4>3. t[m.cid] <= t[j[k].mut.cid]
        BY <3>4, <4>1, <4>2, FirstAnswer
      <4> QED BY <2>1, <3>2, <4>1, <4>3 DEF InTurn
    <3> QED BY <3>1, <3>3, <3>4 DEF Alive
  <2>4. \A i \in Items : next[i] = Put(base, j[p].mut, i)
    BY <1>1, <2>1
  <2>5. Journalled(h, mine) /\ Story(view, h, next, lost)
    <3>1. Journalled(j, mine) /\ Story(view, j, base, lost) /\ p \in 1..Len(j)
      OBVIOUS
    <3> QED BY ONLY <2>2, <2>3, <2>4, <3>1, ConfirmStory
  <2> QED BY <2>5, StoryMore
<1>5. ASSUME \A p \in 1..Len(j) : j[p].mut.cid # m.cid
      PROVE  Journalled(h, mine) /\ Story(view, h, next, s)
  <2>1. h = j
    <3>1. OtherThan(j, m.cid) = 1..Len(j) /\ j \in Seq(Range(j))
      BY <1>5 DEF Journalled, OtherThan
    <3> QED BY <3>1, ChosenAll
  <2>2. Story(view, j, base, s)
    BY <2>1, StoryMore
  <2>3. \A i \in Items \ s : next[i] = base[i]
    BY <1>1, <1>5 DEF Put
  <2> QED BY <2>1, <2>2, <2>3, BoardShown
<1> QED BY <1>4, <1>5 DEF next

LEMMA HearingOwn ==
  ASSUME Inv, Screen, frames # << >>, Head(frames).kind = "mutation", Head(frames).mine,
         Head(frames).seq = me.seq + 1, frames' = Tail(frames),
         NEW m, m = Head(frames).mut, me' = ConfirmOwn(me, m.cid),
         crossed' = Spread(Orphaned(m), PendingMuts(me')), UNCHANGED << open, log, queue, used >>
  PROVE  Screen'
<1>1. /\ me.link = "live" /\ frames \in Seq(Frame) /\ Head(frames) = frames[1]
      /\ 1 \in 1..Len(frames) /\ Len(frames) \in Nat
      /\ \A i \in 1..Len(frames) : frames[i].kind # "batch"
  BY LiveHears
<1>2. PICK d : d = me'
  OBVIOUS
<1>3. /\ IsBrowser(me) /\ me.journal \in Seq(Range(me.journal)) /\ me.seq \in Nat
      /\ log \in Seq(Mutations)
  BY DEF Inv, Types, Closed, IsBrowser, Browser
<1>4. /\ d.view = me.view /\ d.seq = me.seq + 1 /\ d.link = me.link /\ d.paused = me.paused
      /\ d.journal = Chosen(me.journal, OtherThan(me.journal, m.cid))
      /\ Thins(me.buffered, d.buffered)
      /\ \A k \in 1..Len(me.buffered) : me.buffered[k].mut.cid # m.cid =>
           \E j \in 1..Len(d.buffered) : d.buffered[j] = me.buffered[k]
  <2>1. d = ConfirmOwn(me, m.cid)
    BY <1>2
  <2>2. Confirmed(me, m.cid, d)
    BY ONLY <1>3, <2>1, ConfirmThins
  <2> QED BY ONLY <2>2 DEF Confirmed
<1>5. PICK s : s = Spread(Orphaned(m), PendingMuts(d))
  OBVIOUS
<1>6. crossed' = s /\ s \subseteq Items
  BY <1>2, <1>5 DEF Spread
<1>7. PICK t \in Turns, N \in Nat :
        /\ Numbered(t, N, me, used.mine)
        /\ open => Attached(t, me, log, queue, frames, used.mine, crossed)
  BY DEF Screen
<1>8. ASSUME open PROVE Attached(t, d, log, queue, Tail(frames), used.mine, s)
  <2> DEFINE base == After(log, me.seq)
             h == d.journal
  <2>1. /\ IsView(me.view) /\ Journalled(me.journal, used.mine)
        /\ Story(me.view, me.journal, base, crossed)
        /\ FlagsFit(me.buffered) /\ Ordered(t, me.journal, me.buffered, crossed)
        /\ Alive(me.journal, frames, queue, me.buffered, crossed)
        /\ Seen(me.journal, log, me.seq, crossed)
        /\ Sorted(t, frames, queue, me.buffered) /\ Posted(frames, log, used.mine)
        /\ Covered(frames, log, me.seq, crossed)
    BY <1>7, <1>8 DEF Attached
  <2>2. m \in Mine /\ m = log[me.seq + 1] /\ me.seq + 1 \in 1..Len(log)
    <3>1. frames[1].seq \in 1..Len(log)
      BY <1>1 DEF Inv, Mail
    <3> QED BY <1>1, <2>1, <3>1 DEF Posted
  <2>3. IsView(base) /\ After(log, me.seq + 1) = Draw(base, m)
    BY <1>3, <2>2, AfterView, AfterIs
  <2> HIDE DEF base, h
  <2>4. h = Chosen(me.journal, OtherThan(me.journal, m.cid))
    BY <1>4 DEF h
  <2>5. /\ Thins(me.journal, h) /\ h \in Seq(Range(h))
        /\ \A p \in 1..Len(h) : h[p].mut.cid # m.cid
    <3>1. /\ OtherThan(me.journal, m.cid) \in SUBSET (1..Len(me.journal))
          /\ DOMAIN me.journal = 1..Len(me.journal)
      BY <1>3 DEF OtherThan
    <3>2. h = Without(me.journal, {m.cid})
      BY <2>4, <3>1 DEF Without, OtherThan
    <3>3. /\ h \in Seq(Range(h))
          /\ Range(h) = {e \in Range(me.journal) : e.mut.cid \notin {m.cid}}
      BY <1>3, <3>2, WithoutIs
    <3>4. Thins(me.journal, h)
      BY <1>3, <2>4, <3>1, ChosenThins
    <3>5. \A p \in 1..Len(h) : h[p] \in Range(h)
      BY <3>3 DEF Range
    <3> QED BY <3>3, <3>4, <3>5
  <2>6. Journalled(h, used.mine)
    BY <2>1, <2>5, ThinsJournalled
  <2>7. /\ crossed \subseteq s /\ SpreadOver(h, s)
        /\ (\A p \in 1..Len(me.journal) : me.journal[p].mut.cid # m.cid) => Draws(m) \subseteq s
    <3> DEFINE items == Orphaned(m)
    <3>1. s = Spread(items, PendingMuts(d)) /\ d.journal = h /\ crossed \subseteq Items
      BY <1>5 DEF h, Screen
    <3>2. items \subseteq Items
      <4>1. m \in Mutations
        BY <2>2 DEF Mutations
      <4> QED BY <4>1, Drawing DEF Orphaned
    <3>3. (\A p \in 1..Len(me.journal) : me.journal[p].mut.cid # m.cid) => items = Draws(m)
      <4>1. DOMAIN me.journal = 1..Len(me.journal)
        BY <1>3
      <4>2. (\A p \in 1..Len(me.journal) : me.journal[p].mut.cid # m.cid) => m.cid \notin EntryIds(me)
        BY <4>1 DEF EntryIds
      <4> QED BY <4>2 DEF Orphaned
    <3> HIDE DEF items
    <3>4. /\ s \in SUBSET Items /\ crossed \subseteq s /\ items \cap Items \subseteq s
          /\ SpreadOver(h, s)
      BY <2>6, <3>1, Spreading
    <3> QED BY <3>2, <3>3, <3>4
  <2>8. Story(me.view, h, Draw(base, m), s)
    <3>1. /\ 1 \in 1..Len(frames) /\ Len(frames) \in Nat /\ IsAnswer(frames[1])
          /\ AnswerOf(frames[1]) = m.cid
      BY <1>1 DEF IsAnswer, AnswerOf
    <3>2. /\ Journalled(me.journal, used.mine) /\ IsView(base)
          /\ Story(me.view, me.journal, base, crossed)
          /\ Ordered(t, me.journal, me.buffered, crossed)
          /\ Alive(me.journal, frames, queue, me.buffered, crossed)
          /\ Sorted(t, frames, queue, me.buffered) /\ m \in Mine /\ t \in Turns
      BY <2>1, <2>2, <2>3
    <3> QED BY ONLY <2>4, <2>7, <3>1, <3>2, OwnStory
  <2>9. FlagsFit(d.buffered) /\ Ordered(t, h, d.buffered, s)
    <3>1. FlagsFit(d.buffered)
      BY <1>4, <2>1, ThinsKeeps
    <3>2. /\ Thins(me.buffered, d.buffered) /\ Thins(me.journal, h) /\ crossed \subseteq s
          /\ Ordered(t, me.journal, me.buffered, crossed)
      BY <1>4, <2>1, <2>5, <2>7
    <3>3. Ordered(t, h, d.buffered, s)
      BY ONLY <3>2, ThinsOrdered
    <3> QED BY <3>1, <3>3
  <2>10. Seen(h, log, me.seq + 1, s)
    <3>1. Seen(h, log, me.seq, s)
      BY <2>1, <2>5, <2>7, ThinsSeen
    <3>2. \A n \in 1..(me.seq + 1) : n \in 1..me.seq \/ n = me.seq + 1
      BY <1>3
    <3> QED BY <2>2, <2>5, <3>1, <3>2 DEF Seen
  <2>11. Sorted(t, Tail(frames), queue, d.buffered) /\ Posted(Tail(frames), log, used.mine)
    BY <1>1, <1>4, <2>1, ThinsKeeps, Heard
  <2>12. Covered(Tail(frames), log, me.seq + 1, s)
    <3>1. me.seq + 1 \in {me.seq, me.seq + 1} /\ frames[1].seq <= me.seq + 1
      BY <1>1, <1>3
    <3> QED BY <1>1, <1>3, <2>1, <2>7, <3>1, CoveredTail
  <2>13. Alive(h, Tail(frames), queue, d.buffered, s)
    <3>1. \A p \in 1..Len(h) : IsAnswer(frames[1]) /\ h[p].mut.cid = AnswerOf(frames[1]) =>
            Draws(h[p].mut) \subseteq s
      BY <1>1, <2>5 DEF AnswerOf
    <3>2. \A k \in 1..Len(me.buffered) :
            \/ \E l \in 1..Len(d.buffered) : d.buffered[l] = me.buffered[k]
            \/ \A p \in 1..Len(h) : h[p].mut.cid = me.buffered[k].mut.cid => Draws(h[p].mut) \subseteq s
      BY <1>4, <2>5
    <3> QED BY <1>1, <2>1, <2>5, <2>7, <3>1, <3>2, HeardAlive
  <2> QED BY <1>4, <2>1, <2>3, <2>6, <2>8, <2>9, <2>10, <2>11, <2>12, <2>13 DEF Attached, h
<1> QED BY <1>1, <1>2, <1>4, <1>6, <1>7, <1>8, LiveShows

\* What another's mutation makes of a browser that shows a story.
LEMMA TheirsShown ==
  ASSUME NEW mine, NEW base, IsView(base), NEW m \in Mutations, Applicable(base, m),
         NEW a, Journalled(a.journal, mine), IsView(a.view), NEW s, Story(a.view, a.journal, base, s),
         \A p \in 1..Len(a.journal) : Meet(a.journal[p].mut, m) \subseteq s,
         m.op = "copy" /\ m.from \in s => m.id \in s,
         NEW d, Handled(a, m, d)
  PROVE  IF Throws(a.view, m)
         THEN IsView(d.view) /\ Story(d.view, d.journal, base, s) /\ Draws(m) \subseteq s
         ELSE IsView(d.view) /\ Story(d.view, d.journal, Draw(base, m), s)
<1>1. /\ Story(Draw(a.view, m), a.journal, Draw(base, m), s)
      /\ Throws(a.view, m) => Draws(m) \subseteq s
  BY TheirsStory
<1>2. IsView(Draw(a.view, m))
  BY DrawIs
<1> QED BY <1>1, <1>2 DEF Handled

\* What another's mutation, which the browser draws next, does to one that is attached.
LEMMA TheirsAttached ==
  ASSUME Inv, Legit(log), crossed \subseteq Items, NEW t \in Turns,
         Attached(t, me, log, queue, frames, used.mine, crossed),
         frames \in Seq(Frame), 1 \in 1..Len(frames), frames # << >>,
         \A i \in 1..Len(frames) : frames[i].kind # "batch",
         frames[1].kind = "mutation", ~frames[1].mine, frames[1].seq = me.seq + 1,
         NEW m, m = frames[1].mut, m.op # "clear",
         NEW a, a = PruneForAuthoritative(me, m), NEW d, Handled(a, m, d),
         NEW s, s = Crosses(m)
  PROVE  Attached(t, d, log, queue, Tail(frames), used.mine, s)
<1> DEFINE base == After(log, me.seq)
           h == d.journal
<1>1. /\ IsBrowser(me) /\ me.seq \in Nat /\ log \in Seq(Mutations) /\ me.buffered \in Seq(Write)
  BY DEF Inv, Types, IsBrowser, Browser
<1>2. /\ IsView(me.view) /\ Journalled(me.journal, used.mine)
      /\ Story(me.view, me.journal, base, crossed)
      /\ FlagsFit(me.buffered) /\ Ordered(t, me.journal, me.buffered, crossed)
      /\ Alive(me.journal, frames, queue, me.buffered, crossed)
      /\ Seen(me.journal, log, me.seq, crossed)
      /\ Sorted(t, frames, queue, me.buffered) /\ Posted(frames, log, used.mine)
      /\ Covered(frames, log, me.seq, crossed)
  BY DEF Attached
<1>3. /\ m = log[me.seq + 1] /\ me.seq + 1 \in 1..Len(log) /\ m \in Mutations
  <2>1. frames[1].seq \in 1..Len(log)
    BY DEF Inv, Mail
  <2>2. m = log[me.seq + 1]
    BY <1>2 DEF Posted
  <2> QED BY <1>1, <2>1, <2>2
<1>4. IsView(base) /\ After(log, me.seq + 1) = Draw(base, m) /\ Applicable(base, m)
  <2>1. me.seq + 1 - 1 = me.seq
    BY <1>1
  <2>2. After(log, me.seq + 1) = Draw(base, m)
    BY <1>1, <1>3, AfterIs
  <2>3. Applicable(After(log, (me.seq + 1) - 1), log[me.seq + 1])
    BY <1>3 DEF Legit
  <2> QED BY <1>1, <1>3, <2>1, <2>2, <2>3, AfterView
<1> HIDE DEF base
<1>5. /\ IsBrowser(a) /\ Thins(me.journal, a.journal) /\ Journalled(a.journal, used.mine)
      /\ a.seq = me.seq /\ a.buffered = me.buffered /\ a.link = me.link /\ a.paused = me.paused
      /\ m.op = "delete" => \A p \in 1..Len(a.journal) :
              m.id \notin Affected(a.journal[p].mut) \cup RestsOn(a.journal[p].mut)
  <2>1. IsBrowser(me) /\ Journalled(me.journal, used.mine) /\ m.op # "clear"
        /\ a = PruneForAuthoritative(me, m)
    BY <1>1, <1>2
  <2> QED BY ONLY <2>1, PrunedJournal
<1>6. /\ s \in SUBSET Items /\ crossed \subseteq s /\ SpreadOver(a.journal, s)
      /\ Uncovered(me.journal, PendingMuts(a)) \subseteq s
      /\ m.op = "copy" /\ m.from \in s => m.id \in s
      /\ \A p \in 1..Len(a.journal) : Meet(a.journal[p].mut, m) \subseteq s
  <2>1. /\ IsBrowser(me) /\ Journalled(me.journal, used.mine) /\ crossed \subseteq Items
        /\ m \in Mutations /\ m.op # "clear" /\ a = PruneForAuthoritative(me, m)
        /\ Journalled(a.journal, used.mine) /\ s = Crosses(m)
    BY <1>1, <1>2, <1>3, <1>5
  <2> QED BY ONLY <2>1, CrossesIs
<1>7. IsView(a.view) /\ Story(a.view, a.journal, base, s)
  BY <1>1, <1>2, <1>3, <1>6, PrunedStory
<1>8. IF Throws(a.view, m)
      THEN IsView(d.view) /\ Story(d.view, h, base, s) /\ Draws(m) \subseteq s
      ELSE IsView(d.view) /\ Story(d.view, h, Draw(base, m), s)
  BY <1>3, <1>4, <1>5, <1>6, <1>7, TheirsShown
<1>9. /\ h = a.journal /\ Thins(me.buffered, d.buffered) /\ Thins(me.journal, h)
      /\ Journalled(h, used.mine)
  BY <1>5 DEF Handled
<1>10. IsView(d.view) /\ Story(d.view, h, After(log, d.seq), s)
  <2>1. CASE Throws(a.view, m)
    BY <1>5, <1>8, <2>1 DEF Handled, base
  <2>2. CASE ~Throws(a.view, m)
    BY <1>4, <1>5, <1>8, <2>2 DEF Handled
  <2> QED BY <2>1, <2>2
<1>11. /\ d.seq \in {me.seq, me.seq + 1}
       /\ d.seq = me.seq => Draws(m) \subseteq s
  <2>1. IF Throws(a.view, m) THEN d.seq = a.seq ELSE d.seq = a.seq + 1
    BY DEF Handled
  <2> QED BY <1>1, <1>5, <1>8, <2>1
<1> HIDE DEF h
<1>12. FlagsFit(d.buffered) /\ Ordered(t, h, d.buffered, s)
  <2>1. FlagsFit(d.buffered)
    BY <1>2, <1>9, ThinsKeeps
  <2>2. /\ Thins(me.buffered, d.buffered) /\ Thins(me.journal, h) /\ crossed \subseteq s
        /\ Ordered(t, me.journal, me.buffered, crossed)
    BY <1>2, <1>6, <1>9
  <2>3. Ordered(t, h, d.buffered, s)
    BY ONLY <2>2, ThinsOrdered
  <2> QED BY <2>1, <2>3
<1>13. \A p \in 1..Len(h) : h[p].mut.cid = m.cid => Draws(h[p].mut) \subseteq s
  <2> SUFFICES ASSUME NEW p \in 1..Len(h), h[p].mut.cid = m.cid PROVE Draws(h[p].mut) \subseteq s
    OBVIOUS
  <2>1. h[p].mut \in Mutations
    BY <1>9 DEF Journalled, Mutations
  <2>2. h[p].mut = m
    BY <1>3, <2>1, IdsAssumption
  <2>3. Meet(m, m) \subseteq s
    BY <1>6, <1>9, <2>2
  <2> QED BY <2>2, <2>3 DEF Meet
<1>14. Seen(h, log, d.seq, s)
  <2>1. Seen(h, log, me.seq, s)
    BY <1>2, <1>6, <1>9, ThinsSeen
  <2>2. \A n \in 1..d.seq : n \in 1..me.seq \/ n = me.seq + 1
    BY <1>1, <1>11
  <2> QED BY <1>3, <1>13, <2>1, <2>2 DEF Seen
<1>15. Sorted(t, Tail(frames), queue, d.buffered) /\ Posted(Tail(frames), log, used.mine)
  BY <1>2, <1>9, ThinsKeeps, Heard
<1>16. Covered(Tail(frames), log, d.seq, s)
  <2>1. \/ frames[1].seq <= d.seq
        \/ frames[1].seq = me.seq + 1 /\ d.seq = me.seq /\ Draws(log[me.seq + 1]) \subseteq s
    BY <1>1, <1>3, <1>11
  <2> QED BY <1>1, <1>2, <1>6, <1>11, <2>1, CoveredTail
<1>17. \A k \in 1..Len(me.buffered) :
         \/ \E l \in 1..Len(d.buffered) : d.buffered[l] = me.buffered[k]
         \/ \A p \in 1..Len(h) : h[p].mut.cid = me.buffered[k].mut.cid => Draws(h[p].mut) \subseteq s
  <2> SUFFICES ASSUME NEW k \in 1..Len(me.buffered), NEW p \in 1..Len(h),
                      h[p].mut.cid = me.buffered[k].mut.cid,
                      ~(\E l \in 1..Len(d.buffered) : d.buffered[l] = me.buffered[k])
               PROVE  Draws(h[p].mut) \subseteq s
    OBVIOUS
  <2>1. \/ me.buffered[k].mut.cid = m.cid
        \/ m.op = "delete"
             /\ m.id \in Affected(me.buffered[k].mut) \cup RestsOn(me.buffered[k].mut)
    BY <1>5 DEF Handled
  <2>2. h[p].mut = me.buffered[k].mut
    <3>1. h[p].mut \in Mutations /\ me.buffered[k].mut \in Mutations
      <4>1. me.buffered[k] \in Write
        BY <1>1
      <4>2. me.buffered[k].mut \in Mine /\ h[p].mut \in Mine
        BY <1>9, <4>1 DEF Journalled, Write
      <4> QED BY <4>2 DEF Mutations
    <3> QED BY <3>1, IdsAssumption
  <2>3. CASE me.buffered[k].mut.cid = m.cid
    BY <1>13, <2>3
  <2>4. ~(m.op = "delete" /\ m.id \in Affected(me.buffered[k].mut) \cup RestsOn(me.buffered[k].mut))
    BY <1>5, <1>9, <2>2
  <2> QED BY <2>1, <2>3, <2>4
<1>18. Alive(h, Tail(frames), queue, d.buffered, s)
  <2>1. ~IsAnswer(frames[1])
    BY DEF IsAnswer
  <2> QED BY <1>2, <1>6, <1>9, <1>17, <2>1, HeardAlive
<1> QED BY <1>9, <1>10, <1>12, <1>14, <1>15, <1>16, <1>18 DEF Attached, h

\* A clear leaves nothing pending and nothing to lose.
LEMMA ClearAttached ==
  ASSUME Inv, Legit(log), NEW t \in Turns,
         Attached(t, me, log, queue, frames, used.mine, crossed),
         frames \in Seq(Frame), 1 \in 1..Len(frames), frames # << >>,
         \A i \in 1..Len(frames) : frames[i].kind # "batch",
         frames[1].kind = "mutation", ~frames[1].mine, frames[1].seq = me.seq + 1,
         NEW m, m = frames[1].mut, m.op = "clear",
         NEW a, a = PruneForAuthoritative(me, m), NEW d, Handled(a, m, d)
  PROVE  Attached(t, d, log, queue, Tail(frames), used.mine, {})
<1>1. /\ IsBrowser(me) /\ me.seq \in Nat /\ log \in Seq(Mutations)
      /\ me.journal \in Seq(Range(me.journal))
  BY DEF Inv, Types, IsBrowser, Browser, Closed
<1>2. /\ FlagsFit(me.buffered) /\ Sorted(t, frames, queue, me.buffered)
      /\ Posted(frames, log, used.mine) /\ Covered(frames, log, me.seq, crossed)
  BY DEF Attached
<1>3. m = log[me.seq + 1] /\ me.seq + 1 \in 1..Len(log)
  <2>1. frames[1].seq \in 1..Len(log)
    BY DEF Inv, Mail
  <2> QED BY <2>1, <1>2 DEF Posted
<1>4. After(log, me.seq + 1) = [i \in Items |-> Nothing]
  <2>1. After(log, me.seq + 1) = Draw(After(log, me.seq), m)
    BY <1>1, <1>3, AfterIs
  <2> QED BY <2>1 DEF Draw
<1>5. /\ a.seq = me.seq /\ a.buffered = me.buffered /\ a.journal = << >>
  BY <1>1, PrunedBuffer
<1>6. ~Throws(a.view, m)
  BY DEF Throws
<1>7. /\ d.seq = me.seq + 1 /\ d.journal = << >> /\ d.view = [i \in Items |-> Nothing]
      /\ Thins(me.buffered, d.buffered)
  BY <1>5, <1>6 DEF Handled, Draw
<1>8. IsView(d.view) /\ d.view = After(log, d.seq)
  BY <1>4, <1>7 DEF IsView
<1>9. /\ Journalled(d.journal, used.mine) /\ Story(d.view, d.journal, After(log, d.seq), {})
      /\ Ordered(t, d.journal, d.buffered, {}) /\ Seen(d.journal, log, d.seq, {})
      /\ Alive(d.journal, Tail(frames), queue, d.buffered, {})
  BY <1>7, <1>8, EmptyStory
<1>10. FlagsFit(d.buffered) /\ Sorted(t, Tail(frames), queue, d.buffered)
       /\ Posted(Tail(frames), log, used.mine)
  BY <1>2, <1>7, ThinsKeeps, Heard
<1>11. Covered(Tail(frames), log, d.seq, {})
  <2>1. me.seq + 1 \in {me.seq, me.seq + 1} /\ frames[1].seq <= me.seq + 1
    BY <1>1
  <2>2. me.seq + 1 # me.seq
    BY <1>1
  <2> QED BY <1>1, <1>2, <1>7, <2>1, <2>2, CoveredTail
<1> QED BY <1>8, <1>9, <1>10, <1>11 DEF Attached

LEMMA HearingTheirs ==
  ASSUME Inv, Screen, frames # << >>, Head(frames).kind = "mutation", ~Head(frames).mine,
         Head(frames).seq = me.seq + 1, frames' = Tail(frames),
         NEW m, m = Head(frames).mut,
         me' = HandleMessage(PruneForAuthoritative(me, m), m),
         crossed' = Crosses(m), UNCHANGED << open, log, queue, used >>
  PROVE  Screen'
<1>1. /\ me.link = "live" /\ frames \in Seq(Frame) /\ Head(frames) = frames[1]
      /\ 1 \in 1..Len(frames) /\ Len(frames) \in Nat
      /\ \A i \in 1..Len(frames) : frames[i].kind # "batch"
  BY LiveHears
<1>2. IsBrowser(me) /\ me.journal \in Seq(Range(me.journal))
  BY DEF Inv, Types, Closed
<1>3. PICK a : a = PruneForAuthoritative(me, m)
  OBVIOUS
<1>4. PICK d : d = HandleMessage(a, m)
  OBVIOUS
<1>5. /\ IsBrowser(a) /\ a.seq = me.seq /\ a.buffered = me.buffered
      /\ a.link = me.link /\ a.paused = me.paused
  BY <1>2, <1>3, PrunedBuffer
<1>6. Handled(a, m, d)
  BY <1>4, <1>5, HandleShows
<1>7. /\ me' = d /\ d.link = "live" /\ d.paused = me.paused /\ Thins(me.buffered, d.buffered)
  BY <1>1, <1>3, <1>4, <1>5, <1>6 DEF Handled
<1>8. PICK s : s = Crosses(m)
  OBVIOUS
<1>9. crossed' = s /\ s \subseteq Items
  BY <1>8 DEF Crosses, Spread
<1>10. PICK t \in Turns, N \in Nat :
         /\ Numbered(t, N, me, used.mine)
         /\ open => Attached(t, me, log, queue, frames, used.mine, crossed)
  BY DEF Screen
<1>11. ASSUME open PROVE Attached(t, d, log, queue, Tail(frames), used.mine, s)
  <2>1. /\ Inv /\ Legit(log) /\ crossed \subseteq Items /\ t \in Turns
        /\ Attached(t, me, log, queue, frames, used.mine, crossed)
        /\ frames \in Seq(Frame) /\ 1 \in 1..Len(frames) /\ frames # << >>
        /\ \A i \in 1..Len(frames) : frames[i].kind # "batch"
    BY <1>1, <1>10, <1>11 DEF Screen
  <2>2. /\ frames[1].kind = "mutation" /\ ~frames[1].mine /\ frames[1].seq = me.seq + 1
        /\ m = frames[1].mut /\ a = PruneForAuthoritative(me, m) /\ Handled(a, m, d)
    BY <1>1, <1>3, <1>6
  <2>3. CASE m.op = "clear"
    <3>1. s = {}
      BY <1>8, <2>3 DEF Crosses
    <3> QED BY ONLY <2>1, <2>2, <2>3, <3>1, ClearAttached
  <2>4. CASE m.op # "clear"
    BY ONLY <1>8, <2>1, <2>2, <2>4, TheirsAttached
  <2> QED BY <2>3, <2>4
<1> QED BY <1>1, <1>7, <1>9, <1>10, <1>11, LiveShows

LEMMA DeliverMutationShows ==
  ASSUME Inv, Screen, frames # << >>, DeliverMutation(Head(frames))
  PROVE  Screen'
<1>1. /\ Head(frames).kind = "mutation" /\ UNCHANGED << log, queue, used >>
      /\ \/ /\ Head(frames).seq <= me.seq /\ UNCHANGED << me, crossed, open >>
            /\ frames' = Tail(frames)
         \/ /\ me' = Resync(me, FALSE) /\ open' = FALSE /\ UNCHANGED crossed
         \/ /\ Head(frames).seq = me.seq + 1 /\ Head(frames).mine
            /\ me' = ConfirmOwn(me, Head(frames).mut.cid)
            /\ crossed' = Spread(Orphaned(Head(frames).mut), PendingMuts(me'))
            /\ frames' = Tail(frames) /\ UNCHANGED open
         \/ /\ Head(frames).seq = me.seq + 1 /\ ~Head(frames).mine
            /\ me' = HandleMessage(PruneForAuthoritative(me, Head(frames).mut), Head(frames).mut)
            /\ crossed' = Crosses(Head(frames).mut)
            /\ frames' = Tail(frames) /\ UNCHANGED open
  BY DEF DeliverMutation
<1>2. CASE /\ Head(frames).seq <= me.seq /\ UNCHANGED << me, crossed, open >>
           /\ frames' = Tail(frames)
  BY <1>1, <1>2, HearingAgain
<1>3. CASE me' = Resync(me, FALSE) /\ open' = FALSE /\ UNCHANGED crossed
  BY <1>1, <1>3, DownShows DEF Screen
<1>4. CASE /\ Head(frames).seq = me.seq + 1 /\ Head(frames).mine
           /\ me' = ConfirmOwn(me, Head(frames).mut.cid)
           /\ crossed' = Spread(Orphaned(Head(frames).mut), PendingMuts(me'))
           /\ frames' = Tail(frames) /\ UNCHANGED open
  BY <1>1, <1>4, HearingOwn
<1>5. CASE /\ Head(frames).seq = me.seq + 1 /\ ~Head(frames).mine
           /\ me' = HandleMessage(PruneForAuthoritative(me, Head(frames).mut), Head(frames).mut)
           /\ crossed' = Crosses(Head(frames).mut)
           /\ frames' = Tail(frames) /\ UNCHANGED open
  BY <1>1, <1>5, HearingTheirs
<1> QED BY <1>1, <1>2, <1>3, <1>4, <1>5

LEMMA ReplayRun ==
  ASSUME NEW c, NEW muts, Len(muts) \in Nat
  PROVE  \E run : /\ run[0] = c /\ run[Len(muts)] = Replayed(c, muts)
                  /\ \A k \in 1..Len(muts) : run[k] = HandleMessage(run[k - 1], muts[k])
<1> DEFINE N == Len(muts)
           Is(f, n) == f = [k \in 0..n |-> IF k = 0 THEN c ELSE HandleMessage(f[k - 1], muts[k])]
           replay == CHOOSE f : Is(f, N)
<1>1. Replayed(c, muts) = replay[N]
  BY DEF Replayed
<1>2. \E f : Is(f, N)
  <2> DEFINE P == {n \in 0..N : \E f : Is(f, n)}
  <2>1. 0 \in P
    <3> DEFINE f == [k \in 0..0 |-> c]
    <3>1. Is(f, 0)
      OBVIOUS
    <3> HIDE DEF f, Is
    <3> QED BY <3>1
  <2>2. ASSUME NEW n \in 0..N, n # N, n \in P PROVE n + 1 \in P
    <3>1. PICK f : Is(f, n)
      BY <2>2
    <3> DEFINE g == [k \in 0..(n + 1) |->
                       IF k = n + 1 THEN HandleMessage(f[n], muts[n + 1]) ELSE f[k]]
    <3>2. /\ n \in Nat /\ n + 1 \in 0..N
          /\ \A k \in 0..n : k \in 0..(n + 1) /\ k # n + 1
          /\ \A k \in 0..(n + 1) : k # 0 /\ k # n + 1 => k \in 0..n /\ k - 1 \in 0..n /\ k \in Int
      BY <2>2
    <3>3. g[0] = c /\ g[n + 1] = HandleMessage(g[n], muts[n + 1])
      BY <3>1, <3>2
    <3>4. ASSUME NEW k \in 0..(n + 1), k # 0, k # n + 1
          PROVE  g[k] = HandleMessage(g[k - 1], muts[k])
      BY <3>1, <3>2, <3>4
    <3>5. ASSUME NEW k \in 0..(n + 1)
          PROVE  g[k] = IF k = 0 THEN c ELSE HandleMessage(g[k - 1], muts[k])
      <4>1. CASE k = 0
        BY <3>3, <4>1
      <4>2. CASE k = n + 1
        <5>1. k - 1 = n /\ k # 0
          BY <3>2, <4>2
        <5> HIDE DEF g
        <5> QED BY <3>3, <4>2, <5>1
      <4>3. CASE k # 0 /\ k # n + 1
        BY <3>4, <4>3
      <4> QED BY <4>1, <4>2, <4>3
    <3>6. g = [k \in 0..(n + 1) |-> g[k]]
      OBVIOUS
    <3> HIDE DEF g
    <3>7. Is(g, n + 1)
      BY <3>5, <3>6
    <3> HIDE DEF Is
    <3> QED BY <3>2, <3>7
  <2>3. 0..N \subseteq P
    <3> HIDE DEF P
    <3> QED BY <2>1, <2>2, HandedOn
  <2>4. N \in P
    BY <2>3
  <2> QED BY <2>4
<1>3. Is(replay, N)
  <2> HIDE DEF Is
  <2> QED BY <1>2
<1> HIDE DEF replay
<1>4. /\ replay[0] = c /\ \A k \in 1..N : replay[k] = HandleMessage(replay[k - 1], muts[k])
  BY <1>3
<1> QED BY <1>1, <1>4

\* What a batch is to bring to a browser.
Brings(c, muts, lg) ==
  /\ c.view = After(lg, c.seq) /\ c.seq \in Nat /\ c.seq + Len(muts) <= Len(lg)
  /\ \A k \in 1..Len(muts) : muts[k] = lg[c.seq + k]
\* The first k mutations of a batch have been drawn.
Replaying(c, muts, lg, k, d) ==
  /\ IsBrowser(d) /\ d.journal = c.journal /\ d.link = c.link /\ d.paused = c.paused
  /\ Thins(c.buffered, d.buffered)
  /\ Brings(c, muts, lg) => d.seq = c.seq + k /\ d.view = After(lg, c.seq + k)

\* The place in the log of the next mutation of a batch.
LEMMA PlaceInBatch ==
  ASSUME NEW n \in Nat, NEW x \in Nat, NEW y \in Nat, NEW z \in Nat, NEW k \in Nat,
         z + x <= y, k + 1 <= x, n = z + k
  PROVE  n + 1 \in 1..y /\ z + (k + 1) = n + 1 /\ (n + 1) - 1 = n
<1> QED BY ONLY z + x <= y, k + 1 <= x, n = z + k, n \in Nat, x \in Nat, y \in Nat, z \in Nat, k \in Nat

LEMMA ReplayingStep ==
  ASSUME NEW c, NEW muts, Len(muts) \in Nat, NEW lg, Len(lg) \in Nat, Legit(lg),
         NEW k \in 0..(Len(muts) - 1), NEW d, Replaying(c, muts, lg, k, d),
         NEW e, e = HandleMessage(d, muts[k + 1])
  PROVE  Replaying(c, muts, lg, k + 1, e)
<1> DEFINE m == muts[k + 1]
<1>1. Handled(d, m, e)
  BY HandleShows DEF Replaying
<1>2. /\ IsBrowser(e) /\ e.journal = c.journal /\ e.link = c.link /\ e.paused = c.paused
      /\ Thins(c.buffered, e.buffered)
  BY <1>1, ThinsTwice DEF Handled, Replaying
<1>3. ASSUME Brings(c, muts, lg)
      PROVE  e.seq = c.seq + (k + 1) /\ e.view = After(lg, c.seq + (k + 1))
  <2>1. d.seq = c.seq + k /\ d.view = After(lg, c.seq + k)
    BY <1>3 DEF Replaying
  <2>2. PICK n \in Nat : n = c.seq + k
    BY <1>3 DEF Brings
  <2>3. /\ k + 1 \in 1..Len(muts) /\ n + 1 \in 1..Len(lg) /\ c.seq + (k + 1) = n + 1
        /\ (n + 1) - 1 = n
    <3>1. c.seq \in Nat /\ c.seq + Len(muts) <= Len(lg)
      BY <1>3 DEF Brings
    <3>2. k \in Nat /\ k + 1 <= Len(muts)
      OBVIOUS
    <3>3. PICK x \in Nat : x = Len(muts)
      OBVIOUS
    <3>4. PICK y \in Nat : y = Len(lg)
      OBVIOUS
    <3>5. k + 1 \in Nat /\ 1 <= k + 1 /\ k + 1 <= Len(muts)
      BY <3>2
    <3>6. k + 1 \in 1..Len(muts)
      BY <3>3, <3>5
    <3>7. PICK z \in Nat : z = c.seq
      BY <3>1
    <3>8. z + x <= y /\ k + 1 <= x /\ n = z + k
      BY <2>2, <3>1, <3>3, <3>4, <3>5, <3>7
    <3>9. n + 1 \in 1..y /\ z + (k + 1) = n + 1 /\ (n + 1) - 1 = n
      BY ONLY <3>2, <3>8, PlaceInBatch
    <3> QED BY <3>4, <3>6, <3>7, <3>9
  <2>4. m = lg[n + 1]
    BY <1>3, <2>3 DEF Brings
  <2>5. Applicable(After(lg, n), m)
    <3>1. Applicable(After(lg, (n + 1) - 1), lg[n + 1])
      BY <2>3 DEF Legit
    <3> QED BY <2>3, <2>4, <3>1
  <2>6. ~Throws(d.view, m)
    BY <2>1, <2>2, <2>5 DEF Throws, Applicable
  <2>7. e.view = Draw(d.view, m) /\ e.seq = d.seq + 1
    BY <1>1, <2>6 DEF Handled
  <2>8. After(lg, n + 1) = Draw(After(lg, n), m)
    BY <2>2, <2>4, AfterIs
  <2> QED BY <2>1, <2>2, <2>3, <2>7, <2>8
<1> QED BY <1>2, <1>3 DEF Replaying

LEMMA ReplayedShows ==
  ASSUME NEW c, IsBrowser(c), NEW muts, Len(muts) \in Nat, NEW lg, Len(lg) \in Nat, Legit(lg),
         NEW d, d = Replayed(c, muts)
  PROVE  Replaying(c, muts, lg, Len(muts), d)
<1> DEFINE N == Len(muts)
<1>1. PICK run : /\ run[0] = c /\ run[N] = Replayed(c, muts)
                 /\ \A k \in 1..N : run[k] = HandleMessage(run[k - 1], muts[k])
  BY ReplayRun
<1>2. Replaying(c, muts, lg, 0, run[0])
  <2>1. Thins(c.buffered, c.buffered)
    BY ThinsSelf DEF IsBrowser, Browser
  <2>2. Brings(c, muts, lg) => c.seq + 0 = c.seq /\ c.view = After(lg, c.seq + 0)
    BY DEF Brings
  <2> QED BY <1>1, <2>1, <2>2 DEF Replaying
<1> DEFINE P == {k \in 0..N : Replaying(c, muts, lg, k, run[k])}
<1>3. 0 \in P
  BY <1>2
<1>4. ASSUME NEW k \in 0..N, k # N, k \in P PROVE k + 1 \in P
  <2>1. k + 1 \in 0..N /\ k + 1 \in 1..N /\ (k + 1) - 1 = k /\ k \in 0..(N - 1)
    BY <1>4
  <2>2. run[k + 1] = HandleMessage(run[k], muts[k + 1])
    BY <1>1, <2>1
  <2>3. Replaying(c, muts, lg, k, run[k])
    BY <1>4
  <2>4. Replaying(c, muts, lg, k + 1, run[k + 1])
    BY <2>1, <2>2, <2>3, ReplayingStep
  <2> QED BY <2>1, <2>4
<1>5. 0..N \subseteq P
  <2> HIDE DEF P
  <2> QED BY <1>3, <1>4, HandedOn
<1>6. Replaying(c, muts, lg, N, run[N])
  BY <1>5
<1> QED BY <1>1, <1>6

\* The batch is dealt with: what follows it is under way.
LEMMA CoveredBatch ==
  ASSUME NEW fs \in Seq(Frame), fs # << >>, fs[1].kind = "batch",
         NEW n, n = Len(fs[1].muts), n \in Nat,
         \A i \in 1..Len(fs) : fs[i].kind = "batch" => i = 1,
         NEW lg, NEW seq \in Nat, NEW lost, Covered(fs, lg, seq, lost)
  PROVE  Covered(Tail(fs), lg, seq + n, lost)
<1> DEFINE gs == Tail(fs)
<1>1. /\ \A i \in 1..Len(gs) : gs[i] = fs[i + 1] /\ i + 1 \in 1..Len(fs)
      /\ \A i \in 1..Len(fs) : i = 1 \/ (i - 1 \in 1..Len(gs) /\ gs[i - 1] = fs[i])
      /\ Len(fs) \in Nat \ {0} /\ Len(gs) = Len(fs) - 1
  BY Tailing
<1> HIDE DEF gs
<1>2. ~(Len(gs) # 0 /\ gs[1].kind = "batch")
  BY <1>1
<1>3. ASSUME NEW s \in (seq + n + 1)..Len(lg)
      PROVE  \/ \E i \in 1..Len(gs) : gs[i].kind = "mutation" /\ gs[i].seq = s
             \/ s = (seq + n) + 1 /\ Draws(lg[s]) \subseteq lost
  <2>1. s \in (seq + 1)..Len(lg) /\ ~(s <= seq + n)
    OBVIOUS
  <2>2. \/ \E i \in 1..Len(fs) : fs[i].kind = "mutation" /\ fs[i].seq = s
        \/ s = seq + 1 /\ Draws(lg[s]) \subseteq lost
    BY <2>1 DEF Covered
  <2>3. CASE s = seq + 1 /\ Draws(lg[s]) \subseteq lost
    <3>1. n = 0
      BY <2>1, <2>3
    <3> QED BY <2>3, <3>1
  <2>4. ASSUME NEW i \in 1..Len(fs), fs[i].kind = "mutation", fs[i].seq = s
        PROVE  \E k \in 1..Len(gs) : gs[k].kind = "mutation" /\ gs[k].seq = s
    <3>1. i - 1 \in 1..Len(gs) /\ gs[i - 1] = fs[i]
      BY <1>1, <2>4
    <3> QED BY <2>4, <3>1
  <2> QED BY <2>2, <2>3, <2>4
<1> QED BY <1>2, <1>3 DEF Covered, gs

\* A browser that has caught up shows the board.
LEMMA CaughtUp ==
  ASSUME Inv, NEW t \in Turns, Attached(t, me, log, queue, frames, used.mine, crossed),
         me.journal = << >>, crossed = {},
         \A k \in 1..Len(me.buffered) : me.buffered[k].redraw /\ me.buffered[k].state = "queued",
         frames \in Seq(Frame), frames # << >>, 1 \in 1..Len(frames), frames[1].kind = "batch",
         NEW muts, muts = frames[1].muts, Len(muts) \in Nat, Brings(me, muts, log),
         NEW c, Replaying(me, muts, log, Len(muts), c)
  PROVE  Attached(t, c, log, queue, Tail(frames), used.mine, crossed)
<1>1. /\ Sorted(t, frames, queue, me.buffered) /\ Posted(frames, log, used.mine)
      /\ Covered(frames, log, me.seq, crossed)
  BY DEF Attached
<1>2. /\ c.journal = << >> /\ Thins(me.buffered, c.buffered)
      /\ c.seq = me.seq + Len(muts) /\ c.view = After(log, c.seq)
  BY DEF Replaying
<1>3. me.seq \in Nat /\ c.seq \in Nat /\ \A i \in 1..Len(frames) : frames[i].kind = "batch" => i = 1
  BY DEF Replaying, IsBrowser, Browser, Inv, Types, Mail
<1>4. IsView(c.view)
  BY <1>2, <1>3, AfterView
<1>5. /\ Journalled(c.journal, used.mine) /\ Story(c.view, c.journal, After(log, c.seq), crossed)
      /\ Ordered(t, c.journal, c.buffered, crossed) /\ Seen(c.journal, log, c.seq, crossed)
      /\ Alive(c.journal, Tail(frames), queue, c.buffered, crossed)
  BY <1>2, EmptyStory
<1>6. FlagsFit(c.buffered)
  BY <1>2 DEF FlagsFit, Thins
<1>7. Sorted(t, Tail(frames), queue, c.buffered) /\ Posted(Tail(frames), log, used.mine)
  BY <1>1, <1>2, ThinsKeeps, Heard
<1>8. Covered(Tail(frames), log, me.seq + Len(muts), crossed)
  BY <1>1, <1>3, CoveredBatch
<1> QED BY <1>2, <1>4, <1>5, <1>6, <1>7, <1>8 DEF Attached

LEMMA DeliverBatchShows ==
  ASSUME Inv, Screen, frames # << >>, DeliverBatch(Head(frames))
  PROVE  Screen'
<1>1. PICK muts : muts = Head(frames).muts
  OBVIOUS
<1>2. PICK e : e = Replayed(me, muts)
  OBVIOUS
<1>3. PICK c : c = [e EXCEPT !.link = "live"]
  OBVIOUS
<1>4. /\ Head(frames).kind = "batch" /\ frames' = Tail(frames) /\ UNCHANGED << log, open, used >>
      /\ \/ /\ Writable(c)
            /\ \E upto \in 0..Len(c.buffered) :
                 /\ me' = Pump(c, upto).client /\ Emitted(Pump(c, upto).sent)
                 /\ crossed' = Spread(Repeated(Pump(c, upto).sent), PendingMuts(me'))
         \/ ~Writable(c) /\ me' = c /\ UNCHANGED << queue, crossed >>
  <2>1. c = [Replayed(me, Head(frames).muts) EXCEPT !.link = "live"]
    BY <1>1, <1>2, <1>3
  <2> QED BY <2>1 DEF DeliverBatch
<1>5. /\ IsBrowser(me) /\ frames \in Seq(Frame) /\ log \in Seq(Mutations) /\ Len(log) \in Nat
      /\ me.seq \in Nat /\ me.buffered \in Seq(Write)
  BY DEF Inv, Types, IsBrowser, Browser
<1>6. /\ frames[1] = Head(frames) /\ 1 \in 1..Len(frames) /\ frames[1] \in Frame
      /\ \A i \in 1..Len(frames) : frames[i].kind = "batch" => i = 1
  BY <1>5, Tailing DEF Inv, Mail
<1>7. /\ me.link = "replaying" /\ muts \in Seq(Mutations) /\ Len(muts) \in Nat
      /\ me.seq + Len(muts) <= Len(log)
  <2>1. muts \in Seq(Mutations)
    BY <1>1, <1>4, <1>6 DEF Frame
  <2>2. me.link = "replaying" /\ me.seq + Len(muts) <= Len(log)
    BY <1>1, <1>4, <1>6 DEF Inv, Mail
  <2> QED BY <2>1, <2>2
<1>8. /\ me.journal = << >> /\ crossed = {} /\ me.view = After(log, me.seq)
      /\ \A k \in 1..Len(me.buffered) : me.buffered[k].redraw /\ me.buffered[k].state = "queued"
  BY <1>7 DEF Screen, Detached, Preserved
<1>9. Replaying(me, muts, log, Len(muts), e)
  BY <1>2, <1>5, <1>7, ReplayedShows DEF Screen
<1>10. /\ IsBrowser(c) /\ c.link = "live" /\ c.paused = me.paused /\ c.journal = << >>
       /\ Thins(me.buffered, c.buffered) /\ c.seq = e.seq /\ c.view = e.view
       /\ c.buffered = e.buffered /\ c.journal = e.journal
  BY <1>3, <1>8, <1>9 DEF Replaying, IsBrowser, Browser
<1>11. c.seq <= Len(log) /\ Closed(c.journal, Acc)
  <2>1. e.seq <= me.seq + Len(muts)
    BY <1>2, <1>5, <1>7, ReplayedIs
  <2>2. e.seq \in Nat
    BY <1>9 DEF Replaying, IsBrowser, Browser
  <2> QED BY <1>5, <1>7, <1>10, <2>1, <2>2, EmptyClosed
<1>12. PICK t \in Turns, N \in Nat :
         /\ Numbered(t, N, me, used.mine)
         /\ open => Attached(t, me, log, queue, frames, used.mine, crossed)
  BY DEF Screen
<1>13. Numbered(t, N, c, used.mine)
  BY <1>10, <1>12, ThinsKeeps DEF Numbered
<1>14. ASSUME open PROVE Attached(t, c, log, queue, Tail(frames), used.mine, crossed)
  <2>1. Attached(t, me, log, queue, frames, used.mine, crossed)
    BY <1>12, <1>14
  <2>2. Brings(me, muts, log)
    <3>1. Covered(frames, log, me.seq, crossed) /\ Len(frames) # 0
      BY <1>6, <2>1 DEF Attached
    <3> QED BY <1>1, <1>4, <1>5, <1>6, <1>7, <1>8, <3>1 DEF Brings, Covered
  <2>3. Attached(t, e, log, queue, Tail(frames), used.mine, crossed)
    BY <1>1, <1>4, <1>5, <1>6, <1>7, <1>8, <1>9, <2>1, <2>2, CaughtUp
  <2> QED BY <1>10, <2>3 DEF Attached
<1>15. \A j \in 1..Len(c.buffered) : c.buffered[j].mut.cid \in used.mine
  BY <1>10, OwnBuffered DEF Thins
<1>16. CASE Writable(c) /\ \E upto \in 0..Len(c.buffered) :
              /\ me' = Pump(c, upto).client /\ Emitted(Pump(c, upto).sent)
              /\ crossed' = Spread(Repeated(Pump(c, upto).sent), PendingMuts(me'))
  <2>1. PICK upto \in 0..Len(c.buffered) :
          /\ me' = Pump(c, upto).client /\ Emitted(Pump(c, upto).sent)
          /\ crossed' = Spread(Repeated(Pump(c, upto).sent), PendingMuts(me'))
    BY <1>16
  <2>2. /\ Legit(log) /\ crossed \subseteq Items
        /\ open => Attached(t, c, log, queue, frames', used.mine, crossed)
    BY <1>4, <1>14 DEF Screen
  <2> QED BY <1>4, <1>10, <1>11, <1>12, <1>13, <1>15, <1>16, <2>1, <2>2, PumpShows
<1>17. CASE ~Writable(c) /\ me' = c /\ UNCHANGED << queue, crossed >>
  <2>1. Preserved(me') /\ Detached(me', log', crossed') /\ BatchFirst(me', frames')
    <3>1. \A k \in 1..Len(c.buffered) : c.buffered[k].redraw /\ c.buffered[k].state = "queued"
      BY <1>8, <1>10 DEF Thins
    <3> QED BY <1>10, <1>17, <3>1 DEF Preserved, Detached, BatchFirst
  <2>2. open => Attached(t, c, log, queue, frames', used.mine, crossed)
    BY <1>4, <1>14
  <2> QED BY <1>4, <1>12, <1>13, <1>17, <2>1, <2>2 DEF Screen
<1> QED BY <1>4, <1>16, <1>17

-----------------------------------------------------------------------------
(* The user writes.                                                         *)

\* u numbers the writes as t does, and a new one, x, after all of them.
Later(t, u, mine, x, N) ==
  /\ u \in Turns /\ N \in Nat /\ x \notin mine /\ u[x] = N
  /\ \A y \in mine : u[y] = t[y] /\ t[y] \in Nat /\ t[y] < N

LEMMA LaterIs ==
  ASSUME NEW t \in Turns, NEW N \in Nat, NEW mine \in SUBSET Ids, \A y \in mine : t[y] < N,
         NEW x \in Ids, x \notin mine
  PROVE  \E u : Later(t, u, mine, x, N)
<1> DEFINE u == [t EXCEPT ![x] = N]
<1>1. u \in Turns /\ u[x] = N /\ \A y \in mine : u[y] = t[y] /\ t[y] \in Nat
  BY DEF Turns
<1>2. Later(t, u, mine, x, N)
  BY <1>1 DEF Later
<1> QED BY <1>2

\* Whose writes are under way.
Own(fs, q, b, mine) ==
  /\ \A i \in 1..Len(fs) : IsAnswer(fs[i]) => AnswerOf(fs[i]) \in mine
  /\ \A j \in 1..Len(q) : q[j].mut.cid \in mine
  /\ \A k \in 1..Len(b) : b[k].mut.cid \in mine

LEMMA LaterSorted ==
  ASSUME NEW t, NEW u, NEW mine, NEW x, NEW N, Later(t, u, mine, x, N),
         NEW fs, NEW q, NEW b \in Seq(Write), Own(fs, q, b, mine),
         NEW w, w.mut.cid = x, BufferSorted(t, b), Sorted(t, fs, q, b)
  PROVE  BufferSorted(u, Append(b, w)) /\ Sorted(u, fs, q, Append(b, w))
<1> DEFINE a == Append(b, w)
<1>1. PICK n \in Nat : n = Len(b)
  OBVIOUS
<1>2. /\ Len(a) = n + 1 /\ a[n + 1] = w /\ \A k \in 1..n : a[k] = b[k]
      /\ \A k \in 1..(n + 1) : k \in 1..n \/ k = n + 1
  BY <1>1, Appending
<1> HIDE DEF a
<1>3. \A k \in 1..n : a[k].mut.cid \in mine /\ a[k] = b[k]
  BY <1>1, <1>2 DEF Own
<1>4. \A y \in mine : u[y] = t[y] /\ t[y] \in Nat /\ t[y] < N
  BY DEF Later
<1>5. a[n + 1].mut.cid = x /\ u[x] = N /\ N \in Nat
  BY <1>2 DEF Later
<1>6. BufferSorted(u, a)
  <2> SUFFICES ASSUME NEW k \in 1..(n + 1), NEW l \in 1..(n + 1), k < l
               PROVE  u[a[k].mut.cid] < u[a[l].mut.cid]
    BY <1>2 DEF BufferSorted
  <2>1. k \in 1..n
    BY <1>2
  <2>2. CASE l \in 1..n
    BY <1>1, <1>3, <1>4, <2>1, <2>2 DEF BufferSorted
  <2>3. CASE l = n + 1
    BY <1>3, <1>4, <1>5, <2>1, <2>3
  <2> QED BY <1>2, <2>2, <2>3
<1>7. \A y \in mine : \A k \in 1..(n + 1) :
        (k \in 1..n => t[y] <= t[b[k].mut.cid]) => u[y] <= u[a[k].mut.cid]
  <2> SUFFICES ASSUME NEW y \in mine, NEW k \in 1..(n + 1),
                      k \in 1..n => t[y] <= t[b[k].mut.cid]
               PROVE  u[y] <= u[a[k].mut.cid]
    OBVIOUS
  <2>1. CASE k \in 1..n
    BY <1>3, <1>4, <2>1
  <2>2. CASE k = n + 1
    BY <1>4, <1>5, <2>2
  <2> QED BY <1>2, <2>1, <2>2
<1>8. Sorted(u, fs, q, a)
  <2>1. \A i, j \in 1..Len(fs) : i < j /\ IsAnswer(fs[i]) /\ IsAnswer(fs[j]) =>
          u[AnswerOf(fs[i])] <= u[AnswerOf(fs[j])]
    BY <1>4 DEF Own, Sorted
  <2>2. \A i \in 1..Len(fs), j \in 1..Len(q) : IsAnswer(fs[i]) /\ q[j].here =>
          u[AnswerOf(fs[i])] <= u[q[j].mut.cid]
    BY <1>4 DEF Own, Sorted
  <2>3. \A i \in 1..Len(fs), k \in 1..(n + 1) : IsAnswer(fs[i]) /\ a[k].state = "queued" =>
          u[AnswerOf(fs[i])] <= u[a[k].mut.cid]
    <3> SUFFICES ASSUME NEW i \in 1..Len(fs), NEW k \in 1..(n + 1), IsAnswer(fs[i]),
                        a[k].state = "queued"
                 PROVE  u[AnswerOf(fs[i])] <= u[a[k].mut.cid]
      OBVIOUS
    <3>1. AnswerOf(fs[i]) \in mine
      BY DEF Own
    <3>2. k \in 1..n => t[AnswerOf(fs[i])] <= t[b[k].mut.cid]
      BY <1>1, <1>3 DEF Sorted
    <3> QED BY <1>7, <3>1, <3>2
  <2>4. \A i, j \in 1..Len(q) : i < j /\ q[i].here /\ q[j].here =>
          u[q[i].mut.cid] <= u[q[j].mut.cid]
    BY <1>4 DEF Own, Sorted
  <2>5. \A j \in 1..Len(q), k \in 1..(n + 1) : q[j].here /\ a[k].state = "queued" =>
          u[q[j].mut.cid] <= u[a[k].mut.cid]
    <3> SUFFICES ASSUME NEW j \in 1..Len(q), NEW k \in 1..(n + 1), q[j].here,
                        a[k].state = "queued"
                 PROVE  u[q[j].mut.cid] <= u[a[k].mut.cid]
      OBVIOUS
    <3>1. q[j].mut.cid \in mine
      BY DEF Own
    <3>2. k \in 1..n => t[q[j].mut.cid] <= t[b[k].mut.cid]
      BY <1>1, <1>3 DEF Sorted
    <3> QED BY <1>7, <3>1, <3>2
  <2> QED BY ONLY <1>2, <2>1, <2>2, <2>3, <2>4, <2>5 DEF Sorted
<1> QED BY <1>6, <1>8 DEF a

\* What a new write does not change.
LEMMA LaterKeeps ==
  ASSUME NEW t, NEW u, NEW mine, NEW x, NEW N, Later(t, u, mine, x, N),
         NEW journal, Journalled(journal, mine), NEW b \in Seq(Write),
         \A k \in 1..Len(b) : b[k].mut.cid \in mine,
         NEW w, w.state = "queued", w.redraw = FALSE, NEW lost, NEW fs, NEW q, NEW lg,
         FlagsFit(b), Ordered(t, journal, b, lost), Alive(journal, fs, q, b, lost),
         Posted(fs, lg, mine)
  PROVE  /\ FlagsFit(Append(b, w)) /\ Ordered(u, journal, Append(b, w), lost)
         /\ Alive(journal, fs, q, Append(b, w), lost)
         /\ Journalled(journal, mine \cup {x}) /\ Posted(fs, lg, mine \cup {x})
<1> DEFINE a == Append(b, w)
<1>1. PICK n \in Nat : n = Len(b)
  OBVIOUS
<1>2. /\ Len(a) = n + 1 /\ a[n + 1] = w /\ \A k \in 1..n : a[k] = b[k] /\ k \in 1..(n + 1)
      /\ \A k \in 1..(n + 1) : k \in 1..n \/ k = n + 1
  BY <1>1, Appending
<1> HIDE DEF a
<1>3. \A k \in 1..(n + 1) : a[k].redraw => k \in 1..n
  BY <1>2
<1>4. FlagsFit(a)
  BY <1>1, <1>2, <1>3 DEF FlagsFit
<1>5. \A y \in mine : u[y] = t[y]
  BY DEF Later
<1>6. Ordered(u, journal, a, lost)
  <2>1. \A p \in 1..Len(journal) : journal[p].mut.cid \in mine
    BY DEF Journalled
  <2>2. \A p, r \in 1..Len(journal) : p < r => InTurn(u, lost, journal[p].mut, journal[r].mut)
    BY <1>5, <2>1 DEF Ordered, InTurn
  <2>3. \A p \in 1..Len(journal), k \in 1..(n + 1) : a[k].redraw =>
          /\ journal[p].mut.cid # a[k].mut.cid
          /\ InTurn(u, lost, journal[p].mut, a[k].mut)
    BY <1>1, <1>2, <1>3, <1>5, <2>1 DEF Ordered, InTurn
  <2> QED BY <1>2, <2>2, <2>3 DEF Ordered
<1>7. Alive(journal, fs, q, a, lost)
  <2>1. \A cid : Expected(cid, fs, q, b) => Expected(cid, fs, q, a)
    BY <1>1, <1>2 DEF Expected
  <2> QED BY <2>1 DEF Alive
<1>8. Journalled(journal, mine \cup {x}) /\ Posted(fs, lg, mine \cup {x})
  BY DEF Journalled, Posted
<1> QED BY <1>4, <1>6, <1>7, <1>8 DEF a

\* The entry a write gets that has found the view old.
EntryFor(journal, x, m, old) ==
  /\ x.mut = m /\ DOMAIN x.undo = Draws(m) /\ \A i \in Draws(m) : x.undo[i] = old[i]
  /\ x.needs = UNION {LatestOn(journal, i) : i \in RestsOn(m)}
Entered(d, e, x, m, old, mine) ==
  /\ e.journal = Append(d.journal, x) /\ EntryFor(d.journal, x, m, old)
  /\ Journalled(e.journal, mine)
  /\ IsBrowser(e) /\ e.view = d.view /\ e.seq = d.seq /\ e.buffered = d.buffered
  /\ e.link = d.link /\ e.paused = d.paused

LEMMA Entering ==
  ASSUME NEW d, IsBrowser(d), NEW mine, Journalled(d.journal, mine), NEW m \in Mine,
         m.cid \in mine, \A p \in 1..Len(d.journal) : d.journal[p].mut.cid # m.cid,
         NEW old, IsView(old), NEW e, e = Track(d, m, Rollback(old, m))
  PROVE  \E x : Entered(d, e, x, m, old, mine)
<1> DEFINE undo == Rollback(old, m)
           x == [mut |-> m, undo |-> undo,
                 needs |-> UNION {LatestOn(d.journal, i) : i \in RestsOn(m)}]
<1>1. d.journal \in Seq(Range(d.journal)) /\ m \in Mutations
  BY DEF Journalled, Mutations
<1>2. DOMAIN undo = Draws(m) /\ \A i \in Draws(m) : undo[i] = old[i]
  BY <1>1, RollbackIs
<1> HIDE DEF undo
<1>3. /\ e.journal = Append(d.journal, x)
      /\ IsBrowser(e) /\ e.view = d.view /\ e.seq = d.seq /\ e.buffered = d.buffered
      /\ e.link = d.link /\ e.paused = d.paused
  <2>1. e = Track(d, m, undo)
    BY DEF undo
  <2> QED BY <1>1, <2>1, TrackNew
<1>4. x.mut = m /\ x.undo = undo /\ x.needs = UNION {LatestOn(d.journal, i) : i \in RestsOn(m)}
  OBVIOUS
<1> HIDE DEF x
<1>5. PICK n \in Nat : n = Len(d.journal)
  BY <1>1
<1>6. PICK j : j = e.journal
  OBVIOUS
<1>7. /\ Len(j) = n + 1 /\ j[n + 1] = x /\ \A p \in 1..n : j[p] = d.journal[p]
      /\ \A p \in 1..(n + 1) : p \in 1..n \/ p = n + 1
  BY <1>1, <1>3, <1>5, <1>6, Appending
<1>8. Journalled(j, mine)
  <2>1. j \in Seq(Range(j))
    <3>1. PICK g : g = d.journal
      OBVIOUS
    <3>2. j = Append(g, x) /\ g \in Seq(Range(g))
      BY <1>1, <1>3, <1>6, <3>1
    <3>3. Append(g, x) \in Seq(Range(g) \cup {x}) /\ Range(Append(g, x)) = Range(g) \cup {x}
      BY <3>2, Appended
    <3> QED BY ONLY <3>2, <3>3
  <2>2. \A p \in 1..(n + 1) : /\ j[p].mut \in Mine /\ j[p].mut.cid \in mine
                              /\ DOMAIN j[p].undo = Draws(j[p].mut)
    <3> SUFFICES ASSUME NEW p \in 1..(n + 1)
                 PROVE  /\ j[p].mut \in Mine /\ j[p].mut.cid \in mine
                        /\ DOMAIN j[p].undo = Draws(j[p].mut)
      OBVIOUS
    <3>1. CASE p \in 1..n
      <4>1. j[p] = d.journal[p] /\ p \in 1..Len(d.journal)
        BY <1>5, <1>7, <3>1
      <4> QED BY <4>1 DEF Journalled
    <3>2. CASE p = n + 1
      <4>1. j[p].mut = m /\ j[p].undo = undo
        BY <1>4, <1>7, <3>2
      <4> QED BY <1>2, <4>1
    <3> QED BY <1>7, <3>1, <3>2
  <2>3. \A p, q \in 1..(n + 1) : j[p].mut.cid = j[q].mut.cid => p = q
    <3> SUFFICES ASSUME NEW p \in 1..(n + 1), NEW q \in 1..(n + 1), j[p].mut.cid = j[q].mut.cid
                 PROVE  p = q
      OBVIOUS
    <3>1. \A r \in 1..n : j[r].mut.cid # m.cid /\ j[r] = d.journal[r]
      BY <1>5, <1>7
    <3>2. j[n + 1].mut.cid = m.cid
      BY <1>4, <1>7
    <3>3. CASE p \in 1..n /\ q \in 1..n
      BY <1>5, <3>1, <3>3 DEF Journalled
    <3>4. CASE p = n + 1 /\ q = n + 1
      BY <3>4
    <3> QED BY <1>7, <3>1, <3>2, <3>3, <3>4
  <2> QED BY <1>7, <2>1, <2>2, <2>3 DEF Journalled
<1>9. EntryFor(d.journal, x, m, old)
  BY <1>2, <1>4 DEF EntryFor
<1>10. Entered(d, e, x, m, old, mine)
  BY <1>3, <1>6, <1>8, <1>9 DEF Entered
<1> QED BY <1>10

\* The new write closes the story.
LEMMA EnteredStory ==
  ASSUME NEW journal, NEW mine, Journalled(journal, mine), NEW m \in Mutations,
         NEW old, NEW w, NEW base, NEW s, Story(w, journal, base, s),
         NEW view, Under(w, view, TRUE, m, old, s),
         m.op = "copy" => old[m.from] # Nothing,
         NEW x, EntryFor(journal, x, m, old),
         SpreadOver(Append(journal, x), s)
  PROVE  Story(view, Append(journal, x), base, s)
<1>1. /\ \A i \in Items \ s : view[i] = Put(w, m, i)
      /\ \A i \in Draws(m) \ s : w[i] = old[i]
      /\ m.op = "copy" /\ m.id \notin s => w[m.from] = old[m.from]
  BY DEF Under
<1>2. m.op = "copy" /\ m.from \in s => m.id \in s
  <2>1. journal \in Seq(Range(journal))
    BY DEF Journalled
  <2>2. PICK n \in Nat : n = Len(journal)
    BY <2>1
  <2>3. Append(journal, x)[n + 1] = x /\ n + 1 \in 1..Len(Append(journal, x))
    BY <2>1, <2>2, Appending
  <2>4. x.mut = m
    BY DEF EntryFor
  <2> QED BY <2>3, <2>4 DEF SpreadOver
<1>3. /\ x.mut \in Mutations /\ \A i \in Draws(x.mut) \ s : x.undo[i] = w[i]
      /\ x.needs = UNION {LatestOn(journal, i) : i \in RestsOn(x.mut)}
      /\ x.mut.op = "copy" /\ x.mut.from \in s => x.mut.id \in s
      /\ x.mut.op = "copy" /\ x.mut.id \notin s => w[x.mut.from] # Nothing
      /\ \A i \in Items \ s : view[i] = Put(w, x.mut, i)
  BY <1>1, <1>2 DEF EntryFor
<1> QED BY <1>3, AppendStory

\* m comes after all that is pending, and has lost where it meets what is drawn later.
LastOf(u, journal, b, s, m) ==
  /\ \A p \in 1..Len(journal) : u[journal[p].mut.cid] < u[m.cid]
  /\ \A k \in 1..Len(b) : b[k].redraw => b[k].mut.cid # m.cid /\ Meet(b[k].mut, m) \subseteq s

\* It comes after all the others and has an answer coming.
LEMMA EnteredLast ==
  ASSUME NEW u, NEW journal, journal \in Seq(Range(journal)), NEW b, NEW s, NEW m,
         NEW x, x.mut = m, NEW fs, NEW q, NEW lg, NEW seq,
         Ordered(u, journal, b, s), Alive(journal, fs, q, b, s), Seen(journal, lg, seq, s),
         LastOf(u, journal, b, s, m),
         Expected(m.cid, fs, q, b), \A n \in 1..seq : lg[n].cid # m.cid
  PROVE  /\ Ordered(u, Append(journal, x), b, s) /\ Alive(Append(journal, x), fs, q, b, s)
         /\ Seen(Append(journal, x), lg, seq, s)
<1> DEFINE j == Append(journal, x)
<1>1. PICK n \in Nat : n = Len(journal)
  OBVIOUS
<1>2. /\ Len(j) = n + 1 /\ j[n + 1] = x /\ \A p \in 1..n : j[p] = journal[p]
      /\ \A p \in 1..(n + 1) : p \in 1..n \/ p = n + 1
  BY <1>1, Appending
<1> HIDE DEF j
<1>3. \A o : Meet(m, o) = Meet(o, m)
  BY DEF Meet
<1>4. \A p, r \in 1..(n + 1) : p < r => InTurn(u, s, j[p].mut, j[r].mut)
  <2> SUFFICES ASSUME NEW p \in 1..(n + 1), NEW r \in 1..(n + 1), p < r
               PROVE  InTurn(u, s, j[p].mut, j[r].mut)
    OBVIOUS
  <2>1. p \in 1..n
    BY <1>2
  <2>2. CASE r \in 1..n
    BY <1>1, <1>2, <2>1, <2>2 DEF Ordered
  <2>3. CASE r = n + 1
    BY <1>1, <1>2, <2>1, <2>3 DEF InTurn, LastOf
  <2> QED BY <1>2, <2>2, <2>3
<1>5. \A p \in 1..(n + 1), k \in 1..Len(b) : b[k].redraw =>
        j[p].mut.cid # b[k].mut.cid /\ InTurn(u, s, j[p].mut, b[k].mut)
  <2> SUFFICES ASSUME NEW p \in 1..(n + 1), NEW k \in 1..Len(b), b[k].redraw
               PROVE  j[p].mut.cid # b[k].mut.cid /\ InTurn(u, s, j[p].mut, b[k].mut)
    OBVIOUS
  <2>1. CASE p \in 1..n
    BY <1>1, <1>2, <2>1 DEF Ordered
  <2>2. CASE p = n + 1
    BY <1>2, <1>3, <2>2 DEF InTurn, LastOf
  <2> QED BY <1>2, <2>1, <2>2
<1>6. Ordered(u, j, b, s)
  BY <1>2, <1>4, <1>5 DEF Ordered
<1>7. Alive(j, fs, q, b, s)
  <2>1. \A p \in 1..(n + 1) :
          Draws(j[p].mut) \subseteq s \/ Expected(j[p].mut.cid, fs, q, b)
    BY <1>1, <1>2 DEF Alive
  <2> QED BY <1>2, <2>1 DEF Alive
<1>8. Seen(j, lg, seq, s)
  <2>1. \A p \in 1..(n + 1), k \in 1..seq :
          lg[k].cid = j[p].mut.cid => Draws(j[p].mut) \subseteq s
    BY <1>1, <1>2 DEF Seen
  <2> QED BY <1>2, <2>1 DEF Seen
<1> QED BY <1>6, <1>7, <1>8 DEF j

\* The browser with the new write drawn and buffered.
Made(c, d, m) ==
  /\ IsBrowser(d) /\ d.view = Draw(c.view, m) /\ d.seq = c.seq /\ d.journal = c.journal
  /\ d.buffered = Append(c.buffered, [mut |-> m, state |-> "queued", redraw |-> FALSE])
  /\ d.link = c.link /\ d.paused = c.paused

LEMMA MadeIs ==
  ASSUME NEW c, IsBrowser(c), NEW m \in Mine,
         NEW d, d = [c EXCEPT !.view = Draw(@, m),
                              !.buffered = Append(@, [mut |-> m, state |-> "queued",
                                                      redraw |-> FALSE])]
  PROVE  Made(c, d, m)
<1> DEFINE w == [mut |-> m, state |-> "queued", redraw |-> FALSE]
           b == Append(c.buffered, w)
<1>1. b \in Seq(Write)
  <2>1. w \in Write /\ c.buffered \in Seq(Write)
    BY DEF Write, IsBrowser, Browser
  <2> HIDE DEF w
  <2> QED BY <2>1
<1>2. PICK v : v = Draw(c.view, m)
  OBVIOUS
<1>3. d = [c EXCEPT !.view = v, !.buffered = b]
  BY <1>2
<1> HIDE DEF b
<1>4. /\ IsBrowser(d) /\ d.view = v /\ d.seq = c.seq /\ d.journal = c.journal
      /\ d.buffered = b /\ d.link = c.link /\ d.paused = c.paused
  BY <1>1, <1>3 DEF IsBrowser, Browser
<1> QED BY <1>2, <1>4 DEF Made, b

LEMMA OwnUnderWay ==
  ASSUME Inv, Posted(frames, log, used.mine) PROVE Own(frames, queue, me.buffered, used.mine)
<1>1. \A i \in 1..Len(frames) : IsAnswer(frames[i]) => AnswerOf(frames[i]) \in used.mine
  BY DEF Posted, IsAnswer, AnswerOf
<1> QED BY <1>1, OwnBuffered DEF Own, Inv, Owned

\* What holds before the pump: on the screen the new write is over all the others.
LEMMA MadeWaits ==
  ASSUME Inv, NEW m \in Mine, m.cid \notin used.mine,
         NEW t \in Turns, NEW u, NEW N, Later(t, u, used.mine, m.cid, N),
         BufferSorted(t, me.buffered),
         Attached(t, me, log, queue, frames, used.mine, crossed),
         NEW c, Made(me, c, m), NEW mine, mine = used.mine \cup {m.cid}
  PROVE  /\ Waiting(u, frames, queue, log, c.seq, c, crossed)
         /\ FlagsFit(c.buffered) /\ Ordered(u, c.journal, c.buffered, crossed)
         /\ Journalled(c.journal, mine) /\ Posted(frames, log, mine)
         /\ BufferSorted(u, c.buffered)
         /\ \A k \in 1..Len(c.buffered) : c.buffered[k].mut.cid \in mine
<1> DEFINE w == [mut |-> m, state |-> "queued", redraw |-> FALSE]
<1>1. PICK b : b = me.buffered
  OBVIOUS
<1>2. c.buffered = Append(b, w) /\ c.journal = me.journal /\ c.seq = me.seq /\ IsBrowser(c)
  BY <1>1 DEF Made
<1>3. w.mut = m /\ w.mut.cid = m.cid /\ w.state = "queued" /\ w.redraw = FALSE
  OBVIOUS
<1> HIDE DEF w
<1>4. b \in Seq(Write) /\ queue \in Seq(Sent) /\ log \in Seq(Mutations) /\ me.seq \in Nat
      /\ me.seq <= Len(log)
  BY <1>1 DEF Inv, Types, IsBrowser, Browser
<1>5. Own(frames, queue, b, used.mine)
  BY <1>1, OwnUnderWay DEF Attached
<1>6. /\ Journalled(me.journal, used.mine) /\ FlagsFit(b) /\ Ordered(t, me.journal, b, crossed)
      /\ Alive(me.journal, frames, queue, b, crossed) /\ Seen(me.journal, log, me.seq, crossed)
      /\ Sorted(t, frames, queue, b) /\ Posted(frames, log, used.mine) /\ BufferSorted(t, b)
  BY <1>1 DEF Attached
<1>7. BufferSorted(u, Append(b, w)) /\ Sorted(u, frames, queue, Append(b, w))
  BY <1>3, <1>4, <1>5, <1>6, LaterSorted
<1>8. /\ FlagsFit(Append(b, w)) /\ Ordered(u, me.journal, Append(b, w), crossed)
      /\ Alive(me.journal, frames, queue, Append(b, w), crossed)
      /\ Journalled(me.journal, used.mine \cup {m.cid})
      /\ Posted(frames, log, used.mine \cup {m.cid})
  <2>1. \A k \in 1..Len(b) : b[k].mut.cid \in used.mine
    BY <1>5 DEF Own
  <2> QED BY <1>3, <1>4, <1>6, <2>1, LaterKeeps
<1>9. \A k \in 1..Len(c.buffered) : c.buffered[k].mut.cid \in mine
  <2>1. PICK n \in Nat : n = Len(b)
    BY <1>4
  <2>2. /\ Len(Append(b, w)) = n + 1 /\ Append(b, w)[n + 1] = w
        /\ \A k \in 1..n : Append(b, w)[k] = b[k] /\ b[k].mut.cid \in used.mine
        /\ \A k \in 1..(n + 1) : k \in 1..n \/ k = n + 1
    BY <1>4, <1>5, <2>1, Appending DEF Own
  <2> QED BY <1>2, <1>3, <2>2
<1>10. Waiting(u, frames, queue, log, c.seq, c, crossed)
  <2>1. u \in Turns /\ Len(log) \in Nat
    BY <1>4 DEF Later
  <2> QED BY <1>2, <1>4, <1>6, <1>7, <1>8, <2>1 DEF Waiting
<1> QED BY <1>2, <1>7, <1>8, <1>9, <1>10

LEMMA MadePumping ==
  ASSUME Inv, NEW m \in Mine, m.cid \notin used.mine, crossed \subseteq Items,
         NEW t \in Turns, NEW u, NEW N, Later(t, u, used.mine, m.cid, N),
         BufferSorted(t, me.buffered),
         Attached(t, me, log, queue, frames, used.mine, crossed),
         NEW c, Made(me, c, m), NEW mine, mine = used.mine \cup {m.cid},
         NEW upto \in 0..Len(c.buffered), NEW r, r = Pump(c, upto)
  PROVE  Pumping(c, Acc, r, u, upto, mine, After(log, me.seq), crossed, TRUE, m, me.view)
<1>1. PICK base : base = After(log, me.seq)
  OBVIOUS
<1>2. PICK old : old = me.view
  OBVIOUS
<1>3. /\ IsBrowser(c) /\ c.view = Draw(old, m) /\ c.journal = me.journal /\ m \in Mutations
      /\ IsView(old) /\ Story(old, c.journal, base, crossed) /\ Closed(c.journal, Acc)
  BY <1>1, <1>2 DEF Made, Attached, Inv, Mutations
<1>4. IsView(c.view) /\ \A i \in Items : c.view[i] = Put(old, m, i)
  BY <1>3, DrawIs
<1>5. \A more \in SUBSET Items :
        Fits(c.buffered, c.journal, TRUE, m, crossed, more) =>
          \E w : Story(w, c.journal, base, more) /\ Under(w, c.view, TRUE, m, old, more)
  <2> SUFFICES ASSUME NEW more \in SUBSET Items,
                      Fits(c.buffered, c.journal, TRUE, m, crossed, more)
               PROVE  Story(old, c.journal, base, more) /\ Under(old, c.view, TRUE, m, old, more)
    OBVIOUS
  <2>1. crossed \subseteq more /\ SpreadOver(c.journal, more)
    BY DEF Fits
  <2>2. Story(old, c.journal, base, more)
    BY <1>3, <2>1, StoryMore
  <2> QED BY <1>4, <2>2 DEF Under
<1>6. /\ FlagsFit(c.buffered) /\ Ordered(u, c.journal, c.buffered, crossed)
      /\ Journalled(c.journal, mine) /\ BufferSorted(u, c.buffered) /\ u \in Turns
      /\ \A k \in 1..Len(c.buffered) : c.buffered[k].mut.cid \in mine
  <2>1. u \in Turns
    BY DEF Later
  <2>2. /\ Inv /\ m \in Mine /\ m.cid \notin used.mine /\ t \in Turns
        /\ Later(t, u, used.mine, m.cid, N) /\ BufferSorted(t, me.buffered)
        /\ Attached(t, me, log, queue, frames, used.mine, crossed)
        /\ Made(me, c, m) /\ mine = used.mine \cup {m.cid}
    OBVIOUS
  <2> QED BY ONLY <2>1, <2>2, MadeWaits
<1>7. TRUE \in BOOLEAN /\ (TRUE => m \in Mutations) /\ crossed \in SUBSET Items
      /\ upto \in 0..Len(c.buffered) /\ r = Pump(c, upto)
  BY <1>3
<1>8. Pumping(c, Acc, r, u, upto, mine, base, crossed, TRUE, m, old)
  BY ONLY <1>3, <1>4, <1>5, <1>6, <1>7, PumpTells
<1> QED BY <1>1, <1>2, <1>8

\* What is lost when a write is made.
LostBy(m, sent, broken) ==
  Repeated(sent) \cup Overdrawn(m) \cup (IF broken = TRUE THEN Draws(m) ELSE {})

Loses(m, sent, broken, e, s) ==
  /\ s \in SUBSET Items /\ crossed \subseteq s /\ SpreadOver(e.journal, s)
  /\ Known(log, sent, crossed, s)
  /\ \A k \in 1..Len(me.buffered) :
       me.buffered[k].redraw => Meet(me.buffered[k].mut, m) \subseteq s
  /\ broken = TRUE => Draws(m) \subseteq s

LEMMA MadeLoses ==
  ASSUME Inv, crossed \subseteq Items, NEW m \in Mine, NEW sent \in Seq(Mine), NEW broken \in BOOLEAN,
         NEW e, NEW mine, Journalled(e.journal, mine),
         NEW s, s = Spread(LostBy(m, sent, broken), PendingMuts(e))
  PROVE  Loses(m, sent, broken, e, s)
<1> DEFINE items == LostBy(m, sent, broken)
<1>1. /\ s \in SUBSET Items /\ crossed \subseteq s /\ items \cap Items \subseteq s
      /\ SpreadOver(e.journal, s)
  <2> DEFINE j == e.journal
  <2>1. Journalled(j, mine) /\ s = Spread(items, PendingMuts(e)) /\ e.journal = j
    OBVIOUS
  <2> HIDE DEF items, j
  <2>2. /\ s \in SUBSET Items /\ crossed \subseteq s /\ items \cap Items \subseteq s
        /\ SpreadOver(j, s)
    BY ONLY <2>1, crossed \subseteq Items, Spreading
  <2> QED BY <2>2 DEF j
<1>2. Repeated(sent) \subseteq items /\ Overdrawn(m) \subseteq items
      /\ (broken = TRUE => Draws(m) \subseteq items)
  BY DEF LostBy
<1> HIDE DEF items
<1>3. log \in Seq(Mutations) /\ me.buffered \in Seq(Write) /\ m \in Mutations
  BY DEF Inv, Types, IsBrowser, Browser, Mutations
<1>4. Known(log, sent, crossed, s)
  <2> SUFFICES ASSUME NEW x \in 1..Len(sent), NEW n \in 1..Len(log), log[n].cid = sent[x].cid
               PROVE  Draws(sent[x]) \subseteq s
    BY <1>1 DEF Known
  <2> DEFINE again == Repeated(sent)
  <2>1. again = Repeated(sent)
    OBVIOUS
  <2> HIDE DEF again
  <2>2. Draws(sent[x]) \subseteq again /\ Draws(sent[x]) \subseteq Items
    BY <1>3, <2>1, RepeatedIs
  <2> QED BY <1>1, <1>2, <2>1, <2>2
<1>5. ASSUME NEW k \in 1..Len(me.buffered), me.buffered[k].redraw
      PROVE  Meet(me.buffered[k].mut, m) \subseteq s
  <2>1. me.buffered[k] \in Range(me.buffered) /\ me.buffered[k].mut \in Mutations
    <3>1. PICK b : b = me.buffered
      OBVIOUS
    <3>2. b \in Seq(Write) /\ k \in 1..Len(b)
      BY <1>3, <3>1
    <3>3. b[k] \in Write /\ k \in DOMAIN b
      BY <3>2
    <3>4. b[k].mut \in Mutations /\ b[k] \in Range(b)
      BY <3>3 DEF Range, Write, Mutations
    <3> QED BY <3>1, <3>4
  <2>2. Meet(me.buffered[k].mut, m) \subseteq Overdrawn(m)
    BY <1>5, <2>1 DEF Overdrawn
  <2>3. Meet(me.buffered[k].mut, m) \subseteq Items
    BY <1>3, <2>1, Drawing DEF Meet, Taken
  <2> QED BY <1>1, <1>2, <2>2, <2>3
<1>6. broken = TRUE => Draws(m) \subseteq s
  BY <1>1, <1>2, <1>3, Drawing
<1> QED BY <1>1, <1>4, <1>5, <1>6 DEF Loses

\* The new write is sent or left queued; what is still to be drawn again is older.
SentOrLeft(c, m, d, r, fs, q) ==
  /\ Expected(m.cid, fs, Gone(q, r.sent), r.client.buffered)
  /\ \A j \in 1..Len(r.client.buffered) : r.client.buffered[j].redraw =>
       /\ j \in 1..Len(c.buffered) /\ c.buffered[j].redraw
       /\ r.client.buffered[j].mut = c.buffered[j].mut
  /\ \A j \in 1..Len(d.buffered) : d.buffered[j].redraw =>
       /\ j \in 1..Len(c.buffered) /\ d.buffered[j] = c.buffered[j]

LEMMA MadeSent ==
  ASSUME NEW c, NEW m, NEW d, Made(c, d, m), IsBrowser(c), NEW r, NEW u, NEW k,
         Paced(d.buffered, u, r, k), NEW acc, Pumped(d, acc, r), NEW fs, NEW q \in Seq(Sent)
  PROVE  SentOrLeft(c, m, d, r, fs, q)
<1> DEFINE w == [mut |-> m, state |-> "queued", redraw |-> FALSE]
<1>1. PICK n \in Nat : n = Len(c.buffered)
  BY DEF IsBrowser, Browser
<1>2. PICK b : b = d.buffered
  OBVIOUS
<1>3. b = Append(c.buffered, w) /\ c.buffered \in Seq(Write)
  BY <1>2 DEF Made, IsBrowser, Browser
<1>4. w.mut = m /\ w.state = "queued" /\ w.redraw = FALSE
  OBVIOUS
<1> HIDE DEF w
<1>5. /\ Len(b) = n + 1 /\ b[n + 1] = w /\ \A j \in 1..n : b[j] = c.buffered[j]
      /\ \A j \in 1..(n + 1) : j \in 1..n \/ j = n + 1
  BY <1>1, <1>3, Appending
<1>6. \A j \in 1..(n + 1) : b[j].redraw => j \in 1..n /\ b[j] = c.buffered[j]
  BY <1>4, <1>5
<1>7. PICK a : a = r.client.buffered
  OBVIOUS
<1>8. /\ r.sent \in Seq(Mine) /\ Len(a) = n + 1
      /\ \A j \in 1..(n + 1) : a[j].mut = b[j].mut /\ (a[j].redraw => b[j].redraw)
      /\ b[n + 1].state = "queued" =>
           a[n + 1].state = "queued" \/ \E x \in 1..Len(r.sent) : r.sent[x] = b[n + 1].mut
  <2>1. /\ r.sent \in Seq(Mine) /\ Len(a) = Len(b)
        /\ \A j \in 1..Len(b) : a[j].mut = b[j].mut
    BY <1>2, <1>7 DEF Pumped
  <2>2. \A j \in 1..Len(b) :
          /\ a[j].redraw => b[j].redraw
          /\ b[j].state = "queued" =>
               a[j].state = "queued" \/ \E x \in 1..Len(r.sent) : r.sent[x] = b[j].mut
    BY <1>2, <1>7 DEF Paced
  <2>3. n + 1 \in 1..Len(b)
    BY <1>5
  <2> QED BY <1>5, <2>1, <2>2, <2>3
<1>9. Expected(m.cid, fs, Gone(q, r.sent), a)
  <2>1. CASE a[n + 1].state = "queued"
    BY <1>1, <1>4, <1>5, <1>8, <2>1 DEF Expected
  <2>2. CASE \E x \in 1..Len(r.sent) : r.sent[x] = m
    <3>1. PICK x \in 1..Len(r.sent) : r.sent[x] = m
      BY <2>2
    <3>2. PICK p : p = Gone(q, r.sent)
      OBVIOUS
    <3>3. Len(q) + x \in 1..Len(p) /\ p[Len(q) + x].here /\ p[Len(q) + x].mut = m
      BY <1>8, <3>1, <3>2, GoneIs
    <3>4. Expected(m.cid, fs, p, a)
      BY <3>3 DEF Expected
    <3> QED BY <3>2, <3>4
  <2> QED BY <1>4, <1>5, <1>8, <2>1, <2>2
<1>10. \A j \in 1..Len(a) : a[j].redraw =>
         /\ j \in 1..Len(c.buffered) /\ c.buffered[j].redraw /\ a[j].mut = c.buffered[j].mut
  BY <1>1, <1>6, <1>8
<1> QED BY <1>1, <1>2, <1>5, <1>6, <1>7, <1>9, <1>10 DEF SentOrLeft

LEMMA MadeAttached ==
  ASSUME Inv, NEW m \in Mine, m.cid \notin used.mine, crossed \subseteq Items,
         m.op = "copy" => me.view[m.from] # Nothing,
         NEW t \in Turns, NEW u, NEW N, Later(t, u, used.mine, m.cid, N),
         BufferSorted(t, me.buffered),
         Attached(t, me, log, queue, frames, used.mine, crossed),
         NEW c, Made(me, c, m), NEW mine, mine = used.mine \cup {m.cid},
         NEW upto \in 0..Len(c.buffered), NEW r, r = Pump(c, upto),
         NEW e, e = IF r.broken = TRUE THEN r.client ELSE Track(r.client, m, Rollback(me.view, m)),
         NEW s, s = Spread(LostBy(m, r.sent, r.broken), PendingMuts(e))
  PROVE  /\ Attached(u, e, log, Gone(queue, r.sent), frames, mine, s)
         /\ e.seq = me.seq /\ s \subseteq Items
<1> DEFINE base == After(log, me.seq)
           old == me.view
           d == r.client
           q == Gone(queue, r.sent)
<1>1. Pumping(c, Acc, r, u, upto, mine, base, crossed, TRUE, m, old)
  BY MadePumping
<1>2. /\ Waiting(u, frames, queue, log, c.seq, c, crossed)
      /\ FlagsFit(c.buffered) /\ Posted(frames, log, mine)
  BY MadeWaits
<1>3. /\ c.seq = me.seq /\ c.journal = me.journal /\ m \in Mutations /\ m.cid \in mine
      /\ log \in Seq(Mutations) /\ me.seq \in Nat /\ me.seq <= Len(log) /\ queue \in Seq(Sent)
      /\ IsBrowser(me)
  BY DEF Made, Inv, Types, IsBrowser, Browser, Mutations
<1>4. /\ IsView(old) /\ Covered(frames, log, me.seq, crossed) /\ Journalled(me.journal, used.mine)
  BY DEF Attached
<1> HIDE DEF base, q, d, old
<1>5. /\ r.sent \in Seq(Mine) /\ IsBrowser(d) /\ d.seq = me.seq /\ Pumped(c, Acc, r)
      /\ IsView(d.view) /\ Journalled(d.journal, mine) /\ Paced(c.buffered, u, r, upto)
      /\ Ordered(u, d.journal, d.buffered, crossed)
  BY <1>1, <1>3 DEF Pumping, Pumped, Telling, d
<1>6. /\ Expected(m.cid, frames, q, d.buffered)
      /\ \A j \in 1..Len(d.buffered) : d.buffered[j].redraw =>
           /\ j \in 1..Len(me.buffered) /\ me.buffered[j].redraw
           /\ d.buffered[j].mut = me.buffered[j].mut
      /\ \A j \in 1..Len(c.buffered) : c.buffered[j].redraw =>
           /\ j \in 1..Len(me.buffered) /\ c.buffered[j] = me.buffered[j]
  <2> DEFINE y == me
             old_q == queue
             fs == frames
             acc == Acc
  <2>1. Made(y, c, m) /\ IsBrowser(y) /\ Paced(c.buffered, u, r, upto) /\ Pumped(c, acc, r)
        /\ old_q \in Seq(Sent)
    BY <1>3, <1>5
  <2> HIDE DEF y, old_q, fs, acc
  <2>2. SentOrLeft(y, m, c, r, fs, old_q)
    BY ONLY <2>1, MadeSent
  <2> QED BY <2>2 DEF q, d, y, old_q, fs, SentOrLeft
<1>7. \A y \in used.mine : y # m.cid /\ u[y] < u[m.cid]
  BY DEF Later
<1>8. \A p \in 1..Len(d.journal) : d.journal[p].mut.cid \in used.mine
  <2> SUFFICES ASSUME NEW p \in 1..Len(d.journal) PROVE d.journal[p].mut.cid \in used.mine
    OBVIOUS
  <2>1. CASE p \in 1..Len(me.journal)
    <3>1. d.journal[p] = me.journal[p]
      BY <1>1, <1>3, <2>1 DEF Pumping, Telling, d
    <3> QED BY <1>4, <2>1, <3>1 DEF Journalled
  <2>2. CASE \E j \in 1..Len(c.buffered) :
               d.journal[p].mut = c.buffered[j].mut /\ c.buffered[j].redraw
    BY <1>6, <2>2, OwnBuffered
  <2>3. p \in 1..Len(me.journal) \/ \E j \in 1..Len(c.buffered) :
               d.journal[p].mut = c.buffered[j].mut /\ c.buffered[j].redraw
    BY <1>1, <1>3 DEF Pumping, Telling, d
  <2> QED BY <2>1, <2>2, <2>3
<1>9. \A n \in 1..me.seq : log[n].cid # m.cid
  <2> SUFFICES ASSUME NEW n \in 1..me.seq PROVE log[n].cid # m.cid
    OBVIOUS
  <2>1. log[n].cid \in used.mine \/ log[n] \in Theirs \cup Range(Drawn)
    BY <1>3 DEF Inv, Owned
  <2> QED BY <2>1, IdsAssumption
\* What both endings have in common.
<1>10. ASSUME Journalled(e.journal, mine), e.buffered = d.buffered, e.view = d.view,
              e.seq = me.seq, Story(e.view, e.journal, base, s),
              s \subseteq Items, crossed \subseteq s,
              Waits(u, frames, q, log, me.seq, d, s),
              /\ Ordered(u, e.journal, d.buffered, s) /\ Alive(e.journal, frames, q, d.buffered, s)
              /\ Seen(e.journal, log, me.seq, s)
       PROVE  Attached(u, e, log, q, frames, mine, s) /\ e.seq = me.seq /\ s \subseteq Items
  <2>1. Covered(frames, log, me.seq, s)
    BY <1>4, <1>10, CoveredLost
  <2>2. FlagsFit(d.buffered) /\ Sorted(u, frames, q, d.buffered)
    BY <1>10 DEF Waits
  <2> QED BY <1>2, <1>5, <1>10, <2>1, <2>2 DEF Attached, base
<1>11. ASSUME Journalled(e.journal, mine)
       PROVE  /\ s \in SUBSET Items /\ crossed \subseteq s /\ SpreadOver(e.journal, s)
              /\ \A k \in 1..Len(me.buffered) :
                   me.buffered[k].redraw => Meet(me.buffered[k].mut, m) \subseteq s
              /\ (r.broken = TRUE => Draws(m) \subseteq s)
              /\ Waits(u, frames, q, log, me.seq, d, s)
              /\ Ordered(u, d.journal, d.buffered, s)
  <2>1. /\ s \in SUBSET Items /\ crossed \subseteq s /\ SpreadOver(e.journal, s)
        /\ Known(log, r.sent, crossed, s)
        /\ \A k \in 1..Len(me.buffered) :
             me.buffered[k].redraw => Meet(me.buffered[k].mut, m) \subseteq s
        /\ r.broken = TRUE => Draws(m) \subseteq s
    <3>1. PICK sent \in Seq(Mine) : sent = r.sent
      BY <1>5
    <3>2. PICK broken \in BOOLEAN : broken = (r.broken = TRUE)
      OBVIOUS
    <3>3. LostBy(m, r.sent, r.broken) = LostBy(m, sent, broken)
      BY <3>1, <3>2 DEF LostBy
    <3>4. /\ s = Spread(LostBy(m, sent, broken), PendingMuts(e)) /\ Journalled(e.journal, mine)
          /\ Inv /\ crossed \subseteq Items /\ m \in Mine
      BY <1>11, <3>3
    <3>5. Loses(m, sent, broken, e, s)
      BY ONLY <3>4, sent \in Seq(Mine), broken \in BOOLEAN, MadeLoses
    <3> QED BY <3>1, <3>2, <3>5 DEF Loses
  <2>2. Waits(u, frames, q, log, me.seq, d, s)
    <3>1. upto \in 0..Len(c.buffered) /\ Waiting(u, frames, queue, log, me.seq, c, crossed)
      BY <1>2, <1>3
    <3> QED BY <1>1, <2>1, <3>1, PumpMail DEF q, d
  <2> QED BY <1>5, <2>1, <2>2, OrderedMore
<1>12. ASSUME s \in SUBSET Items, crossed \subseteq s, SpreadOver(d.journal, s),
              \A k \in 1..Len(me.buffered) :
                me.buffered[k].redraw => Meet(me.buffered[k].mut, m) \subseteq s
       PROVE  \E w : Story(w, d.journal, base, s) /\ Under(w, d.view, TRUE, m, old, s)
  <2>1. Fits(c.buffered, d.journal, TRUE, m, crossed, s)
    BY <1>6, <1>12 DEF Fits
  <2> QED BY <1>1, <1>12, <2>1 DEF Pumping, Telling, d
<1>13. CASE r.broken = TRUE
  <2>1. e = d
    BY <1>13 DEF d
  <2>2. Journalled(e.journal, mine)
    BY <1>5, <2>1
  <2>3. PICK w : Story(w, d.journal, base, s) /\ Under(w, d.view, TRUE, m, old, s)
    BY <1>11, <1>12, <2>1, <2>2
  <2>4. \A i \in Items \ s : d.view[i] = w[i]
    BY <1>11, <1>13, <2>2, <2>3 DEF Under, Put
  <2>5. Story(d.view, d.journal, base, s)
    BY <2>3, <2>4, StoryShown
  <2>6. Alive(d.journal, frames, q, d.buffered, s) /\ Seen(d.journal, log, me.seq, s)
    BY <1>11, <2>2 DEF Waits
  <2> QED BY <1>5, <1>10, <1>11, <2>1, <2>2, <2>5, <2>6 DEF q
<1>14. CASE r.broken # TRUE
  <2>1. e = Track(d, m, Rollback(old, m))
    BY <1>14 DEF d, old
  <2>2. \A p \in 1..Len(d.journal) : d.journal[p].mut.cid # m.cid
    BY <1>7, <1>8
  <2>3. PICK x : Entered(d, e, x, m, old, mine)
    <3>1. IsBrowser(d) /\ Journalled(d.journal, mine) /\ m \in Mine /\ m.cid \in mine /\ IsView(old)
      BY <1>3, <1>4, <1>5
    <3> QED BY ONLY <2>1, <2>2, <3>1, Entering
  <2>4. /\ e.journal = Append(d.journal, x) /\ EntryFor(d.journal, x, m, old) /\ x.mut = m
        /\ Journalled(e.journal, mine) /\ e.view = d.view /\ e.seq = d.seq
        /\ e.buffered = d.buffered
    BY <2>3 DEF Entered, EntryFor
  <2>8. SpreadOver(d.journal, s)
    <3>1. d.journal \in Seq(Range(d.journal)) /\ SpreadOver(Append(d.journal, x), s)
      BY <1>5, <1>11, <2>4 DEF Journalled
    <3>2. \A p \in 1..Len(d.journal) : /\ p \in 1..Len(Append(d.journal, x))
                                       /\ Append(d.journal, x)[p] = d.journal[p]
      BY <3>1, Appending
    <3> QED BY <3>1, <3>2 DEF SpreadOver
  <2>5. PICK w : Story(w, d.journal, base, s) /\ Under(w, d.view, TRUE, m, old, s)
    BY <1>11, <1>12, <2>4, <2>8
  <2>6. Story(d.view, Append(d.journal, x), base, s)
    <3>1. SpreadOver(Append(d.journal, x), s) /\ (m.op = "copy" => old[m.from] # Nothing)
      BY <1>11, <2>4 DEF old
    <3>2. Journalled(d.journal, mine) /\ m \in Mutations
      BY <1>3, <1>5
    <3>3. PICK j : j = d.journal
      OBVIOUS
    <3>4. /\ Journalled(j, mine) /\ Story(w, j, base, s) /\ Under(w, d.view, TRUE, m, old, s)
          /\ EntryFor(j, x, m, old) /\ SpreadOver(Append(j, x), s)
      BY <2>4, <2>5, <3>1, <3>2, <3>3
    <3>6. Story(d.view, Append(j, x), base, s)
      BY ONLY <3>1, <3>2, <3>4, EnteredStory
    <3> QED BY <3>3, <3>6
  <2>7. /\ Ordered(u, Append(d.journal, x), d.buffered, s)
        /\ Alive(Append(d.journal, x), frames, q, d.buffered, s)
        /\ Seen(Append(d.journal, x), log, me.seq, s)
    <3>1. /\ Ordered(u, d.journal, d.buffered, s)
          /\ Alive(d.journal, frames, q, d.buffered, s) /\ Seen(d.journal, log, me.seq, s)
      BY <1>11, <2>4 DEF Waits
    <3>2. \A p \in 1..Len(d.journal) : u[d.journal[p].mut.cid] < u[m.cid]
      BY <1>7, <1>8
    <3>3. \A k \in 1..Len(d.buffered) : d.buffered[k].redraw =>
            d.buffered[k].mut.cid # m.cid /\ Meet(d.buffered[k].mut, m) \subseteq s
      BY <1>6, <1>7, <1>11, <2>4, OwnBuffered
    <3>4. d.journal \in Seq(Range(d.journal))
      BY <1>5 DEF Journalled
    <3>5. LastOf(u, d.journal, d.buffered, s, m) /\ x.mut = m
      BY <2>4, <3>2, <3>3 DEF LastOf
    <3>6. PICK lg : lg = log
      OBVIOUS
    <3>7. PICK fs : fs = frames
      OBVIOUS
    <3>8. PICK j : j = d.journal
      OBVIOUS
    <3>9. PICK b : b = d.buffered
      OBVIOUS
    <3>10. PICK seq : seq = me.seq
      OBVIOUS
    <3>11. /\ Ordered(u, j, b, s) /\ Alive(j, fs, q, b, s) /\ Seen(j, lg, seq, s)
           /\ LastOf(u, j, b, s, m) /\ x.mut = m /\ j \in Seq(Range(j))
           /\ Expected(m.cid, fs, q, b) /\ \A n \in 1..seq : lg[n].cid # m.cid
      BY <1>6, <1>9, <3>1, <3>4, <3>5, <3>6, <3>7, <3>8, <3>9, <3>10
    <3>12. /\ Ordered(u, Append(j, x), b, s) /\ Alive(Append(j, x), fs, q, b, s)
           /\ Seen(Append(j, x), lg, seq, s)
      BY ONLY <3>11, EnteredLast
    <3> QED BY <3>6, <3>7, <3>8, <3>9, <3>10, <3>12
  <2> QED BY <1>5, <1>10, <1>11, <2>4, <2>6, <2>7 DEF q
<1> QED BY <1>13, <1>14

LEMMA DrawAndSendShows ==
  ASSUME Inv, Screen, NEW m \in Mine, DrawAndSend(m)
  PROVE  Screen'
<1>1. /\ m.cid \notin used.mine /\ Writable(me) /\ (m.op = "copy" => me.view[m.from] # Nothing)
      /\ used'.mine = used.mine \cup {m.cid} /\ UNCHANGED << log, frames, open >>
  BY DEF DrawAndSend, Offered, Inv, Types
<1>2. PICK c : c = [me EXCEPT !.view = Draw(@, m),
                              !.buffered = Append(@, [mut |-> m, state |-> "queued",
                                                      redraw |-> FALSE])]
  OBVIOUS
<1>3. PICK upto \in 0..Len(me.buffered) + 1 :
        /\ me' = IF Pump(c, upto).broken THEN Pump(c, upto).client
                 ELSE Track(Pump(c, upto).client, m, Rollback(me.view, m))
        /\ Emitted(Pump(c, upto).sent)
        /\ crossed' = Spread(Repeated(Pump(c, upto).sent) \cup Overdrawn(m)
                              \cup (IF Pump(c, upto).broken THEN Draws(m) ELSE {}),
                             PendingMuts(me'))
  BY <1>2 DEF DrawAndSend
<1>4. PICK r : r = Pump(c, upto)
  OBVIOUS
<1>5. PICK e : e = me'
  OBVIOUS
<1>6. PICK s : s = crossed'
  OBVIOUS
<1>7. PICK mine : mine = used.mine \cup {m.cid}
  OBVIOUS
<1>8. /\ e = IF r.broken = TRUE THEN r.client ELSE Track(r.client, m, Rollback(me.view, m))
      /\ Emitted(r.sent) /\ s = Spread(LostBy(m, r.sent, r.broken), PendingMuts(e))
  BY <1>3, <1>4, <1>5, <1>6 DEF LostBy
<1>9. Made(me, c, m)
  BY <1>2, MadeIs DEF Inv, Types
<1>10. upto \in 0..Len(c.buffered) /\ Pumped(c, Acc, r)
  <2>1. me.buffered \in Seq(Write)
    BY DEF Inv, Types, IsBrowser, Browser
  <2>2. Len(c.buffered) = Len(me.buffered) + 1
    BY <1>9, <2>1, Appending DEF Made
  <2>3. IsBrowser(c) /\ Closed(c.journal, Acc)
    BY <1>9 DEF Made, Inv
  <2> QED BY <1>4, <2>2, <2>3, PumpIs
<1>11. /\ e.link = "live" /\ ~e.paused
       /\ e.buffered = r.client.buffered
  <2> DEFINE undo == Rollback(me.view, m)
             acc == Acc
  <2>1. (e = r.client \/ e = Track(r.client, m, undo)) /\ Pumped(c, acc, r)
    BY <1>8, <1>10
  <2> HIDE DEF undo, acc
  <2>2. e.link = c.link /\ e.paused = c.paused /\ e.buffered = r.client.buffered
    <3>1. PICK d : d = r.client
      OBVIOUS
    <3>2. /\ IsBrowser(d) /\ Closed(d.journal, acc) /\ d.link = c.link /\ d.paused = c.paused
          /\ e = d \/ e = Track(d, m, undo)
      BY <2>1, <3>1 DEF Pumped
    <3>3. e = Track(d, m, undo) =>
            e.link = d.link /\ e.paused = d.paused /\ e.buffered = d.buffered
      BY ONLY <3>2, Tracked
    <3> QED BY <3>1, <3>2, <3>3
  <2> QED BY <1>1, <1>9, <2>2 DEF Made, Writable
<1>12. PICK t \in Turns, N \in Nat :
         /\ Numbered(t, N, me, used.mine)
         /\ open => Attached(t, me, log, queue, frames, used.mine, crossed)
  BY DEF Screen
<1>13. PICK u : Later(t, u, used.mine, m.cid, N)
  <2>1. used.mine \in SUBSET Ids /\ m.cid \in Ids
    BY DEF Inv, Types, Ids, Mutations
  <2> QED BY <1>1, <1>12, <2>1, LaterIs DEF Numbered
<1>14. Numbered(u, N + 1, e, mine)
  <2>1. \A y \in mine : u[y] < N + 1
    BY <1>7, <1>13 DEF Later
  <2>2. PICK b \in Seq(Write) : b = me.buffered
    BY DEF Inv, Types, IsBrowser, Browser
  <2>3. BufferSorted(u, c.buffered)
    <3>1. PICK n \in Nat : n = Len(b)
      OBVIOUS
    <3>2. PICK a : a = c.buffered
      OBVIOUS
    <3>3. PICK w : a = Append(b, w) /\ w.mut = m
      BY <1>9, <2>2, <3>2 DEF Made
    <3>4. /\ Len(a) = n + 1 /\ a[n + 1] = w /\ \A k \in 1..n : a[k] = b[k]
          /\ \A k \in 1..(n + 1) : k \in 1..n \/ k = n + 1
      BY <3>1, <3>3, Appending
    <3>5. \A k \in 1..n : b[k].mut.cid \in used.mine
      BY <2>2, <3>1, OwnBuffered
    <3>6. \A k, l \in 1..n : k < l => t[b[k].mut.cid] < t[b[l].mut.cid]
      BY <1>12, <2>2, <3>1 DEF Numbered, BufferSorted
    <3>7. \A y \in used.mine : u[y] = t[y] /\ u[y] < u[m.cid]
      BY <1>13 DEF Later
    <3>8. \A k, l \in 1..(n + 1) : k < l => u[a[k].mut.cid] < u[a[l].mut.cid]
      <4> SUFFICES ASSUME NEW k \in 1..(n + 1), NEW l \in 1..(n + 1), k < l
                   PROVE  u[a[k].mut.cid] < u[a[l].mut.cid]
        OBVIOUS
      <4>1. k \in 1..n
        BY <3>4
      <4>2. CASE l \in 1..n
        BY <3>4, <3>5, <3>6, <3>7, <4>1, <4>2
      <4>3. CASE l = n + 1
        BY <3>3, <3>4, <3>5, <3>7, <4>1, <4>3
      <4> QED BY <3>4, <4>2, <4>3
    <3> QED BY <3>2, <3>4, <3>8 DEF BufferSorted
  <2>4. /\ Len(e.buffered) = Len(c.buffered)
        /\ \A k \in 1..Len(c.buffered) : e.buffered[k].mut = c.buffered[k].mut
    BY <1>10, <1>11 DEF Pumped
  <2>5. BufferSorted(u, e.buffered)
    <3>1. PICK a : a = c.buffered
      OBVIOUS
    <3>2. PICK b2 : b2 = e.buffered
      OBVIOUS
    <3>3. PICK n : n = Len(a)
      OBVIOUS
    <3>4. Len(b2) = n /\ \A k \in 1..n : b2[k].mut = a[k].mut
      BY <2>4, <3>1, <3>2, <3>3
    <3>5. \A k, l \in 1..n : k < l => u[a[k].mut.cid] < u[a[l].mut.cid]
      BY <2>3, <3>1, <3>3 DEF BufferSorted
    <3>6. \A k, l \in 1..n : k < l => u[b2[k].mut.cid] < u[b2[l].mut.cid]
      BY ONLY <3>4, <3>5
    <3> QED BY <3>2, <3>4, <3>6 DEF BufferSorted
  <2> QED BY <2>1, <2>5 DEF Numbered
<1>15. ASSUME open PROVE Attached(u, e, log, Gone(queue, r.sent), frames, mine, s)
  <2>1. Attached(t, me, log, queue, frames, used.mine, crossed) /\ BufferSorted(t, me.buffered)
    BY <1>12, <1>15 DEF Numbered
  <2>2. crossed \subseteq Items
    BY DEF Screen
  <2> QED BY <1>1, <1>4, <1>7, <1>8, <1>9, <1>10, <1>12, <1>13, <2>1, <2>2, MadeAttached
<1>16. s \subseteq Items
  BY <1>8 DEF Spread
<1>17. open => queue' = Gone(queue, r.sent)
  BY <1>8 DEF Emitted, Gone
<1>18. Preserved(e) /\ Detached(e, log', s) /\ BatchFirst(e, frames') /\ Legit(log')
  BY <1>1, <1>11 DEF Preserved, Detached, BatchFirst, Screen
<1>19. /\ Preserved(me') /\ Detached(me', log', crossed') /\ BatchFirst(me', frames') /\ Legit(log')
       /\ crossed' \subseteq Items /\ Numbered(u, N + 1, me', used'.mine)
       /\ open' => Attached(u, me', log', queue', frames', used'.mine, crossed')
  BY <1>1, <1>5, <1>6, <1>7, <1>14, <1>15, <1>16, <1>17, <1>18
<1>20. u \in Turns /\ N + 1 \in Nat
  BY <1>13 DEF Later
<1> QED BY <1>19, <1>20 DEF Screen

LEMMA ScreenInit == Init => Screen
<1> SUFFICES ASSUME Init PROVE Screen
  OBVIOUS
<1>1. log = Drawn /\ Drawn \in Seq(Mutations) /\ Len(Drawn) \in Nat
  BY IdsAssumption DEF Init, Mutations
<1> DEFINE v == Board(Len(Drawn))
<1>2. me = [view |-> v, seq |-> Len(Drawn), journal |-> << >>,
            buffered |-> << >>, link |-> "live", paused |-> FALSE]
  BY DEF Init
<1>3. v = After(log, Len(Drawn)) /\ IsView(v)
  BY <1>1, AfterView DEF Board
<1> HIDE DEF v
<1>4. /\ me.view = After(log, me.seq) /\ IsView(me.view) /\ me.journal = << >>
      /\ me.seq = Len(log) /\ me.buffered = << >> /\ me.link = "live" /\ ~me.paused
  BY <1>1, <1>2, <1>3
<1>5. queue = << >> /\ frames = << >> /\ used.mine = {} /\ crossed = {}
  BY DEF Init
<1>6. Legit(log)
  <2>1. DOMAIN Drawn = 1..Len(Drawn)
    BY <1>1
  <2> QED BY <1>1, <2>1, DrawnAssumption DEF Legit
<1> DEFINE t == [x \in Ids |-> 0]
<1>7. t \in Turns
  BY DEF Turns
<1> HIDE DEF t
<1>8. Numbered(t, 0, me, used.mine)
  BY <1>4, <1>5 DEF Numbered, BufferSorted
<1>9. Attached(t, me, log, queue, frames, used.mine, crossed)
  <2>1. Sorted(t, frames, queue, me.buffered) /\ FlagsFit(me.buffered)
    BY <1>4, <1>5 DEF Sorted, FlagsFit
  <2>2. Posted(frames, log, used.mine)
    BY <1>5 DEF Posted
  <2>3. Covered(frames, log, me.seq, crossed)
    BY <1>1, <1>4, <1>5 DEF Covered
  <2>4. /\ Story(me.view, me.journal, After(log, me.seq), crossed)
        /\ Journalled(me.journal, used.mine) /\ Ordered(t, me.journal, me.buffered, crossed)
        /\ Alive(me.journal, frames, queue, me.buffered, crossed)
        /\ Seen(me.journal, log, me.seq, crossed)
    BY <1>4, EmptyStory
  <2> QED BY <1>4, <2>1, <2>2, <2>3, <2>4 DEF Attached
<1>10. Preserved(me) /\ Detached(me, log, crossed) /\ BatchFirst(me, frames)
  BY <1>4 DEF Preserved, Detached, BatchFirst
<1> QED BY <1>5, <1>6, <1>7, <1>8, <1>9, <1>10 DEF Screen

LEMMA ScreenNext == Inv /\ Screen /\ [Next]_vars => Screen'
<1> SUFFICES ASSUME Inv, Screen, [Next]_vars PROVE Screen'
  OBVIOUS
<1>1. ASSUME NEW m \in Mine, DrawAndSend(m) PROVE Screen'
  BY <1>1, DrawAndSendShows
<1>2. CASE Flush
  BY <1>2, FlushShows
<1>3. CASE EndPause
  BY <1>3, EndPauseShows
<1>4. CASE FetchBaseline
  BY <1>4, FetchShows
<1>5. CASE Join
  BY <1>5, JoinShows
<1>6. CASE JoinRefused
  BY <1>6, JoinRefusedShows
<1>7. CASE Deliver
  BY <1>7, DeliverMutationShows, DeliverRejectionShows, DeliverRateLimitShows,
     DeliverCloseShows, DeliverBatchShows DEF Deliver
<1>8. CASE Accept
  BY <1>8, AcceptShows
<1>9. CASE Refuse
  BY <1>9, RefuseShows
<1>10. CASE RateLimit
  BY <1>10, RateLimitShows
<1>11. CASE LoseConnection
  BY <1>11, LoseConnectionShows
<1>12. ASSUME NEW m \in Theirs, AcceptTheirs(m) PROVE Screen'
  BY <1>12, AcceptTheirsShows
<1>13. CASE UNCHANGED vars
  BY <1>13 DEF vars, Screen
<1> QED BY <1>1, <1>2, <1>3, <1>4, <1>5, <1>6, <1>7, <1>8, <1>9, <1>10, <1>11, <1>12, <1>13
        DEF Next

LEMMA ScreenHolds == Spec => [](Inv /\ Screen)
<1>1. Init => Inv /\ Screen
  BY InvInit, ScreenInit
<1>2. Inv /\ Screen /\ [Next]_vars => (Inv /\ Screen)'
  BY InvNext, ScreenNext
<1> QED BY <1>1, <1>2, PTL DEF Spec

\* Whatever the users do, whatever the server turns down or holds back and however often
\* the connection breaks: once a browser has no write pending and nothing is under way, its
\* screen is the server's board on every item but those on which the order of two writers
\* was lost since the last baseline or clear (applyRejectedEntries, handleMessage).
THEOREM ScreenAgrees == Spec => []ViewAgrees
<1>1. Inv /\ Screen => ViewAgrees
  <2> SUFFICES ASSUME Inv, Screen, Settled, NEW i \in Items \ crossed
               PROVE  me.view[i] = Board(Len(log))[i]
    BY DEF ViewAgrees
  <2>1. me.link = "live" /\ EntryIds(me) = {} /\ frames = << >>
    BY DEF Settled, Pending
  <2>2. log \in Seq(Mutations) /\ me.seq \in Nat /\ me.seq <= Len(log)
    BY DEF Inv, Types, IsBrowser, Browser
  <2>3. open
    BY <2>1 DEF Inv, Mail
  <2>4. PICK t \in Turns : Attached(t, me, log, queue, frames, used.mine, crossed)
    BY <2>3 DEF Screen
  <2>5. me.journal = << >>
    <3>1. me.journal \in Seq(Range(me.journal)) /\ DOMAIN me.journal = {}
      BY <2>1, <2>4 DEF Attached, Journalled, EntryIds
    <3> QED BY <3>1
  <2>6. me.view[i] = After(log, me.seq)[i]
    <3>1. PICK a : Told(a, me.view, me.journal, After(log, me.seq), crossed, {})
      BY <2>4 DEF Attached, Story
    <3>2. Len(me.journal) + 1 = 1
      BY <2>5
    <3> QED BY <3>1, <3>2 DEF Told
  <2>7. PICK n \in Nat : n = Len(log)
    BY <2>2
  <2>8. n = me.seq \/ (n = me.seq + 1 /\ Draws(log[n]) \subseteq crossed)
    <3>1. \A s \in (me.seq + 1)..n : s = me.seq + 1 /\ Draws(log[s]) \subseteq crossed
      BY <2>1, <2>4, <2>7 DEF Attached, Covered
    <3> QED BY <2>2, <2>7, <3>1
  <2>9. CASE n = me.seq
    BY <2>6, <2>7, <2>9 DEF Board
  <2>10. CASE n = me.seq + 1 /\ Draws(log[n]) \subseteq crossed
    <3>1. After(log, n) = Draw(After(log, me.seq), log[n])
      BY <2>2, <2>10, AfterIs
    <3>2. IsView(After(log, me.seq))
      BY <2>2, AfterView
    <3>3. Draw(After(log, me.seq), log[n])[i] = Put(After(log, me.seq), log[n], i)
      BY <3>2, DrawIs
    <3>4. Put(After(log, me.seq), log[n], i) = After(log, me.seq)[i]
      BY <2>10 DEF Put
    <3> QED BY <2>6, <2>7, <3>1, <3>3, <3>4 DEF Board
  <2> QED BY <2>8, <2>9, <2>10
<1> QED BY <1>1, ScreenHolds, PTL
=============================================================================
