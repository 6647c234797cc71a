----------------------------- MODULE LedgerFile -----------------------------
(***************************************************************************)
(* The bytes of one board's mutation ledger file, as the file adapter of   *)
(* server/hosted_event/ledger/store.mjs writes, repairs and reads them.    *)
(*                                                                         *)
(* A file is its lines and whether the last of them ends with a newline.   *)
(* A line is a ledger entry, Torn (bytes that do not parse as one) or      *)
(* Blank (no bytes at all).                                                *)
(***************************************************************************)
EXTENDS Integers, Sequences

CONSTANTS
  Mutation,     \* what an entry records
  Torn,         \* an unparsable line
  Blank         \* an empty line

Entry == [seq : Nat, mut : Mutation]
Line  == Entry \cup {Torn, Blank}
File  == {f \in [lines : Seq(Line), terminated : BOOLEAN] : f.lines = << >> => f.terminated}

IsEntry(line) == line \notin {Torn, Blank}

EmptyFile == [lines |-> << >>, terminated |-> TRUE]

LastLine(f) == f.lines[Len(f.lines)]

-----------------------------------------------------------------------------
(* Writing.  `whole' is how many entries of the batch reach the file entire *)
(* and `end' how the bytes stop: after a newline, just before one, or in    *)
(* the middle of the next entry.                                            *)

Ends == {"newline", "open", "torn"}

\* Whether a write of the batch can stop there.
CanEnd(batch, whole, end) ==
  /\ whole \in 0..Len(batch)
  /\ end = "open" => whole > 0
  /\ end = "torn" => whole < Len(batch)

\* The lines the bytes written would be at the start of a fresh line.
Landed(batch, whole, end) ==
  SubSeq(batch, 1, whole) \o (IF end = "torn" THEN << Torn >> ELSE << >>)

\* Bytes appended to an unterminated file run into its last line, and the two
\* together parse as nothing.
Glue(lines, landed) ==
  SubSeq(lines, 1, Len(lines) - 1) \o << Torn >> \o SubSeq(landed, 2, Len(landed))

Write(f, batch, whole, end) ==
  LET landed == Landed(batch, whole, end) IN
  IF landed = << >> THEN f
  ELSE [ lines      |-> IF f.terminated THEN f.lines \o landed ELSE Glue(f.lines, landed),
         terminated |-> end = "newline" ]

WriteAll(f, batch) == Write(f, batch, Len(batch), "newline")

-----------------------------------------------------------------------------
(* The append boundary: what the first append of an adapter finds and does. *)

Clean      == [do |-> "nothing", keep |-> 0]
SealLine   == [do |-> "newline", keep |-> 0]
CutTo(n)   == [do |-> "truncate", keep |-> n]
RepairPlan == [do : {"nothing", "newline", "truncate"}, keep : Nat]

\* Mutants of PlanFor: no adapter looks at the boundary, or it cuts an
\* unterminated line off whether it parses or not.
NeverRepairs(f) == Clean
CutsOpenLine(f) == IF f.terminated THEN Clean ELSE CutTo(Len(f.lines) - 1)

\* The decision of repairAppendBoundary, taken from the content it read.
PlanFor(f) ==
  IF f.terminated THEN Clean
  ELSE IF IsEntry(LastLine(f)) THEN SealLine
  ELSE CutTo(Len(f.lines) - 1)

\* What the plan does to the file when it comes to act.  A newline after a
\* newline leaves an empty line behind, which no read accepts; truncate is to
\* a byte length, so lines that arrived since the read go too.
Repair(f, plan) ==
  CASE plan.do = "nothing"  -> f
    [] plan.do = "newline"  ->
         IF f.terminated THEN [f EXCEPT !.lines = Append(@, Blank)]
                         ELSE [f EXCEPT !.terminated = TRUE]
    [] plan.do = "truncate" ->
         IF plan.keep < Len(f.lines)
         THEN [lines |-> SubSeq(f.lines, 1, plan.keep), terminated |-> TRUE]
         ELSE f

-----------------------------------------------------------------------------
(* Reading.                                                                 *)

\* A line that does not parse is forgiven in the last place, an empty one never.
Readable(f) ==
  \A i \in DOMAIN f.lines : \/ IsEntry(f.lines[i])
                            \/ f.lines[i] = Torn /\ i = Len(f.lines)

\* readEntriesAfter: the entries newer than a sequence, each with its place.
EntriesAfter(f, floor) ==
  {[at |-> i, entry |-> f.lines[i]] :
     i \in {j \in DOMAIN f.lines : IsEntry(f.lines[j]) /\ f.lines[j].seq > floor}}

\* The entries come back sorted by sequence, equal ones in file order.
ReadsBefore(p, q) ==
  p.entry.seq < q.entry.seq \/ (p.entry.seq = q.entry.seq /\ p.at <= q.at)

\* Each entry of one file is where it was in another.
Keeps(f, g) ==
  \A i \in DOMAIN f.lines :
    IsEntry(f.lines[i]) => i \in DOMAIN g.lines /\ g.lines[i] = f.lines[i]

\* Everything a reader of the file can get out of it.
Recorded(f) ==
  IF Readable(f)
  THEN {f.lines[i].mut : i \in {j \in DOMAIN f.lines : IsEntry(f.lines[j])}}
  ELSE {}
=============================================================================
