---------------------------- MODULE BoardContent ----------------------------
(***************************************************************************)
(* The authoritative mutation engine of a board (server/board/data.mjs and *)
(* server/board/message_processing.mjs) as pure operators.                 *)
(*                                                                         *)
(* A board's content is its items in paint order, deleted ones included    *)
(* until a save has dropped them, and the cursor up to which the overflow  *)
(* trim has looked for victims.  An item keeps what the engine's decisions *)
(* depend on: its id, whether it is still the zero-extent seed its         *)
(* creation drew, and how many child points were appended to it.  Colours, *)
(* coordinates and text are left out.                                      *)
(***************************************************************************)
EXTENDS Integers, Sequences, FiniteSets

CONSTANTS
  Items,          \* item ids
  ClientIds,      \* clientMutationId values
  NoClientId,     \* what a server-made follow-up mutation carries instead
  MaxItems,       \* board.maxItemCount: live items before the oldest go
  MaxChildren     \* board.maxChildren: child points an item may hold

ASSUME BoundsAssumption ==
  /\ MaxItems \in Nat \ {0}
  /\ MaxChildren \in Nat
  /\ NoClientId \notin ClientIds

Ops == {"create", "update", "oversize", "copy", "append", "delete", "clear"}

\* `id' names the item written, `from' the item a copy is taken from.
Mutation == [cid : ClientIds \cup {NoClientId}, op : Ops, id : Items, from : Items]

\* A deleted item is "captured" while it is the very object a save under way
\* has captured; any later write of it makes another object of it.
Item    == [id : Items, state : {"live", "deleted", "captured"},
            seed : BOOLEAN, kids : 0..MaxChildren]
Content == {c \in [order : Seq(Item), cursor : Nat] : c.cursor <= Len(c.order)}
Empty   == [order |-> << >>, cursor |-> 0]

-----------------------------------------------------------------------------
(* Places in the paint order.                                               *)

Rank(places, i) == Cardinality({j \in places : j <= i})
Nth(places, r)  == CHOOSE i \in places : Rank(places, i) = r

\* The items at some places, in paint order.
ItemsAt(order, places) == [r \in 1..Cardinality(places) |-> order[Nth(places, r)]]

Known(c, x) == \E i \in DOMAIN c.order : c.order[i].id = x
At(c, x)    == CHOOSE i \in DOMAIN c.order : c.order[i].id = x
Held(c, x)  == c.order[At(c, x)]

\* getCanonicalItem finds live items only.
Has(c, x) == Known(c, x) /\ Held(c, x).state = "live"

LivePlaces(c) == {i \in DOMAIN c.order : c.order[i].state = "live"}
LiveCount(c)  == Cardinality(LivePlaces(c))

-----------------------------------------------------------------------------
(* Writing.                                                                 *)

Seed(x)    == [id |-> x, state |-> "live", seed |-> TRUE, kids |-> 0]
Deleted(x) == [id |-> x, state |-> "deleted", seed |-> FALSE, kids |-> 0]

\* upsertItem: a known id, a deleted one included, is overwritten in its place,
\* a new one is painted last.
Upsert(c, item) ==
  IF Known(c, item.id) THEN [c EXCEPT !.order = [@ EXCEPT ![At(c, item.id)] = item]]
                       ELSE [c EXCEPT !.order = Append(@, item)]

\* removeCanonicalItem leaves an item it has deleted before as it is.
Without(c, x) == IF Has(c, x) THEN Upsert(c, Deleted(x)) ELSE c

\* clear deletes every item anew and takes the trim cursor to the end.
Cleared(c) == [order  |-> [i \in DOMAIN c.order |-> Deleted(c.order[i].id)],
               cursor |-> Len(c.order)]

EraserDelete(x) == [cid |-> NoClientId, op |-> "delete", id |-> x, from |-> x]

\* Mutant of Excess: one item too many is tolerated.
ToleratesOne(c) == IF LiveCount(c) > MaxItems + 1 THEN LiveCount(c) - MaxItems ELSE 0

\* trimOverflowItems: as many of the oldest live items as are too many go, each
\* one a follow-up delete of its own.  The cursor only moves on: what it has
\* passed is not looked at again.
Excess(c)  == IF LiveCount(c) > MaxItems THEN LiveCount(c) - MaxItems ELSE 0
Ahead(c)   == {i \in LivePlaces(c) : i > c.cursor}
Victims(c) == {i \in Ahead(c) : Rank(Ahead(c), i) <= Excess(c)}

Stop(c) ==
  IF Excess(c) = 0 THEN c.cursor
  ELSE IF Cardinality(Ahead(c)) < Excess(c) THEN Len(c.order)
  ELSE Nth(Ahead(c), Excess(c))

Trimmed(c) ==
  [order  |-> [i \in DOMAIN c.order |->
                IF i \in Victims(c) THEN Deleted(c.order[i].id) ELSE c.order[i]],
   cursor |-> Stop(c)]

TrimFollowup(c) ==
  LET gone == ItemsAt(c.order, Victims(c)) IN [r \in DOMAIN gone |-> EraserDelete(gone[r].id)]

-----------------------------------------------------------------------------
(* Processing a mutation.                                                   *)

\* The checks each engine operation makes before it touches the board.
Applicable(c, m) ==
  \/ m.op \in {"create", "delete", "clear"}
  \/ m.op = "update" /\ Has(c, m.id)
  \/ m.op = "copy"   /\ Has(c, m.from)
  \/ m.op = "append" /\ Has(c, m.id) /\ Held(c, m.id).kids < MaxChildren

\* The content after an applicable mutation, before overflow is trimmed.
Applied(c, m) ==
  CASE m.op = "create" -> Upsert(c, Seed(m.id))
    [] m.op = "update" -> Upsert(c, [Held(c, m.id) EXCEPT !.seed = FALSE])
    [] m.op = "copy"   -> Upsert(c, [Held(c, m.from) EXCEPT !.id = m.id])
    [] m.op = "append" -> Upsert(c, [Held(c, m.id) EXCEPT !.seed = FALSE, !.kids = @ + 1])
    [] m.op = "delete" -> Without(c, m.id)
    [] m.op = "clear"  -> Cleared(c)

\* A rejected update that is too large for a shape still being drawn takes the
\* shape's seed with it (shouldDropSeedShapeOnRejectedUpdate).
DropsSeed(c, m) == m.op = "oversize" /\ Has(c, m.id) /\ Held(c, m.id).seed

Outcome(ok, c, followup) == [ok |-> ok, content |-> c, followup |-> followup]

\* processMessage: the verdict, the content and the follow-up mutations.  What a
\* rejected mutation's drop trims has no follow-up.
Process(c, m) ==
  IF Applicable(c, m)
  THEN LET next == Applied(c, m) IN Outcome(TRUE, Trimmed(next), TrimFollowup(next))
  ELSE IF DropsSeed(c, m)
  THEN Outcome(FALSE, Trimmed(Without(c, m.id)), << EraserDelete(m.id) >>)
  ELSE Outcome(FALSE, c, << >>)

-----------------------------------------------------------------------------
(* What a save does to the content in memory.                               *)

\* The items a save stores, and the content a load makes of them.
Stored(c)     == ItemsAt(c.order, LivePlaces(c))
Loaded(items) == [order |-> items, cursor |-> 0]

\* Dropping places from the order sends the trim cursor back to the start.
Dropped(c, places) ==
  IF places = {} THEN c ELSE Loaded(ItemsAt(c.order, DOMAIN c.order \ places))

\* clean: an overflow the last commit could not reach is dropped unrecorded.
Cleaned(c) ==
  IF Victims(c) = {} THEN [c EXCEPT !.cursor = Stop(c)] ELSE Dropped(c, Victims(c))

\* The save holds on to the objects of its moment ...
Captured(c) ==
  [c EXCEPT !.order = [i \in DOMAIN @ |->
     IF @[i].state = "deleted" THEN [@[i] EXCEPT !.state = "captured"] ELSE @[i]]]

\* ... and when it is done the deleted ones among them are forgotten
\* (finalizePersistedCanonicalItems).
Finalized(c) == Dropped(c, {i \in DOMAIN c.order : c.order[i].state = "captured"})
=============================================================================
