------------------------- MODULE DurableBoardProofs -------------------------
(***************************************************************************)
(* Theorems about DurableBoard, for every value of its constants: any      *)
(* number of instances, mutations, crashes, faults and retries.            *)
(***************************************************************************)
EXTENDS DurableBoard, FiniteSetTheorems, SequenceTheorems, WellFoundedInduction, TLAPS

-----------------------------------------------------------------------------
(* What the board engine preserves, for every board and every mutation.     *)
-----------------------------------------------------------------------------
(* Places.                                                                  *)

\* The rank of a place counts it and grows with it.
LEMMA Ranks ==
  ASSUME NEW n \in Nat, NEW places \in SUBSET (1..n)
  PROVE  /\ IsFiniteSet(places)
         /\ Cardinality(places) \in Nat
         /\ \A i \in places : Rank(places, i) \in 1..Cardinality(places)
         /\ \A i, j \in places : i < j => Rank(places, i) < Rank(places, j)
<1> DEFINE UpTo(i) == {j \in places : j <= i}
<1> places \in SUBSET Int
  OBVIOUS
<1>1. IsFiniteSet(places) /\ Cardinality(places) \in Nat
  <2>1. IsFiniteSet(1..n)
    BY FS_Interval
  <2>2. IsFiniteSet(places)
    BY <2>1, FS_Subset
  <2> QED BY <2>2, FS_CardinalityType
<1>2. ASSUME NEW i \in places
      PROVE  /\ IsFiniteSet(UpTo(i))
             /\ Rank(places, i) = Cardinality(UpTo(i))
             /\ Rank(places, i) \in 1..Cardinality(places)
  <2>1. UpTo(i) \in SUBSET places /\ i \in UpTo(i)
    OBVIOUS
  <2>2. /\ IsFiniteSet(UpTo(i)) /\ Cardinality(UpTo(i)) <= Cardinality(places)
        /\ Cardinality(UpTo(i)) \in Nat
    BY <1>1, <2>1, FS_Subset, FS_CardinalityType
  <2>3. Cardinality(UpTo(i)) # 0
    BY <2>1, <2>2, FS_EmptySet
  <2>4. Rank(places, i) = Cardinality(UpTo(i))
    BY DEF Rank
  <2> QED BY <1>1, <2>2, <2>3, <2>4
<1>3. ASSUME NEW i \in places, NEW j \in places, i < j
      PROVE  Rank(places, i) < Rank(places, j)
  <2>1. UpTo(i) \in SUBSET UpTo(j) /\ j \in UpTo(j) /\ j \notin UpTo(i)
    <3>1. i \in Int /\ j \in Int
      OBVIOUS
    <3>2. ASSUME NEW k \in UpTo(i) PROVE k \in UpTo(j)
      <4>1. k \in places /\ k \in Int /\ k <= i
        OBVIOUS
      <4>2. k <= j
        BY <1>3, <3>1, <4>1
      <4> QED BY <4>1, <4>2
    <3>3. j \in UpTo(j)
      BY <3>1
    <3>4. j \notin UpTo(i)
      BY <1>3, <3>1
    <3> QED BY <3>2, <3>3, <3>4
  <2>2. Cardinality(UpTo(i)) <= Cardinality(UpTo(j))
    BY <1>2, <2>1, FS_Subset
  <2>3. Cardinality(UpTo(i)) # Cardinality(UpTo(j))
    BY <1>2, <2>1, FS_Subset
  <2>4. Cardinality(UpTo(i)) \in Nat /\ Cardinality(UpTo(j)) \in Nat
    BY <1>2, FS_CardinalityType
  <2> QED BY <1>2, <2>2, <2>3, <2>4
<1> QED BY <1>1, <1>2, <1>3

\* There is a place of every rank.
LEMMA NthIs ==
  ASSUME NEW n \in Nat, NEW places \in SUBSET (1..n), NEW r \in 1..Cardinality(places)
  PROVE  Nth(places, r) \in places /\ Rank(places, Nth(places, r)) = r
<1> DEFINE k == Cardinality(places)
           f == [i \in places |-> Rank(places, i)]
<1>1. /\ IsFiniteSet(places) /\ k \in Nat
      /\ \A i \in places : f[i] \in 1..k
      /\ \A i, j \in places : i < j => f[i] < f[j]
  BY Ranks
<1>2. f \in Injection(places, 1..k)
  <2>1. \A i, j \in places : f[i] = f[j] => i = j
    <3> SUFFICES ASSUME NEW i \in places, NEW j \in places, i # j PROVE f[i] # f[j]
      OBVIOUS
    <3>1. i < j \/ j < i
      OBVIOUS
    <3>2. f[i] \in Int /\ f[j] \in Int
      BY <1>1
    <3> HIDE DEF f
    <3> QED BY <1>1, <3>1, <3>2
  <2>2. f \in [places -> 1..k]
    BY <1>1
  <2> HIDE DEF f, k
  <2> QED BY <2>1, <2>2 DEF Injection, IsInjective
<1>3. IsFiniteSet(1..k) /\ Cardinality(1..k) = k
  BY <1>1, FS_Interval
<1>4. f \in Surjection(places, 1..k)
  BY <1>2, <1>3, FS_Injection
<1>5. \E i \in places : f[i] = r
  BY <1>4 DEF Surjection
<1>6. \E i \in places : Rank(places, i) = r
  BY <1>5
<1> QED BY <1>6 DEF Nth

\* The items at some places are as many items.
LEMMA ItemsAtType ==
  ASSUME NEW order \in Seq(Item), NEW places \in SUBSET (DOMAIN order)
  PROVE  /\ ItemsAt(order, places) \in Seq(Item)
         /\ Len(ItemsAt(order, places)) = Cardinality(places)
<1>1. DOMAIN order = 1..Len(order) /\ Len(order) \in Nat
  OBVIOUS
<1>2. Cardinality(places) \in Nat
  BY <1>1, Ranks
<1>3. ASSUME NEW r \in 1..Cardinality(places) PROVE order[Nth(places, r)] \in Item
  <2>1. Nth(places, r) \in places
    BY <1>1, NthIs
  <2> QED BY <2>1
<1> QED BY <1>2, <1>3 DEF ItemsAt

-----------------------------------------------------------------------------
(* Types.                                                                   *)

\* The place of an item the board knows.
LEMMA AtPlace ==
  ASSUME NEW c \in Content, NEW x, Known(c, x)
  PROVE  /\ At(c, x) \in 1..Len(c.order)
         /\ Held(c, x) \in Item
         /\ Held(c, x).id = x
BY DEF Content, Known, At, Held

\* A board is an order and a cursor within it.
LEMMA ContentIs ==
  ASSUME NEW order \in Seq(Item), NEW cursor \in 0..Len(order)
  PROVE  [order |-> order, cursor |-> cursor] \in Content
BY DEF Content

\* The items each operation writes are items.
LEMMA ItemTypes ==
  ASSUME NEW item \in Item
  PROVE  /\ item.id \in Items /\ Deleted(item.id) \in Item
         /\ [item EXCEPT !.seed = FALSE] \in Item
         /\ \A x \in Items : [item EXCEPT !.id = x] \in Item
         /\ item.kids < MaxChildren => [item EXCEPT !.seed = FALSE, !.kids = @ + 1] \in Item
<1>1. [item EXCEPT !.seed = FALSE] \in Item
  BY DEF Item
<1>2. \A x \in Items : [item EXCEPT !.id = x] \in Item
  BY DEF Item
<1>3. ASSUME item.kids < MaxChildren
      PROVE  [item EXCEPT !.seed = FALSE, !.kids = @ + 1] \in Item
  <2>1. item.kids \in 0..MaxChildren
    BY DEF Item
  <2>2. item.kids + 1 \in 0..MaxChildren
    BY <1>3, <2>1, BoundsAssumption
  <2> QED BY <2>2 DEF Item
<1>4. item.id \in Items /\ Deleted(item.id) \in Item
  BY BoundsAssumption DEF Item, Deleted
<1> QED BY <1>1, <1>2, <1>3, <1>4

\* A new item, and a follow-up delete, are well formed.
LEMMA SeedType ==
  ASSUME NEW x \in Items
  PROVE  Seed(x) \in Item /\ EraserDelete(x) \in Mutation
BY BoundsAssumption DEF Seed, Item, EraserDelete, Mutation, Ops

\* Writing an item leaves a board, with the cursor where it was.
LEMMA UpsertType ==
  ASSUME NEW c \in Content, NEW item \in Item
  PROVE  Upsert(c, item) \in Content /\ Upsert(c, item).cursor = c.cursor
<1>1. c.order \in Seq(Item) /\ c.cursor \in 0..Len(c.order)
  BY DEF Content
<1>2. c = [order |-> c.order, cursor |-> c.cursor]
  BY DEF Content
<1>3. CASE Known(c, item.id)
  <2> DEFINE next == [c.order EXCEPT ![At(c, item.id)] = item]
  <2>1. next \in Seq(Item) /\ Len(next) = Len(c.order)
    BY <1>1, <1>3, AtPlace
  <2>2. Upsert(c, item) = [order |-> next, cursor |-> c.cursor]
    BY <1>2, <1>3 DEF Upsert
  <2> HIDE DEF next
  <2>3. [order |-> next, cursor |-> c.cursor] \in Content
    BY <1>1, <2>1, ContentIs
  <2> QED BY <2>2, <2>3
<1>4. CASE ~Known(c, item.id)
  <2> DEFINE next == Append(c.order, item)
  <2>1. next \in Seq(Item) /\ Len(next) = Len(c.order) + 1
    BY <1>1
  <2>2. Upsert(c, item) = [order |-> next, cursor |-> c.cursor]
    BY <1>2, <1>4 DEF Upsert
  <2>3. c.cursor \in 0..Len(next)
    BY <1>1, <2>1
  <2> HIDE DEF next
  <2>4. [order |-> next, cursor |-> c.cursor] \in Content
    BY <2>1, <2>3, ContentIs
  <2> QED BY <2>2, <2>4
<1> QED BY <1>3, <1>4

\* Deleting an item leaves a board, with the cursor where it was.
LEMMA WithoutType ==
  ASSUME NEW c \in Content, NEW x \in Items
  PROVE  Without(c, x) \in Content /\ Without(c, x).cursor = c.cursor
<1>1. Deleted(x) \in Item
  BY BoundsAssumption DEF Deleted, Item
<1> QED BY <1>1, UpsertType DEF Without

\* Clearing a board leaves a board.
LEMMA ClearedType ==
  ASSUME NEW c \in Content
  PROVE  Cleared(c) \in Content
<1> DEFINE next == [i \in DOMAIN c.order |-> Deleted(c.order[i].id)]
<1>1. c.order \in Seq(Item) /\ DOMAIN c.order = 1..Len(c.order) /\ Len(c.order) \in Nat
  BY DEF Content
<1>2. ASSUME NEW i \in 1..Len(c.order) PROVE Deleted(c.order[i].id) \in Item
  <2>1. c.order[i] \in Item
    BY <1>1
  <2> QED BY <2>1, ItemTypes
<1>3. next \in Seq(Item) /\ Len(next) = Len(c.order)
  BY <1>1, <1>2
<1> QED BY <1>1, <1>3, ContentIs DEF Cleared

\* The sets of places of a board.
LEMMA PlaceSets ==
  ASSUME NEW c \in Content
  PROVE  /\ c.order \in Seq(Item) /\ Len(c.order) \in Nat /\ DOMAIN c.order = 1..Len(c.order)
         /\ c.cursor \in 0..Len(c.order)
         /\ LivePlaces(c) \in SUBSET (1..Len(c.order)) /\ LiveCount(c) \in Nat
         /\ Ahead(c) \in SUBSET (1..Len(c.order)) /\ Cardinality(Ahead(c)) \in Nat
         /\ Victims(c) \in SUBSET (1..Len(c.order)) /\ Victims(c) \in SUBSET LivePlaces(c)
         /\ Excess(c) \in Nat
         /\ Stop(c) \in 0..Len(c.order)
<1>1. /\ c.order \in Seq(Item) /\ Len(c.order) \in Nat /\ DOMAIN c.order = 1..Len(c.order)
      /\ c.cursor \in 0..Len(c.order)
  BY DEF Content
<1>2. /\ LivePlaces(c) \in SUBSET (1..Len(c.order))
      /\ Ahead(c) \in SUBSET (1..Len(c.order))
      /\ Victims(c) \in SUBSET (1..Len(c.order)) /\ Victims(c) \in SUBSET LivePlaces(c)
  BY <1>1 DEF LivePlaces, Ahead, Victims
<1>3. LiveCount(c) \in Nat /\ Cardinality(Ahead(c)) \in Nat
  BY <1>1, <1>2, Ranks DEF LiveCount
<1>4. Excess(c) \in Nat
  BY <1>3, BoundsAssumption DEF Excess
<1>5. Stop(c) \in 0..Len(c.order)
  <2>1. ASSUME Excess(c) # 0, ~(Cardinality(Ahead(c)) < Excess(c))
        PROVE  Nth(Ahead(c), Excess(c)) \in 0..Len(c.order)
    <3>1. Excess(c) \in 1..Cardinality(Ahead(c))
      BY <2>1, <1>3, <1>4
    <3>2. Nth(Ahead(c), Excess(c)) \in Ahead(c)
      BY <1>1, <1>2, <3>1, NthIs
    <3> QED BY <1>1, <1>2, <3>2
  <2> QED BY <1>1, <2>1 DEF Stop
<1> QED BY <1>1, <1>2, <1>3, <1>4, <1>5

\* Trimming leaves a board, and its follow-ups are mutations.
LEMMA TrimType ==
  ASSUME NEW c \in Content
  PROVE  Trimmed(c) \in Content /\ TrimFollowup(c) \in Seq(Mutation)
<1> DEFINE next == [i \in DOMAIN c.order |->
                     IF i \in Victims(c) THEN Deleted(c.order[i].id) ELSE c.order[i]]
           gone == ItemsAt(c.order, Victims(c))
<1>1. ASSUME NEW i \in 1..Len(c.order) PROVE next[i] \in Item
  <2>1. c.order[i] \in Item /\ i \in DOMAIN c.order
    BY PlaceSets
  <2>2. Deleted(c.order[i].id) \in Item
    BY <2>1, ItemTypes
  <2> QED BY <2>1, <2>2
<1>2. next \in Seq(Item) /\ Len(next) = Len(c.order)
  <2>1. DOMAIN next = 1..Len(c.order) /\ Len(c.order) \in Nat
    BY PlaceSets
  <2> HIDE DEF next
  <2>2. next \in [1..Len(c.order) -> Item]
    <3>1. next = [i \in 1..Len(c.order) |-> next[i]]
      BY PlaceSets DEF next
    <3> QED BY <1>1, <3>1
  <2> QED BY <2>1, <2>2
<1>3. Trimmed(c) \in Content
  <2>1. Trimmed(c) = [order |-> next, cursor |-> Stop(c)]
    BY DEF Trimmed
  <2>2. Stop(c) \in 0..Len(next)
    BY <1>2, PlaceSets
  <2> HIDE DEF next
  <2>3. [order |-> next, cursor |-> Stop(c)] \in Content
    BY <1>2, <2>2, ContentIs
  <2> QED BY <2>1, <2>3
<1>4. gone \in Seq(Item)
  BY PlaceSets, ItemsAtType
<1>5. TrimFollowup(c) \in Seq(Mutation)
  <2>1. TrimFollowup(c) = [r \in DOMAIN gone |-> EraserDelete(gone[r].id)]
    BY DEF TrimFollowup
  <2> HIDE DEF gone
  <2>2. ASSUME NEW r \in DOMAIN gone PROVE EraserDelete(gone[r].id) \in Mutation
    <3>1. gone[r] \in Item
      BY <1>4
    <3> QED BY <3>1, ItemTypes, SeedType
  <2>3. DOMAIN gone = 1..Len(gone) /\ Len(gone) \in Nat
    BY <1>4
  <2> QED BY <2>1, <2>2, <2>3
<1> QED BY <1>3, <1>5

\* An applicable mutation turns a board into a board.
LEMMA AppliedType ==
  ASSUME NEW c \in Content, NEW m \in Mutation, Applicable(c, m)
  PROVE  Applied(c, m) \in Content
<1>1. CASE m.op = "create"
  BY <1>1, UpsertType, SeedType DEF Applied, Mutation
<1>2. CASE m.op = "update"
  <2>1. Held(c, m.id) \in Item
    BY <1>2, AtPlace DEF Applicable, Has
  <2> QED BY <1>2, <2>1, ItemTypes, UpsertType DEF Applied
<1>3. CASE m.op = "copy"
  <2>1. Held(c, m.from) \in Item /\ m.id \in Items
    BY <1>3, AtPlace DEF Applicable, Mutation, Has
  <2> QED BY <1>3, <2>1, ItemTypes, UpsertType DEF Applied
<1>4. CASE m.op = "append"
  <2>1. Held(c, m.id) \in Item /\ Held(c, m.id).kids < MaxChildren
    BY <1>4, AtPlace DEF Applicable, Has
  <2> QED BY <1>4, <2>1, ItemTypes, UpsertType DEF Applied
<1>5. CASE m.op = "delete"
  BY <1>5, WithoutType DEF Applied, Mutation
<1>6. CASE m.op = "clear"
  BY <1>6, ClearedType DEF Applied
<1> QED BY <1>1, <1>2, <1>3, <1>4, <1>5, <1>6 DEF Applicable

Outcomes == [ok : BOOLEAN, content : Content, followup : Seq(Mutation)]

\* Whatever the mutation, the engine answers with a verdict, a board and
\* follow-up mutations.
LEMMA ProcessType ==
  ASSUME NEW c \in Content, NEW m \in Mutation
  PROVE  Process(c, m) \in Outcomes
<1>1. CASE Applicable(c, m)
  BY <1>1, AppliedType, TrimType DEF Process, Outcome, Outcomes
<1>2. CASE ~Applicable(c, m) /\ DropsSeed(c, m)
  <2>1. m.id \in Items
    BY DEF Mutation
  <2>2. << EraserDelete(m.id) >> \in Seq(Mutation)
    BY <2>1, SeedType
  <2> QED BY <1>2, <2>1, <2>2, WithoutType, TrimType DEF Process, Outcome, Outcomes
<1>3. CASE ~Applicable(c, m) /\ ~DropsSeed(c, m)
  BY <1>3 DEF Process, Outcome, Outcomes
<1> QED BY <1>1, <1>2, <1>3

-----------------------------------------------------------------------------
(* Saving.                                                                  *)

\* A load makes a board of stored items ...
LEMMA LoadedType ==
  ASSUME NEW items \in Seq(Item)
  PROVE  Loaded(items) \in Content
BY ContentIs DEF Loaded

\* ... and dropping places leaves one.
LEMMA DroppedType ==
  ASSUME NEW c \in Content, NEW places \in SUBSET (DOMAIN c.order)
  PROVE  Dropped(c, places) \in Content
<1>1. c.order \in Seq(Item)
  BY PlaceSets
<1>2. DOMAIN c.order \ places \in SUBSET (DOMAIN c.order)
  OBVIOUS
<1>3. ItemsAt(c.order, DOMAIN c.order \ places) \in Seq(Item)
  BY <1>1, <1>2, ItemsAtType
<1> QED BY <1>3, ContentIs DEF Dropped, Loaded

\* What a save stores, and what it leaves in memory at its start and at its end.
LEMMA SaveTypes ==
  ASSUME NEW c \in Content
  PROVE  /\ Stored(c) \in Seq(Item)
         /\ Cleaned(c) \in Content
         /\ Captured(c) \in Content
         /\ Finalized(c) \in Content
<1>1. Stored(c) \in Seq(Item)
  BY PlaceSets, ItemsAtType DEF Stored
<1>2. Cleaned(c) \in Content
  <2>1. [c EXCEPT !.cursor = Stop(c)] = [order |-> c.order, cursor |-> Stop(c)]
    BY DEF Content
  <2>2. [c EXCEPT !.cursor = Stop(c)] \in Content
    BY <2>1, PlaceSets, ContentIs
  <2>3. Dropped(c, Victims(c)) \in Content
    BY PlaceSets, DroppedType
  <2> QED BY <2>2, <2>3 DEF Cleaned
<1>3. Captured(c) \in Content
  <2> DEFINE next == [i \in DOMAIN c.order |->
                       IF c.order[i].state = "deleted"
                       THEN [c.order[i] EXCEPT !.state = "captured"] ELSE c.order[i]]
  <2>1. \A i \in DOMAIN c.order : c.order[i] \in Item
    BY PlaceSets
  <2>2. \A i \in DOMAIN c.order : next[i] \in Item
    BY <2>1 DEF Item
  <2>3. DOMAIN c.order = 1..Len(c.order) /\ Len(c.order) \in Nat
    BY PlaceSets
  <2>4. DOMAIN next = 1..Len(c.order)
    BY <2>3
  <2>5. c = [order |-> c.order, cursor |-> c.cursor]
    BY DEF Content
  <2>6. Captured(c) = [c EXCEPT !.order = next]
    BY DEF Captured
  <2> HIDE DEF next
  <2>7. next \in Seq(Item) /\ Len(next) = Len(c.order)
    <3>1. next = [i \in 1..Len(c.order) |-> next[i]]
      BY <2>3 DEF next
    <3>2. next \in [1..Len(c.order) -> Item]
      BY <2>2, <2>3, <3>1
    <3> QED BY <2>3, <2>4, <3>2
  <2>8. Captured(c) = [order |-> next, cursor |-> c.cursor]
    BY <2>5, <2>6
  <2>9. [order |-> next, cursor |-> c.cursor] \in Content
    BY <2>7, PlaceSets, ContentIs
  <2> QED BY <2>8, <2>9
<1>4. Finalized(c) \in Content
  BY DroppedType DEF Finalized
<1> QED BY <1>1, <1>2, <1>3, <1>4

-----------------------------------------------------------------------------
(* The cap on live items.                                                   *)

\* The trim cursor has passed no live item.
InReach(c) == \A i \in LivePlaces(c) : i > c.cursor

\* A deleted item comes back under its id, at the place it had.
Revives(c, m) == m.op \in {"create", "copy"} /\ Known(c, m.id) /\ ~Has(c, m.id)

\* As many items are trimmed as are too many, when as many are ahead.
LEMMA VictimCount ==
  ASSUME NEW c \in Content, Excess(c) <= Cardinality(Ahead(c))
  PROVE  Cardinality(Victims(c)) = Excess(c)
<1> DEFINE S == Ahead(c)
           e == Excess(c)
           f == [i \in Victims(c) |-> Rank(S, i)]
<1>1. S \in SUBSET (1..Len(c.order)) /\ Len(c.order) \in Nat /\ Cardinality(S) \in Nat /\ e \in Nat
  BY PlaceSets
<1>2. e <= Cardinality(S)
  OBVIOUS
<1>3. Victims(c) = {i \in S : Rank(S, i) <= e}
  BY DEF Victims
<1> HIDE DEF S, e
<1>4. /\ \A i \in S : Rank(S, i) \in 1..Cardinality(S)
      /\ \A i, j \in S : i < j => Rank(S, i) < Rank(S, j)
  BY <1>1, Ranks
<1>5. f \in [Victims(c) -> 1..e]
  <2> SUFFICES ASSUME NEW i \in Victims(c) PROVE Rank(S, i) \in 1..e
    OBVIOUS
  <2>1. i \in S /\ Rank(S, i) <= e
    BY <1>3
  <2>2. Rank(S, i) \in 1..Cardinality(S)
    BY <1>4, <2>1
  <2> QED BY <1>1, <2>1, <2>2
<1>6. \A i, j \in Victims(c) : f[i] = f[j] => i = j
  <2> SUFFICES ASSUME NEW i \in Victims(c), NEW j \in Victims(c), i # j PROVE f[i] # f[j]
    OBVIOUS
  <2>1. i \in S /\ j \in S /\ i \in Int /\ j \in Int
    <3>1. i \in S /\ j \in S
      BY <1>3
    <3> QED BY <1>1, <3>1
  <2>2. Rank(S, i) \in Int /\ Rank(S, j) \in Int
    BY <1>4, <2>1
  <2>3. i < j \/ j < i
    BY <2>1
  <2> QED BY <1>4, <2>1, <2>2, <2>3
<1>7. \A r \in 1..e : \E i \in Victims(c) : f[i] = r
  <2> SUFFICES ASSUME NEW r \in 1..e PROVE \E i \in Victims(c) : f[i] = r
    OBVIOUS
  <2>1. r \in 1..Cardinality(S)
    BY <1>1, <1>2
  <2>2. Nth(S, r) \in S /\ Rank(S, Nth(S, r)) = r
    BY <1>1, <2>1, NthIs
  <2>3. Nth(S, r) \in Victims(c)
    BY <1>1, <1>3, <2>2
  <2> QED BY <2>2, <2>3
<1> HIDE DEF f
<1>8. f \in Bijection(Victims(c), 1..e)
  BY <1>5, <1>6, <1>7 DEF Bijection, Injection, IsInjective, Surjection
<1>9. IsFiniteSet(Victims(c))
  BY PlaceSets, Ranks
<1>10. Cardinality(1..e) = Cardinality(Victims(c))
  BY <1>8, <1>9, FS_Bijection DEF ExistsBijection
<1>11. Cardinality(1..e) = e
  BY <1>1, FS_Interval
<1> QED BY <1>10, <1>11 DEF e

\* Trimming a board whose live items are all in reach takes it to its cap and
\* leaves the rest in reach.
LEMMA TrimReaches ==
  ASSUME NEW c \in Content, InReach(c)
  PROVE  LiveCount(Trimmed(c)) <= MaxItems /\ InReach(Trimmed(c))
<1> DEFINE S == LivePlaces(c)
           V == Victims(c)
<1>1. LivePlaces(Trimmed(c)) = S \ V
  BY PlaceSets DEF LivePlaces, Trimmed, Deleted
<1>2. IsFiniteSet(S) /\ V \in SUBSET S /\ Cardinality(S) \in Nat
  BY PlaceSets, Ranks
<1>3. Cardinality(S \ V) = Cardinality(S) - Cardinality(V)
  <2>1. S \cap V = V
    BY <1>2
  <2> QED BY <1>2, <2>1, FS_Difference
<1>4. Cardinality(V) = Excess(c)
  <2>1. Ahead(c) = S /\ Excess(c) <= Cardinality(S)
    BY <1>2, BoundsAssumption DEF Ahead, InReach, Excess, LiveCount
  <2> QED BY <2>1, VictimCount
<1>5. LiveCount(Trimmed(c)) <= MaxItems
  BY <1>1, <1>2, <1>3, <1>4, BoundsAssumption DEF LiveCount, Excess
<1>6. /\ S \in SUBSET (1..Len(c.order)) /\ Len(c.order) \in Nat
      /\ \A i \in S : Rank(S, i) \in 1..Cardinality(S)
      /\ \A i, j \in S : i < j => Rank(S, i) < Rank(S, j)
  <2>1. S \in SUBSET (1..Len(c.order)) /\ Len(c.order) \in Nat
    BY PlaceSets
  <2> HIDE DEF S
  <2> QED BY <2>1, Ranks
<1>7. ASSUME NEW i \in S \ V PROVE i > Stop(c)
  <2>1. Ahead(c) = S /\ Excess(c) \in Nat /\ Excess(c) <= Cardinality(S)
    BY PlaceSets, <1>2, BoundsAssumption DEF Ahead, InReach, Excess, LiveCount
  <2>2. i \in S /\ i > c.cursor /\ i \in Int /\ Rank(S, i) > Excess(c)
    <3>1. i \in S /\ i > c.cursor /\ i \in Int
      BY PlaceSets DEF InReach
    <3>2. Rank(S, i) \in Int
      BY <1>6
    <3>3. ~(Rank(S, i) <= Excess(c))
      BY <2>1 DEF Victims
    <3> QED BY <2>1, <3>1, <3>2, <3>3
  <2>3. CASE Excess(c) = 0
    BY <2>2, <2>3 DEF Stop
  <2>4. CASE Excess(c) # 0
    <3>1. Excess(c) \in 1..Cardinality(S)
      BY <1>2, <2>1, <2>4
    <3>2. Stop(c) = Nth(S, Excess(c))
      BY <1>2, <2>1, <2>4 DEF Stop
    <3>3. Stop(c) \in S /\ Rank(S, Stop(c)) = Excess(c)
      BY <3>1, <3>2, NthIs, PlaceSets, ZenonT(40)
    <3>4. Stop(c) # i
      BY <2>1, <2>2, <3>3
    <3>5. ~(i < Stop(c))
      <4> SUFFICES ASSUME i < Stop(c) PROVE FALSE
        OBVIOUS
      <4>1. Rank(S, i) < Excess(c)
        BY <1>6, <2>2, <3>3
      <4>2. Rank(S, i) \in Int
        BY <1>6, <2>2
      <4> QED BY <2>1, <2>2, <4>1, <4>2
    <3>6. Stop(c) \in Int
      BY PlaceSets
    <3> QED BY <2>2, <3>4, <3>5, <3>6
  <2> QED BY <2>3, <2>4
<1>8. Trimmed(c).cursor = Stop(c)
  BY DEF Trimmed
<1>9. InReach(Trimmed(c))
  BY <1>1, <1>7, <1>8 DEF InReach
<1> QED BY <1>5, <1>9

\* Writing an item in reach, or a new one, leaves every live item in reach.
LEMMA UpsertInReach ==
  ASSUME NEW c \in Content, InReach(c), NEW item \in Item,
         Known(c, item.id) /\ item.state = "live" => Has(c, item.id)
  PROVE  InReach(Upsert(c, item))
<1> DEFINE next == Upsert(c, item)
<1>1. next.cursor = c.cursor
  BY UpsertType
<1>2. CASE Known(c, item.id)
  <2>1. next.order = [c.order EXCEPT ![At(c, item.id)] = item]
    BY <1>2 DEF Upsert, Content
  <2>2. At(c, item.id) \in 1..Len(c.order) /\ DOMAIN c.order = 1..Len(c.order)
    BY <1>2, AtPlace, PlaceSets
  <2>3. \A i \in LivePlaces(next) : i \in LivePlaces(c)
    BY <1>2, <2>1, <2>2 DEF LivePlaces, Has, Held
  <2> QED BY <1>1, <2>3 DEF InReach
<1>3. CASE ~Known(c, item.id)
  <2>1. next.order = Append(c.order, item)
    BY <1>3 DEF Upsert, Content
  <2>2. \A i \in LivePlaces(next) : i \in LivePlaces(c) \/ i = Len(c.order) + 1
    BY <2>1, PlaceSets DEF LivePlaces
  <2>3. Len(c.order) + 1 > c.cursor
    BY PlaceSets
  <2> QED BY <1>1, <2>2, <2>3 DEF InReach
<1> QED BY <1>2, <1>3

\* Deleting leaves every live item in reach.
LEMMA WithoutInReach ==
  ASSUME NEW c \in Content, InReach(c), NEW x \in Items
  PROVE  InReach(Without(c, x))
<1>1. Deleted(x) \in Item /\ Deleted(x).state # "live"
  BY BoundsAssumption DEF Deleted, Item
<1> QED BY <1>1, UpsertInReach DEF Without

\* No mutation that revives nothing takes an item out of reach.
LEMMA AppliedInReach ==
  ASSUME NEW c \in Content, InReach(c), NEW m \in Mutation, Applicable(c, m), ~Revives(c, m)
  PROVE  InReach(Applied(c, m))
<1>1. CASE m.op = "create"
  <2>1. Seed(m.id) \in Item /\ Seed(m.id).id = m.id
    BY SeedType DEF Mutation, Seed
  <2>2. Known(c, m.id) => Has(c, m.id)
    BY <1>1 DEF Revives
  <2> QED BY <1>1, <2>1, <2>2, UpsertInReach DEF Applied
<1>2. CASE m.op \in {"update", "append"}
  <2>1. Has(c, m.id)
    BY <1>2 DEF Applicable
  <2>2. Held(c, m.id) \in Item /\ Held(c, m.id).id = m.id
    BY <2>1, AtPlace DEF Has
  <2>3. CASE m.op = "update"
    <3> DEFINE item == [Held(c, m.id) EXCEPT !.seed = FALSE]
    <3>1. item \in Item /\ item.id = m.id
      BY <2>2, ItemTypes DEF Item
    <3> QED BY <2>1, <2>3, <3>1, UpsertInReach DEF Applied
  <2>4. CASE m.op = "append"
    <3> DEFINE item == [Held(c, m.id) EXCEPT !.seed = FALSE, !.kids = @ + 1]
    <3>1. item \in Item
      BY <2>2, <2>4, ItemTypes DEF Applicable
    <3>2. item.id = m.id
      BY <2>2 DEF Item
    <3> QED BY <2>1, <2>4, <3>1, <3>2, UpsertInReach DEF Applied
  <2> QED BY <1>2, <2>3, <2>4
<1>3. CASE m.op = "copy"
  <2> DEFINE item == [Held(c, m.from) EXCEPT !.id = m.id]
  <2>1. Held(c, m.from) \in Item
    BY <1>3, AtPlace DEF Applicable, Has
  <2>2. item \in Item /\ item.id = m.id
    BY <2>1, ItemTypes DEF Item, Mutation
  <2>3. Known(c, m.id) => Has(c, m.id)
    BY <1>3 DEF Revives
  <2> QED BY <1>3, <2>2, <2>3, UpsertInReach DEF Applied
<1>4. CASE m.op = "delete"
  BY <1>4, WithoutInReach DEF Applied, Mutation
<1>5. CASE m.op = "clear"
  <2>1. LivePlaces(Cleared(c)) = {}
    BY PlaceSets DEF Cleared, LivePlaces, Deleted
  <2> QED BY <1>5, <2>1 DEF Applied, InReach
<1> QED BY <1>1, <1>2, <1>3, <1>4, <1>5 DEF Applicable

\* A board within its cap whose live items are all in reach of the trim stays
\* one, whatever the mutation, unless that writes an item that was deleted again.
THEOREM CapHolds ==
  ASSUME NEW c \in Content, NEW m \in Mutation,
         LiveCount(c) <= MaxItems, InReach(c), ~Revives(c, m)
  PROVE  /\ LiveCount(Process(c, m).content) <= MaxItems
         /\ InReach(Process(c, m).content)
<1>1. CASE Applicable(c, m)
  <2> DEFINE next == Applied(c, m)
  <2>1. next \in Content /\ InReach(next)
    BY <1>1, AppliedType, AppliedInReach
  <2>2. Process(c, m).content = Trimmed(next)
    BY <1>1 DEF Process, Outcome
  <2> QED BY <2>1, <2>2, TrimReaches
<1>2. CASE ~Applicable(c, m) /\ DropsSeed(c, m)
  <2> DEFINE next == Without(c, m.id)
  <2>1. next \in Content /\ InReach(next)
    BY WithoutType, WithoutInReach DEF Mutation
  <2>2. Process(c, m).content = Trimmed(next)
    BY <1>2 DEF Process, Outcome
  <2> QED BY <2>1, <2>2, TrimReaches
<1>3. CASE ~Applicable(c, m) /\ ~DropsSeed(c, m)
  BY <1>3 DEF Process, Outcome
<1> QED BY <1>1, <1>2, <1>3

-----------------------------------------------------------------------------
(* The ledger file.                                                         *)

\* However a write ends, what is left is a ledger file.
LEMMA WriteType ==
  ASSUME NEW f \in File, NEW batch \in Seq(Entry), NEW whole \in 0..Len(batch), NEW end \in Ends
  PROVE  Write(f, batch, whole, end) \in File
<1> DEFINE landed == Landed(batch, whole, end)
<1>1. landed \in Seq(Line)
  <2>1. SubSeq(batch, 1, whole) \in Seq(Line)
    BY DEF Line
  <2>2. << Torn >> \in Seq(Line) /\ << >> \in Seq(Line)
    BY DEF Line
  <2> QED BY <2>1, <2>2 DEF Landed
<1>2. CASE landed = << >>
  BY <1>2 DEF Write
<1>3. CASE landed # << >>
  <2>1. f.lines \in Seq(Line) /\ f.lines \o landed \in Seq(Line)
    BY <1>1 DEF File
  <2>2. SubSeq(landed, 2, Len(landed)) \in Seq(Line)
    BY <1>1, <1>3
  <2>3. SubSeq(f.lines, 1, Len(f.lines) - 1) \in Seq(Line)
    BY <2>1
  <2>4. Glue(f.lines, landed) \in Seq(Line)
    BY <2>2, <2>3 DEF Glue, Line
  <2>5. f.lines \o landed # << >> /\ Glue(f.lines, landed) # << >>
    BY <1>1, <1>3, <2>1, <2>2, <2>3 DEF Glue
  <2> QED BY <1>3, <2>1, <2>4, <2>5 DEF Write, File
<1> QED BY <1>2, <1>3

\* A boundary plan is one of the three, and carrying it out leaves a file.
LEMMA RepairType ==
  ASSUME NEW f \in File
  PROVE  /\ PlanFor(f) \in RepairPlan
         /\ \A plan \in RepairPlan : Repair(f, plan) \in File
<1>1. f.lines \in Seq(Line)
  BY DEF File
<1>2. PlanFor(f) \in RepairPlan
  <2>1. ~f.terminated => Len(f.lines) - 1 \in Nat
    BY <1>1 DEF File
  <2> QED BY <1>1, <2>1 DEF PlanFor, RepairPlan, Clean, SealLine, CutTo
<1>3. ASSUME NEW plan \in RepairPlan
      PROVE  Repair(f, plan) \in File
  <2>1. Append(f.lines, Blank) \in Seq(Line) /\ Append(f.lines, Blank) # << >>
    BY <1>1 DEF Line
  <2>2. plan.keep \in Nat
    BY DEF RepairPlan
  <2>3. plan.keep < Len(f.lines) => SubSeq(f.lines, 1, plan.keep) \in Seq(Line)
    BY <1>1, <2>2
  <2> QED BY <2>1, <2>3 DEF Repair, File, RepairPlan
<1> QED BY <1>2, <1>3

\* What a load reads is entries, each with its place.
LEMMA ReadsType ==
  ASSUME NEW f \in File, NEW floor
  PROVE  EntriesAfter(f, floor) \subseteq Reads
BY DEF EntriesAfter, Reads, File, Line, IsEntry

\* The entries of an acceptance are ledger entries.
LEMMA BatchType ==
  ASSUME NEW seq \in Nat, NEW muts \in Seq(Mutation)
  PROVE  Batch(seq, muts) \in Seq(Entry)
BY DEF Batch, Entry

-----------------------------------------------------------------------------
(* Types.                                                                   *)

\* A fresh deployment is well typed.
LEMMA TypeInit == Init => TypeOK
<1>1. EmptyFile \in File /\ NoSnapshot \in Snapshots /\ Unborn \in Boards
  BY DEF EmptyFile, File, NoSnapshot, Snapshots, Unborn, Boards, Phases, Content, Empty
<1>2. NewSession \in Sessions
  BY DEF NewSession, Sessions, Steps, Clean, RepairPlan
<1> QED BY <1>1, <1>2 DEF Init, TypeOK, Answers

\* The bounds on the environment stay numbers.
LEMMA SpendType ==
  ASSUME used \in [Events -> Nat], NEW e \in Events, Spend(e)
  PROVE  used' \in [Events -> Nat]
<1>1. used[e] + 1 \in Nat
  OBVIOUS
<1> QED BY <1>1 DEF Spend

\* The fields of a session ...
LEMMA SessionFields ==
  ASSUME TypeOK, NEW k \in Instances
  PROVE  /\ ses \in [Instances -> Sessions] /\ ses[k] \in Sessions
         /\ ses[k].queue \in Seq(Muts \cup {Seal}) /\ ses[k].mut \in Muts \cup {None}
         /\ ses[k].ok \in BOOLEAN /\ ses[k].batch \in Seq(Entry)
         /\ ses[k].remembered \in SUBSET ClientIds /\ ses[k].plan \in RepairPlan
         /\ ses[k].boundary \in {"unchecked", "clean", "failed"}
BY DEF TypeOK, Sessions

\* ... and those of a board.
LEMMA BoardFields ==
  ASSUME TypeOK, NEW k \in Instances
  PROVE  /\ mem \in [Instances -> Boards] /\ mem[k] \in Boards
         /\ mem[k].content \in Content /\ mem[k].seq \in Nat
         /\ mem[k].saved \in Seq(Item) /\ mem[k].savedSeq \in Nat
         /\ mem[k].disposed \in BOOLEAN
BY DEF TypeOK, Boards

\* Queueing a task leaves well-formed sessions.
LEMMA EnqueueType ==
  ASSUME TypeOK, registry \in Instances, NEW task \in Muts \cup {Seal}, Enqueue(task)
  PROVE  ses' \in [Instances -> Sessions]
<1>1. Append(ses[registry].queue, task) \in Seq(Muts \cup {Seal})
  BY SessionFields
<1>2. ses' = [ses EXCEPT ![registry].queue = Append(ses[registry].queue, task)]
  BY SessionFields DEF Enqueue
<1> QED BY <1>1, <1>2, SessionFields, ZenonT(40) DEF Sessions

\* ... and so does taking the next one.
LEMMA DequeueType ==
  ASSUME TypeOK, NEW k \in Instances, NEW task, NextTask(k, task)
  PROVE  Tail(ses[k].queue) \in Seq(Muts \cup {Seal})
BY SessionFields DEF NextTask

\* Answering a sender keeps what senders know well formed.
LEMMA AnswerType ==
  ASSUME TypeOK, NEW m, NEW verdict \in Answers, Answer(m, verdict)
  PROVE  client' \in [Muts -> Answers]
BY DEF TypeOK, Answer

\* So does losing answers with a connection, or with the process.
LEMMA LostType ==
  ASSUME TypeOK
  PROVE  /\ Lost(client) \in [Muts -> Answers]
         /\ \A gone : Unheard(Lost(client), gone) \in [Muts -> Answers]
BY DEF TypeOK, Lost, Unheard, Answers

\* An append that is over leaves well-formed sessions.
LEMMA SettleType ==
  ASSUME TypeOK, NEW k \in Instances, NEW remembered \in SUBSET ClientIds,
         NEW boundary \in {"unchecked", "clean", "failed"}, Settle(k, remembered, boundary)
  PROVE  ses' \in [Instances -> Sessions]
<1>1. << >> \in Seq(Entry) /\ "idle" \in Steps /\ None \in Muts \cup {None}
  BY DEF Steps
<1>2. [ses[k] EXCEPT !.step = "idle", !.mut = None, !.ok = FALSE, !.batch = << >>,
                     !.remembered = remembered, !.boundary = boundary] \in Sessions
  BY <1>1, SessionFields DEF Sessions
<1> QED BY <1>2, SessionFields DEF Settle

\* A new instance is one of the instances.
LEMMA LoadType ==
  ASSUME TypeOK, NEW k \in Instances, Load(k)
  PROVE  mem' \in [Instances -> Boards] /\ registry' \in Instances
<1>1. "loading" \in Phases
  BY DEF Phases
<1> QED BY <1>1, BoardFields DEF Load, Boards

\* A failed load leaves everything it touches well formed.
LEMMA FailLoadType ==
  ASSUME TypeOK, NEW k \in Instances, FailLoad(k)
  PROVE  /\ mem' \in [Instances -> Boards]
         /\ pending' \in [Instances -> SUBSET Reads]
         /\ users' \in {0} \cup Instances
         /\ client' \in [Muts -> Answers]
<1>1. mem' \in [Instances -> Boards]
  <2>1. "broken" \in Phases
    BY DEF Phases
  <2> QED BY <2>1, BoardFields DEF FailLoad, Boards
<1>2. client' \in [Muts -> Answers]
  BY LostType DEF FailLoad, TypeOK
<1> QED BY <1>1, <1>2 DEF FailLoad, TypeOK

\* So does a confirmed append ...
LEMMA ConfirmType ==
  ASSUME TypeOK, NEW k \in Instances, Confirm(k), ses[k].mut \in Muts
  PROVE  /\ mem' \in [Instances -> Boards]
         /\ ses' \in [Instances -> Sessions]
         /\ client' \in [Muts -> Answers]
         /\ accepted' \subseteq Muts
<1>1. mem' \in [Instances -> Boards]
  <2>1. mem[k].seq + Len(ses[k].batch) \in Nat
    BY BoardFields, SessionFields
  <2>2. mem' = [mem EXCEPT ![k].seq = mem[k].seq + Len(ses[k].batch)]
    BY BoardFields DEF Confirm
  <2> QED BY <2>1, <2>2, BoardFields DEF Boards
<1>2. ses' \in [Instances -> Sessions]
  <2>1. ses[k].mut.cid \in ClientIds
    BY DurableBoardAssumption
  <2> QED BY <2>1, SettleType, SessionFields DEF Confirm
<1>3. client' \in [Muts -> Answers]
  BY AnswerType DEF Confirm, Answers
<1>4. accepted' \subseteq Muts
  BY DEF Confirm, TypeOK
<1> QED BY <1>1, <1>2, <1>3, <1>4

\* ... and an abandoned one.
LEMMA AbandonType ==
  ASSUME TypeOK, NEW k \in Instances, NEW boundary \in {"unchecked", "clean", "failed"},
         Abandon(k, boundary)
  PROVE  /\ ses' \in [Instances -> Sessions]
         /\ client' \in [Muts -> Answers]
         /\ dropDue' \subseteq Instances
<1>1. ses' \in [Instances -> Sessions]
  BY SettleType, SessionFields DEF Abandon
<1>2. client' \in [Muts -> Answers]
  BY AnswerType DEF Abandon, Answers
<1> QED BY <1>1, <1>2 DEF Abandon, TypeOK

\* The inductive invariant: types, and that an append in flight has the
\* mutation it is made for, since that is what its confirmation adds.
InFlight == \A k \in Instances : ses[k].step # "idle" => ses[k].mut \in Muts
Typed    == TypeOK /\ InFlight

\* Loading and replaying keep the types.
LEMMA RecoverTyped ==
  ASSUME Typed, NEW k \in Instances, Recover(k)
  PROVE  Typed'
<1> USE DEF Typed
<1>1. CASE ReadSnapshot(k)
  <2>1. snap.content \in Seq(Item) /\ snap.seq \in Nat /\ "opened" \in Phases
    BY DEF TypeOK, Snapshots, Phases
  <2>2. Loaded(snap.content) \in Content
    BY <2>1, LoadedType
  <2>3. [mem[k] EXCEPT !.phase = "opened", !.content = Loaded(snap.content),
            !.saved = snap.content, !.seq = snap.seq, !.savedSeq = snap.seq] \in Boards
    BY <2>1, <2>2, BoardFields DEF Boards
  <2>4. mem' \in [Instances -> Boards]
    BY <1>1, <2>3, BoardFields DEF ReadSnapshot
  <2> QED BY <1>1, <2>4 DEF ReadSnapshot, TypeOK, InFlight, storage, senders
<1>2. CASE ReadLedger(k)
  <2>1. UNCHANGED << file, snap, ses, registry, saving, dropDue, unloads, accepted, used >>
    BY <1>2 DEF ReadLedger, storage
  <2>2. CASE ~Readable(file)
    BY <1>2, <2>1, <2>2, FailLoadType DEF ReadLedger, TypeOK, InFlight
  <2>3. CASE Readable(file)
    <3>1. "ready" \in Phases /\ "hydrating" \in Phases
      BY DEF Phases
    <3>2. mem' \in [Instances -> Boards]
      <4>1. ASSUME NEW phase \in Phases PROVE [mem[k] EXCEPT !.phase = phase] \in Boards
        BY BoardFields DEF Boards
      <4>2. PICK phase \in Phases : mem' = [mem EXCEPT ![k].phase = phase]
        BY <1>2, <2>3, <3>1 DEF ReadLedger
      <4>3. mem' = [mem EXCEPT ![k] = [mem[k] EXCEPT !.phase = phase]]
        BY <4>2, BoardFields
      <4> QED BY <4>1, <4>3, BoardFields
    <3>3. EntriesAfter(file, mem[k].seq) \subseteq Reads
      BY ReadsType DEF TypeOK
    <3>4. pending' \in [Instances -> SUBSET Reads]
      BY <1>2, <2>3, <3>3 DEF ReadLedger, TypeOK
    <3> QED BY <1>2, <2>1, <2>3, <3>2, <3>4 DEF ReadLedger, TypeOK, InFlight
  <2> QED BY <2>2, <2>3
<1>3. CASE HydrateNext(k)
  <2>1. UNCHANGED << file, snap, registry, saving, dropDue, unloads, accepted, used >>
    BY <1>3 DEF HydrateNext, storage
  <2>2. PICK p \in pending[k] :
          LET result == Process(mem[k].content, p.entry.mut)
              rest   == pending[k] \ {p}
          IN
          IF p.entry.seq # mem[k].seq + 1 \/ ~result.ok
          THEN FailLoad(k) /\ UNCHANGED ses
          ELSE /\ mem' = [mem EXCEPT ![k] = [mem[k] EXCEPT
                    !.content = result.content, !.seq = p.entry.seq,
                    !.phase = IF rest = {} THEN "ready" ELSE "hydrating"]]
               /\ pending' = [pending EXCEPT ![k] = rest]
               /\ ses' = [ses EXCEPT ![k].remembered =
                            @ \cup ({p.entry.mut.cid} \cap ClientIds)]
               /\ UNCHANGED << users, client >>
    BY <1>3 DEF HydrateNext
  <2> DEFINE result == Process(mem[k].content, p.entry.mut)
             rest   == pending[k] \ {p}
  <2>3. CASE FailLoad(k) /\ UNCHANGED ses
    BY <2>1, <2>3, FailLoadType DEF TypeOK, InFlight
  <2>4. CASE ~(p.entry.seq # mem[k].seq + 1 \/ ~result.ok)
    <3>1. p.entry.seq \in Nat /\ p.entry.mut \in Mutation
      BY DEF TypeOK, Reads, Entry
    <3>2. result.content \in Content
      BY <3>1, BoardFields, ProcessType DEF Outcomes
    <3>3. "ready" \in Phases /\ "hydrating" \in Phases
      BY DEF Phases
    <3>4. mem' \in [Instances -> Boards]
      <4>1. mem' = [mem EXCEPT ![k] = [mem[k] EXCEPT
                 !.content = result.content, !.seq = p.entry.seq,
                 !.phase = IF rest = {} THEN "ready" ELSE "hydrating"]]
        BY <2>2, <2>4
      <4>2. [mem[k] EXCEPT
               !.content = result.content, !.seq = p.entry.seq,
               !.phase = IF rest = {} THEN "ready" ELSE "hydrating"] \in Boards
        BY <3>1, <3>2, <3>3, BoardFields DEF Boards
      <4> QED BY <4>1, <4>2, BoardFields
    <3>5. ses' \in [Instances -> Sessions] /\ InFlight'
      <4>1. ses' = [ses EXCEPT ![k].remembered =
                      ses[k].remembered \cup ({p.entry.mut.cid} \cap ClientIds)]
        BY <2>2, <2>4, SessionFields
      <4>2. [ses[k] EXCEPT !.remembered =
               ses[k].remembered \cup ({p.entry.mut.cid} \cap ClientIds)] \in Sessions
        BY SessionFields DEF Sessions
      <4>3. ses' \in [Instances -> Sessions]
        BY <4>1, <4>2, SessionFields
      <4>4. \A i \in Instances : ses'[i].step = ses[i].step /\ ses'[i].mut = ses[i].mut
        BY <4>1, SessionFields DEF Sessions
      <4> QED BY <4>3, <4>4 DEF InFlight
    <3>6. pending' \in [Instances -> SUBSET Reads]
      BY <2>2, <2>4 DEF TypeOK
    <3> QED BY <2>1, <2>2, <2>4, <3>4, <3>5, <3>6 DEF TypeOK
  <2> QED BY <2>2, <2>3, <2>4
<1> QED BY <1>1, <1>2, <1>3 DEF Recover

\* Taking a task from the queue keeps the types.
LEMMA TakeTyped ==
  ASSUME Typed, NEW k \in Instances, Take(k)
  PROVE  Typed'
<1> USE DEF Typed
<1>1. CASE TakeSeal(k)
  <2>1. Tail(ses[k].queue) \in Seq(Muts \cup {Seal})
    BY <1>1, DequeueType DEF TakeSeal
  <2>2. ses' \in [Instances -> Sessions] /\ InFlight'
    BY <1>1, <2>1, SessionFields, ZenonT(40) DEF TakeSeal, Sessions, InFlight
  <2> QED BY <1>1, <2>2 DEF TakeSeal, TypeOK, storage, senders
<1>2. ASSUME NEW m \in Muts, TakeRetry(k, m) \/ TakeRefused(k, m)
      PROVE  Typed'
  <2>1. Tail(ses[k].queue) \in Seq(Muts \cup {Seal})
    BY <1>2, DequeueType DEF TakeRetry, TakeRefused
  <2>2. ses' = [ses EXCEPT ![k].queue = Tail(ses[k].queue)]
    BY <1>2, SessionFields DEF TakeRetry, TakeRefused
  <2>3. ses' \in [Instances -> Sessions] /\ InFlight'
    BY <2>1, <2>2, SessionFields, ZenonT(40) DEF Sessions, InFlight
  <2>4. client' \in [Muts -> Answers]
    BY <1>2, AnswerType DEF TakeRetry, TakeRefused, Answers
  <2> QED BY <1>2, <2>3, <2>4 DEF TakeRetry, TakeRefused, TypeOK, storage
<1>3. ASSUME NEW m \in Muts, TakeWrite(k, m)
      PROVE  Typed'
  <2> DEFINE result == Process(mem[k].content, m)
             muts   == (IF result.ok THEN << m >> ELSE << >>) \o result.followup
             batch  == Batch(mem[k].seq, muts)
             step   == IF ses[k].boundary = "clean" THEN "write" ELSE "boundary"
  <2>1. /\ result.content \in Content
        /\ result.followup \in Seq(Mutation)
        /\ result.ok \in BOOLEAN
    BY BoardFields, ProcessType, DurableBoardAssumption DEF Outcomes
  <2>2. batch \in Seq(Entry)
    <3>1. muts \in Seq(Mutation)
      BY <2>1, DurableBoardAssumption
    <3> QED BY <3>1, BatchType, BoardFields
  <2>3. mem' \in [Instances -> Boards]
    BY <1>3, <2>1, BoardFields DEF TakeWrite, Boards
  <2>4. Tail(ses[k].queue) \in Seq(Muts \cup {Seal})
    BY <1>3, DequeueType DEF TakeWrite
  <2>5. step \in Steps
    BY DEF Steps
  <2>6. [ses[k] EXCEPT !.queue = Tail(ses[k].queue), !.mut = m, !.ok = result.ok,
                       !.batch = batch, !.step = step] \in Sessions
    BY <2>1, <2>2, <2>4, <2>5, SessionFields DEF Sessions
  <2>7. ses' = [ses EXCEPT ![k] =
            [ses[k] EXCEPT !.queue = Tail(ses[k].queue), !.mut = m, !.ok = result.ok,
                           !.batch = batch, !.step = step]]
    BY <1>3 DEF TakeWrite
  <2>8. ses' \in [Instances -> Sessions] /\ InFlight'
    BY <2>6, <2>7, SessionFields DEF InFlight, Sessions
  <2> QED BY <1>3, <2>3, <2>8 DEF TakeWrite, TypeOK, storage, senders
<1> QED BY <1>1, <1>2, <1>3 DEF Take

\* Every step of an append keeps the types.
LEMMA PersistTyped ==
  ASSUME Typed, NEW k \in Instances, Persist(k)
  PROVE  Typed'
<1> USE DEF Typed
<1>1. CASE ReadBoundary(k)
  <2> DEFINE plan == PlanFor(file)
             next == [ses[k] EXCEPT
                        !.plan = plan,
                        !.boundary = IF plan = Clean THEN "clean" ELSE "unchecked",
                        !.step = IF plan = Clean THEN "write" ELSE "repair"]
  <2>1. plan \in RepairPlan
    BY RepairType DEF TypeOK
  <2>2. next \in Sessions
    <3>1. "write" \in Steps /\ "repair" \in Steps
      BY DEF Steps
    <3> HIDE DEF plan
    <3> QED BY <2>1, <3>1, SessionFields DEF Sessions
  <2>3. ses' = [ses EXCEPT ![k] = next]
    BY <1>1 DEF ReadBoundary
  <2>4. next.mut = ses[k].mut /\ ses[k].mut \in Muts
    BY <1>1, SessionFields DEF ReadBoundary, InFlight, Sessions
  <2>5. ses' \in [Instances -> Sessions] /\ InFlight'
    <3> HIDE DEF next
    <3> QED BY <2>2, <2>3, <2>4, SessionFields DEF InFlight
  <2> QED BY <1>1, <2>5 DEF ReadBoundary, TypeOK, storage, senders
<1>2. CASE RepairBoundary(k)
  <2> DEFINE next == [ses[k] EXCEPT !.boundary = "clean", !.step = "write", !.plan = Clean]
  <2>1. file' \in File
    BY <1>2, RepairType, SessionFields DEF RepairBoundary, TypeOK
  <2>2. next \in Sessions
    <3>1. "write" \in Steps /\ Clean \in RepairPlan
      BY DEF Steps, Clean, RepairPlan
    <3> QED BY <3>1, SessionFields DEF Sessions
  <2>3. ses' = [ses EXCEPT ![k] = next]
    BY <1>2 DEF RepairBoundary
  <2>4. next.mut = ses[k].mut /\ ses[k].mut \in Muts
    BY <1>2, SessionFields DEF RepairBoundary, InFlight, Sessions
  <2>5. ses' \in [Instances -> Sessions] /\ InFlight'
    <3> HIDE DEF next
    <3> QED BY <2>2, <2>3, <2>4, SessionFields DEF InFlight
  <2> QED BY <1>2, <2>1, <2>5 DEF RepairBoundary, TypeOK, senders
<1>a. ASSUME NEW remembered, NEW boundary, Settle(k, remembered, boundary)
      PROVE  InFlight'
  BY <1>a, SessionFields DEF Settle, InFlight, Sessions
<1>3. ASSUME NEW boundary \in {"unchecked", "clean", "failed"}, Abandon(k, boundary)
      PROVE  InFlight'
  BY <1>a, <1>3 DEF Abandon
<1>4. ASSUME Confirm(k)
      PROVE  InFlight'
  BY <1>a, <1>4 DEF Confirm
<1>5. CASE BoundaryFails(k)
  <2>1. used' \in [Events -> Nat]
    BY <1>5, SpendType DEF BoundaryFails, TypeOK, Events
  <2> QED BY <1>3, <1>5, <2>1, AbandonType DEF BoundaryFails, Abandon, TypeOK
<1>6. CASE AppendSucceeds(k)
  <2>1. ses[k].batch \in Seq(Entry) /\ Len(ses[k].batch) \in 0..Len(ses[k].batch)
    BY SessionFields
  <2>2. file' \in File
    BY <1>6, <2>1, WriteType DEF AppendSucceeds, WriteAll, TypeOK, Ends
  <2>3. ses[k].mut \in Muts
    BY <1>6 DEF AppendSucceeds, InFlight
  <2> QED BY <1>4, <1>6, <2>2, <2>3, ConfirmType DEF AppendSucceeds, TypeOK
<1>7. CASE AppendStopsShort(k)
  <2>1. ses[k].batch \in Seq(Entry)
    BY SessionFields
  <2>2. file' \in File
    BY <1>7, <2>1, WriteType DEF AppendStopsShort, TypeOK
  <2>3. ses[k].mut \in Muts
    BY <1>7 DEF AppendStopsShort, InFlight
  <2>4. used' \in [Events -> Nat]
    BY <1>7, SpendType DEF AppendStopsShort, TypeOK, Events
  <2> QED BY <1>4, <1>7, <2>2, <2>3, <2>4, ConfirmType DEF AppendStopsShort, TypeOK
<1>8. CASE AppendFails(k)
  <2>1. ses[k].batch \in Seq(Entry) /\ Len(ses[k].batch) \in 0..Len(ses[k].batch)
    BY SessionFields
  <2>2. file' \in File
    BY <1>8, <2>1, WriteType DEF AppendFails, WriteAll, TypeOK, Ends
  <2>3. used' \in [Events -> Nat]
    BY <1>8, SpendType DEF AppendFails, TypeOK, Events
  <2>4. Abandon(k, ses[k].boundary) /\ ses[k].boundary \in {"unchecked", "clean", "failed"}
    BY <1>8, SessionFields DEF AppendFails
  <2>5. /\ InFlight' /\ ses' \in [Instances -> Sessions]
        /\ client' \in [Muts -> Answers] /\ dropDue' \subseteq Instances
    BY <1>3, <2>4, AbandonType
  <2> QED BY <2>2, <2>3, <2>4, <2>5 DEF Abandon, TypeOK
<1> QED BY <1>1, <1>2, <1>5, <1>6, <1>7, <1>8 DEF Persist

\* The instance captured by a save, as the save carries it.
LEMMA SaveFields ==
  ASSUME TypeOK, saving # NoSave
  PROVE  /\ saving.inst \in Instances /\ saving.content \in Seq(Item) /\ saving.seq \in Nat
         /\ saving.rewrite \in BOOLEAN /\ saving.unload \in BOOLEAN
BY DEF TypeOK, Saves

\* A save that begins is well formed, and so is the board it leaves.
LEMMA SaveType ==
  ASSUME TypeOK, NEW k \in Instances, NEW unload \in BOOLEAN, BeginSave(k, unload)
  PROVE  saving' \in Saves \cup {NoSave} /\ mem' \in [Instances -> Boards]
<1> DEFINE cleaned  == Cleaned(mem[k].content)
           captured == Captured(cleaned)
           stored   == Stored(cleaned)
           rewrite  == mem[k].saved # << >>
<1>1. mem[k].content \in Content
  BY BoardFields
<1>2. cleaned \in Content
  BY <1>1, SaveTypes
<1>3. captured \in Content /\ stored \in Seq(Item)
  <2> HIDE DEF cleaned
  <2> QED BY <1>2, SaveTypes
<1>4. rewrite \in BOOLEAN
  OBVIOUS
<1>5. saving' = [inst |-> k, content |-> stored, seq |-> mem[k].seq, baseSeq |-> mem[k].savedSeq,
                 rewrite |-> rewrite, unload |-> unload]
  BY DEF BeginSave
<1>6. mem' = [mem EXCEPT ![k].content = captured]
  BY BoardFields DEF BeginSave
<1> HIDE DEF captured, stored, rewrite
<1>7. saving' \in Saves
  BY <1>3, <1>4, <1>5, BoardFields DEF Saves
<1>8. mem' \in [Instances -> Boards]
  BY <1>3, <1>6, BoardFields DEF Boards
<1> QED BY <1>7, <1>8

\* Dropping, unloading and the end of a save keep the types.
LEMMA KeepTyped ==
  ASSUME Typed, NEW k \in Instances, Drop(k) \/ Unload(k) \/ EndSave
  PROVE  Typed'
<1> USE DEF Typed
<1>1. CASE Drop(k)
  <2>1. mem' \in [Instances -> Boards]
    BY <1>1, BoardFields, ZenonT(40) DEF Drop, Boards
  <2>2. client' \in [Muts -> Answers]
    BY <1>1, LostType DEF Drop, TypeOK
  <2> QED BY <1>1, <2>1, <2>2 DEF Drop, TypeOK, InFlight, storage
<1>2. CASE UnloadSave(k)
  <2>1. saving' \in Saves \cup {NoSave} /\ mem' \in [Instances -> Boards]
    BY <1>2, SaveType DEF UnloadSave
  <2> QED BY <1>2, <2>1 DEF UnloadSave, TypeOK, InFlight, storage, senders
<1>3. CASE UnloadSkipsSave(k)
  <2>1. mem' = [mem EXCEPT ![k].disposed = mem[k].disposed \/ Unused(k)]
    BY <1>3, BoardFields DEF UnloadSkipsSave
  <2>2. (mem[k].disposed \/ Unused(k)) \in BOOLEAN
    BY DEF Unused
  <2>3. mem' \in [Instances -> Boards]
    BY <2>1, <2>2, BoardFields DEF Boards
  <2>4. registry' \in {0} \cup Instances
    BY <1>3 DEF UnloadSkipsSave, Retired, TypeOK
  <2> QED BY <1>3, <2>3, <2>4 DEF UnloadSkipsSave, TypeOK, InFlight, storage, senders
<1>4. CASE UnloadRejects(k)
  BY <1>4 DEF UnloadRejects, TypeOK, InFlight, storage, senders
<1>5. CASE FinishSave
  <2> DEFINE j    == saving.inst
             done == saving.unload /\ Unused(j)
             left == Finalized(mem[j].content)
             next == [mem[j] EXCEPT !.content = left, !.saved = saving.content,
                                    !.savedSeq = saving.seq,
                                    !.disposed = mem[j].disposed \/ done]
  <2>1. j \in Instances /\ saving.content \in Seq(Item) /\ saving.seq \in Nat
    BY <1>5, SaveFields DEF FinishSave
  <2>2. mem' = [mem EXCEPT ![j] = next]
    BY <1>5 DEF FinishSave
  <2>3. (mem[j].disposed \/ done) \in BOOLEAN
    BY <2>1, BoardFields DEF Unused
  <2>4. mem[j] \in Boards /\ left \in Content
    BY <2>1, BoardFields, SaveTypes
  <2>5. next \in Boards
    <3> HIDE DEF done, left
    <3> QED BY <2>1, <2>3, <2>4 DEF Boards
  <2>6. mem' \in [Instances -> Boards]
    <3> HIDE DEF next
    <3> QED BY <2>1, <2>2, <2>5, BoardFields
  <2>7. registry' \in {0} \cup Instances
    BY <1>5 DEF FinishSave, Retired, TypeOK
  <2>8. snap' \in Snapshots
    BY <1>5, <2>1 DEF FinishSave, Snapshots, NoSnapshot
  <2> QED BY <1>5, <2>6, <2>7, <2>8 DEF FinishSave, TypeOK, InFlight, senders
<1>6. CASE StaleSave
  <2>1. saving.inst \in Instances
    BY <1>6, SaveFields DEF StaleSave
  <2> QED BY <1>6, <2>1 DEF StaleSave, TypeOK, InFlight, storage, senders
<1>7. CASE SaveFails
  <2>1. used' \in [Events -> Nat]
    BY <1>7, SpendType DEF SaveFails, TypeOK, Events
  <2> QED BY <1>7, <2>1 DEF SaveFails, TypeOK, InFlight, storage, senders
<1> QED BY <1>1, <1>2, <1>3, <1>4, <1>5, <1>6, <1>7 DEF Unload, EndSave

\* What users, timers, faults and crashes do keeps the types.
LEMMA EnvironmentTyped ==
  ASSUME Typed, Environment
  PROVE  Typed'
<1> USE DEF Typed
<1>1. ASSUME NEW task \in Muts \cup {Seal}, registry \in Instances, Enqueue(task)
      PROVE  InFlight'
  BY <1>1, SessionFields DEF Enqueue, InFlight, Sessions
<1>2. registry # 0 => registry \in Instances
  BY DEF TypeOK
<1>3. CASE Connect
  <2>1. CASE registry = 0
    BY <1>3, <2>1, LoadType DEF Connect, TypeOK, InFlight, storage
  <2>2. CASE registry # 0
    BY <1>3, <2>2 DEF Connect, TypeOK, InFlight, storage
  <2> QED BY <2>1, <2>2
<1>4. CASE Reload
  BY <1>4, LoadType DEF Reload, TypeOK, InFlight, storage, senders
<1>5. CASE RequestSeal
  <2>1. used' \in [Events -> Nat]
    BY <1>5, SpendType DEF RequestSeal, TypeOK, Events
  <2> QED BY <1>1, <1>2, <1>5, <2>1, EnqueueType DEF RequestSeal, TypeOK, storage, senders
<1>6. CASE Leave
  <2>1. used' \in [Events -> Nat]
    BY <1>6, SpendType DEF Leave, TypeOK, Events
  <2> QED BY <1>2, <1>6, <2>1, LostType DEF Leave, TypeOK, InFlight, storage
<1>7. CASE LoseSnapshot
  <2>1. used' \in [Events -> Nat]
    BY <1>7, SpendType DEF LoseSnapshot, TypeOK, Events
  <2>2. snap' \in Snapshots
    BY <1>7 DEF LoseSnapshot, Snapshots, NoSnapshot
  <2> QED BY <1>7, <2>1, <2>2 DEF LoseSnapshot, TypeOK, InFlight, server, senders
<1>8. CASE Crash
  <2>1. used' \in [Events -> Nat]
    BY <1>8, SpendType DEF Crash, TypeOK, Events
  <2>2. file' \in File
    <3>1. ASSUME NEW k \in Instances, NEW end \in CrashEnds, NEW whole \in 0..Len(ses[k].batch)
          PROVE  Write(file, ses[k].batch, whole, end) \in File
      <4>1. ses[k].batch \in Seq(Entry) /\ end \in Ends
        BY SessionFields, DurableBoardAssumption
      <4> QED BY <4>1, WriteType DEF TypeOK
    <3>2. \/ file' = file
          \/ \E k \in Instances, end \in CrashEnds : \E whole \in 0..Len(ses[k].batch) :
               file' = Write(file, ses[k].batch, whole, end)
      BY <1>8 DEF Crash
    <3> QED BY <3>1, <3>2 DEF TypeOK
  <2>3. mem' \in [Instances -> Boards]
    <3> DEFINE dead == [Unborn EXCEPT !.phase = "dead"]
    <3>1. Unborn \in Boards
      BY DEF Unborn, Boards, Phases, Content, Empty
    <3>2. dead \in Boards
      BY <3>1 DEF Boards, Phases
    <3>3. mem' = [k \in Instances |-> IF mem[k].phase = "unborn" THEN mem[k] ELSE dead]
      BY <1>8 DEF Crash
    <3> HIDE DEF dead
    <3> QED BY <3>2, <3>3 DEF TypeOK
  <2>5. NewSession \in Sessions
    BY DEF NewSession, Sessions, Steps, Clean, RepairPlan
  <2>6. ses' \in [Instances -> Sessions] /\ InFlight'
    BY <1>8, <2>5 DEF Crash, InFlight, NewSession
  <2>7. client' \in [Muts -> Answers]
    BY <1>8, LostType DEF Crash
  <2> QED BY <1>8, <2>1, <2>2, <2>3, <2>6, <2>7 DEF Crash, TypeOK
<1>9. ASSUME NEW m \in Muts, Send(m) \/ Resend(m)
      PROVE  Typed'
  <2>1. client' \in [Muts -> Answers]
    BY <1>9 DEF Send, Resend, TypeOK, Answers
  <2>2. used' \in [Events -> Nat]
    BY <1>9, SpendType DEF Send, Resend, TypeOK, Events
  <2>3. registry \in Instances /\ Enqueue(m)
    BY <1>2, <1>9 DEF Send, Resend
  <2>4. ses' \in [Instances -> Sessions] /\ InFlight'
    BY <1>1, <2>3, EnqueueType
  <2> QED BY <1>9, <2>1, <2>2, <2>4 DEF Send, Resend, TypeOK, storage
<1>10. ASSUME NEW k \in Instances, TimerSave(k)
       PROVE  Typed'
  <2>1. saving' \in Saves \cup {NoSave} /\ mem' \in [Instances -> Boards]
    BY <1>10, SaveType DEF TimerSave
  <2>2. used' \in [Events -> Nat]
    BY <1>10, SpendType DEF TimerSave, TypeOK, Events
  <2> QED BY <1>10, <2>1, <2>2 DEF TimerSave, TypeOK, InFlight, storage, senders
<1> QED BY <1>3, <1>4, <1>5, <1>6, <1>7, <1>8, <1>9, <1>10 DEF Environment

\* The inductive invariant holds at the start ...
LEMMA TypedInit == Init => Typed
BY TypeInit DEF Typed, InFlight, Init, NewSession

\* ... and every step keeps it.
LEMMA TypedStep == Typed /\ [Next]_vars => Typed'
<1> SUFFICES ASSUME Typed, [Next]_vars PROVE Typed'
  OBVIOUS
<1>1. 1 \in Instances
  BY DurableBoardAssumption DEF Instances
<1>2. CASE Serve
  BY <1>1, <1>2, RecoverTyped, TakeTyped, PersistTyped, KeepTyped DEF Serve
<1>3. CASE Environment
  BY <1>3, EnvironmentTyped
<1>4. CASE UNCHANGED vars
  BY <1>4 DEF Typed, TypeOK, InFlight, vars, storage, server, senders
<1> QED BY <1>2, <1>3, <1>4 DEF Next

\* Every variable keeps its type, whatever is sent, faulty, dropped or killed.
THEOREM TypeCorrect == Spec => []TypeOK
<1>1. Typed => TypeOK
  BY DEF Typed
<1> QED BY <1>1, TypedInit, TypedStep, PTL DEF Spec

-----------------------------------------------------------------------------
(* The cap on live items, over saves, loads, crashes and failed appends.    *)

Bounded(c) == LiveCount(c) <= MaxItems /\ InReach(c)

\* What an instance is about to apply writes no item again that was deleted.  The
\* theorem's premise: such items come back behind the trim cursor.
NothingRevived ==
  \A k \in Instances :
    /\ \A m \in Muts : NextTask(k, m) /\ m.cid \notin ses[k].remembered
                       => ~Revives(mem[k].content, m)
    /\ \A p \in pending[k] : ~Revives(mem[k].content, p.entry.mut)

\* Boards, snapshots and saves under way hold no more than the cap, and the trim
\* has every live item ahead of it.
Capped ==
  /\ \A k \in Instances : Bounded(mem[k].content)
  /\ Len(snap.content) <= MaxItems
  /\ saving # NoSave => Len(saving.content) <= MaxItems

\* A load of few items is within the cap ...
LEMMA LoadedBounded ==
  ASSUME NEW items \in Seq(Item), Len(items) <= MaxItems
  PROVE  Bounded(Loaded(items))
<1> DEFINE c == Loaded(items)
<1>1. c \in Content /\ c.order = items /\ c.cursor = 0
  BY LoadedType DEF Loaded
<1>2. LivePlaces(c) \in SUBSET (1..Len(items)) /\ Len(items) \in Nat
  BY <1>1, PlaceSets
<1>3. IsFiniteSet(1..Len(items)) /\ Cardinality(1..Len(items)) = Len(items)
  <2> DEFINE n == Len(items)
  <2>1. n \in Nat
    BY <1>2
  <2> HIDE DEF n
  <2>2. IsFiniteSet(1..n) /\ Cardinality(1..n) = n
    BY <2>1, FS_Interval
  <2> QED BY <2>2 DEF n
<1>4. LiveCount(c) <= Len(items) /\ LiveCount(c) \in Nat
  BY <1>1, <1>2, <1>3, FS_Subset, PlaceSets DEF LiveCount
<1> HIDE DEF c
<1>5. InReach(c)
  BY <1>1, <1>2 DEF InReach
<1> QED BY <1>2, <1>4, <1>5, BoundsAssumption DEF Bounded, c

\* ... and so is what remains of a board when places are dropped from it.
LEMMA DroppedBounded ==
  ASSUME NEW c \in Content, NEW places \in SUBSET (DOMAIN c.order), Bounded(c)
  PROVE  Bounded(Dropped(c, places))
<1> DEFINE kept == DOMAIN c.order \ places
           rest == ItemsAt(c.order, kept)
           d    == Loaded(rest)
           f    == [r \in LivePlaces(d) |-> Nth(kept, r)]
<1>0. CASE places = {}
  BY <1>0 DEF Dropped
<1>1. c.order \in Seq(Item) /\ kept \in SUBSET (1..Len(c.order)) /\ Len(c.order) \in Nat
      /\ kept \in SUBSET (DOMAIN c.order)
  BY PlaceSets
<1>2. rest \in Seq(Item) /\ Len(rest) = Cardinality(kept)
  <2> HIDE DEF kept
  <2> QED BY <1>1, ItemsAtType
<1>3. d \in Content /\ d.order = rest /\ d.cursor = 0
  <2> HIDE DEF rest
  <2> QED BY <1>2, LoadedType DEF Loaded
<1>4. LivePlaces(d) \in SUBSET (1..Cardinality(kept))
  <2> HIDE DEF d, rest, kept
  <2> QED BY <1>2, <1>3, PlaceSets
<1>5. ASSUME NEW r \in LivePlaces(d)
      PROVE  f[r] \in LivePlaces(c) /\ Rank(kept, f[r]) = r
  <2>1. r \in 1..Cardinality(kept) /\ d.order[r].state = "live"
    BY <1>4 DEF LivePlaces
  <2>2. Nth(kept, r) \in kept /\ Rank(kept, Nth(kept, r)) = r
    <3> HIDE DEF kept
    <3> QED BY <1>1, <2>1, NthIs
  <2>3. d.order[r] = c.order[Nth(kept, r)]
    <3> HIDE DEF kept
    <3> QED BY <1>3, <2>1 DEF ItemsAt
  <2> HIDE DEF d
  <2> QED BY <2>1, <2>2, <2>3 DEF LivePlaces
<1> HIDE DEF d, rest, kept
<1>6. f \in Injection(LivePlaces(d), LivePlaces(c))
  <2>1. f \in [LivePlaces(d) -> LivePlaces(c)]
    BY <1>5
  <2>2. \A r, s \in LivePlaces(d) : f[r] = f[s] => r = s
    BY <1>5
  <2> HIDE DEF f
  <2> QED BY <2>1, <2>2 DEF Injection, IsInjective
<1>7. IsFiniteSet(LivePlaces(c)) /\ LiveCount(c) \in Nat /\ LiveCount(d) \in Nat
  BY <1>3, PlaceSets, Ranks
<1>8. LiveCount(d) <= LiveCount(c)
  BY <1>6, <1>7, FS_Injection DEF LiveCount
<1>9. InReach(d)
  BY <1>3, <1>4 DEF InReach
<1>10. Bounded(d)
  BY <1>7, <1>8, <1>9, BoundsAssumption DEF Bounded
<1> QED BY <1>0, <1>10 DEF Dropped, d, rest, kept

\* A save finds nothing to clean, stores as many items as are live and leaves
\* the board within its cap, at its start and at its end.
LEMMA SaveBounded ==
  ASSUME NEW c \in Content, Bounded(c)
  PROVE  /\ Bounded(Captured(Cleaned(c))) /\ Len(Stored(Cleaned(c))) <= MaxItems
         /\ Bounded(Finalized(c))
<1>1. Excess(c) = 0
  BY PlaceSets, BoundsAssumption DEF Bounded, Excess
<1>2. Victims(c) = {}
  <2> SUFFICES ASSUME NEW i \in Victims(c) PROVE FALSE
    OBVIOUS
  <2>1. i \in Ahead(c) /\ Rank(Ahead(c), i) <= 0
    BY <1>1 DEF Victims
  <2>2. Ahead(c) \in SUBSET (1..Len(c.order)) /\ Len(c.order) \in Nat
    BY PlaceSets
  <2>3. Rank(Ahead(c), i) \in 1..Cardinality(Ahead(c)) /\ Cardinality(Ahead(c)) \in Nat
    BY <2>1, <2>2, Ranks
  <2> QED BY <2>1, <2>3
<1>3. Cleaned(c) = c
  BY <1>1, <1>2 DEF Cleaned, Stop, Content
<1>4. Bounded(Captured(c))
  <2>1. LivePlaces(Captured(c)) = LivePlaces(c) /\ Captured(c).cursor = c.cursor
    BY PlaceSets DEF Captured, LivePlaces, Content, Item
  <2> QED BY <2>1 DEF Bounded, LiveCount, InReach
<1>5. Len(Stored(c)) = LiveCount(c)
  BY PlaceSets, ItemsAtType DEF Stored, LiveCount
<1>6. Bounded(Finalized(c))
  BY DroppedBounded DEF Finalized
<1> QED BY <1>3, <1>4, <1>5, <1>6 DEF Bounded

\* The empty board has room.
LEMMA EmptyBounded == Bounded(Empty)
<1>1. << >> \in Seq(Item) /\ Len(<< >>) = 0
  OBVIOUS
<1>2. Empty = Loaded(<< >>)
  BY DEF Empty, Loaded
<1>3. Len(<< >>) <= MaxItems
  BY <1>1, BoundsAssumption
<1>4. Bounded(Loaded(<< >>))
  BY <1>1, <1>3, LoadedBounded
<1> QED BY <1>2, <1>4

\* A phase, a disposal or a failed load leaves every content as it is.
LEMMA SameContents ==
  ASSUME mem \in [Instances -> Boards], NEW k \in Instances, NEW value,
         \/ mem' = mem
         \/ mem' = [mem EXCEPT ![k].phase = value]
         \/ mem' = [mem EXCEPT ![k].disposed = value]
  PROVE  \A j \in Instances : mem'[j].content = mem[j].content
<1> SUFFICES ASSUME NEW j \in Instances PROVE mem'[j].content = mem[j].content
  OBVIOUS
<1>1. CASE mem' = [mem EXCEPT ![k].phase = value]
  BY <1>1 DEF Boards
<1>2. CASE mem' = [mem EXCEPT ![k].disposed = value]
  BY <1>2 DEF Boards
<1> QED BY <1>1, <1>2

\* What keeps the boards' contents and the saves keeps the cap.
LEMMA SameCap ==
  ASSUME Capped, \A k \in Instances : mem'[k].content = mem[k].content,
         snap' \in {snap, NoSnapshot}, saving' \in {saving, NoSave}
  PROVE  Capped'
<1>1. Len(NoSnapshot.content) <= MaxItems
  BY BoundsAssumption DEF NoSnapshot
<1> QED BY <1>1 DEF Capped

\* So does what gives one board another content within the cap.
LEMMA OneCap ==
  ASSUME Capped, NEW k \in Instances, Bounded(mem'[k].content),
         \A j \in Instances : j # k => mem'[j] = mem[j],
         snap' = snap, saving' = saving
  PROVE  Capped'
BY DEF Capped

\* Loading and replaying keep to the cap.
LEMMA RecoverCapped ==
  ASSUME Typed, Capped, NothingRevived, NEW k \in Instances, Recover(k)
  PROVE  Capped'
<1>0. /\ mem \in [Instances -> Boards] /\ snap \in Snapshots /\ mem[k].content \in Content
      /\ UNCHANGED << snap, saving >> /\ Bounded(mem[k].content)
  BY BoardFields DEF Typed, TypeOK, Recover, ReadSnapshot, ReadLedger, HydrateNext, storage, Capped
<1>1. CASE ReadSnapshot(k)
  <2>1. /\ mem'[k].content = Loaded(snap.content)
        /\ \A j \in Instances : j # k => mem'[j] = mem[j]
    BY <1>0, <1>1 DEF ReadSnapshot, Boards
  <2>2. Bounded(mem'[k].content)
    BY <1>0, <2>1, LoadedBounded DEF Capped, Snapshots
  <2> QED BY <1>0, <2>1, <2>2, OneCap
<1>2. ASSUME FailLoad(k) PROVE Capped'
  <2>1. mem' = [mem EXCEPT ![k].phase = "broken"]
    BY <1>2 DEF FailLoad
  <2> QED BY <1>0, <2>1, SameContents, SameCap
<1>3. CASE ReadLedger(k)
  <2>1. PICK phase : mem' = [mem EXCEPT ![k].phase = phase]
    BY <1>3 DEF ReadLedger, FailLoad
  <2> QED BY <1>0, <2>1, SameContents, SameCap
<1>4. CASE HydrateNext(k)
  <2>1. PICK p \in pending[k] :
          LET result == Process(mem[k].content, p.entry.mut)
              rest   == pending[k] \ {p}
          IN \/ FailLoad(k)
             \/ mem' = [mem EXCEPT ![k] = [mem[k] EXCEPT
                    !.content = result.content, !.seq = p.entry.seq,
                    !.phase = IF rest = {} THEN "ready" ELSE "hydrating"]]
    BY <1>4 DEF HydrateNext
  <2>2. p.entry.mut \in Mutation /\ ~Revives(mem[k].content, p.entry.mut)
    BY DEF Typed, TypeOK, Reads, Entry, NothingRevived
  <2>3. Bounded(Process(mem[k].content, p.entry.mut).content)
    BY <1>0, <2>2, CapHolds DEF Bounded
  <2>4. CASE ~FailLoad(k)
    <3>1. /\ mem'[k].content = Process(mem[k].content, p.entry.mut).content
          /\ \A j \in Instances : j # k => mem'[j] = mem[j]
      BY <1>0, <2>1, <2>4 DEF Boards
    <3> QED BY <1>0, <2>3, <3>1, OneCap
  <2> QED BY <1>2, <2>4
<1> QED BY <1>1, <1>3, <1>4 DEF Recover

\* Taking a write keeps to the cap, and so does whatever its append does.
LEMMA AcceptCapped ==
  ASSUME Typed, Capped, NothingRevived, NEW k \in Instances, Take(k) \/ Persist(k)
  PROVE  Capped'
<1>0. mem \in [Instances -> Boards] /\ mem[k].content \in Content /\ Bounded(mem[k].content)
  BY BoardFields DEF Typed, TypeOK, Capped
<1>1. ASSUME NEW m \in Muts, TakeWrite(k, m) PROVE Capped'
  <2>1. m \in Mutation /\ ~Revives(mem[k].content, m)
    BY <1>1, DurableBoardAssumption DEF TakeWrite, NothingRevived
  <2>2. Bounded(Process(mem[k].content, m).content)
    BY <1>0, <2>1, CapHolds DEF Bounded
  <2>3. mem' = [mem EXCEPT ![k].content = Process(mem[k].content, m).content]
        /\ UNCHANGED << snap, saving >>
    BY <1>1 DEF TakeWrite, storage
  <2>4. /\ mem'[k].content = Process(mem[k].content, m).content
        /\ \A j \in Instances : j # k => mem'[j] = mem[j]
    BY <1>0, <2>3 DEF Boards
  <2> QED BY <2>2, <2>3, <2>4, OneCap
<1>2. CASE TakeSeal(k) \/ \E m \in Muts : TakeRetry(k, m) \/ TakeRefused(k, m)
  <2>1. UNCHANGED << mem, snap, saving >>
    BY <1>2 DEF TakeSeal, TakeRetry, TakeRefused, storage
  <2> QED BY <2>1, SameCap
<1>3. CASE Persist(k)
  <2>1. UNCHANGED << snap, saving >>
    BY <1>3 DEF Persist, ReadBoundary, RepairBoundary, BoundaryFails, AppendSucceeds,
         AppendStopsShort, AppendFails, Abandon, storage
  <2>2. \/ mem' = mem
        \/ Confirm(k)
    BY <1>3 DEF Persist, ReadBoundary, RepairBoundary, BoundaryFails, AppendSucceeds,
         AppendStopsShort, AppendFails, Abandon
  <2>3. \A j \in Instances : mem'[j].content = mem[j].content
    <3>1. CASE Confirm(k)
      <4>1. mem' = [mem EXCEPT ![k].seq = mem[k].seq + Len(ses[k].batch)]
        BY <1>0, <3>1 DEF Confirm
      <4> QED BY <1>0, <4>1 DEF Boards
    <3> QED BY <2>2, <3>1
  <2> QED BY <2>1, <2>3, SameCap
<1> QED BY <1>1, <1>2, <1>3 DEF Take

\* A save that begins keeps to the cap.
LEMMA BeginCapped ==
  ASSUME Typed, Capped, snap' = snap, NEW k \in Instances, NEW unload, BeginSave(k, unload)
  PROVE  Capped'
<1>0. mem \in [Instances -> Boards] /\ mem[k].content \in Content /\ Bounded(mem[k].content)
  BY BoardFields DEF Typed, TypeOK, Capped
<1>1. mem' = [mem EXCEPT ![k].content = Captured(Cleaned(mem[k].content))]
      /\ saving'.content = Stored(Cleaned(mem[k].content))
  BY <1>0 DEF BeginSave
<1>2. Bounded(mem'[k].content) /\ \A j \in Instances : j # k => mem'[j] = mem[j]
  BY <1>0, <1>1, SaveBounded DEF Boards
<1>3. Len(saving'.content) <= MaxItems
  BY <1>0, <1>1, SaveBounded
<1> QED BY <1>2, <1>3 DEF Capped

\* Unloads, drops and the end of a save keep to it.
LEMMA KeepCapped ==
  ASSUME Typed, Capped, NEW k \in Instances, Drop(k) \/ Unload(k) \/ EndSave
  PROVE  Capped'
<1>0. mem \in [Instances -> Boards]
  BY DEF Typed, TypeOK
<1>1. CASE Drop(k) \/ UnloadSkipsSave(k) \/ UnloadRejects(k)
  <2>1. UNCHANGED << snap, saving >>
    BY <1>1 DEF Drop, UnloadSkipsSave, UnloadRejects, storage
  <2>2. mem' = mem \/ \E value : mem' = [mem EXCEPT ![k].disposed = value]
    BY <1>1 DEF Drop, UnloadSkipsSave, UnloadRejects
  <2> QED BY <1>0, <2>1, <2>2, SameContents, SameCap
<1>2. CASE UnloadSave(k)
  BY <1>2, BeginCapped DEF UnloadSave, storage
<1>3. CASE StaleSave \/ SaveFails
  BY <1>3, SameCap DEF StaleSave, SaveFails, storage
<1>4. CASE FinishSave
  <2> DEFINE j == saving.inst
  <2>1. saving # NoSave /\ saving' = NoSave /\ snap'.content \in {<< >>, saving.content}
    BY <1>4 DEF FinishSave, NoSnapshot
  <2>2. j \in Instances /\ mem[j].content \in Content /\ Bounded(mem[j].content)
    BY <1>0, <2>1, SaveFields DEF Typed, Capped, Boards
  <2>3. /\ mem'[j].content = Finalized(mem[j].content)
        /\ \A i \in Instances : i # j => mem'[i] = mem[i]
    BY <1>0, <1>4, <2>2 DEF FinishSave, Boards
  <2>4. Bounded(mem'[j].content)
    BY <2>2, <2>3, SaveBounded
  <2>5. Len(snap'.content) <= MaxItems
    BY <2>1, BoundsAssumption DEF Capped
  <2> HIDE DEF j
  <2> QED BY <2>1, <2>3, <2>4, <2>5 DEF Capped
<1> QED BY <1>1, <1>2, <1>3, <1>4 DEF Unload, EndSave

\* So do users, timers, lost files and crashes.
LEMMA EnvironmentCapped ==
  ASSUME Typed, Capped, Environment
  PROVE  Capped'
<1>0. mem \in [Instances -> Boards]
  BY DEF Typed, TypeOK
<1>1. CASE Connect \/ Reload
  <2>1. UNCHANGED << snap, saving >> /\ (mem' = mem \/ \E k \in Instances : Load(k))
    BY <1>1 DEF Connect, Reload, storage
  <2>2. mem' = mem \/ \E k \in Instances : mem' = [mem EXCEPT ![k].phase = "loading"]
    BY <2>1 DEF Load
  <2>3. \A j \in Instances : mem'[j].content = mem[j].content
    BY <1>0, <2>2, SameContents
  <2> QED BY <2>1, <2>3, SameCap
<1>2. CASE RequestSeal \/ Leave \/ \E m \in Muts : Send(m) \/ Resend(m)
  <2>1. UNCHANGED << snap, saving, mem >>
    BY <1>2 DEF RequestSeal, Leave, Send, Resend, storage
  <2> QED BY <2>1, SameCap
<1>3. CASE LoseSnapshot
  BY <1>3, SameCap DEF LoseSnapshot, server
<1>4. ASSUME NEW k \in Instances, TimerSave(k) PROVE Capped'
  BY <1>4, BeginCapped DEF TimerSave, storage
<1>5. CASE Crash
  <2>1. snap' = snap /\ saving' = NoSave
    BY <1>5 DEF Crash
  <2>2. \A k \in Instances : mem'[k].content \in {mem[k].content, Empty}
    BY <1>5 DEF Crash, Unborn
  <2>3. \A k \in Instances : Bounded(mem'[k].content)
    BY <2>2, EmptyBounded DEF Capped
  <2> QED BY <2>1, <2>3 DEF Capped
<1> QED BY <1>1, <1>2, <1>3, <1>4, <1>5 DEF Environment

\* No board in use ever holds more live items than the cap, however saves, loads,
\* unloads, lost snapshots, failing appends and crashes fall between the writes,
\* as long as no deleted item is written again.
THEOREM CapSurvives == Spec /\ []NothingRevived => []WithinCap
<1>1. Init => Typed /\ Capped
  BY TypedInit, EmptyBounded, BoundsAssumption DEF Init, Capped, Unborn, NoSnapshot
<1>2. Typed /\ Capped /\ NothingRevived /\ [Next]_vars => Typed' /\ Capped'
  <2> SUFFICES ASSUME Typed, Capped, NothingRevived, [Next]_vars PROVE Typed' /\ Capped'
    OBVIOUS
  <2>1. 1 \in Instances
    BY DurableBoardAssumption DEF Instances
  <2>2. CASE Serve
    BY <2>1, <2>2, TypedStep, RecoverCapped, AcceptCapped, KeepCapped DEF Serve
  <2>3. CASE Environment
    BY <2>3, TypedStep, EnvironmentCapped
  <2>4. CASE UNCHANGED vars
    BY <2>4, TypedStep, SameCap DEF vars, storage, server
  <2> QED BY <2>2, <2>3, <2>4 DEF Next
<1>3. Capped => WithinCap
  BY DEF Capped, WithinCap, Bounded
<1> QED BY <1>1, <1>2, <1>3, PTL DEF Spec

-----------------------------------------------------------------------------
(***************************************************************************)
(* Why no accepted write is ever lost: the theorems about the ledger.      *)
(* Their two premises are that no write stops short in silence ("short" is *)
(* not among the faults) and Calm.                                         *)
(***************************************************************************)

-----------------------------------------------------------------------------
(* The ledger file.                                                         *)

\* What the board ever records: clients' mutations and follow-up deletions.
Sendable  == Muts \cup {m \in Mutation : m.cid = NoClientId}
SentEntry == {e \in Entry : e.mut \in Sendable}

\* Every line is such an entry, but for bytes torn off at the very end.
Sound(f) ==
  \A i \in DOMAIN f.lines :
    \/ f.lines[i] \in SentEntry
    \/ f.lines[i] = Torn /\ i = Len(f.lines) /\ ~f.terminated

\* A sound file is readable, and keeping its entries keeps what it records.
LEMMA KeepsRecords ==
  ASSUME NEW f \in File, NEW g \in File, Sound(f), Sound(g), Keeps(f, g)
  PROVE  Recorded(f) \subseteq Recorded(g)
<1>1. Readable(g)
  BY LineAssumption DEF Sound, Readable, IsEntry, SentEntry
<1> QED BY <1>1 DEF Keeps, Recorded

\* A sound file records only what was sent or what the server made itself.
LEMMA RecordsAreSendable ==
  ASSUME NEW f \in File, Sound(f)
  PROVE  Recorded(f) \subseteq Sendable
BY LineAssumption DEF Sound, Recorded, IsEntry, SentEntry

\* An entry of a sound file is recorded.
LEMMA EntryIsRecorded ==
  ASSUME NEW f \in File, Sound(f), NEW i \in DOMAIN f.lines, IsEntry(f.lines[i])
  PROVE  f.lines[i].mut \in Recorded(f)
<1>1. Readable(f)
  BY LineAssumption DEF Sound, Readable, IsEntry, SentEntry
<1> QED BY <1>1 DEF Recorded

\* A write after a newline keeps every entry there is, however it ends.
LEMMA WriteSound ==
  ASSUME NEW f \in File, Sound(f), f.terminated, NEW batch \in Seq(SentEntry),
         NEW whole \in 0..Len(batch), NEW end \in Ends
  PROVE  /\ Sound(Write(f, batch, whole, end))
         /\ Keeps(f, Write(f, batch, whole, end))
<1> DEFINE landed == Landed(batch, whole, end)
           g      == Write(f, batch, whole, end)
<1>1. f.lines \in Seq(Line) /\ SubSeq(batch, 1, whole) \in Seq(SentEntry)
  BY DEF File
<1>2. CASE landed = << >>
  BY <1>2 DEF Write, Keeps
<1>3. CASE landed # << >>
  <2>1. landed \in Seq(Line)
    <3>1. SubSeq(batch, 1, whole) \in Seq(Line) /\ << Torn >> \in Seq(Line) /\ << >> \in Seq(Line)
      BY <1>1 DEF Line, SentEntry
    <3> QED BY <3>1 DEF Landed
  <2>2. g.lines = f.lines \o landed /\ g.terminated = (end = "newline")
    BY <1>3 DEF Write
  <2>3. Keeps(f, g)
    BY <1>1, <2>1, <2>2 DEF Keeps
  <2>4. ASSUME NEW i \in 1..Len(landed)
        PROVE  \/ landed[i] \in SentEntry
               \/ landed[i] = Torn /\ i = Len(landed) /\ end # "newline"
    <3>1. CASE end = "torn"
      BY <1>1, <3>1 DEF Landed
    <3>2. CASE end # "torn"
      <4>1. landed = SubSeq(batch, 1, whole)
        BY <1>1, <3>2 DEF Landed
      <4> QED BY <1>1, <4>1
    <3> QED BY <3>1, <3>2
  <2>5. Sound(g)
    <3> SUFFICES ASSUME NEW i \in DOMAIN g.lines
                 PROVE  \/ g.lines[i] \in SentEntry
                        \/ g.lines[i] = Torn /\ i = Len(g.lines) /\ ~g.terminated
      BY DEF Sound
    <3>1. Len(g.lines) = Len(f.lines) + Len(landed) /\ i \in 1..Len(g.lines)
      BY <1>1, <2>1, <2>2
    <3>2. CASE i <= Len(f.lines)
      BY <1>1, <2>1, <2>2, <3>1, <3>2 DEF Sound
    <3>3. CASE i > Len(f.lines)
      <4>1. i - Len(f.lines) \in 1..Len(landed) /\ g.lines[i] = landed[i - Len(f.lines)]
        BY <1>1, <2>1, <2>2, <3>1, <3>3
      <4>2. i - Len(f.lines) = Len(landed) => i = Len(g.lines)
        BY <1>1, <2>1, <3>1
      <4>3. end # "newline" => ~g.terminated
        BY <2>2
      <4> HIDE DEF g, landed
      <4> QED BY <2>4, <4>1, <4>2, <4>3
    <3> QED BY <1>1, <3>1, <3>2, <3>3
  <2> QED BY <2>3, <2>5
<1> QED BY <1>2, <1>3

\* A write that ends as it should records every mutation of its batch.
LEMMA WriteAllRecords ==
  ASSUME NEW f \in File, Sound(f), f.terminated, NEW batch \in Seq(SentEntry)
  PROVE  /\ Sound(WriteAll(f, batch)) /\ Keeps(f, WriteAll(f, batch))
         /\ WriteAll(f, batch).terminated
         /\ \A i \in DOMAIN batch : batch[i].mut \in Recorded(WriteAll(f, batch))
<1> DEFINE g == WriteAll(f, batch)
<1>1. Len(batch) \in 0..Len(batch) /\ "newline" \in Ends /\ batch \in Seq(Entry)
  BY DEF Ends, SentEntry
<1>2. g \in File /\ Sound(g) /\ Keeps(f, g)
  BY <1>1, WriteType, WriteSound DEF WriteAll
<1>3. Landed(batch, Len(batch), "newline") = batch
  BY DEF Landed
<1>4. g.terminated /\ (batch # << >> => g.lines = f.lines \o batch)
  BY <1>3 DEF WriteAll, Write
<1>5. ASSUME NEW i \in DOMAIN batch
      PROVE  batch[i].mut \in Recorded(g)
  <2>1. f.lines \in Seq(Line) /\ batch # << >> /\ i \in 1..Len(batch)
    BY DEF File
  <2>2. g.lines[Len(f.lines) + i] = batch[i] /\ Len(f.lines) + i \in DOMAIN g.lines
    BY <1>4, <2>1
  <2>3. IsEntry(batch[i])
    BY <2>1, LineAssumption DEF IsEntry, SentEntry
  <2> QED BY <1>2, <2>2, <2>3, EntryIsRecorded
<1> QED BY <1>2, <1>4, <1>5

\* The repair a sound file calls for leaves it sound, terminated and with every
\* entry it had.
LEMMA RepairSound ==
  ASSUME NEW f \in File, Sound(f), ~f.terminated
  PROVE  /\ Sound(Repair(f, PlanFor(f)))
         /\ Keeps(f, Repair(f, PlanFor(f)))
         /\ Repair(f, PlanFor(f)).terminated
<1>1. f.lines \in Seq(Line) /\ f.lines # << >> /\ Len(f.lines) \in Nat \ {0}
  BY DEF File
<1>2. CASE IsEntry(LastLine(f))
  <2>1. Repair(f, PlanFor(f)) = [f EXCEPT !.terminated = TRUE]
    BY <1>2 DEF PlanFor, SealLine, Repair
  <2>2. [f EXCEPT !.terminated = TRUE].lines = f.lines /\ [f EXCEPT !.terminated = TRUE].terminated
    BY DEF File
  <2> QED BY <1>1, <1>2, <2>1, <2>2, LineAssumption DEF Sound, Keeps, LastLine, IsEntry, SentEntry
<1>3. CASE ~IsEntry(LastLine(f))
  <2> DEFINE n == Len(f.lines) - 1
             g == [lines |-> SubSeq(f.lines, 1, n), terminated |-> TRUE]
  <2>1. Repair(f, PlanFor(f)) = g
    BY <1>1, <1>3 DEF PlanFor, CutTo, Repair
  <2>2. DOMAIN g.lines = 1..n /\ \A i \in 1..n : g.lines[i] = f.lines[i]
    BY <1>1
  <2>3. \A i \in DOMAIN f.lines : IsEntry(f.lines[i]) => i \in 1..n
    BY <1>1, <1>3 DEF LastLine
  <2>4. \A i \in 1..n : i \in DOMAIN f.lines /\ i # Len(f.lines)
    BY <1>1
  <2> QED BY <2>1, <2>2, <2>3, <2>4 DEF Sound, Keeps
<1> QED BY <1>2, <1>3

-----------------------------------------------------------------------------
(* The inductive invariant.                                                 *)

\* The append under way on an instance, and what it knows of the file.
Appending(s) ==
  /\ s.boundary = "clean" => file.terminated
  /\ s.step = "write" => s.boundary = "clean"
  /\ s.step = "repair" => ~file.terminated /\ s.plan = PlanFor(file)
  /\ s.step # "idle" => s.batch \in Seq(SentEntry)
  /\ s.step # "idle" /\ s.ok => \E i \in DOMAIN s.batch : s.batch[i].mut = s.mut

Appends    == \A k \in Instances : Appending(ses[k])
Replays    == \A k \in Instances : \A p \in pending[k] : p.entry.mut \in Recorded(file)
Remembers  == \A k \in Instances, m \in Muts :
                m.cid \in ses[k].remembered => m \in Recorded(file)

Kept ==
  /\ Typed
  /\ Sound(file)
  /\ Appends
  /\ Replays
  /\ Remembers
  /\ AcceptedIsRecorded

\* What is recorded, remembered and confirmed stays so when the file only gains.
LEMMA GainKeeps ==
  ASSUME Kept, Typed', Sound(file)', Keeps(file, file')
  PROVE  Recorded(file) \subseteq Recorded(file)'
BY KeepsRecords DEF Kept, Typed, TypeOK

\* A step of one instance that leaves the file alone has that instance to answer for.
LEMMA SameFile ==
  ASSUME Kept, Typed', file' = file, NEW k \in Instances,
         \A j \in Instances : j # k => ses'[j] = ses[j] /\ pending'[j] = pending[j],
         Appending(ses[k])',
         \A q \in pending'[k] : q.entry.mut \in Recorded(file),
         \A m \in Muts : m.cid \in ses'[k].remembered => m \in Recorded(file),
         accepted' \subseteq Recorded(file)
  PROVE  Kept' /\ Keeps(file, file')
<1>1. Sound(file)' /\ Keeps(file, file') /\ Recorded(file)' = Recorded(file)
  BY DEF Kept, Sound, Keeps, Recorded, Readable, IsEntry
<1>2. Appends'
  BY DEF Kept, Appends, Appending, PlanFor, LastLine, IsEntry
<1>3. Replays'
  BY <1>1 DEF Kept, Replays
<1>4. Remembers'
  BY <1>1 DEF Kept, Remembers
<1> QED BY <1>1, <1>2, <1>3, <1>4 DEF Kept, AcceptedIsRecorded

\* So does one that leaves the sessions and the confirmations alone as well.
LEMMA Untouched ==
  ASSUME Kept, Typed', UNCHANGED << file, ses, pending, accepted >>
  PROVE  Kept' /\ Keeps(file, file')
<1>1. 1 \in Instances
  BY DurableBoardAssumption DEF Instances
<1>2. Appending(ses[1])'
  BY <1>1 DEF Kept, Appends, Appending, PlanFor, LastLine, IsEntry
<1> QED BY <1>1, <1>2, SameFile DEF Kept, Replays, Remembers, AcceptedIsRecorded

\* Queueing or dropping a task does not concern the file.
LEMMA QueueKept ==
  ASSUME Kept, Typed', NEW k \in Instances, NEW queue, ses' = [ses EXCEPT ![k].queue = queue],
         UNCHANGED << file, pending >>, accepted' \subseteq Recorded(file)
  PROVE  Kept' /\ Keeps(file, file')
<1>1. ses[k] \in Sessions /\ ses \in [Instances -> Sessions]
  BY SessionFields DEF Kept, Typed
<1>2. /\ ses'[k].step = ses[k].step /\ ses'[k].mut = ses[k].mut /\ ses'[k].ok = ses[k].ok
      /\ ses'[k].batch = ses[k].batch /\ ses'[k].boundary = ses[k].boundary
      /\ ses'[k].plan = ses[k].plan /\ ses'[k].remembered = ses[k].remembered
  BY <1>1 DEF Sessions
<1>3. Appending(ses[k])'
  BY <1>2 DEF Kept, Appends, Appending, PlanFor, LastLine, IsEntry
<1>4. \A j \in Instances : j # k => ses'[j] = ses[j] /\ pending'[j] = pending[j]
  BY <1>1
<1> QED BY <1>2, <1>3, <1>4, SameFile DEF Kept, Replays, Remembers

-----------------------------------------------------------------------------
(* One step at a time.                                                      *)

\* Loading and replaying keep what is recorded.
LEMMA RecoverKept ==
  ASSUME Kept, Typed', NEW k \in Instances, Recover(k)
  PROVE  Kept' /\ Keeps(file, file')
<1>0. Sound(file) /\ ses \in [Instances -> Sessions] /\ pending \in [Instances -> SUBSET Reads]
  BY DEF Kept, Typed, TypeOK
<1>1. CASE ReadSnapshot(k)
  BY <1>1, Untouched DEF ReadSnapshot, storage, senders
<1>2. CASE ReadLedger(k)
  <2>1. UNCHANGED << file, ses, accepted >>
    BY <1>2 DEF ReadLedger, storage
  <2>2. \A q \in pending'[k] : q.entry.mut \in Recorded(file)
    BY <1>0, <1>2 DEF ReadLedger, FailLoad, EntriesAfter, Recorded
  <2>3. \A j \in Instances : j # k => pending'[j] = pending[j]
    BY <1>0, <1>2 DEF ReadLedger, FailLoad
  <2>4. Appending(ses[k])'
    BY <2>1 DEF Kept, Appends, Appending, PlanFor, LastLine, IsEntry
  <2> QED BY <2>1, <2>2, <2>3, <2>4, SameFile DEF Kept, Remembers, AcceptedIsRecorded
<1>3. CASE HydrateNext(k)
  <2>1. UNCHANGED << file, accepted >>
    BY <1>3 DEF HydrateNext, storage
  <2>2. PICK p \in pending[k] :
          /\ pending' = [pending EXCEPT ![k] = {}] \/ pending' = [pending EXCEPT ![k] = pending[k] \ {p}]
          /\ \/ ses' = ses
             \/ ses' = [ses EXCEPT ![k].remembered = @ \cup ({p.entry.mut.cid} \cap ClientIds)]
    BY <1>3 DEF HydrateNext, FailLoad
  <2>3. p.entry.mut \in Recorded(file) /\ p.entry.mut \in Sendable
    BY <1>0, RecordsAreSendable DEF Kept, Replays, Typed, TypeOK
  <2>4. ASSUME NEW m \in Muts, m.cid \in ses'[k].remembered
        PROVE  m \in Recorded(file)
    <3>1. CASE m.cid \in ses[k].remembered
      BY <3>1 DEF Kept, Remembers
    <3>2. CASE m.cid \notin ses[k].remembered
      <4>1. m.cid = p.entry.mut.cid /\ m.cid \in ClientIds
        BY <1>0, <2>2, <2>4, <3>2 DEF Sessions
      <4>2. p.entry.mut \in Muts
        BY <2>3, <4>1, BoundsAssumption DEF Sendable
      <4> QED BY <2>3, <4>1, <4>2, DurableBoardAssumption
    <3> QED BY <3>1, <3>2
  <2>5. Appending(ses[k])'
    <3>1. /\ ses'[k].step = ses[k].step /\ ses'[k].mut = ses[k].mut /\ ses'[k].ok = ses[k].ok
          /\ ses'[k].batch = ses[k].batch /\ ses'[k].boundary = ses[k].boundary
          /\ ses'[k].plan = ses[k].plan
      BY <1>0, <2>2 DEF Sessions
    <3> QED BY <2>1, <3>1 DEF Kept, Appends, Appending, PlanFor, LastLine, IsEntry
  <2>6. \A j \in Instances : j # k => ses'[j] = ses[j] /\ pending'[j] = pending[j]
    BY <1>0, <2>2
  <2>7. \A q \in pending'[k] : q.entry.mut \in Recorded(file)
    BY <1>0, <2>2 DEF Kept, Replays
  <2> QED BY <2>1, <2>4, <2>5, <2>6, <2>7, SameFile DEF Kept, AcceptedIsRecorded
<1> QED BY <1>1, <1>2, <1>3 DEF Recover

\* The follow-ups of a mutation come from the server.
LEMMA FollowupSendable ==
  ASSUME NEW c \in Content, NEW m \in Muts
  PROVE  Process(c, m).followup \in Seq(Sendable)
<1>1. m \in Mutation
  BY DurableBoardAssumption
<1>2. ASSUME NEW x \in Items
      PROVE  EraserDelete(x) \in Sendable
  BY DEF EraserDelete, Sendable, Mutation, Ops
<1>3. CASE Applicable(c, m)
  <2>1. Applied(c, m) \in Content
    BY <1>1, <1>3, AppliedType
  <2>2. ASSUME NEW d \in Content
        PROVE  TrimFollowup(d) \in Seq(Sendable)
    <3> DEFINE gone == ItemsAt(d.order, Victims(d))
    <3>1. gone \in Seq(Item)
      BY PlaceSets, ItemsAtType
    <3>2. TrimFollowup(d) = [r \in DOMAIN gone |-> EraserDelete(gone[r].id)]
      BY DEF TrimFollowup
    <3> HIDE DEF gone
    <3>3. ASSUME NEW r \in DOMAIN gone
          PROVE  EraserDelete(gone[r].id) \in Sendable
      <4>1. gone[r] \in Item
        BY <3>1
      <4> QED BY <1>2, <4>1, ItemTypes
    <3>4. DOMAIN gone = 1..Len(gone) /\ Len(gone) \in Nat
      BY <3>1
    <3> QED BY <3>2, <3>3, <3>4
  <2> QED BY <1>3, <2>1, <2>2 DEF Process, Outcome
<1>4. CASE ~Applicable(c, m)
  <2>1. << EraserDelete(m.id) >> \in Seq(Sendable)
    BY <1>1, <1>2 DEF Mutation
  <2> QED BY <1>4, <2>1 DEF Process, Outcome
<1> QED BY <1>3, <1>4

\* Taking a task starts an append of what was sent, or confirms what is recorded.
LEMMA TakeKept ==
  ASSUME Kept, Typed', NEW k \in Instances, Take(k)
  PROVE  Kept' /\ Keeps(file, file')
<1>0. /\ Sound(file) /\ ses \in [Instances -> Sessions] /\ ses[k] \in Sessions
      /\ accepted \subseteq Recorded(file)
  BY DEF Kept, Typed, TypeOK, AcceptedIsRecorded
<1>1. CASE TakeSeal(k)
  <2>1. UNCHANGED << file, pending, accepted >>
    BY <1>1 DEF TakeSeal, storage, senders
  <2>2. /\ ses'[k].step = ses[k].step /\ ses'[k].mut = ses[k].mut /\ ses'[k].ok = ses[k].ok
        /\ ses'[k].batch = ses[k].batch /\ ses'[k].boundary = ses[k].boundary
        /\ ses'[k].plan = ses[k].plan /\ ses'[k].remembered = ses[k].remembered
        /\ \A j \in Instances : j # k => ses'[j] = ses[j]
    BY <1>0, <1>1 DEF TakeSeal, Sessions
  <2>3. Appending(ses[k])'
    BY <2>1, <2>2 DEF Kept, Appends, Appending, PlanFor, LastLine, IsEntry
  <2> QED BY <1>0, <2>1, <2>2, <2>3, SameFile DEF Kept, Replays, Remembers
<1>2. ASSUME NEW m \in Muts, TakeRetry(k, m)
      PROVE  Kept' /\ Keeps(file, file')
  <2>1. m \in Recorded(file)
    BY <1>2 DEF TakeRetry, Kept, Remembers
  <2>2. accepted' \subseteq Recorded(file)
    BY <1>0, <1>2, <2>1 DEF TakeRetry
  <2>3. ses' = [ses EXCEPT ![k].queue = Tail(ses[k].queue)]
    BY <1>0, <1>2 DEF TakeRetry
  <2> QED BY <1>2, <2>2, <2>3, QueueKept DEF TakeRetry, storage
<1>3. ASSUME NEW m \in Muts, TakeRefused(k, m)
      PROVE  Kept' /\ Keeps(file, file')
  <2>1. ses' = [ses EXCEPT ![k].queue = Tail(ses[k].queue)]
    BY <1>0, <1>3 DEF TakeRefused
  <2> QED BY <1>0, <1>3, <2>1, QueueKept DEF TakeRefused, storage
<1>4. ASSUME NEW m \in Muts, TakeWrite(k, m)
      PROVE  Kept' /\ Keeps(file, file')
  <2> DEFINE result == Process(mem[k].content, m)
             muts   == (IF result.ok THEN << m >> ELSE << >>) \o result.followup
             batch  == Batch(mem[k].seq, muts)
             step   == IF ses[k].boundary = "clean" THEN "write" ELSE "boundary"
             next   == [ses[k] EXCEPT !.queue = Tail(ses[k].queue), !.mut = m, !.ok = result.ok,
                                      !.batch = batch, !.step = step]
  <2>1. UNCHANGED << file, pending, accepted >> /\ ses' = [ses EXCEPT ![k] = next]
    BY <1>4 DEF TakeWrite, storage, senders
  <2>2. mem[k].content \in Content /\ mem[k].seq \in Nat /\ result.ok \in BOOLEAN
    BY BoardFields, ProcessType, DurableBoardAssumption DEF Kept, Typed, Outcomes
  <2>3. result.followup \in Seq(Sendable) /\ << m >> \in Seq(Sendable)
    BY <2>2, FollowupSendable DEF Sendable
  <2>4. muts \in Seq(Sendable) /\ (result.ok => Len(muts) >= 1 /\ muts[1] = m)
    <3> HIDE DEF result
    <3>1. CASE result.ok
      BY <2>3, <3>1
    <3>2. CASE ~result.ok
      BY <2>3, <3>2
    <3> QED BY <3>1, <3>2
  <2>5. batch \in Seq(SentEntry) /\ (result.ok => 1 \in DOMAIN batch /\ batch[1].mut = m)
    <3>1. Sendable \subseteq Mutation
      BY DurableBoardAssumption DEF Sendable
    <3>2. ASSUME NEW i \in 1..Len(muts)
          PROVE  [seq |-> mem[k].seq + i, mut |-> muts[i]] \in SentEntry
      <4> HIDE DEF muts
      <4>1. muts[i] \in Sendable /\ mem[k].seq + i \in Nat
        BY <2>2, <2>4
      <4> QED BY <3>1, <4>1 DEF SentEntry, Entry
    <3> HIDE DEF muts
    <3> QED BY <2>4, <3>2 DEF Batch
  <2>6. /\ next.boundary = ses[k].boundary /\ next.step = step /\ next.batch = batch
        /\ next.ok = result.ok /\ next.mut = m /\ next.remembered = ses[k].remembered
    BY <1>0 DEF Sessions
  <2>7. ses'[k] = next /\ \A j \in Instances : j # k => ses'[j] = ses[j]
    BY <1>0, <2>1
  <2>8. Appending(ses[k])'
    <3> HIDE DEF next, batch, result
    <3>1. ses'[k].boundary = "clean" => file'.terminated
      BY <2>1, <2>6, <2>7 DEF Kept, Appends, Appending
    <3>2. ses'[k].step \in {"write", "boundary"} /\ (ses'[k].step = "write" => ses'[k].boundary = "clean")
      BY <2>6, <2>7
    <3>3. ses'[k].batch \in Seq(SentEntry)
      BY <2>5, <2>6, <2>7
    <3>4. ses'[k].ok => \E i \in DOMAIN ses'[k].batch : ses'[k].batch[i].mut = ses'[k].mut
      BY <2>5, <2>6, <2>7
    <3> QED BY <3>1, <3>2, <3>3, <3>4 DEF Appending
  <2>9. \A x \in Muts : x.cid \in ses'[k].remembered => x \in Recorded(file)
    <3> HIDE DEF next
    <3> QED BY <2>6, <2>7 DEF Kept, Remembers
  <2> HIDE DEF next
  <2> QED BY <1>0, <2>1, <2>7, <2>8, <2>9, SameFile DEF Kept, Replays
<1> QED BY <1>1, <1>2, <1>3, <1>4 DEF Take

\* An append settled leaves nothing under way.
LEMMA SettledKept ==
  ASSUME Kept, Typed', NEW k \in Instances, NEW remembered, NEW boundary,
         Settle(k, remembered, boundary), pending' = pending,
         Sound(file)', Keeps(file, file'),
         \A j \in Instances : j # k => Appending(ses[j])',
         boundary = "clean" => file'.terminated,
         \A m \in Muts : m.cid \in remembered => m \in Recorded(file)',
         accepted' \subseteq Recorded(file)'
  PROVE  Kept'
<1>1. Recorded(file) \subseteq Recorded(file)'
  BY GainKeeps
<1>2. ses[k] \in Sessions /\ ses \in [Instances -> Sessions]
  BY SessionFields DEF Kept, Typed
<1>3. /\ ses'[k].step = "idle" /\ ses'[k].boundary = boundary
      /\ ses'[k].remembered = remembered
      /\ \A j \in Instances : j # k => ses'[j] = ses[j]
  BY <1>2 DEF Settle, Sessions
<1>4. Appends'
  BY <1>3 DEF Appends, Appending
<1>5. Replays' /\ Remembers'
  BY <1>1, <1>3 DEF Kept, Replays, Remembers
<1> QED BY <1>4, <1>5 DEF Kept, AcceptedIsRecorded

\* What other instances know of the file survives an append to it.
LEMMA OthersKnow ==
  ASSUME Kept, NEW k \in Instances, NEW j \in Instances, ses'[j] = ses[j],
         file.terminated, file'.terminated
  PROVE  Appending(ses[j])'
BY DEF Kept, Appends, Appending

\* Every step of an append keeps what is recorded and records what it confirms.
LEMMA PersistKept ==
  ASSUME Kept, Typed', Calm, "short" \notin AppendFaults, NEW k \in Instances, Persist(k)
  PROVE  Kept' /\ Keeps(file, file')
<1> DEFINE batch == ses[k].batch
<1>0. /\ file \in File /\ Sound(file) /\ ses \in [Instances -> Sessions] /\ ses[k] \in Sessions
      /\ accepted \subseteq Recorded(file) /\ Appending(ses[k])
  BY DEF Kept, Typed, TypeOK, Appends, AcceptedIsRecorded
<1>1. CASE ReadBoundary(k)
  <2> DEFINE plan == PlanFor(file)
             next == [ses[k] EXCEPT
                        !.plan = plan,
                        !.boundary = IF plan = Clean THEN "clean" ELSE "unchecked",
                        !.step = IF plan = Clean THEN "write" ELSE "repair"]
  <2>1. UNCHANGED << file, pending, accepted >> /\ ses' = [ses EXCEPT ![k] = next]
    BY <1>1 DEF ReadBoundary, storage, senders
  <2>2. plan = Clean <=> file.terminated
    BY DEF PlanFor, Clean, SealLine, CutTo
  <2>3. /\ next.plan = plan /\ next.batch = ses[k].batch /\ next.ok = ses[k].ok
        /\ next.mut = ses[k].mut /\ next.remembered = ses[k].remembered
        /\ next.boundary = (IF plan = Clean THEN "clean" ELSE "unchecked")
        /\ next.step = (IF plan = Clean THEN "write" ELSE "repair")
    BY <1>0 DEF Sessions
  <2>4. ses'[k] = next /\ \A j \in Instances : j # k => ses'[j] = ses[j]
    BY <1>0, <2>1
  <2>5. ses[k].step # "idle" /\ PlanFor(file)' = plan
    BY <1>1, <2>1 DEF ReadBoundary, PlanFor, LastLine, IsEntry
  <2>6. Appending(ses[k])'
    <3> HIDE DEF next, plan
    <3> QED BY <1>0, <2>1, <2>2, <2>3, <2>4, <2>5 DEF Appending
  <2>7. \A m \in Muts : m.cid \in ses'[k].remembered => m \in Recorded(file)
    <3> HIDE DEF next
    <3> QED BY <2>3, <2>4 DEF Kept, Remembers
  <2> HIDE DEF next
  <2> QED BY <1>0, <2>1, <2>4, <2>6, <2>7, SameFile DEF Kept, Replays
<1>2. CASE RepairBoundary(k)
  <2> DEFINE next == [ses[k] EXCEPT !.boundary = "clean", !.step = "write", !.plan = Clean]
  <2>1. UNCHANGED << pending, accepted >> /\ ses' = [ses EXCEPT ![k] = next]
    BY <1>2 DEF RepairBoundary, senders
  <2>2. ses[k].step = "repair" /\ ~file.terminated /\ file' = Repair(file, PlanFor(file))
    BY <1>0, <1>2 DEF RepairBoundary, Appending
  <2>3. Sound(file)' /\ Keeps(file, file') /\ file'.terminated
    BY <1>0, <2>2, RepairSound DEF Sound
  <2>4. /\ next.batch = ses[k].batch /\ next.ok = ses[k].ok /\ next.mut = ses[k].mut
        /\ next.remembered = ses[k].remembered /\ next.boundary = "clean" /\ next.step = "write"
    BY <1>0 DEF Sessions
  <2>5. ses'[k] = next /\ \A j \in Instances : j # k => ses'[j] = ses[j]
    BY <1>0, <2>1
  <2>6. ASSUME NEW j \in Instances
        PROVE  Appending(ses[j])'
    <3> HIDE DEF next
    <3>1. CASE j = k
      BY <1>0, <2>2, <2>3, <2>4, <2>5, <3>1 DEF Appending
    <3>2. CASE j # k
      <4>1. ses[j].step = "idle"
        BY <2>2, <3>2 DEF Calm, Busy
      <4> QED BY <2>3, <2>5, <3>2, <4>1 DEF Appending
    <3> QED BY <3>1, <3>2
  <2>7. Recorded(file) \subseteq Recorded(file)'
    BY <2>3, GainKeeps
  <2>8. Remembers' /\ Replays' /\ AcceptedIsRecorded'
    <3> HIDE DEF next
    <3>1. \A j \in Instances : ses'[j].remembered = ses[j].remembered
      BY <2>4, <2>5
    <3> QED BY <2>1, <2>7, <3>1 DEF Kept, Remembers, Replays, AcceptedIsRecorded
  <2> QED BY <2>3, <2>6, <2>8 DEF Kept, Appends
<1>3. ASSUME NEW boundary \in {"unchecked", "clean", "failed"}, Abandon(k, boundary),
             Sound(file)', Keeps(file, file'), boundary = "clean" => file'.terminated,
             \A j \in Instances : j # k => Appending(ses[j])'
      PROVE  Kept'
  <2>1. pending' = pending /\ accepted' = accepted /\ Settle(k, ses[k].remembered, boundary)
    BY <1>3 DEF Abandon
  <2>2. Recorded(file) \subseteq Recorded(file)'
    BY <1>3, GainKeeps
  <2> QED BY <1>0, <1>3, <2>1, <2>2, SettledKept DEF Kept, Remembers
<1>4. ASSUME NEW boundary, Settle(k, ses[k].remembered, boundary)
      PROVE  \A j \in Instances : j # k => ses'[j] = ses[j]
  BY <1>0, <1>4 DEF Settle
<1>5. CASE BoundaryFails(k)
  <2>1. file' = file /\ Abandon(k, "failed")
    BY <1>5 DEF BoundaryFails
  <2>2. Sound(file)' /\ Keeps(file, file')
    BY <1>0, <2>1 DEF Sound, Keeps
  <2>3. \A j \in Instances : j # k => Appending(ses[j])'
    BY <1>4, <2>1 DEF Abandon, Kept, Appends, Appending, PlanFor, LastLine, IsEntry
  <2> QED BY <1>3, <2>1, <2>2, <2>3
<1>6. ASSUME ses[k].step = "write"
      PROVE  /\ file.terminated /\ batch \in Seq(SentEntry)
             /\ Sound(WriteAll(file, batch)) /\ Keeps(file, WriteAll(file, batch))
             /\ WriteAll(file, batch).terminated
             /\ \A i \in DOMAIN batch : batch[i].mut \in Recorded(WriteAll(file, batch))
  <2>1. file.terminated /\ batch \in Seq(SentEntry)
    BY <1>0, <1>6 DEF Appending
  <2> HIDE DEF batch
  <2> QED BY <1>0, <2>1, WriteAllRecords
<1>7. CASE AppendSucceeds(k)
  <2>1. ses[k].step = "write" /\ file' = WriteAll(file, batch) /\ pending' = pending /\ Confirm(k)
    BY <1>7 DEF AppendSucceeds
  <2>2. /\ Sound(file)' /\ Keeps(file, file') /\ file'.terminated /\ file.terminated
        /\ \A i \in DOMAIN batch : batch[i].mut \in Recorded(file)'
    BY <1>6, <2>1 DEF Sound, Recorded, Readable, IsEntry
  <2>3. Recorded(file) \subseteq Recorded(file)'
    BY <2>2, GainKeeps
  <2>4. CASE ses[k].ok
    <3> DEFINE m == ses[k].mut
    <3>1. Settle(k, ses[k].remembered \cup {m.cid}, ses[k].boundary) /\ accepted' = accepted \cup {m}
      BY <2>1, <2>4 DEF Confirm
    <3>2. m \in Recorded(file)' /\ m \in Muts
      BY <1>0, <2>1, <2>2, <2>4 DEF Appending, Kept, Typed, InFlight
    <3>3. \A x \in Muts : x.cid \in ses[k].remembered \cup {m.cid} => x \in Recorded(file)'
      BY <2>3, <3>2, DurableBoardAssumption DEF Kept, Remembers
    <3>4. \A j \in Instances : j # k => ses'[j] = ses[j]
      BY <1>0, <3>1 DEF Settle
    <3>5. \A j \in Instances : j # k => Appending(ses[j])'
      BY <2>2, <3>4, OthersKnow
    <3>6. accepted' \subseteq Recorded(file)'
      BY <1>0, <2>3, <3>1, <3>2
    <3> QED BY <2>1, <2>2, <3>1, <3>3, <3>5, <3>6, SettledKept
  <2>5. CASE ~ses[k].ok
    <3>1. Settle(k, ses[k].remembered, ses[k].boundary) /\ accepted' = accepted
      BY <2>1, <2>5 DEF Confirm
    <3>2. \A x \in Muts : x.cid \in ses[k].remembered => x \in Recorded(file)'
      BY <2>3 DEF Kept, Remembers
    <3>3. \A j \in Instances : j # k => Appending(ses[j])'
      BY <1>4, <2>2, <3>1, OthersKnow
    <3>4. accepted' \subseteq Recorded(file)'
      BY <1>0, <2>3, <3>1
    <3> QED BY <2>1, <2>2, <3>1, <3>2, <3>3, <3>4, SettledKept
  <2> QED BY <2>2, <2>4, <2>5
<1>8. CASE AppendFails(k)
  <2>1. /\ ses[k].step = "write" /\ Abandon(k, ses[k].boundary)
        /\ file' = file \/ file' = WriteAll(file, batch)
    BY <1>8 DEF AppendFails
  <2>2. Sound(file)' /\ Keeps(file, file') /\ file'.terminated /\ file.terminated
    <3>1. CASE file' = file
      BY <1>0, <1>6, <2>1, <3>1 DEF Sound, Keeps
    <3>2. CASE file' = WriteAll(file, batch)
      BY <1>6, <2>1, <3>2 DEF Sound
    <3> QED BY <2>1, <3>1, <3>2
  <2>3. \A j \in Instances : j # k => Appending(ses[j])'
    BY <1>4, <2>1, <2>2, OthersKnow DEF Abandon
  <2>4. ses[k].boundary \in {"unchecked", "clean", "failed"}
    BY <1>0 DEF Sessions
  <2> QED BY <1>3, <2>1, <2>2, <2>3, <2>4
<1>9. ~AppendStopsShort(k)
  BY DEF AppendStopsShort
<1> QED BY <1>1, <1>2, <1>5, <1>7, <1>8, <1>9 DEF Persist

\* What users, timers, faults and crashes do keeps what is recorded.
LEMMA EnvironmentKept ==
  ASSUME Kept, Typed', Environment
  PROVE  Kept' /\ Keeps(file, file')
<1>0. /\ file \in File /\ Sound(file) /\ ses \in [Instances -> Sessions]
      /\ accepted \subseteq Recorded(file)
  BY DEF Kept, Typed, TypeOK, AcceptedIsRecorded
<1>1. registry # 0 => registry \in Instances
  BY DEF Kept, Typed, TypeOK
<1>2. CASE Connect \/ Reload \/ Leave \/ LoseSnapshot \/ \E k \in Instances : TimerSave(k)
  BY <1>2, Untouched DEF Connect, Reload, Leave, LoseSnapshot, TimerSave, storage, server, senders
<1>3. ASSUME NEW task, registry \in Instances, Enqueue(task), UNCHANGED << file, pending, accepted >>
      PROVE  Kept' /\ Keeps(file, file')
  <2>1. ses' = [ses EXCEPT ![registry].queue = Append(ses[registry].queue, task)]
    BY <1>0, <1>3 DEF Enqueue
  <2> QED BY <1>0, <1>3, <2>1, QueueKept
<1>4. CASE RequestSeal
  BY <1>1, <1>3, <1>4 DEF RequestSeal, storage, senders
<1>5. ASSUME NEW m \in Muts, Send(m) \/ Resend(m)
      PROVE  Kept' /\ Keeps(file, file')
  BY <1>1, <1>3, <1>5 DEF Send, Resend, storage
<1>6. CASE Crash
  <2>1. /\ pending' = [k \in Instances |-> {}] /\ ses' = [k \in Instances |-> NewSession]
        /\ accepted' = accepted
        /\ \/ file' = file
           \/ \E k \in Instances, end \in CrashEnds : \E whole \in 0..Len(ses[k].batch) :
                /\ ses[k].step = "write" /\ CanEnd(ses[k].batch, whole, end)
                /\ file' = Write(file, ses[k].batch, whole, end)
    BY <1>6 DEF Crash
  <2>2. Sound(file)' /\ Keeps(file, file')
    <3>1. CASE file' = file
      BY <1>0, <3>1 DEF Sound, Keeps
    <3>2. ASSUME NEW k \in Instances, NEW whole, NEW end \in CrashEnds,
                 ses[k].step = "write", CanEnd(ses[k].batch, whole, end),
                 file' = Write(file, ses[k].batch, whole, end)
          PROVE  Sound(file)' /\ Keeps(file, file')
      <4>1. file.terminated /\ ses[k].batch \in Seq(SentEntry)
        BY <3>2 DEF Kept, Appends, Appending
      <4>2. whole \in 0..Len(ses[k].batch) /\ end \in Ends
        BY <3>2, DurableBoardAssumption DEF CanEnd
      <4>3. Sound(file') /\ Keeps(file, file')
        BY <1>0, <3>2, <4>1, <4>2, WriteSound
      <4> QED BY <4>3 DEF Sound
    <3> QED BY <2>1, <3>1, <3>2
  <2>3. Recorded(file) \subseteq Recorded(file)'
    BY <2>2, GainKeeps
  <2>4. Appends' /\ Replays' /\ Remembers'
    BY <2>1 DEF Appends, Appending, NewSession, Replays, Remembers
  <2> QED BY <1>0, <2>1, <2>2, <2>3, <2>4 DEF Kept, AcceptedIsRecorded
<1> QED BY <1>2, <1>4, <1>5, <1>6 DEF Environment

\* The inductive invariant holds at the start ...
LEMMA KeptInit == Init => Kept
<1> SUFFICES ASSUME Init PROVE Kept
  OBVIOUS
<1>1. Sound(file) /\ AcceptedIsRecorded
  BY DEF Init, EmptyFile, Sound, AcceptedIsRecorded
<1>2. Appends /\ Replays /\ Remembers
  BY DEF Init, NewSession, Appends, Appending, Replays, Remembers
<1> QED BY <1>1, <1>2, TypedInit DEF Kept

\* ... and every step keeps it.
LEMMA KeptStep ==
  ASSUME "short" \notin AppendFaults, Kept, Calm, [Next]_vars
  PROVE  Kept' /\ Keeps(file, file')
<1>1. Typed'
  BY TypedStep DEF Kept
<1>2. CASE UNCHANGED vars
  BY <1>1, <1>2, Untouched DEF vars, storage, server, senders
<1>3. ASSUME NEW k \in Instances, Drop(k) \/ Unload(k)
      PROVE  Kept' /\ Keeps(file, file')
  BY <1>1, <1>3, Untouched
     DEF Drop, Unload, UnloadSave, UnloadSkipsSave, UnloadRejects, storage, senders
<1>4. CASE EndSave
  BY <1>1, <1>4, Untouched DEF EndSave, FinishSave, StaleSave, SaveFails, storage, senders
<1>5. CASE Serve
  BY <1>1, <1>3, <1>4, <1>5, RecoverKept, TakeKept, PersistKept DEF Serve
<1>6. CASE Environment
  BY <1>1, <1>6, EnvironmentKept
<1> QED BY <1>2, <1>5, <1>6 DEF Next

-----------------------------------------------------------------------------
(* The theorems.                                                            *)

\* Every write confirmed to its sender stays readable in the ledger: whatever
\* crashes tear, whichever appends fail, however often a write is retried and
\* the board dropped, unloaded and loaded again.
THEOREM AcceptedSurvives ==
  ASSUME "short" \notin AppendFaults
  PROVE  Spec /\ []Calm => []AcceptedIsRecorded
<1>1. Kept /\ Calm /\ [Next]_vars => Kept'
  BY KeptStep
<1>2. Kept => AcceptedIsRecorded
  BY DEF Kept
<1> QED BY <1>1, <1>2, KeptInit, PTL DEF Spec

\* No repair and no append ever moves or removes an entry of the ledger.
THEOREM EntriesSurvive ==
  ASSUME "short" \notin AppendFaults
  PROVE  Spec /\ []Calm => EntriesAreNeverCut
<1>1. Kept /\ Calm /\ [Next]_vars => Kept' /\ [Keeps(file, file')]_file
  BY KeptStep
<1> QED BY <1>1, KeptInit, PTL DEF Spec, EntriesAreNeverCut

-----------------------------------------------------------------------------
(* Where a crash leaves whole lines behind, the premise Calm holds.         *)

Whole == file.terminated

\* A file of whole lines stays one.
LEMMA WholeStep ==
  ASSUME "short" \notin AppendFaults, CrashEnds \subseteq {"newline"},
         Kept, Whole, [Next]_vars
  PROVE  Whole'
<1> USE DEF Whole
<1>1. ASSUME NEW k \in Instances, ses[k].step = "write"
      PROVE  WriteAll(file, ses[k].batch).terminated
  <2>1. ses[k].batch \in Seq(SentEntry) /\ file \in File /\ Sound(file)
    BY <1>1 DEF Kept, Appends, Appending, Typed, TypeOK
  <2> QED BY <2>1, WriteAllRecords
<1>2. ASSUME NEW k \in Instances, Persist(k)
      PROVE  file'.terminated
  <2>1. CASE RepairBoundary(k)
    BY <2>1 DEF RepairBoundary, Kept, Appends, Appending
  <2>2. CASE AppendSucceeds(k) \/ AppendFails(k)
    BY <1>1, <2>2 DEF AppendSucceeds, AppendFails
  <2>3. CASE ReadBoundary(k) \/ BoundaryFails(k)
    BY <2>3 DEF ReadBoundary, BoundaryFails, storage
  <2> QED BY <1>2, <2>1, <2>2, <2>3 DEF Persist, AppendStopsShort
<1>3. CASE Crash
  <2>1. ASSUME NEW k \in Instances, NEW whole
        PROVE  Write(file, ses[k].batch, whole, "newline").terminated
    BY DEF Write
  <2>2. \/ file' = file
        \/ \E k \in Instances, end \in CrashEnds : \E whole \in 0..Len(ses[k].batch) :
             file' = Write(file, ses[k].batch, whole, end)
    BY <1>3 DEF Crash
  <2> QED BY <2>1, <2>2
<1>4. CASE UNCHANGED file
  BY <1>4
<1>5. ASSUME NEW k \in Instances, Recover(k) \/ Take(k) \/ Drop(k) \/ Unload(k)
      PROVE  UNCHANGED file
  BY <1>5 DEF Recover, ReadSnapshot, ReadLedger, HydrateNext,
     Take, TakeSeal, TakeRetry, TakeRefused, TakeWrite,
     Drop, Unload, UnloadSave, UnloadSkipsSave, UnloadRejects, storage
<1>6. CASE EndSave
  BY <1>4, <1>6 DEF EndSave, FinishSave, StaleSave, SaveFails, storage
<1>7. CASE Environment /\ ~Crash
  BY <1>4, <1>7 DEF Environment, Connect, Reload, RequestSeal, Leave, LoseSnapshot,
     Send, Resend, TimerSave, storage
<1>8. CASE UNCHANGED vars
  BY <1>4, <1>8 DEF vars, storage
<1> QED BY <1>2, <1>3, <1>4, <1>5, <1>6, <1>7, <1>8 DEF Next, Serve

\* When appends reach the file whole or not at all, nothing is asked of how
\* instances overlap: every confirmed write stays recorded.
THEOREM AcceptedSurvivesOverlap ==
  ASSUME "short" \notin AppendFaults, CrashEnds \subseteq {"newline"}
  PROVE  Spec => []AcceptedIsRecorded
<1>1. Init => Kept /\ Whole
  BY KeptInit DEF Init, EmptyFile, Whole
<1>2. Kept /\ Whole /\ [Next]_vars => Kept' /\ Whole'
  <2> SUFFICES ASSUME Kept, Whole, [Next]_vars PROVE Kept' /\ Whole'
    OBVIOUS
  <2>1. Calm
    BY DEF Calm, Whole
  <2> QED BY <2>1, KeptStep, WholeStep
<1>3. Kept => AcceptedIsRecorded
  BY DEF Kept
<1> QED BY <1>1, <1>2, <1>3, PTL DEF Spec

-----------------------------------------------------------------------------
(***************************************************************************)
(* Why no snapshot runs ahead of the ledger: whatever sequence an          *)
(* instance, a save or the stored file is at, the ledger has every         *)
(* sequence up to it.                                                      *)
(***************************************************************************)

\* A file has an entry of every sequence up to n.
HasSeq(f, s)   == \E i \in DOMAIN f.lines : IsEntry(f.lines[i]) /\ f.lines[i].seq = s
Holds(f, n) == \A s \in 1..n : HasSeq(f, s)

\* What an instance is at, what it has to replay, and how its append is numbered.
Numbered(k) ==
  /\ Holds(file, mem[k].seq)
  /\ \A p \in pending[k] : HasSeq(file, p.entry.seq)
  /\ ses[k].step # "idle" =>
       /\ Ready(k)
       /\ \A i \in DOMAIN ses[k].batch : ses[k].batch[i].seq = mem[k].seq + i

Trailing ==
  /\ \A k \in Instances : Numbered(k)
  /\ Holds(file, snap.seq)
  /\ saving # NoSave => Holds(file, saving.seq)

\* Entries that are kept keep their sequences.
LEMMA KeepsSeqs ==
  ASSUME NEW f, NEW g, Keeps(f, g)
  PROVE  /\ \A s : HasSeq(f, s) => HasSeq(g, s)
         /\ \A n : Holds(f, n) => Holds(g, n)
BY DEF Keeps, HasSeq, Holds

\* A batch that is written whole, numbered from a sequence the file reaches,
\* takes the file as far as the batch goes.
LEMMA WriteAllHolds ==
  ASSUME NEW f \in File, Sound(f), f.terminated, NEW batch \in Seq(SentEntry),
         NEW n \in Nat, Holds(f, n), \A i \in DOMAIN batch : batch[i].seq = n + i
  PROVE  Holds(WriteAll(f, batch), n + Len(batch))
<1> DEFINE g == WriteAll(f, batch)
<1>1. Keeps(f, g)
  BY WriteAllRecords
<1>2. f.lines \in Seq(Line) /\ Len(f.lines) \in Nat /\ Len(batch) \in Nat /\ DOMAIN batch = 1..Len(batch)
  BY DEF File
<1>3. batch # << >> => g.lines = f.lines \o batch
  <2>1. Landed(batch, Len(batch), "newline") = batch
    BY DEF Landed, SentEntry
  <2> QED BY <2>1 DEF WriteAll, Write
<1> SUFFICES ASSUME NEW s \in 1..(n + Len(batch)) PROVE HasSeq(g, s)
  BY DEF Holds
<1>4. CASE s <= n
  BY <1>1, <1>4, KeepsSeqs DEF Holds
<1>5. CASE s > n
  <2>1. s - n \in 1..Len(batch) /\ batch # << >>
    BY <1>2, <1>5
  <2>2. batch[s - n].seq = s /\ batch[s - n] \in SentEntry
    BY <1>2, <2>1
  <2>3. g.lines = f.lines \o batch
    BY <1>3, <2>1
  <2>4. Len(f.lines) + (s - n) \in DOMAIN g.lines /\ g.lines[Len(f.lines) + (s - n)] = batch[s - n]
    BY <1>2, <2>1, <2>3
  <2>5. IsEntry(batch[s - n])
    BY <2>2, LineAssumption DEF IsEntry, SentEntry
  <2> HIDE DEF g
  <2> QED BY <2>2, <2>4, <2>5 DEF HasSeq
<1> QED BY <1>2, <1>4, <1>5

\* An instance that keeps its place, and starts no append, stays numbered.
LEMMA NumberedStays ==
  ASSUME Typed, NEW k \in Instances, Numbered(k), Keeps(file, file'),
         mem'[k].seq = mem[k].seq, mem'[k].phase = mem[k].phase,
         pending'[k] \subseteq pending[k],
         ses'[k].step # "idle" => ses[k].step # "idle" /\ ses'[k].batch = ses[k].batch
  PROVE  Numbered(k)'
BY KeepsSeqs DEF Numbered, Ready

\* The snapshot and the save under way stay behind when they stay as they are.
LEMMA SnapsStay ==
  ASSUME Trailing, Keeps(file, file'),
         snap'.seq = snap.seq, saving' \in {saving, NoSave}
  PROVE  Holds(file, snap.seq)' /\ (saving # NoSave => Holds(file, saving.seq))'
BY KeepsSeqs DEF Trailing

\* Reading the snapshot and replaying the ledger: an instance gets no further
\* than what is recorded.
LEMMA RecoverTrails ==
  ASSUME Typed, Trailing, Keeps(file, file'), NEW k \in Instances, Recover(k)
  PROVE  Trailing'
<1>0. /\ mem \in [Instances -> Boards] /\ pending \in [Instances -> SUBSET Reads]
      /\ ses \in [Instances -> Sessions] /\ Numbered(k) /\ Holds(file, snap.seq)
  BY DEF Typed, TypeOK, Trailing
<1>1. UNCHANGED << file, snap, saving >>
  BY DEF Recover, ReadSnapshot, ReadLedger, HydrateNext, storage
<1>2. ASSUME NEW j \in Instances, j # k PROVE Numbered(j)'
  <2>1. mem'[j] = mem[j] /\ pending'[j] = pending[j] /\ ses'[j].step = ses[j].step /\ ses'[j].batch = ses[j].batch
    BY <1>0, <1>2 DEF Recover, ReadSnapshot, ReadLedger, HydrateNext, FailLoad
  <2> QED BY <2>1, NumberedStays DEF Trailing
<1>3. CASE ReadSnapshot(k)
  <2>1. mem'[k].seq = snap.seq /\ UNCHANGED << pending, ses >> /\ ~ Ready(k)
    BY <1>0, <1>3 DEF ReadSnapshot, Boards, Ready
  <2>2. Numbered(k)'
    BY <1>0, <1>1, <2>1 DEF Numbered
  <2> QED BY <1>1, <1>2, <2>2, SnapsStay DEF Trailing
<1>4. CASE ReadLedger(k)
  <2>1. mem'[k].seq = mem[k].seq /\ ses' = ses /\ ~ Ready(k)
    BY <1>0, <1>4 DEF ReadLedger, FailLoad, Boards, Ready
  <2>2. \A p \in pending'[k] : HasSeq(file, p.entry.seq)
    BY <1>0, <1>4 DEF ReadLedger, FailLoad, EntriesAfter, HasSeq
  <2>3. Numbered(k)'
    BY <1>0, <1>1, <2>1, <2>2 DEF Numbered
  <2> QED BY <1>1, <1>2, <2>3, SnapsStay DEF Trailing
<1>5. CASE HydrateNext(k)
  <2>1. ~ Ready(k) /\ ses[k].step = "idle" /\ ses'[k].step = "idle"
    BY <1>0, <1>5 DEF HydrateNext, Ready, Numbered, Sessions
  <2>2. pending'[k] \subseteq pending[k]
    BY <1>0, <1>5 DEF HydrateNext, FailLoad
  <2>3. \/ mem'[k].seq = mem[k].seq
        \/ \E p \in pending[k] : p.entry.seq = mem[k].seq + 1 /\ mem'[k].seq = mem[k].seq + 1
    <3>1. CASE FailLoad(k)
      BY <1>0, <3>1 DEF FailLoad, Boards
    <3>2. CASE ~ FailLoad(k)
      <4>1. PICK p \in pending[k] :
              /\ p.entry.seq = mem[k].seq + 1
              /\ mem' = [mem EXCEPT ![k] = [mem[k] EXCEPT
                           !.content = Process(mem[k].content, p.entry.mut).content,
                           !.seq = p.entry.seq,
                           !.phase = IF pending[k] \ {p} = {} THEN "ready" ELSE "hydrating"]]
        BY <1>5, <3>2 DEF HydrateNext
      <4>2. mem'[k].seq = p.entry.seq
        BY <1>0, <4>1 DEF Boards
      <4> QED BY <4>1, <4>2
    <3> QED BY <3>1, <3>2
  <2>4. mem[k].seq \in Nat
    BY <1>0 DEF Boards
  <2>5. Holds(file, mem'[k].seq)
    BY <1>0, <2>3, <2>4 DEF Numbered, Holds
  <2>6. Numbered(k)'
    BY <1>0, <1>1, <2>1, <2>2, <2>5 DEF Numbered
  <2> QED BY <1>1, <1>2, <2>6, SnapsStay DEF Trailing
<1> QED BY <1>3, <1>4, <1>5 DEF Recover

\* Taking a task that starts no append leaves none behind.
LEMMA NoAppendStarts ==
  ASSUME ses \in [Instances -> Sessions], NEW k \in Instances,
         TakeSeal(k) \/ \E m \in Muts : TakeRetry(k, m) \/ TakeRefused(k, m)
  PROVE  ses'[k].step = ses[k].step /\ ses'[k].batch = ses[k].batch
<1>1. CASE TakeSeal(k)
  <2>1. ses' = [ses EXCEPT ![k] = [ses[k] EXCEPT !.queue = Tail(ses[k].queue), !.sealed = TRUE]]
    BY <1>1 DEF TakeSeal
  <2> QED BY <2>1 DEF Sessions
<1>2. ASSUME NEW m \in Muts, TakeRetry(k, m) \/ TakeRefused(k, m)
      PROVE  ses'[k].step = ses[k].step /\ ses'[k].batch = ses[k].batch
  <2>1. ses' = [ses EXCEPT ![k].queue = Tail(ses[k].queue)]
    BY <1>2 DEF TakeRetry, TakeRefused
  <2> QED BY <2>1 DEF Sessions
<1> QED BY <1>1, <1>2

\* A write is numbered from where its instance is.
LEMMA TakeTrails ==
  ASSUME Typed, Trailing, Keeps(file, file'), NEW k \in Instances, Take(k)
  PROVE  Trailing'
<1>0. /\ mem \in [Instances -> Boards] /\ ses \in [Instances -> Sessions] /\ Numbered(k)
  BY DEF Typed, TypeOK, Trailing
<1>1. UNCHANGED << file, snap, saving, pending >>
  BY DEF Take, TakeSeal, TakeRetry, TakeRefused, TakeWrite, storage
<1>2. \A j \in Instances : mem'[j].seq = mem[j].seq /\ mem'[j].phase = mem[j].phase
  <2>1. mem' = mem \/ \E content : mem' = [mem EXCEPT ![k].content = content]
    BY DEF Take, TakeSeal, TakeRetry, TakeRefused, TakeWrite
  <2> QED BY <1>0, <2>1, SMTT(30) DEF Boards
<1>3. \A j \in Instances : j # k => ses'[j] = ses[j]
  BY <1>0 DEF Take, TakeSeal, TakeRetry, TakeRefused, TakeWrite
<1>4. CASE TakeSeal(k) \/ \E m \in Muts : TakeRetry(k, m) \/ TakeRefused(k, m)
  <2>1. ses'[k].step = ses[k].step /\ ses'[k].batch = ses[k].batch
    BY <1>0, <1>4, NoAppendStarts
  <2>2. \A j \in Instances : Numbered(j)'
    BY <1>1, <1>2, <1>3, <2>1, NumberedStays DEF Trailing
  <2> QED BY <1>1, <2>2, SnapsStay DEF Trailing
<1>5. ASSUME NEW m \in Muts, TakeWrite(k, m) PROVE Trailing'
  <2> DEFINE result == Process(mem[k].content, m)
             muts   == (IF result.ok THEN << m >> ELSE << >>) \o result.followup
  <2>1. ses'[k].batch = Batch(mem[k].seq, muts) /\ Ready(k)
    BY <1>0, <1>5 DEF TakeWrite, NextTask, Sessions
  <2> HIDE DEF muts
  <2>2. \A i \in DOMAIN ses'[k].batch : ses'[k].batch[i].seq = mem[k].seq + i
    BY <2>1 DEF Batch
  <2>3. Numbered(k)'
    BY <1>0, <1>1, <1>2, <2>1, <2>2 DEF Numbered, Ready
  <2>4. \A j \in Instances : j # k => Numbered(j)'
    BY <1>1, <1>2, <1>3, NumberedStays DEF Trailing
  <2> QED BY <1>1, <2>3, <2>4, SnapsStay DEF Trailing
<1> QED BY <1>4, <1>5 DEF Take

\* A confirmed append takes its instance as far as the file has come.
LEMMA PersistTrails ==
  ASSUME Kept, Trailing, Keeps(file, file'), "short" \notin AppendFaults,
         NEW k \in Instances, Persist(k)
  PROVE  Trailing'
<1>0. /\ Typed /\ mem \in [Instances -> Boards] /\ ses \in [Instances -> Sessions] /\ Numbered(k)
      /\ file \in File /\ Sound(file) /\ Appending(ses[k])
  BY DEF Kept, Typed, TypeOK, Trailing, Appends
<1>1. UNCHANGED << snap, saving, pending >>
  BY DEF Persist, ReadBoundary, RepairBoundary, BoundaryFails, AppendSucceeds, AppendStopsShort,
     AppendFails, Abandon, storage
<1>2. \A j \in Instances : j # k => ses'[j] = ses[j] /\ mem'[j] = mem[j]
  BY <1>0 DEF Persist, ReadBoundary, RepairBoundary, BoundaryFails, AppendSucceeds, AppendStopsShort,
     AppendFails, Abandon, Confirm, Settle
<1>3. \A j \in Instances : j # k => Numbered(j)'
  BY <1>0, <1>1, <1>2, NumberedStays DEF Trailing
<1>4. SUFFICES Numbered(k)'
  BY <1>1, <1>3, SnapsStay DEF Trailing
<1>5. CASE ReadBoundary(k) \/ RepairBoundary(k)
  <2>1. mem' = mem /\ ses'[k].batch = ses[k].batch /\ ses[k].step # "idle"
    BY <1>0, <1>5, ZenonT(40) DEF ReadBoundary, RepairBoundary, Sessions
  <2> QED BY <1>0, <1>1, <2>1, NumberedStays
<1>6. CASE BoundaryFails(k) \/ AppendFails(k)
  <2>1. mem' = mem /\ \E boundary : Settle(k, ses[k].remembered, boundary)
    BY <1>6 DEF BoundaryFails, AppendFails, Abandon
  <2>2. ses'[k].step = "idle"
    BY <1>0, <2>1 DEF Settle, Sessions
  <2> QED BY <1>0, <1>1, <2>1, <2>2, NumberedStays
<1>7. CASE AppendSucceeds(k)
  <2>1. ses[k].step = "write" /\ file' = WriteAll(file, ses[k].batch)
    BY <1>7 DEF AppendSucceeds
  <2>2. file.terminated /\ ses[k].batch \in Seq(SentEntry) /\ mem[k].seq \in Nat
    BY <1>0, <2>1 DEF Appending, Boards
  <2>3. Holds(file', mem[k].seq + Len(ses[k].batch))
    BY <1>0, <2>1, <2>2, WriteAllHolds DEF Numbered
  <2>4. mem'[k].seq = mem[k].seq + Len(ses[k].batch)
    <3>1. mem' = [mem EXCEPT ![k].seq = mem[k].seq + Len(ses[k].batch)]
      BY <1>0, <1>7 DEF AppendSucceeds, Confirm
    <3> QED BY <1>0, <3>1 DEF Boards
  <2>5. ses'[k].step = "idle"
    <3>1. \E remembered, boundary : Settle(k, remembered, boundary)
      BY <1>7 DEF AppendSucceeds, Confirm
    <3> QED BY <1>0, <3>1 DEF Settle, Sessions
  <2> QED BY <1>0, <1>1, <2>3, <2>4, <2>5, KeepsSeqs DEF Numbered
<1> QED BY <1>5, <1>6, <1>7 DEF Persist, AppendStopsShort

\* Nothing of an instance but what it keeps in memory changes: all stays behind.
LEMMA QuietTrails ==
  ASSUME Typed, Trailing, Keeps(file, file'), UNCHANGED << pending, ses >>,
         \A j \in Instances : mem'[j].seq = mem[j].seq /\ mem'[j].phase = mem[j].phase,
         snap'.seq = snap.seq, saving' \in {saving, NoSave}
  PROVE  Trailing'
<1>1. \A j \in Instances : Numbered(j)'
  BY NumberedStays DEF Trailing
<1> QED BY <1>1, SnapsStay DEF Trailing

\* A save takes the sequence of its instance along.
LEMMA BeginTrails ==
  ASSUME Typed, Trailing, Keeps(file, file'), UNCHANGED << file, snap, pending, ses >>,
         NEW k \in Instances, NEW unload, BeginSave(k, unload)
  PROVE  Trailing'
<1>0. mem \in [Instances -> Boards] /\ Numbered(k)
  BY DEF Typed, TypeOK, Trailing
<1>1. \A j \in Instances : mem'[j].seq = mem[j].seq /\ mem'[j].phase = mem[j].phase
  <2>1. mem' = [mem EXCEPT ![k].content = Captured(Cleaned(mem[k].content))]
    BY <1>0 DEF BeginSave
  <2> QED BY <1>0, <2>1 DEF Boards
<1>2. \A j \in Instances : Numbered(j)'
  BY <1>1, NumberedStays DEF Trailing
<1>3. saving'.seq = mem[k].seq
  BY DEF BeginSave
<1>4. Holds(file, saving'.seq)
  BY <1>0, <1>3 DEF Numbered
<1>5. (saving # NoSave => Holds(file, saving.seq))'
  BY <1>4 DEF Holds, HasSeq
<1>6. Holds(file, snap.seq)'
  BY DEF Trailing, Holds, HasSeq
<1> QED BY <1>2, <1>5, <1>6 DEF Trailing

\* Dropping and unloading keep everybody behind.
LEMMA UnloadTrails ==
  ASSUME Typed, Trailing, Keeps(file, file'), NEW k \in Instances, Drop(k) \/ Unload(k)
  PROVE  Trailing'
<1>0. mem \in [Instances -> Boards]
  BY DEF Typed, TypeOK
<1>1. CASE Drop(k)
  <2>1. UNCHANGED << file, snap, saving, pending, ses >>
    BY <1>1 DEF Drop, storage
  <2>2. \A j \in Instances : mem'[j].seq = mem[j].seq /\ mem'[j].phase = mem[j].phase
    <3>1. mem' = mem \/ mem' = [mem EXCEPT ![k].disposed = TRUE]
      BY <1>1 DEF Drop
    <3> QED BY <1>0, <3>1 DEF Boards
  <2> QED BY <2>1, <2>2, QuietTrails
<1>2. CASE UnloadSave(k)
  BY <1>2, BeginTrails DEF UnloadSave, storage
<1>3. CASE UnloadSkipsSave(k) \/ UnloadRejects(k)
  <2>1. UNCHANGED << file, snap, saving, pending, ses >>
    BY <1>3 DEF UnloadSkipsSave, UnloadRejects, storage
  <2>2. \A j \in Instances : mem'[j].seq = mem[j].seq /\ mem'[j].phase = mem[j].phase
    BY <1>0, <1>3 DEF UnloadSkipsSave, UnloadRejects, Boards
  <2> QED BY <2>1, <2>2, QuietTrails
<1> QED BY <1>1, <1>2, <1>3 DEF Unload

\* What a save stores is no further than the ledger was when it began.
LEMMA EndSaveTrails ==
  ASSUME Typed, Trailing, Keeps(file, file'), EndSave
  PROVE  Trailing'
<1>0. mem \in [Instances -> Boards] /\ UNCHANGED << file, pending, ses >>
  BY DEF Typed, TypeOK, EndSave, FinishSave, StaleSave, SaveFails, storage
<1>1. CASE StaleSave \/ SaveFails
  <2>1. UNCHANGED << snap, mem >> /\ saving' = NoSave
    BY <1>1 DEF StaleSave, SaveFails, storage
  <2> QED BY <1>0, <2>1, QuietTrails
<1>2. CASE FinishSave
  <2>1. \A j \in Instances : mem'[j].seq = mem[j].seq /\ mem'[j].phase = mem[j].phase
    BY <1>0, <1>2 DEF FinishSave, Boards
  <2>2. \A j \in Instances : Numbered(j)'
    BY <1>0, <2>1, NumberedStays DEF Trailing
  <2>3. saving # NoSave /\ saving' = NoSave /\ snap'.seq \in {0, saving.seq}
    BY <1>2 DEF FinishSave, NoSnapshot
  <2>4. Holds(file, saving.seq) /\ Holds(file, 0)
    BY <2>3 DEF Trailing, Holds
  <2>5. Holds(file, snap'.seq)
    BY <2>3, <2>4
  <2>6. Holds(file, snap.seq)'
    BY <1>0, <2>5 DEF Holds, HasSeq
  <2> QED BY <2>2, <2>3, <2>6 DEF Trailing
<1> QED BY <1>1, <1>2 DEF EndSave

\* Users, timers, lost files and crashes keep everybody behind.
LEMMA EnvironmentTrails ==
  ASSUME Typed, Trailing, Keeps(file, file'), Environment
  PROVE  Trailing'
<1>0. /\ mem \in [Instances -> Boards] /\ ses \in [Instances -> Sessions]
      /\ registry # 0 => registry \in Instances
  BY DEF Typed, TypeOK
<1>1. ASSUME NEW k \in Instances, Load(k), UNCHANGED << file, snap, saving, pending, ses >>
      PROVE  Trailing'
  <2>1. mem' = [mem EXCEPT ![k].phase = "loading"] /\ mem[k].phase = "unborn"
    BY <1>1 DEF Load
  <2>2. \A j \in Instances : j # k => mem'[j] = mem[j]
    BY <1>0, <2>1
  <2>3. mem'[k].seq = mem[k].seq /\ Numbered(k) /\ ~ Ready(k)
    BY <1>0, <2>1 DEF Boards, Trailing, Ready
  <2>4. Numbered(k)'
    BY <1>1, <2>3 DEF Numbered, Holds, HasSeq
  <2>5. \A j \in Instances : j # k => Numbered(j)'
    BY <1>1, <2>2, NumberedStays DEF Trailing
  <2> QED BY <1>1, <2>4, <2>5, SnapsStay DEF Trailing
<1>2. ASSUME NEW task, registry \in Instances, Enqueue(task),
             UNCHANGED << file, snap, saving, pending, mem >>
      PROVE  Trailing'
  <2>1. \A j \in Instances : ses'[j].step = ses[j].step /\ ses'[j].batch = ses[j].batch
    BY <1>0, <1>2 DEF Enqueue, Sessions
  <2>2. \A j \in Instances : Numbered(j)'
    BY <1>2, <2>1, NumberedStays DEF Trailing
  <2> QED BY <1>2, <2>2, SnapsStay DEF Trailing
<1>3. CASE Connect
  <2>1. UNCHANGED << file, snap, saving, pending, ses >> /\ (mem' = mem \/ \E k \in Instances : Load(k))
    BY <1>3 DEF Connect, storage
  <2> QED BY <1>1, <2>1, QuietTrails
<1>4. CASE Reload
  BY <1>1, <1>4 DEF Reload, storage
<1>5. CASE RequestSeal
  BY <1>0, <1>2, <1>5 DEF RequestSeal, storage
<1>6. ASSUME NEW m \in Muts, Send(m) \/ Resend(m) PROVE Trailing'
  BY <1>0, <1>2, <1>6 DEF Send, Resend, storage
<1>7. CASE Leave
  BY <1>7, QuietTrails DEF Leave, storage
<1>8. CASE LoseSnapshot
  <2>1. UNCHANGED << file, mem, pending, ses, saving >> /\ snap'.seq = 0
    BY <1>8 DEF LoseSnapshot, server, NoSnapshot
  <2>2. \A j \in Instances : Numbered(j)'
    BY <2>1, NumberedStays DEF Trailing
  <2> QED BY <2>1, <2>2 DEF Trailing, Holds, HasSeq
<1>9. ASSUME NEW k \in Instances, TimerSave(k) PROVE Trailing'
  BY <1>9, BeginTrails DEF TimerSave, storage
<1>10. CASE Crash
  <2>1. /\ pending' = [k \in Instances |-> {}] /\ ses' = [k \in Instances |-> NewSession]
        /\ saving' = NoSave /\ snap' = snap
        /\ \A k \in Instances : mem'[k] = mem[k] \/ mem'[k].seq = 0
    BY <1>10 DEF Crash, Unborn
  <2>2. ASSUME NEW j \in Instances PROVE Numbered(j)'
    <3>1. Holds(file, mem[j].seq)
      BY DEF Trailing, Numbered
    <3>2. Holds(file', mem'[j].seq)
      BY <2>1, <3>1, KeepsSeqs DEF Holds
    <3>3. pending'[j] = {} /\ ses'[j].step = "idle"
      BY <2>1 DEF NewSession
    <3> QED BY <3>2, <3>3 DEF Numbered
  <2> QED BY <2>1, <2>2, SnapsStay DEF Trailing
<1> QED BY <1>3, <1>4, <1>5, <1>6, <1>7, <1>8, <1>9, <1>10 DEF Environment

\* Nobody is ahead at the start ...
LEMMA TrailingInit == Init => Trailing
<1> SUFFICES ASSUME Init PROVE Trailing
  OBVIOUS
<1>1. Holds(file, 0)
  BY DEF Holds
<1>2. \A k \in Instances : Numbered(k)
  BY <1>1 DEF Init, Unborn, NewSession, Numbered
<1> QED BY <1>1, <1>2 DEF Init, NoSnapshot, Trailing

\* ... and no step gets ahead.
LEMMA TrailingStep ==
  ASSUME "short" \notin AppendFaults, Kept, Trailing, Keeps(file, file'), [Next]_vars
  PROVE  Trailing'
<1>1. Typed
  BY DEF Kept
<1>2. CASE UNCHANGED vars
  BY <1>1, <1>2, QuietTrails DEF vars, storage, server
<1>3. CASE Serve
  BY <1>1, <1>3, RecoverTrails, TakeTrails, PersistTrails, UnloadTrails, EndSaveTrails DEF Serve
<1>4. CASE Environment
  BY <1>1, <1>4, EnvironmentTrails
<1> QED BY <1>2, <1>3, <1>4 DEF Next

LEMMA TrailingIsNotAhead == Trailing => SnapshotNotAhead
BY DEF Trailing, Holds, HasSeq, SnapshotNotAhead

\* The stored snapshot never covers a sequence the ledger does not have, whatever
\* saves, loads, drops, failing appends and crashes come between.
THEOREM SnapshotTrails ==
  ASSUME "short" \notin AppendFaults
  PROVE  Spec /\ []Calm => []SnapshotNotAhead
<1>1. Init => Kept /\ Trailing
  BY KeptInit, TrailingInit
<1>2. Kept /\ Trailing /\ Calm /\ [Next]_vars => Kept' /\ Trailing'
  BY KeptStep, TrailingStep
<1> QED BY <1>1, <1>2, TrailingIsNotAhead, PTL DEF Spec

\* ... and when appends reach the file whole or not at all, nothing is asked of
\* how instances overlap.
THEOREM SnapshotTrailsOverlap ==
  ASSUME "short" \notin AppendFaults, CrashEnds \subseteq {"newline"}
  PROVE  Spec => []SnapshotNotAhead
<1>1. Init => Kept /\ Whole /\ Trailing
  BY KeptInit, TrailingInit DEF Init, EmptyFile, Whole
<1>2. Kept /\ Whole /\ Trailing /\ [Next]_vars => Kept' /\ Whole' /\ Trailing'
  <2> SUFFICES ASSUME Kept, Whole, Trailing, [Next]_vars PROVE Kept' /\ Whole' /\ Trailing'
    OBVIOUS
  <2>1. Calm
    BY DEF Calm, Whole
  <2> QED BY <2>1, KeptStep, WholeStep, TrailingStep
<1> QED BY <1>1, <1>2, TrailingIsNotAhead, PTL DEF Spec

-----------------------------------------------------------------------------
(***************************************************************************)
(* Why a loaded board is at the ledger's head, saves, unloads, lost        *)
(* snapshots and appends that fail or stop short included: while it is the *)
(* only one at work, an entry above its sequence is one it has still to    *)
(* replay.                                                                 *)
(***************************************************************************)

\* No entry of a file is beyond a sequence, except for some that are known.
NoneBeyond(f, n, known) ==
  \A i \in DOMAIN f.lines :
    IsEntry(f.lines[i]) /\ f.lines[i].seq > n => \E p \in known : p.entry.seq = f.lines[i].seq

\* What an instance has read, it has replayed or is about to.
AtHead(k) ==
  /\ mem[k].phase = "hydrating" => NoneBeyond(file, mem[k].seq, pending[k])
  /\ Ready(k) => NoneBeyond(file, mem[k].seq, {})

\* An append is under way on ready instances only, and numbered from their sequence on.
Numbering(k) ==
  ses[k].step # "idle" =>
    Ready(k) /\ \A i \in DOMAIN ses[k].batch : ses[k].batch[i].seq <= mem[k].seq + i

Heading ==
  /\ registry # 0 /\ registry \notin dropDue => AtHead(registry)
  /\ \A k \in Instances : Numbering(k)

\* Whatever reaches the file of a batch, it is of the batch.
LEMMA WriteNoneBeyond ==
  ASSUME NEW f \in File, NEW batch \in Seq(Entry), NEW whole \in 0..Len(batch), NEW end \in Ends,
         NEW n \in Nat, NEW up \in Nat, n <= up, NoneBeyond(f, n, {}),
         \A i \in DOMAIN batch : batch[i].seq <= up
  PROVE  NoneBeyond(Write(f, batch, whole, end), up, {})
<1> DEFINE g      == Write(f, batch, whole, end)
           landed == Landed(batch, whole, end)
<1>1. f.lines \in Seq(Line) /\ Len(f.lines) \in Nat /\ batch \in Seq(Line) /\ Len(batch) \in Nat
  BY DEF File, Line
<1>2. landed \in Seq(Line)
  <2>1. SubSeq(batch, 1, whole) \in Seq(Line) /\ << Torn >> \in Seq(Line) /\ << >> \in Seq(Line)
    BY <1>1 DEF Line
  <2> QED BY <2>1 DEF Landed
<1>3. \A i \in DOMAIN landed : landed[i] = Torn \/ \E j \in DOMAIN batch : landed[i] = batch[j]
  <2>1. \A i \in 1..whole : SubSeq(batch, 1, whole)[i] = batch[i] /\ i \in DOMAIN batch
    BY <1>1
  <2>2. Len(SubSeq(batch, 1, whole)) = whole /\ SubSeq(batch, 1, whole) \in Seq(Line)
    BY <1>1
  <2>3. CASE end = "torn"
    <3>1. landed = Append(SubSeq(batch, 1, whole), Torn)
      BY <1>1, <2>2, <2>3 DEF Landed
    <3> HIDE DEF landed
    <3> QED BY <2>1, <2>2, <3>1
  <2>4. CASE end # "torn"
    <3>1. landed = SubSeq(batch, 1, whole)
      BY <2>2, <2>4 DEF Landed
    <3> HIDE DEF landed
    <3> QED BY <2>1, <2>2, <3>1
  <2> QED BY <2>3, <2>4
<1>4. \A i \in DOMAIN g.lines :
        \/ g.lines[i] = Torn
        \/ i \in DOMAIN f.lines /\ g.lines[i] = f.lines[i]
        \/ \E j \in DOMAIN landed : g.lines[i] = landed[j]
  <2> HIDE DEF landed
  <2>1. CASE landed = << >>
    BY <2>1 DEF Write, landed
  <2>2. CASE landed # << >> /\ f.terminated
    <3>1. g.lines = f.lines \o landed
      BY <2>2 DEF Write, landed
    <3> HIDE DEF g
    <3> QED BY <1>1, <1>2, <3>1
  <2>3. CASE landed # << >> /\ ~f.terminated
    <3> DEFINE front == SubSeq(f.lines, 1, Len(f.lines) - 1)
               back  == SubSeq(landed, 2, Len(landed))
    <3>1. g.lines = (front \o << Torn >>) \o back
      BY <2>3 DEF Write, Glue, landed
    <3>2. front \in Seq(Line) /\ back \in Seq(Line) /\ Len(landed) \in Nat
      BY <1>1, <1>2, <2>3
    <3>3. \A i \in DOMAIN front : i \in DOMAIN f.lines /\ front[i] = f.lines[i]
      BY <1>1
    <3>4. \A i \in DOMAIN back : i + 1 \in DOMAIN landed /\ back[i] = landed[i + 1]
      BY <1>2, <2>3
    <3>5. Torn \in Line
      BY DEF Line
    <3> HIDE DEF front, back, g
    <3>6. \A i \in DOMAIN (front \o << Torn >>) :
            (front \o << Torn >>)[i] = Torn \/ (i \in DOMAIN front /\ (front \o << Torn >>)[i] = front[i])
      BY <3>2, <3>5
    <3>7. front \o << Torn >> \in Seq(Line)
      BY <3>2, <3>5
    <3>8. \A i \in DOMAIN g.lines :
            \/ i \in DOMAIN (front \o << Torn >>) /\ g.lines[i] = (front \o << Torn >>)[i]
            \/ \E j \in DOMAIN back : g.lines[i] = back[j]
      <4> DEFINE head == front \o << Torn >>
      <4>1. head \in Seq(Line) /\ g.lines = head \o back
        BY <3>1, <3>7
      <4> HIDE DEF head
      <4>2. \A i \in DOMAIN g.lines :
              \/ i \in DOMAIN head /\ g.lines[i] = head[i]
              \/ i - Len(head) \in DOMAIN back /\ g.lines[i] = back[i - Len(head)]
        BY <3>2, <4>1
      <4> QED BY <4>2 DEF head
    <3> QED BY <3>3, <3>4, <3>6, <3>8
  <2> QED BY <2>1, <2>2, <2>3
<1> SUFFICES ASSUME NEW i \in DOMAIN g.lines, IsEntry(g.lines[i]) PROVE ~(g.lines[i].seq > up)
  BY DEF NoneBeyond
<1>5. g.lines[i] # Torn
  BY DEF IsEntry
<1> HIDE DEF g, landed
<1>6. CASE i \in DOMAIN f.lines /\ g.lines[i] = f.lines[i]
  <2>1. f.lines[i] \in Line /\ IsEntry(f.lines[i])
    BY <1>1, <1>6
  <2>2. f.lines[i].seq \in Nat
    BY <2>1 DEF Line, IsEntry, Entry
  <2>3. ~(f.lines[i].seq > n)
    BY <1>6, <2>1 DEF NoneBeyond
  <2> QED BY <1>6, <2>2, <2>3
<1>7. CASE \E j \in DOMAIN batch : g.lines[i] = batch[j]
  <2>1. PICK j \in DOMAIN batch : g.lines[i] = batch[j]
    BY <1>7
  <2>2. batch[j] \in Entry /\ batch[j].seq <= up
    OBVIOUS
  <2>3. batch[j].seq \in Nat
    BY <2>2 DEF Entry
  <2> QED BY <2>1, <2>2, <2>3
<1> QED BY <1>3, <1>4, <1>5, <1>6, <1>7

\* A repair adds no entry.
LEMMA RepairNoneBeyond ==
  ASSUME NEW f \in File, NEW plan \in RepairPlan, NEW n, NoneBeyond(f, n, {})
  PROVE  NoneBeyond(Repair(f, plan), n, {})
<1> DEFINE g == Repair(f, plan)
<1>1. f.lines \in Seq(Line) /\ Len(f.lines) \in Nat /\ plan.keep \in Nat
  BY DEF File, RepairPlan
<1>2. \A i \in DOMAIN g.lines : g.lines[i] = Blank \/ (i \in DOMAIN f.lines /\ g.lines[i] = f.lines[i])
  <2>1. CASE g.lines = f.lines
    BY <2>1
  <2>2. CASE g.lines = Append(f.lines, Blank)
    <3> HIDE DEF g
    <3>1. Blank \in Line
      BY DEF Line
    <3> QED BY <1>1, <2>2, <3>1
  <2>3. CASE plan.keep < Len(f.lines) /\ g.lines = SubSeq(f.lines, 1, plan.keep)
    <3> HIDE DEF g
    <3> QED BY <1>1, <2>3
  <2>4. g.lines \in {f.lines, Append(f.lines, Blank)}
        \/ (plan.keep < Len(f.lines) /\ g.lines = SubSeq(f.lines, 1, plan.keep))
    BY DEF Repair, RepairPlan, File
  <2> QED BY <2>1, <2>2, <2>3, <2>4
<1> HIDE DEF g
<1>3. \A i \in DOMAIN g.lines : IsEntry(g.lines[i]) => i \in DOMAIN f.lines /\ g.lines[i] = f.lines[i]
  BY <1>2 DEF IsEntry
<1>4. NoneBeyond(g, n, {})
  BY <1>3 DEF NoneBeyond
<1> QED BY <1>4 DEF g

\* The loaded instance keeps its place while it keeps what the invariant speaks of.
LEMMA HeadingStays ==
  ASSUME Typed, Heading, file' = file, pending' = pending,
         registry' \in {registry, 0},
         registry' # 0 /\ registry \in dropDue => registry \in dropDue',
         \A j \in Instances : mem'[j].seq = mem[j].seq /\ mem'[j].phase = mem[j].phase,
         \A j \in Instances : ses'[j].step # "idle" => ses[j].step # "idle" /\ ses'[j].batch = ses[j].batch
  PROVE  Heading'
<1>0. registry # 0 => registry \in Instances
  BY DEF Typed, TypeOK
<1>1. \A j \in Instances : Numbering(j)'
  BY DEF Heading, Numbering, Ready
<1>2. registry' # 0 /\ registry' \notin dropDue' => AtHead(registry)'
  BY <1>0 DEF Heading, AtHead, Ready
<1> QED BY <1>1, <1>2 DEF Heading

\* Reading the snapshot and replaying: what is left to replay is what is beyond.
LEMMA RecoverHeads ==
  ASSUME Typed, Heading, NEW k \in Instances, Recover(k)
  PROVE  Heading'
<1>0. /\ mem \in [Instances -> Boards] /\ pending \in [Instances -> SUBSET Reads]
      /\ ses \in [Instances -> Sessions] /\ (registry # 0 => registry \in Instances)
      /\ Numbering(k) /\ file \in File /\ k # 0
  BY DEF Typed, TypeOK, Heading, Instances
<1>1. UNCHANGED << file, registry, dropDue >> /\ ~ Ready(k)
  BY DEF Recover, ReadSnapshot, ReadLedger, HydrateNext, storage, Ready
<1>2. \A j \in Instances : j # k => mem'[j] = mem[j] /\ pending'[j] = pending[j]
  BY <1>0 DEF Recover, ReadSnapshot, ReadLedger, HydrateNext, FailLoad
<1>3. \A j \in Instances : ses'[j].step = ses[j].step /\ ses'[j].batch = ses[j].batch
  <2>1. ses' = ses \/ \E remembered : ses' = [ses EXCEPT ![k].remembered = remembered]
    BY <1>0 DEF Recover, ReadSnapshot, ReadLedger, HydrateNext
  <2>2. ASSUME NEW remembered, ses' = [ses EXCEPT ![k].remembered = remembered]
        PROVE  \A j \in Instances : ses'[j].step = ses[j].step /\ ses'[j].batch = ses[j].batch
    BY <1>0, <2>2 DEF Sessions
  <2> QED BY <2>1, <2>2
<1>4. \A j \in Instances : Numbering(j)'
  BY <1>1, <1>2, <1>3 DEF Heading, Numbering, Ready
<1>5. registry # 0 /\ registry # k /\ registry \notin dropDue => AtHead(registry)'
  BY <1>0, <1>1, <1>2 DEF Heading, AtHead, Ready
<1> SUFFICES ASSUME registry = k, k \notin dropDue PROVE AtHead(k)'
  BY <1>1, <1>4, <1>5 DEF Heading
<1>6. CASE ReadSnapshot(k)
  <2>1. mem'[k].phase = "opened"
    BY <1>0, <1>6 DEF ReadSnapshot, Boards
  <2> QED BY <2>1 DEF AtHead, Ready
<1>7. CASE ReadLedger(k)
  <2>1. CASE FailLoad(k)
    <3>1. mem'[k].phase = "broken"
      BY <1>0, <2>1 DEF FailLoad, Boards
    <3> QED BY <3>1 DEF AtHead, Ready
  <2>2. CASE ~ FailLoad(k)
    <3> DEFINE entries == EntriesAfter(file, mem[k].seq)
    <3>1. /\ pending'[k] = entries /\ mem'[k].seq = mem[k].seq
          /\ mem'[k].phase = IF entries = {} THEN "ready" ELSE "hydrating"
      <4>1. /\ pending' = [pending EXCEPT ![k] = entries]
            /\ mem' = [mem EXCEPT ![k].phase = IF entries = {} THEN "ready" ELSE "hydrating"]
        BY <1>7, <2>2 DEF ReadLedger
      <4> HIDE DEF entries
      <4> QED BY <1>0, <4>1 DEF Boards
    <3>2. NoneBeyond(file, mem[k].seq, entries)
      <4> SUFFICES ASSUME NEW i \in DOMAIN file.lines, IsEntry(file.lines[i]),
                          file.lines[i].seq > mem[k].seq
                   PROVE  \E p \in entries : p.entry.seq = file.lines[i].seq
        BY DEF NoneBeyond
      <4>1. [at |-> i, entry |-> file.lines[i]] \in entries
        BY DEF EntriesAfter
      <4> HIDE DEF entries
      <4> QED BY <4>1
    <3> HIDE DEF entries
    <3> QED BY <1>1, <3>1, <3>2 DEF AtHead, Ready
  <2> QED BY <2>1, <2>2
<1>8. CASE HydrateNext(k)
  <2>1. CASE FailLoad(k)
    <3>1. mem'[k].phase = "broken"
      BY <1>0, <2>1 DEF FailLoad, Boards
    <3> QED BY <3>1 DEF AtHead, Ready
  <2>2. CASE ~ FailLoad(k)
    <3>1. PICK p \in pending[k] :
            /\ p.entry.seq = mem[k].seq + 1
            /\ mem' = [mem EXCEPT ![k] = [mem[k] EXCEPT
                         !.content = Process(mem[k].content, p.entry.mut).content,
                         !.seq = p.entry.seq,
                         !.phase = IF pending[k] \ {p} = {} THEN "ready" ELSE "hydrating"]]
            /\ pending' = [pending EXCEPT ![k] = pending[k] \ {p}]
      BY <1>0, <1>8, <2>2 DEF HydrateNext
    <3>2. /\ mem'[k].seq = mem[k].seq + 1 /\ pending'[k] = pending[k] \ {p}
          /\ mem'[k].phase = IF pending[k] \ {p} = {} THEN "ready" ELSE "hydrating"
      BY <1>0, <3>1 DEF Boards
    <3>3. mem[k].seq \in Nat /\ mem[k].phase = "hydrating"
      BY <1>0, <1>8 DEF Boards, HydrateNext
    <3>4. NoneBeyond(file, mem[k].seq, pending[k])
      BY <1>0, <3>3 DEF Heading, AtHead
    <3>5. NoneBeyond(file, mem[k].seq + 1, pending[k] \ {p})
      <4> SUFFICES ASSUME NEW i \in DOMAIN file.lines, IsEntry(file.lines[i]),
                          file.lines[i].seq > mem[k].seq + 1
                   PROVE  \E q \in pending[k] \ {p} : q.entry.seq = file.lines[i].seq
        BY DEF NoneBeyond
      <4>1. file.lines[i].seq \in Nat
        <5>1. file.lines[i] \in Line
          BY <1>0 DEF File
        <5> QED BY <5>1 DEF Line, IsEntry, Entry
      <4>2. file.lines[i].seq > mem[k].seq
        BY <3>3, <4>1
      <4>3. PICK q \in pending[k] : q.entry.seq = file.lines[i].seq
        BY <3>4, <4>2 DEF NoneBeyond
      <4>4. q.entry.seq # p.entry.seq
        BY <3>1, <3>3, <4>1, <4>3
      <4> QED BY <4>3, <4>4
    <3> QED BY <1>1, <3>2, <3>5 DEF AtHead, Ready
  <2> QED BY <2>1, <2>2
<1> QED BY <1>6, <1>7, <1>8 DEF Recover

\* Taking a task leaves the file and the sequences alone.
LEMMA TakeHeads ==
  ASSUME Typed, Heading, NEW k \in Instances, Take(k)
  PROVE  Heading'
<1>0. /\ mem \in [Instances -> Boards] /\ ses \in [Instances -> Sessions]
      /\ (registry # 0 => registry \in Instances)
  BY DEF Typed, TypeOK
<1>1. UNCHANGED << file, registry, dropDue, pending >>
  BY DEF Take, TakeSeal, TakeRetry, TakeRefused, TakeWrite, storage
<1>2. \A j \in Instances : mem'[j].seq = mem[j].seq /\ mem'[j].phase = mem[j].phase
  <2>1. mem' = mem \/ \E content : mem' = [mem EXCEPT ![k].content = content]
    BY DEF Take, TakeSeal, TakeRetry, TakeRefused, TakeWrite
  <2>2. ASSUME NEW content, mem' = [mem EXCEPT ![k].content = content]
        PROVE  \A j \in Instances : mem'[j].seq = mem[j].seq /\ mem'[j].phase = mem[j].phase
    BY <1>0, <2>2 DEF Boards
  <2> QED BY <2>1, <2>2
<1>3. \A j \in Instances : j # k => ses'[j] = ses[j]
  BY <1>0 DEF Take, TakeSeal, TakeRetry, TakeRefused, TakeWrite
<1>4. registry # 0 /\ registry \notin dropDue => AtHead(registry)'
  BY <1>0, <1>1, <1>2 DEF Heading, AtHead, Ready
<1>5. \A j \in Instances : j # k => Numbering(j)'
  BY <1>2, <1>3 DEF Heading, Numbering, Ready
<1>6. Numbering(k)'
  <2>1. CASE TakeSeal(k) \/ \E m \in Muts : TakeRetry(k, m) \/ TakeRefused(k, m)
    <3>1. ses'[k].step = ses[k].step /\ ses'[k].batch = ses[k].batch
      BY <1>0, <2>1, NoAppendStarts
    <3> QED BY <1>2, <3>1 DEF Heading, Numbering, Ready
  <2>2. ASSUME NEW m \in Muts, TakeWrite(k, m) PROVE Numbering(k)'
    <3> DEFINE result == Process(mem[k].content, m)
               muts   == (IF result.ok THEN << m >> ELSE << >>) \o result.followup
    <3>1. ses'[k].batch = Batch(mem[k].seq, muts) /\ Ready(k)
      BY <1>0, <2>2 DEF TakeWrite, NextTask, Sessions
    <3> HIDE DEF muts
    <3>2. mem[k].seq \in Nat
      BY <1>0 DEF Boards
    <3>3. \A i \in DOMAIN ses'[k].batch : ses'[k].batch[i].seq <= mem[k].seq + i
      BY <3>1, <3>2 DEF Batch
    <3> QED BY <1>2, <3>1, <3>3 DEF Numbering, Ready
  <2> QED BY <2>1, <2>2 DEF Take
<1> QED BY <1>1, <1>4, <1>5, <1>6 DEF Heading

\* The loaded instance is the only one to append, and knows how far it does.
LEMMA PersistHeads ==
  ASSUME Typed, Heading, Alone, NEW k \in Instances, Persist(k)
  PROVE  Heading'
<1>0. /\ mem \in [Instances -> Boards] /\ ses \in [Instances -> Sessions]
      /\ file \in File /\ Numbering(k) /\ ses[k].step # "idle" /\ registry = k /\ k # 0
  BY DEF Instances, Typed, TypeOK, Heading, Persist, ReadBoundary, RepairBoundary, BoundaryFails, AppendSucceeds,
     AppendStopsShort, AppendFails, Alone, Busy
<1>1. UNCHANGED << registry, pending >>
  BY DEF Persist, ReadBoundary, RepairBoundary, BoundaryFails, AppendSucceeds, AppendStopsShort,
     AppendFails, Abandon, storage
<1>2. \A j \in Instances : j # k => ses'[j] = ses[j] /\ mem'[j] = mem[j]
  BY <1>0 DEF Persist, ReadBoundary, RepairBoundary, BoundaryFails, AppendSucceeds, AppendStopsShort,
     AppendFails, Abandon, Confirm, Settle
<1>3. \A j \in Instances : j # k => Numbering(j)'
  BY <1>2 DEF Heading, Numbering, Ready
<1>4. Ready(k) /\ \A i \in DOMAIN ses[k].batch : ses[k].batch[i].seq <= mem[k].seq + i
  BY <1>0 DEF Numbering
<1>5. SUFFICES Numbering(k)' /\ (k \notin dropDue' => AtHead(k)')
  BY <1>0, <1>1, <1>3 DEF Heading, AtHead, Ready
<1>6. CASE ReadBoundary(k)
  <2>1. mem' = mem /\ ses'[k].batch = ses[k].batch /\ file' = file /\ dropDue' = dropDue
    BY <1>0, <1>6, ZenonT(40) DEF ReadBoundary, Sessions, storage
  <2> QED BY <1>0, <1>1, <1>4, <2>1 DEF Heading, Numbering, AtHead, Ready
<1>7. CASE RepairBoundary(k)
  <2>1. mem' = mem /\ ses'[k].batch = ses[k].batch /\ file' = Repair(file, ses[k].plan) /\ dropDue' = dropDue
    BY <1>0, <1>7, ZenonT(40) DEF RepairBoundary, Sessions
  <2>2. ses[k].plan \in RepairPlan
    BY <1>0 DEF Sessions
  <2>3. ASSUME k \notin dropDue PROVE NoneBeyond(file', mem[k].seq, {})
    <3>1. NoneBeyond(file, mem[k].seq, {})
      BY <1>0, <1>4, <2>3 DEF Heading, AtHead
    <3> QED BY <1>0, <2>1, <2>2, <3>1, RepairNoneBeyond
  <2> QED BY <1>0, <1>1, <1>4, <2>1, <2>3 DEF Numbering, AtHead, Ready
<1>8. CASE BoundaryFails(k) \/ AppendFails(k)
  <2>1. mem' = mem /\ (\E boundary : Settle(k, ses[k].remembered, boundary)) /\ k \in dropDue'
    BY <1>8 DEF BoundaryFails, AppendFails, Abandon
  <2>2. ses'[k].step = "idle"
    BY <1>0, <2>1 DEF Settle, Sessions
  <2> QED BY <2>1, <2>2 DEF Numbering
<1>9. CASE AppendSucceeds(k) \/ AppendStopsShort(k)
  <2>1. PICK whole \in 0..Len(ses[k].batch), end \in Ends : file' = Write(file, ses[k].batch, whole, end)
    <3>1. CASE AppendSucceeds(k)
      <4>1. Len(ses[k].batch) \in 0..Len(ses[k].batch) /\ "newline" \in Ends
        BY <1>0 DEF Sessions, Ends
      <4> QED BY <3>1, <4>1 DEF AppendSucceeds, WriteAll
    <3>2. CASE AppendStopsShort(k)
      BY <3>2 DEF AppendStopsShort
    <3> QED BY <1>9, <3>1, <3>2
  <2>2. Confirm(k) /\ dropDue' = dropDue
    BY <1>9 DEF AppendSucceeds, AppendStopsShort
  <2>3. mem'[k].seq = mem[k].seq + Len(ses[k].batch) /\ mem'[k].phase = mem[k].phase
    <3>1. mem' = [mem EXCEPT ![k].seq = mem[k].seq + Len(ses[k].batch)]
      BY <1>0, <2>2 DEF Confirm
    <3> QED BY <1>0, <3>1 DEF Boards
  <2>4. ses'[k].step = "idle"
    <3>1. \E remembered, boundary : Settle(k, remembered, boundary)
      BY <2>2 DEF Confirm
    <3> QED BY <1>0, <3>1 DEF Settle, Sessions
  <2>5. /\ ses[k].batch \in Seq(Entry) /\ mem[k].seq \in Nat
        /\ \A i \in DOMAIN ses[k].batch : i \in 1..Len(ses[k].batch) /\ ses[k].batch[i].seq \in Nat
    <3>1. ses[k].batch \in Seq(Entry) /\ mem[k].seq \in Nat
      BY <1>0 DEF Sessions, Boards
    <3>2. \A i \in DOMAIN ses[k].batch : i \in 1..Len(ses[k].batch) /\ ses[k].batch[i] \in Entry
      BY <3>1
    <3> QED BY <3>1, <3>2 DEF Entry
  <2>6. /\ mem[k].seq + Len(ses[k].batch) \in Nat /\ mem[k].seq <= mem[k].seq + Len(ses[k].batch)
        /\ \A i \in DOMAIN ses[k].batch : ses[k].batch[i].seq <= mem[k].seq + Len(ses[k].batch)
    <3>1. Len(ses[k].batch) \in Nat
      BY <2>5
    <3>2. ASSUME NEW i \in DOMAIN ses[k].batch
          PROVE  ses[k].batch[i].seq <= mem[k].seq + Len(ses[k].batch)
      <4>1. i \in Nat /\ i <= Len(ses[k].batch) /\ ses[k].batch[i].seq \in Nat
        BY <2>5, <3>1
      <4>2. ses[k].batch[i].seq <= mem[k].seq + i
        BY <1>4
      <4>3. \A a, b, c, d \in Nat : a <= b + c /\ c <= d => a <= b + d
        OBVIOUS
      <4>4. mem[k].seq \in Nat
        BY <2>5
      <4> QED BY <3>1, <4>1, <4>2, <4>3, <4>4
    <3> QED BY <2>5, <3>1, <3>2
  <2>7. ASSUME k \notin dropDue PROVE NoneBeyond(file', mem[k].seq + Len(ses[k].batch), {})
    <3>1. NoneBeyond(file, mem[k].seq, {})
      BY <1>0, <1>4, <2>7 DEF Heading, AtHead
    <3> HIDE <1>9
    <3> QED BY <1>0, <2>1, <2>5, <2>6, <3>1, WriteNoneBeyond
  <2> QED BY <1>4, <2>2, <2>3, <2>4, <2>7 DEF Numbering, AtHead, Ready
<1> QED BY <1>6, <1>7, <1>8, <1>9 DEF Persist

\* Drops, unloads and saves take the loaded instance away or leave it where it is.
LEMMA KeepHeads ==
  ASSUME Typed, Heading,
         EndSave \/ \E k \in Instances : Drop(k) \/ Unload(k) \/ TimerSave(k)
  PROVE  Heading'
<1>0. mem \in [Instances -> Boards] /\ UNCHANGED << file, pending, ses >>
  BY DEF Typed, TypeOK, EndSave, FinishSave, StaleSave, SaveFails, Drop, Unload, UnloadSave,
     UnloadSkipsSave, UnloadRejects, TimerSave, storage
<1>1. registry' \in {registry, 0} /\ (registry' # 0 /\ registry \in dropDue => registry \in dropDue')
  BY DEF EndSave, FinishSave, StaleSave, SaveFails, Drop, Unload, UnloadSave,
     UnloadSkipsSave, UnloadRejects, TimerSave, BeginSave, Retired
<1> DEFINE Sits == \A j \in Instances : mem'[j].seq = mem[j].seq /\ mem'[j].phase = mem[j].phase
<1>2. Sits
  <2>1. CASE EndSave
    <3>1. CASE FinishSave
      BY <1>0, <3>1 DEF FinishSave, Boards
    <3>2. CASE StaleSave \/ SaveFails
      BY <3>2 DEF StaleSave, SaveFails
    <3> QED BY <2>1, <3>1, <3>2 DEF EndSave
  <2>2. ASSUME NEW k \in Instances, Drop(k) PROVE Sits
    <3>1. mem' = mem \/ mem' = [mem EXCEPT ![k].disposed = TRUE]
      BY <2>2 DEF Drop
    <3> QED BY <1>0, <3>1 DEF Boards
  <2>3. ASSUME NEW k \in Instances, NEW unload, BeginSave(k, unload) PROVE Sits
    <3>1. mem' = [mem EXCEPT ![k].content = Captured(Cleaned(mem[k].content))]
      BY <1>0, <2>3 DEF BeginSave
    <3> QED BY <1>0, <3>1 DEF Boards
  <2>4. ASSUME NEW k \in Instances, UnloadSkipsSave(k) \/ UnloadRejects(k) PROVE Sits
    BY <1>0, <2>4 DEF UnloadSkipsSave, UnloadRejects, Boards
  <2> QED BY <2>1, <2>2, <2>3, <2>4 DEF Unload, UnloadSave, TimerSave
<1> QED BY <1>0, <1>1, <1>2, HeadingStays

\* So do users, lost files and crashes; an instance that starts to load has read nothing.
LEMMA EnvironmentHeads ==
  ASSUME Typed, Heading, Environment
  PROVE  Heading'
<1>0. /\ mem \in [Instances -> Boards] /\ ses \in [Instances -> Sessions]
      /\ registry # 0 => registry \in Instances
  BY DEF Typed, TypeOK
<1>1. ASSUME NEW k \in Instances, Load(k), UNCHANGED << file, pending, ses, dropDue >>
      PROVE  Heading'
  <2>1. mem' = [mem EXCEPT ![k].phase = "loading"] /\ mem[k].phase = "unborn" /\ registry' = k
    BY <1>1 DEF Load
  <2>2. mem'[k].phase = "loading" /\ \A j \in Instances : j # k => mem'[j] = mem[j]
    BY <1>0, <2>1 DEF Boards
  <2>3. AtHead(registry)'
    BY <2>1, <2>2 DEF AtHead, Ready
  <2>4. \A j \in Instances : Numbering(j)'
    BY <1>1, <2>1, <2>2 DEF Heading, Numbering, Ready
  <2> QED BY <2>3, <2>4 DEF Heading
<1>2. ASSUME NEW task, registry \in Instances, Enqueue(task),
             UNCHANGED << file, pending, mem, registry, dropDue >>
      PROVE  Heading'
  <2>1. \A j \in Instances : ses'[j].step = ses[j].step /\ ses'[j].batch = ses[j].batch
    BY <1>0, <1>2 DEF Enqueue, Sessions
  <2> QED BY <1>2, <2>1, HeadingStays
<1>3. CASE Connect
  <2>1. /\ UNCHANGED << file, pending, ses, dropDue >>
        /\ (mem' = mem /\ registry' = registry) \/ \E k \in Instances : Load(k)
    BY <1>3 DEF Connect, storage
  <2> QED BY <1>1, <2>1, HeadingStays
<1>4. CASE Reload
  BY <1>1, <1>4 DEF Reload, storage
<1>5. CASE RequestSeal
  BY <1>0, <1>2, <1>5 DEF RequestSeal, storage
<1>6. ASSUME NEW m \in Muts, Send(m) \/ Resend(m) PROVE Heading'
  BY <1>0, <1>2, <1>6 DEF Send, Resend, storage
<1>7. CASE Leave
  BY <1>7, HeadingStays DEF Leave, storage
<1>8. CASE LoseSnapshot
  BY <1>8, HeadingStays DEF LoseSnapshot, server
<1>9. ASSUME NEW k \in Instances, TimerSave(k) PROVE Heading'
  BY <1>9, KeepHeads
<1>10. CASE Crash
  <2>1. registry' = 0 /\ \A j \in Instances : ses'[j].step = "idle"
    BY <1>10 DEF Crash, NewSession
  <2> QED BY <2>1 DEF Heading, Numbering
<1> QED BY <1>3, <1>4, <1>5, <1>6, <1>7, <1>8, <1>9, <1>10 DEF Environment

LEMMA HeadingStep ==
  ASSUME Typed, Heading, Alone, [Next]_vars
  PROVE  Heading'
<1>1. CASE UNCHANGED vars
  BY <1>1, HeadingStays DEF vars, storage, server
<1>2. CASE Serve
  BY <1>2, RecoverHeads, TakeHeads, PersistHeads, KeepHeads DEF Serve
<1>3. CASE Environment
  BY <1>3, EnvironmentHeads
<1> QED BY <1>1, <1>2, <1>3 DEF Next

\* A loaded board is at the head of its ledger, wherever saves, unloads, lost
\* snapshots, failing appends and crashes fell, while no other instance of the board
\* still has work to do.
THEOREM LoadedIsAtTheHead == Spec /\ []Alone => []LoadedBoardIsAtTheHead
<1>1. Init => Typed /\ Heading
  BY TypedInit DEF Init, NewSession, Heading, Numbering
<1>2. Typed /\ Heading /\ Alone /\ [Next]_vars => Typed' /\ Heading'
  BY TypedStep, HeadingStep
<1>3. Typed /\ Heading => LoadedBoardIsAtTheHead
  <2> SUFFICES ASSUME Typed, Heading, registry # 0, Ready(registry), registry \notin dropDue,
                      NEW i \in DOMAIN file.lines, IsEntry(file.lines[i])
               PROVE  file.lines[i].seq <= mem[registry].seq
    BY DEF LoadedBoardIsAtTheHead
  <2>1. ~(file.lines[i].seq > mem[registry].seq)
    BY DEF Heading, AtHead, NoneBeyond
  <2>2. file.lines[i] \in Line /\ registry \in Instances /\ mem[registry].seq \in Nat
    BY DEF Typed, TypeOK, File, Boards
  <2>3. file.lines[i].seq \in Nat
    BY <2>2 DEF Line, IsEntry, Entry
  <2> QED BY <2>1, <2>2, <2>3
<1> QED BY <1>1, <1>2, <1>3, PTL DEF Spec

-----------------------------------------------------------------------------
(***************************************************************************)
(* Why a board comes back from its ledger as it was: the entries tell the  *)
(* story of the board, each accepted by the engine on what those before it *)
(* made, and the one instance at work is at its end or on the way there.   *)
(***************************************************************************)

-----------------------------------------------------------------------------
(* Replaying an acceptance.                                                 *)

\* No two items of a board have one id.
Distinct(c) == \A i, j \in DOMAIN c.order : c.order[i].id = c.order[j].id => i = j

\* A trim with nothing to take changes nothing.
LEMMA TrimmedStays ==
  ASSUME NEW c \in Content, Excess(c) = 0 \/ (Ahead(c) = {} /\ c.cursor = Len(c.order))
  PROVE  Trimmed(c) = c
<1>1. Victims(c) = {}
  <2>1. CASE Excess(c) = 0
    <3>1. Ahead(c) \in SUBSET (1..Len(c.order)) /\ Cardinality(Ahead(c)) \in Nat
      BY PlaceSets
    <3>2. \A i \in Ahead(c) : Rank(Ahead(c), i) \in 1..Cardinality(Ahead(c))
      BY <3>1, PlaceSets, Ranks
    <3> QED BY <2>1, <3>1, <3>2 DEF Victims
  <2>2. CASE Ahead(c) = {}
    BY <2>2 DEF Victims
  <2> QED BY <2>1, <2>2
<1>2. Stop(c) = c.cursor
  <2>1. ASSUME Excess(c) # 0
        PROVE  Ahead(c) = {} /\ c.cursor = Len(c.order) /\ Cardinality(Ahead(c)) < Excess(c)
    <3>1. Ahead(c) = {} /\ c.cursor = Len(c.order)
      BY <2>1
    <3>2. Cardinality(Ahead(c)) = 0
      BY <3>1, FS_EmptySet
    <3> QED BY <2>1, <3>1, <3>2, PlaceSets
  <2> QED BY <2>1 DEF Stop
<1>3. c = [order |-> c.order, cursor |-> c.cursor]
  BY DEF Content
<1>4. [i \in DOMAIN c.order |-> IF i \in Victims(c) THEN Deleted(c.order[i].id) ELSE c.order[i]]
        = c.order
  BY <1>1, PlaceSets
<1> QED BY <1>2, <1>3, <1>4 DEF Trimmed

\* A trim leaves nothing for another one.
LEMMA TrimmedAgain ==
  ASSUME NEW c \in Content
  PROVE  Trimmed(Trimmed(c)) = Trimmed(c)
<1> DEFINE t == Trimmed(c)
<1>0. t \in Content /\ Len(t.order) = Len(c.order) /\ t.cursor = Stop(c)
  BY TrimType, PlaceSets DEF Trimmed
<1>1. CASE Excess(c) = 0
  BY <1>1, TrimmedStays
<1>2. CASE Excess(c) # 0 /\ Cardinality(Ahead(c)) < Excess(c)
  <2>1. t.cursor = Len(t.order)
    BY <1>0, <1>2 DEF Stop
  <2>2. Ahead(t) = {}
    <3> HIDE DEF t
    <3>1. LivePlaces(t) \in SUBSET (1..Len(t.order))
      BY <1>0, PlaceSets
    <3> QED BY <1>0, <2>1, <3>1, PlaceSets DEF Ahead
  <2> QED BY <1>0, <2>1, <2>2, TrimmedStays
<1>3. CASE ~(Cardinality(Ahead(c)) < Excess(c))
  <2> DEFINE S == LivePlaces(c)
             V == Victims(c)
  <2>1. LivePlaces(t) = S \ V
    BY PlaceSets DEF LivePlaces, Trimmed, Deleted
  <2>2. IsFiniteSet(S) /\ V \in SUBSET S /\ Cardinality(S) \in Nat
    BY PlaceSets, Ranks
  <2>3. Cardinality(S \ V) = Cardinality(S) - Cardinality(V)
    <3>1. S \cap V = V
      BY <2>2
    <3> QED BY <2>2, <3>1, FS_Difference
  <2>4. Cardinality(V) = Excess(c)
    BY <1>3, VictimCount, PlaceSets
  <2>5. LiveCount(t) <= MaxItems
    BY <2>1, <2>2, <2>3, <2>4, BoundsAssumption DEF LiveCount, Excess
  <2>6. Excess(t) = 0
    BY <1>0, <2>5, PlaceSets, BoundsAssumption DEF Excess
  <2> QED BY <1>0, <2>6, TrimmedStays
<1> QED BY <1>1, <1>2, <1>3

\* Writing, deleting, clearing and trimming keep ids apart.
LEMMA UpsertDistinct ==
  ASSUME NEW c \in Content, NEW item \in Item, Distinct(c)
  PROVE  Distinct(Upsert(c, item))
<1>1. c.order \in Seq(Item)
  BY PlaceSets
<1>2. CASE Known(c, item.id)
  <2> DEFINE p == At(c, item.id)
             next == [c.order EXCEPT ![p] = item]
  <2>1. p \in DOMAIN c.order /\ c.order[p].id = item.id
    BY <1>2, AtPlace, PlaceSets DEF Held
  <2>2. DOMAIN next = DOMAIN c.order /\ \A i \in DOMAIN c.order : next[i].id = c.order[i].id
    BY <2>1
  <2>3. Upsert(c, item).order = next
    BY <1>2 DEF Upsert, Content
  <2> HIDE DEF next
  <2> QED BY <2>2, <2>3 DEF Distinct
<1>3. CASE ~Known(c, item.id)
  <2>1. Upsert(c, item).order = Append(c.order, item)
    BY <1>3 DEF Upsert, Content
  <2> QED BY <1>1, <1>3, <2>1 DEF Distinct, Known
<1> QED BY <1>2, <1>3

LEMMA TrimmedDistinct ==
  ASSUME NEW c \in Content, Distinct(c)
  PROVE  Distinct(Trimmed(c)) /\ Distinct(Cleared(c))
<1>1. DOMAIN Trimmed(c).order = DOMAIN c.order /\ DOMAIN Cleared(c).order = DOMAIN c.order
  BY DEF Trimmed, Cleared
<1>2. \A i \in DOMAIN c.order : /\ Trimmed(c).order[i].id = c.order[i].id
                                /\ Cleared(c).order[i].id = c.order[i].id
  BY DEF Trimmed, Cleared, Deleted
<1> QED BY <1>1, <1>2 DEF Distinct

LEMMA WithoutDistinct ==
  ASSUME NEW c \in Content, NEW x \in Items, Distinct(c)
  PROVE  Distinct(Without(c, x))
<1>1. Deleted(x) \in Item
  BY BoundsAssumption DEF Deleted, Item
<1> QED BY <1>1, UpsertDistinct DEF Without

LEMMA AppliedDistinct ==
  ASSUME NEW c \in Content, NEW m \in Mutation, Applicable(c, m), Distinct(c)
  PROVE  Distinct(Applied(c, m))
<1>1. CASE m.op = "create"
  BY <1>1, UpsertDistinct, SeedType DEF Applied, Mutation
<1>2. CASE m.op = "update"
  <2>1. Held(c, m.id) \in Item
    BY <1>2, AtPlace DEF Applicable, Has
  <2> QED BY <1>2, <2>1, ItemTypes, UpsertDistinct DEF Applied
<1>3. CASE m.op = "copy"
  <2>1. Held(c, m.from) \in Item /\ m.id \in Items
    BY <1>3, AtPlace DEF Applicable, Mutation, Has
  <2> QED BY <1>3, <2>1, ItemTypes, UpsertDistinct DEF Applied
<1>4. CASE m.op = "append"
  <2>1. Held(c, m.id) \in Item /\ Held(c, m.id).kids < MaxChildren
    BY <1>4, AtPlace DEF Applicable, Has
  <2> QED BY <1>4, <2>1, ItemTypes, UpsertDistinct DEF Applied
<1>5. CASE m.op = "delete"
  BY <1>5, WithoutDistinct DEF Applied, Mutation
<1>6. CASE m.op = "clear"
  BY <1>6, TrimmedDistinct DEF Applied
<1> QED BY <1>1, <1>2, <1>3, <1>4, <1>5, <1>6 DEF Applicable

\* What a trim has deleted is not there to be deleted again: replaying its follow-up
\* changes nothing.
LEMMA DeleteAgain ==
  ASSUME NEW c \in Content, Distinct(c), NEW i \in Victims(c)
  PROVE  LET again == Process(Trimmed(c), EraserDelete(c.order[i].id)) IN
         again.ok /\ again.content = Trimmed(c)
<1> DEFINE t == Trimmed(c)
           x == c.order[i].id
<1>1. t \in Content /\ Distinct(t) /\ DOMAIN t.order = DOMAIN c.order
  BY TrimType, TrimmedDistinct DEF Trimmed
<1>2. i \in DOMAIN c.order /\ t.order[i] = Deleted(x)
  BY PlaceSets DEF Trimmed
<1>3. ~Has(t, x)
  <2>1. i \in DOMAIN t.order /\ t.order[i].id = x /\ t.order[i].state = "deleted"
    BY <1>1, <1>2 DEF Deleted
  <2> HIDE DEF t
  <2>2. At(t, x) = i
    BY <1>1, <2>1 DEF At, Distinct
  <2> QED BY <2>1, <2>2 DEF Has, Held
<1>4. Applicable(t, EraserDelete(x)) /\ Applied(t, EraserDelete(x)) = t
  BY <1>3 DEF Applicable, Applied, EraserDelete, Without
<1>5. Trimmed(t) = t
  BY TrimmedAgain
<1> QED BY <1>4, <1>5 DEF Process, Outcome

\* The entries of an acceptance lead from one board to the next: the first makes the
\* change, and replaying those after it changes nothing.
Leads(c, batch, n, next) ==
  /\ batch # << >>
  /\ \A i \in DOMAIN batch :
       LET result == Process(IF i = 1 THEN c ELSE next, batch[i].mut) IN
       /\ batch[i].seq = n + i
       /\ result.ok /\ result.content = next
       /\ i > 1 => batch[i].mut.cid = NoClientId
  /\ Distinct(next)

LEMMA AcceptanceLeads ==
  ASSUME NEW c \in Content, NEW m \in Mutation, NEW n \in Nat, Distinct(c)
  PROVE  LET result == Process(c, m)
             muts   == (IF result.ok THEN << m >> ELSE << >>) \o result.followup
             batch  == Batch(n, muts)
         IN  muts # << >> =>
               /\ Leads(c, batch, n, result.content)
               /\ (batch[1].mut = m /\ result.ok) \/ batch[1].mut.cid = NoClientId
<1> DEFINE result == Process(c, m)
           muts   == (IF result.ok THEN << m >> ELSE << >>) \o result.followup
           batch  == Batch(n, muts)
           Goal   == /\ Leads(c, batch, n, result.content)
                     /\ (batch[1].mut = m /\ result.ok) \/ batch[1].mut.cid = NoClientId
<1>1. CASE Applicable(c, m)
  <2> DEFINE next == Applied(c, m)
             gone == ItemsAt(next.order, Victims(next))
             tail == TrimFollowup(next)
  <2>1. /\ next \in Content /\ Distinct(next)
        /\ result.ok /\ result.content = Trimmed(next) /\ result.followup = tail
    BY <1>1, AppliedType, AppliedDistinct DEF Process, Outcome
  <2>2. tail \in Seq(Mutation)
    BY <2>1, TrimType
  <2>3. ASSUME NEW r \in DOMAIN tail
        PROVE  LET again == Process(Trimmed(next), tail[r]) IN
               again.ok /\ again.content = Trimmed(next) /\ tail[r].cid = NoClientId
    <3> DEFINE V == Victims(next)
               i == Nth(V, r)
    <3>1. DOMAIN tail = 1..Cardinality(V)
      BY DEF TrimFollowup, ItemsAt
    <3>2. i \in V
      BY <2>1, <2>3, <3>1, PlaceSets, NthIs
    <3>3. tail[r] = EraserDelete(next.order[i].id)
      BY <2>3, <3>1 DEF TrimFollowup, ItemsAt
    <3> HIDE DEF next, i, tail
    <3>4. LET again == Process(Trimmed(next), EraserDelete(next.order[i].id)) IN
          again.ok /\ again.content = Trimmed(next)
      BY <2>1, <3>2, DeleteAgain
    <3> QED BY <3>3, <3>4 DEF EraserDelete
  <2>4. muts = << m >> \o tail
    BY <2>1
  <2> HIDE DEF next, tail, result, muts
  <2>5. /\ DOMAIN muts = 1..(1 + Len(tail)) /\ muts[1] = m /\ Len(tail) \in Nat
        /\ \A i \in DOMAIN muts : i > 1 => i - 1 \in DOMAIN tail /\ muts[i] = tail[i - 1]
    BY <2>2, <2>4
  <2>6. DOMAIN batch = DOMAIN muts /\ \A i \in DOMAIN muts : batch[i] = [seq |-> n + i, mut |-> muts[i]]
    <3>1. muts \in Seq(Mutation)
      BY <2>2, <2>4
    <3> QED BY <3>1 DEF Batch
  <2>7. Distinct(result.content)
    BY <2>1, TrimmedDistinct
  <2> HIDE DEF batch
  <2>8. batch # << >>
    BY <2>5, <2>6
  <2>9. ASSUME NEW i \in DOMAIN batch
        PROVE  LET again == Process(IF i = 1 THEN c ELSE result.content, batch[i].mut) IN
               /\ batch[i].seq = n + i
               /\ again.ok /\ again.content = result.content
               /\ i > 1 => batch[i].mut.cid = NoClientId
    <3>1. CASE i = 1
      <4>1. batch[1].mut = m /\ batch[1].seq = n + 1
        BY <2>5, <2>6
      <4> QED BY <2>1, <3>1, <4>1 DEF result
    <3>2. CASE i # 1
      <4>1. i > 1 /\ i - 1 \in DOMAIN tail /\ batch[i].mut = tail[i - 1] /\ batch[i].seq = n + i
        BY <2>5, <2>6, <3>2
      <4> QED BY <2>1, <2>3, <3>2, <4>1
    <3> QED BY <3>1, <3>2
  <2>10. batch[1].mut = m /\ result.ok
    BY <2>1, <2>5, <2>6
  <2> QED BY <2>7, <2>8, <2>9, <2>10 DEF Leads, muts, batch, result
<1>2. CASE ~Applicable(c, m) /\ DropsSeed(c, m)
  <2> DEFINE next == Trimmed(Without(c, m.id))
             e    == EraserDelete(m.id)
  <2>1. m.id \in Items
    BY DEF Mutation
  <2>2. Without(c, m.id) \in Content /\ Distinct(Without(c, m.id))
    BY <2>1, WithoutType, WithoutDistinct
  <2>3. ~result.ok /\ result.content = next /\ muts = << e >> /\ Distinct(next)
    BY <1>2, <2>2, TrimmedDistinct DEF Process, Outcome
  <2>4. batch = << [seq |-> n + 1, mut |-> e] >>
    <3> HIDE DEF muts, e
    <3> QED BY <2>3 DEF Batch
  <2>5. Process(c, e).ok /\ Process(c, e).content = next /\ e.cid = NoClientId
    BY DEF Process, Outcome, Applicable, Applied, EraserDelete
  <2> HIDE DEF result, next, e, muts, batch
  <2>6. DOMAIN batch = {1} /\ batch[1].seq = n + 1 /\ batch[1].mut = e /\ batch # << >>
    BY <2>4
  <2>7. Leads(c, batch, n, next)
    BY <2>3, <2>5, <2>6 DEF Leads
  <2> QED BY <2>3, <2>5, <2>6, <2>7 DEF muts, batch, result
<1>3. CASE ~Applicable(c, m) /\ ~DropsSeed(c, m)
  <2>1. muts = << >>
    BY <1>3 DEF Process, Outcome
  <2> QED BY <2>1
<1> QED BY <1>1, <1>2, <1>3

-----------------------------------------------------------------------------
(* The entries of a ledger file.                                            *)

\* The entries of a file without the bytes torn off at its end.
Log(f) ==
  IF f.lines = << >> \/ IsEntry(LastLine(f)) THEN f.lines
  ELSE SubSeq(f.lines, 1, Len(f.lines) - 1)

LEMMA LogIs ==
  ASSUME NEW f \in File, Sound(f)
  PROVE  /\ Log(f) \in Seq(SentEntry)
         /\ f.terminated => Log(f) = f.lines
         /\ \A i \in DOMAIN f.lines :
              IsEntry(f.lines[i]) <=> i \in DOMAIN Log(f)
         /\ \A i \in DOMAIN Log(f) : i \in DOMAIN f.lines /\ Log(f)[i] = f.lines[i]
<1>1. f.lines \in Seq(Line) /\ DOMAIN f.lines = 1..Len(f.lines) /\ Len(f.lines) \in Nat
  BY DEF File
<1>2. ASSUME NEW i \in DOMAIN f.lines
      PROVE  /\ IsEntry(f.lines[i]) <=> f.lines[i] \in SentEntry
             /\ ~IsEntry(f.lines[i]) => i = Len(f.lines) /\ ~f.terminated
  BY LineAssumption DEF Sound, IsEntry, SentEntry
<1>3. CASE f.lines = << >> \/ IsEntry(LastLine(f))
  <2>1. Log(f) = f.lines
    BY <1>3 DEF Log
  <2>2. \A i \in DOMAIN f.lines : IsEntry(f.lines[i]) /\ f.lines[i] \in SentEntry
    BY <1>1, <1>2, <1>3 DEF LastLine
  <2>3. f.lines \in Seq(SentEntry)
    BY <1>1, <2>2
  <2> QED BY <2>1, <2>2, <2>3
<1>4. CASE ~(f.lines = << >> \/ IsEntry(LastLine(f)))
  <2> DEFINE n == Len(f.lines) - 1
  <2>1. Log(f) = SubSeq(f.lines, 1, n) /\ n \in Nat
    BY <1>1, <1>4 DEF Log
  <2>2. ~IsEntry(f.lines[Len(f.lines)]) /\ Len(f.lines) \in DOMAIN f.lines
    BY <1>1, <1>4 DEF LastLine
  <2>3. ~f.terminated
    BY <1>2, <2>2
  <2>4. DOMAIN Log(f) = 1..n /\ \A i \in 1..n : i \in DOMAIN f.lines /\ Log(f)[i] = f.lines[i]
    BY <1>1, <2>1
  <2>5. \A i \in 1..n : f.lines[i] \in SentEntry
    BY <1>1, <1>2, <2>4
  <2>6. Log(f) \in Seq(SentEntry)
    <3>1. SubSeq(f.lines, 1, n) = [i \in 1..n |-> f.lines[i]]
      BY <1>1, <2>1
    <3> HIDE DEF n
    <3> QED BY <2>1, <2>5, <3>1
  <2>7. \A i \in DOMAIN f.lines : IsEntry(f.lines[i]) <=> i \in 1..n
    BY <1>1, <1>2, <2>2, <2>4
  <2> QED BY <2>3, <2>4, <2>6, <2>7
<1> QED BY <1>3, <1>4

\* A line torn at the end is no entry, a whole one is.
LEMMA TornEnd ==
  ASSUME NEW a \in Seq(Line), NEW b \in Seq(Line), NEW g, g.lines = a \o (b \o << Torn >>)
  PROVE  Log(g) = a \o b
<1> DEFINE s == a \o (b \o << Torn >>)
<1>1. << Torn >> \in Seq(Line) /\ Len(<< Torn >>) = 1 /\ << Torn >>[1] = Torn
  BY DEF Line
<1>2. /\ b \o << Torn >> \in Seq(Line) /\ Len(b \o << Torn >>) = Len(b) + 1
      /\ (b \o << Torn >>)[Len(b) + 1] = Torn
  BY <1>1
<1>3. s \in Seq(Line) /\ Len(s) = Len(a) + Len(b) + 1 /\ s[Len(s)] = Torn
  BY <1>2
<1>4. s = (a \o b) \o << Torn >>
  BY <1>1, ConcatAssociative
<1>5. a \o b \in Seq(Line) /\ Len(a \o b) = Len(s) - 1
  BY <1>3
<1>6. SubSeq(s, 1, Len(s) - 1) = a \o b
  <2> HIDE DEF s
  <2> QED BY <1>1, <1>3, <1>4, <1>5
<1>7. s # << >>
  BY <1>3
<1> HIDE DEF s
<1>8. g.lines = s
  BY DEF s
<1> QED BY <1>3, <1>6, <1>7, <1>8 DEF Log, LastLine, IsEntry

LEMMA WholeEnd ==
  ASSUME NEW a \in Seq(Line), NEW b \in Seq(Line), b # << >>, b[Len(b)] \in SentEntry,
         NEW g, g.lines = a \o b
  PROVE  Log(g) = a \o b
<1> DEFINE s == a \o b
<1>1. s \in Seq(Line) /\ s[Len(s)] = b[Len(b)]
  OBVIOUS
<1> HIDE DEF s
<1>2. g.lines = s
  BY DEF s
<1> QED BY <1>1, <1>2, LineAssumption DEF Log, LastLine, IsEntry, SentEntry, s

\* A write adds the entries that reach the file whole.
LEMMA LogGrows ==
  ASSUME NEW f \in File, Sound(f), f.terminated, NEW batch \in Seq(SentEntry),
         NEW whole \in 0..Len(batch), NEW end \in Ends, CanEnd(batch, whole, end)
  PROVE  Log(Write(f, batch, whole, end)) = Log(f) \o SubSeq(batch, 1, whole)
<1> DEFINE landed == Landed(batch, whole, end)
           added  == SubSeq(batch, 1, whole)
           g      == Write(f, batch, whole, end)
<1>0. batch \in Seq(Line) /\ whole \in Nat /\ whole <= Len(batch) /\ Len(batch) \in Nat
  BY DEF Line, SentEntry
<1>1. /\ f.lines \in Seq(Line) /\ Log(f) = f.lines /\ Len(f.lines) \in Nat
      /\ added \in Seq(SentEntry) /\ Len(added) = whole /\ added \in Seq(Line)
  BY <1>0, LogIs DEF File
<1>2. CASE end = "torn"
  <2>1. landed = added \o << Torn >> /\ landed # << >>
    BY <1>1, <1>2 DEF Landed
  <2>2. g.lines = f.lines \o (added \o << Torn >>)
    BY <2>1 DEF Write
  <2> HIDE DEF g, added
  <2>3. Log(g) = f.lines \o added
    BY <1>1, <2>2, TornEnd
  <2> QED BY <1>1, <2>3 DEF g, added
<1>3. CASE end # "torn" /\ whole > 0
  <2>1. landed = added /\ landed # << >>
    BY <1>1, <1>3 DEF Landed
  <2>2. g.lines = f.lines \o added
    BY <2>1 DEF Write
  <2>3. added[Len(added)] \in SentEntry /\ added # << >>
    BY <1>1, <1>3
  <2> HIDE DEF g, added
  <2>4. Log(g) = f.lines \o added
    BY <1>1, <2>2, <2>3, WholeEnd
  <2> QED BY <1>1, <2>4 DEF g, added
<1>4. CASE end # "torn" /\ whole = 0
  <2>1. landed = << >> /\ added = << >>
    BY <1>1, <1>4 DEF Landed
  <2>2. g = f
    BY <2>1 DEF Write
  <2>3. Log(f) \o << >> = Log(f)
    BY <1>1
  <2> QED BY <2>1, <2>2, <2>3
<1> QED BY <1>0, <1>2, <1>3, <1>4

\* A repair leaves the entries as they are.
LEMMA LogStays ==
  ASSUME NEW f \in File, Sound(f), ~f.terminated
  PROVE  Log(Repair(f, PlanFor(f))) = Log(f)
<1>1. f.lines \in Seq(Line) /\ f.lines # << >> /\ Len(f.lines) \in Nat \ {0}
  BY DEF File
<1>2. CASE IsEntry(LastLine(f))
  <2>1. Repair(f, PlanFor(f)) = [f EXCEPT !.terminated = TRUE]
    BY <1>2 DEF PlanFor, SealLine, Repair
  <2>2. [f EXCEPT !.terminated = TRUE].lines = f.lines
    BY DEF File
  <2> QED BY <2>1, <2>2 DEF Log, LastLine
<1>3. CASE ~IsEntry(LastLine(f))
  <2> DEFINE n == Len(f.lines) - 1
             g == [lines |-> SubSeq(f.lines, 1, n), terminated |-> TRUE]
  <2>1. Repair(f, PlanFor(f)) = g
    BY <1>1, <1>3 DEF PlanFor, CutTo, Repair
  <2>2. Log(f) = g.lines
    BY <1>1, <1>3 DEF Log
  <2>3. g \in File /\ Sound(g) /\ g.terminated
    <3>1. g \in File
      BY <1>1 DEF File
    <3> QED BY <2>1, <3>1, RepairSound
  <2> QED BY <2>1, <2>2, <2>3, LogIs
<1> QED BY <1>2, <1>3

-----------------------------------------------------------------------------
(* The story.                                                               *)

\* A ledger tells a story: h is the board after each of its entries, every one of
\* which is numbered in turn and accepted by the engine.
Tells(log, h) ==
  /\ h \in [0..Len(log) -> Content]
  /\ h[0] = Empty
  /\ \A n \in 1..Len(log) :
       LET result == Process(h[n - 1], log[n].mut) IN
       log[n].seq = n /\ result.ok /\ result.content = h[n]
  /\ \A n \in 0..Len(log) : Distinct(h[n])

\* No client's mutation is in it twice.
Single(log) ==
  \A i, j \in DOMAIN log : log[i].mut = log[j].mut /\ log[i].mut \in Muts => i = j

\* The client mutation ids of its first entries.
Ids(log, n) == {log[i].mut.cid : i \in 1..n} \cap ClientIds

\* The story goes on with as much of an acceptance as reaches the ledger.
LEMMA StoryGoesOn ==
  ASSUME NEW log \in Seq(SentEntry), NEW h, Tells(log, h), Single(log),
         NEW next \in Content, NEW batch \in Seq(SentEntry),
         Leads(h[Len(log)], batch, Len(log), next),
         batch[1].mut \in Muts => \A i \in DOMAIN log : log[i].mut # batch[1].mut,
         NEW whole \in 0..Len(batch)
  PROVE  LET longer == log \o SubSeq(batch, 1, whole) IN
         /\ longer \in Seq(SentEntry) /\ Len(longer) = Len(log) + whole
         /\ Single(longer)
         /\ Ids(longer, Len(longer)) \subseteq
              Ids(log, Len(log)) \cup ({batch[1].mut.cid} \cap ClientIds)
         /\ \E g : /\ Tells(longer, g)
                   /\ \A i \in 0..Len(log) : g[i] = h[i]
                   /\ g[Len(longer)] = IF whole = 0 THEN h[Len(log)] ELSE next
<1> DEFINE n == Len(log)
           longer == log \o SubSeq(batch, 1, whole)
           g == [i \in 0..(n + whole) |-> IF i <= n THEN h[i] ELSE next]
<1>1. /\ n \in Nat /\ whole \in Nat /\ Len(batch) \in Nat /\ whole <= Len(batch)
      /\ longer \in Seq(SentEntry) /\ Len(longer) = n + whole
  OBVIOUS
<1>2. ASSUME NEW i \in 1..n PROVE longer[i] = log[i]
  OBVIOUS
<1>3. ASSUME NEW i \in 1..whole PROVE longer[n + i] = batch[i] /\ i \in DOMAIN batch
  OBVIOUS
<1>4. ASSUME NEW i \in 1..(n + whole) PROVE i \in 1..n \/ (i - n \in 1..whole /\ longer[i] = batch[i - n])
  <2>1. CASE i > n
    <3>1. i - n \in 1..whole
      BY <1>1, <2>1
    <3>2. longer[n + (i - n)] = batch[i - n]
      BY <1>3, <3>1
    <3>3. n + (i - n) = i
      BY <1>1
    <3> QED BY <3>1, <3>2, <3>3
  <2> QED BY <1>1, <2>1
<1> HIDE DEF longer, n
<1>5. ASSUME NEW i \in 1..whole, batch[i].mut \in Muts PROVE i = 1
  <2>1. batch[i].mut.cid \in ClientIds
    BY <1>5, DurableBoardAssumption
  <2>2. i > 1 => batch[i].mut.cid = NoClientId
    BY <1>3 DEF Leads
  <2> QED BY <1>1, <2>1, <2>2, BoundsAssumption
<1>6. Single(longer)
  <2> SUFFICES ASSUME NEW i \in 1..(n + whole), NEW j \in 1..(n + whole), i < j,
                      longer[i].mut = longer[j].mut, longer[i].mut \in Muts
               PROVE  FALSE
    <3>1. DOMAIN longer = 1..(n + whole)
      BY <1>1
    <3> QED BY <1>1, <3>1 DEF Single
  <2>1. CASE i \in 1..n /\ j \in 1..n
    <3>1. i \in DOMAIN log /\ j \in DOMAIN log
      BY <2>1 DEF n
    <3> QED BY <1>1, <1>2, <2>1, <3>1 DEF Single
  <2>2. CASE i \in 1..n /\ j \notin 1..n
    <3>1. j - n \in 1..whole /\ longer[j] = batch[j - n]
      BY <1>4, <2>2
    <3>2. j - n = 1
      BY <1>5, <3>1
    <3>3. i \in DOMAIN log /\ log[i].mut = batch[1].mut /\ batch[1].mut \in Muts
      BY <1>2, <2>2, <3>1, <3>2 DEF n
    <3> QED BY <3>3
  <2>3. CASE i \notin 1..n
    <3>1. i - n \in 1..whole /\ longer[i] = batch[i - n]
      BY <1>4, <2>3
    <3>2. j \notin 1..n
      BY <1>1, <2>3
    <3>3. j - n \in 1..whole /\ longer[j] = batch[j - n]
      BY <1>4, <3>2
    <3>4. i - n = 1 /\ j - n = 1
      BY <1>5, <3>1, <3>3
    <3> QED BY <1>1, <3>4
  <2> QED BY <2>1, <2>2, <2>3
<1>7. Ids(longer, Len(longer)) \subseteq Ids(log, Len(log)) \cup ({batch[1].mut.cid} \cap ClientIds)
  <2> SUFFICES ASSUME NEW i \in 1..(n + whole), longer[i].mut.cid \in ClientIds
               PROVE  longer[i].mut.cid \in Ids(log, n) \cup {batch[1].mut.cid}
    BY <1>1 DEF Ids, n
  <2>1. CASE i \in 1..n
    BY <1>2, <2>1 DEF Ids
  <2>2. CASE i \notin 1..n
    <3>1. i - n \in 1..whole /\ longer[i] = batch[i - n]
      BY <1>4, <2>2
    <3>2. i - n > 1 => batch[i - n].mut.cid = NoClientId
      BY <1>3, <3>1 DEF Leads
    <3>3. i - n = 1
      BY <1>1, <3>1, <3>2, BoundsAssumption
    <3> QED BY <3>1, <3>3
  <2> QED BY <2>1, <2>2
<1>8. /\ Tells(longer, g) /\ \A i \in 0..n : g[i] = h[i]
      /\ g[n + whole] = IF whole = 0 THEN h[n] ELSE next
  <2>1. \A i \in 0..n : g[i] = h[i] /\ h[i] \in Content /\ Distinct(h[i])
    <3>1. \A i \in 0..n : h[i] \in Content /\ Distinct(h[i])
      <4>1. h \in [0..n -> Content] /\ \A i \in 0..n : Distinct(h[i])
        BY DEF Tells, n
      <4> QED BY <4>1
    <3>2. \A i \in 0..n : g[i] = h[i]
      <4>1. \A i \in 0..n : i \in 0..(n + whole) /\ i <= n
        BY <1>1
      <4> QED BY <4>1
    <3> QED BY <3>1, <3>2
  <2>2. \A i \in 0..(n + whole) : i \notin 0..n => g[i] = next
    BY <1>1
  <2>3. DOMAIN g = 0..(n + whole) /\ g = [i \in 0..(n + whole) |-> g[i]]
    OBVIOUS
  <2> HIDE DEF g
  <2>4. g \in [0..(n + whole) -> Content] /\ \A i \in 0..(n + whole) : g[i] \in Content
    <3>1. \A i \in 0..(n + whole) : g[i] \in Content
      BY <2>1, <2>2
    <3> QED BY <2>3, <3>1
  <2>5. g[0] = Empty
    BY <1>1, <2>1 DEF Tells
  <2>6. ASSUME NEW i \in 1..(n + whole)
        PROVE  LET result == Process(g[i - 1], longer[i].mut) IN
               longer[i].seq = i /\ result.ok /\ result.content = g[i]
    <3>1. CASE i \in 1..n
      <4>1. g[i] = h[i] /\ g[i - 1] = h[i - 1] /\ longer[i] = log[i]
        <5>1. i \in 0..n /\ i - 1 \in 0..n
          BY <1>1, <3>1
        <5> QED BY <1>2, <2>1, <3>1, <5>1
      <4> QED BY <3>1, <4>1 DEF Tells, n
    <3>2. CASE i \notin 1..n
      <4>1. i - n \in 1..whole /\ longer[i] = batch[i - n] /\ i - n \in DOMAIN batch
        BY <1>3, <1>4, <3>2
      <4>2. g[i] = next
        BY <1>1, <2>2, <3>2
      <4>3. g[i - 1] = IF i - n = 1 THEN h[n] ELSE next
        <5>1. CASE i - n = 1
          BY <1>1, <2>1, <5>1
        <5>2. CASE i - n # 1
          <6>1. i - 1 \in 0..(n + whole) /\ i - 1 \notin 0..n
            BY <1>1, <4>1, <5>2
          <6> QED BY <2>2, <5>2, <6>1
        <5> QED BY <5>1, <5>2
      <4>4. LET result == Process(IF i - n = 1 THEN h[n] ELSE next, batch[i - n].mut) IN
            /\ batch[i - n].seq = n + (i - n)
            /\ result.ok /\ result.content = next
        BY <4>1 DEF Leads, n
      <4>5. n + (i - n) = i
        BY <1>1
      <4> QED BY <4>1, <4>2, <4>3, <4>4, <4>5
    <3> QED BY <3>1, <3>2
  <2>7. \A i \in 0..(n + whole) : Distinct(g[i])
    BY <2>1, <2>2 DEF Leads
  <2>8. g[n + whole] = IF whole = 0 THEN h[n] ELSE next
    <3>1. CASE whole = 0
      BY <1>1, <2>1, <3>1
    <3>2. CASE whole # 0
      <4>1. n + whole \in 0..(n + whole) /\ n + whole \notin 0..n
        BY <1>1, <3>2
      <4> QED BY <2>2, <3>2, <4>1
    <3> QED BY <3>1, <3>2
  <2> QED BY <1>1, <2>1, <2>4, <2>5, <2>6, <2>7, <2>8 DEF Tells
<1> QED BY <1>1, <1>6, <1>7, <1>8 DEF longer, n

-----------------------------------------------------------------------------
(* The instance at work.                                                    *)

\* An acceptance under way on an instance whose board was c before it.
Accepting(b, s, n, c) ==
  /\ ~s.sealed
  /\ s.mut.cid \notin s.remembered
  /\ Leads(c, s.batch, n, b.content)
  /\ (s.batch[1].mut = s.mut /\ s.ok) \/ s.batch[1].mut.cid = NoClientId


\* A loading instance has the rest of the story to replay, up to some entry.
Replaying(b, reads, log, h, n) ==
  b.phase = "hydrating" =>
    /\ b.seq < n /\ b.content = h[b.seq]
    /\ reads = {[at |-> i, entry |-> log[i]] : i \in (b.seq + 1)..n}

\* It need not be the loaded one any more, and the story may have gone on since.
Loads(b, reads, log, h) ==
  /\ b.phase # "broken"
  /\ b.phase = "opened" => b.content = Empty /\ b.seq = 0
  /\ \E n \in 0..Len(log) : Replaying(b, reads, log, h, n)

\* The loaded instance replays the whole story, and then is where it ends.
Works(b, s, reads, log, h) ==
  /\ Replaying(b, reads, log, h, Len(log))
  /\ b.phase \in {"hydrating", "ready"} => Ids(log, b.seq) \subseteq s.remembered
  /\ b.phase = "ready" =>
       /\ b.seq = Len(log)
       /\ s.step = "idle" => b.content = h[Len(log)]
       /\ s.step # "idle" => Accepting(b, s, Len(log), h[Len(log)])

\* The inductive invariant: the ledger tells a story, every load is in it and the
\* loaded board is at its end.
Mirrors(h) ==
  /\ snap = NoSnapshot
  /\ Tells(Log(file), h)
  /\ Single(Log(file))
  /\ \A k \in Instances : Busy(k) => Ready(k)
  /\ \A k \in Instances : Loads(mem[k], pending[k], Log(file), h)
  /\ registry # 0 /\ registry \notin dropDue =>
       Works(mem[registry], ses[registry], pending[registry], Log(file), h)

Mirrored == \E h : Mirrors(h)

\* Whoever is at work is the loaded instance.
LEMMA OneAtWork ==
  ASSUME Undisturbed, NEW h, Mirrors(h), NEW k \in Instances,
         ses[k].queue # << >> \/ ses[k].step # "idle"
  PROVE  /\ k = registry /\ k \notin dropDue /\ mem[k].phase = "ready"
         /\ Works(mem[k], ses[k], pending[k], Log(file), h)
<1>1. k # 0
  BY DEF Instances
<1>2. k = registry /\ k \notin dropDue /\ Ready(k)
  BY DEF Undisturbed, Busy, Mirrors
<1> QED BY <1>1, <1>2 DEF Mirrors, Ready

\* While the entries stay as they are, the one instance that moves has to stay in
\* the story.
LEMMA StoryStays ==
  ASSUME NEW h, Mirrors(h), Log(file)' = Log(file), snap' = snap, NEW k \in Instances,
         \A j \in Instances : j # k => mem'[j] = mem[j] /\ ses'[j] = ses[j] /\ pending'[j] = pending[j],
         ses'[k].queue # << >> \/ ses'[k].step # "idle" => mem'[k].phase = "ready",
         Loads(mem'[k], pending'[k], Log(file), h),
         registry \in {0} \cup Instances, registry' \in {registry, k}, dropDue \subseteq dropDue',
         registry' = k /\ k \notin dropDue' => Works(mem'[k], ses'[k], pending'[k], Log(file), h)
  PROVE  Mirrors(h)'
<1>1. Tells(Log(file), h)' /\ Single(Log(file))'
  BY DEF Mirrors, Tells, Single
<1>2. ASSUME NEW j \in Instances PROVE (Busy(j) => Ready(j))'
  BY DEF Mirrors, Busy, Ready
<1>3. ASSUME NEW j \in Instances PROVE Loads(mem[j], pending[j], Log(file), h)'
  <2>1. Loads(mem'[j], pending'[j], Log(file), h)
    BY DEF Mirrors
  <2> QED BY <2>1 DEF Loads, Replaying
<1>4. ASSUME registry' # 0, registry' \notin dropDue'
      PROVE  Works(mem[registry], ses[registry], pending[registry], Log(file), h)'
  <2>1. Works(mem'[registry'], ses'[registry'], pending'[registry'], Log(file), h)
    <3>1. CASE registry' = k
      BY <1>4, <3>1
    <3>2. CASE registry' # k
      BY <1>4, <3>2 DEF Mirrors
    <3> QED BY <3>1, <3>2
  <2> QED BY <2>1 DEF Works, Replaying, Accepting, Ids, Leads
<1> QED BY <1>1, <1>2, <1>3, <1>4 DEF Mirrors

\* Nothing is out of the story when nothing in it moves.
LEMMA QuietMirrors ==
  ASSUME Kept, NEW h, Mirrors(h), UNCHANGED << file, snap, pending, ses >>,
         \A j \in Instances : /\ mem'[j].phase = mem[j].phase /\ mem'[j].seq = mem[j].seq
                              /\ mem'[j].content = mem[j].content,
         registry' \in {registry, 0}, registry' # 0 /\ registry \in dropDue => registry \in dropDue'
  PROVE  Mirrored'
<1>1. Log(file)' = Log(file)
  BY DEF Log, LastLine, IsEntry
<1>2. Tells(Log(file), h)' /\ Single(Log(file))'
  BY <1>1 DEF Mirrors, Tells, Single
<1>3. ASSUME NEW j \in Instances PROVE (Busy(j) => Ready(j))'
  BY DEF Mirrors, Busy, Ready
<1>4. ASSUME NEW j \in Instances PROVE Loads(mem[j], pending[j], Log(file), h)'
  <2>1. Loads(mem[j], pending[j], Log(file), h)
    BY DEF Mirrors
  <2>2. /\ mem'[j].phase = mem[j].phase /\ mem'[j].seq = mem[j].seq
        /\ mem'[j].content = mem[j].content /\ pending'[j] = pending[j]
    OBVIOUS
  <2> QED BY <1>1, <2>1, <2>2 DEF Loads, Replaying
<1>5. ASSUME registry' # 0, registry' \notin dropDue'
      PROVE  Works(mem[registry], ses[registry], pending[registry], Log(file), h)'
  <2>1. registry' = registry /\ Works(mem[registry], ses[registry], pending[registry], Log(file), h)
    BY <1>5 DEF Mirrors
  <2>2. registry \in Instances
    BY <1>5, <2>1 DEF Kept, Typed, TypeOK
  <2>3. /\ mem'[registry].phase = mem[registry].phase /\ mem'[registry].seq = mem[registry].seq
        /\ mem'[registry].content = mem[registry].content
        /\ pending'[registry] = pending[registry] /\ ses'[registry] = ses[registry]
    BY <2>2
  <2> QED BY <1>1, <2>1, <2>3 DEF Works, Replaying, Accepting, Ids, Leads
<1>6. Mirrors(h)'
  BY <1>2, <1>3, <1>4, <1>5 DEF Mirrors
<1> QED BY <1>6 DEF Mirrored

\* Loading follows the story from its beginning and never falls out of it.
LEMMA RecoverMirrors ==
  ASSUME Kept, NEW h, Mirrors(h), NEW k \in Instances, Recover(k)
  PROVE  Mirrors(h)'
<1> DEFINE log == Log(file)
<1>0. /\ ses[k] \in Sessions /\ mem[k] \in Boards /\ mem \in [Instances -> Boards]
      /\ ses \in [Instances -> Sessions] /\ pending \in [Instances -> SUBSET Reads]
      /\ file \in File /\ Sound(file) /\ registry \in {0} \cup Instances
  BY SessionFields, BoardFields DEF Kept, Typed, TypeOK
<1>1. Loads(mem[k], pending[k], log, h)
  BY DEF Mirrors
<1>2. mem[k].phase # "ready" /\ ses[k].queue = << >> /\ ses[k].step = "idle"
  BY DEF Recover, ReadSnapshot, ReadLedger, HydrateNext, Mirrors, Busy, Ready
<1>3. /\ log \in Seq(SentEntry) /\ Len(log) \in Nat /\ DOMAIN log = 1..Len(log)
      /\ \A i \in DOMAIN file.lines : IsEntry(file.lines[i]) <=> i \in DOMAIN log
      /\ \A i \in DOMAIN log : i \in DOMAIN file.lines /\ log[i] = file.lines[i]
  BY <1>0, LogIs
<1>4. h[0] = Empty /\ \A n \in 1..Len(log) :
         LET result == Process(h[n - 1], log[n].mut) IN
         log[n].seq = n /\ result.ok /\ result.content = h[n]
  BY DEF Mirrors, Tells
<1>5. UNCHANGED << file, snap, registry, dropDue >>
  BY DEF Recover, ReadSnapshot, ReadLedger, HydrateNext, storage
<1>6. Log(file)' = Log(file)
  BY <1>5 DEF Log, LastLine, IsEntry
<1>7. 0 \in 0..Len(log) /\ Len(log) \in 0..Len(log)
  BY <1>3
<1>8. CASE ReadSnapshot(k)
  <2>1. mem[k].phase = "loading" /\ snap = NoSnapshot
    BY <1>8 DEF ReadSnapshot, Mirrors
  <2>2. /\ mem' = [mem EXCEPT ![k] = [mem[k] EXCEPT
             !.phase = "opened", !.content = Loaded(snap.content), !.saved = snap.content,
             !.seq = snap.seq, !.savedSeq = snap.seq]]
        /\ UNCHANGED << ses, pending >>
    BY <1>8 DEF ReadSnapshot
  <2>3. /\ mem'[k].phase = "opened" /\ mem'[k].content = Loaded(<< >>) /\ mem'[k].seq = 0
        /\ \A j \in Instances : j # k => mem'[j] = mem[j]
    BY <1>0, <2>1, <2>2 DEF NoSnapshot, Boards
  <2>4. Loads(mem'[k], pending'[k], log, h)
    BY <1>7, <2>3 DEF Loads, Replaying, Loaded, Empty
  <2>5. Works(mem'[k], ses'[k], pending'[k], log, h)
    BY <2>3 DEF Works, Replaying
  <2> HIDE DEF log
  <2> QED BY <1>0, <1>2, <1>5, <1>6, <2>2, <2>3, <2>4, <2>5, StoryStays DEF log
<1>9. CASE ReadLedger(k)
  <2>1. mem[k].phase = "opened" /\ mem[k].seq = 0 /\ mem[k].content = Empty
    BY <1>1, <1>9 DEF ReadLedger, Loads
  <2>2. Readable(file)
    BY <1>0, LineAssumption DEF Sound, Readable, IsEntry, SentEntry
  <2> DEFINE entries == EntriesAfter(file, 0)
  <2>3. entries = {[at |-> i, entry |-> log[i]] : i \in 1..Len(log)}
    <3>1. \A i \in 1..Len(log) : file.lines[i] = log[i] /\ log[i].seq > 0
      BY <1>3, <1>4
    <3>2. {j \in DOMAIN file.lines : IsEntry(file.lines[j]) /\ file.lines[j].seq > 0} = 1..Len(log)
      BY <1>3, <3>1
    <3> QED BY <3>1, <3>2 DEF EntriesAfter
  <2>4. entries = {} <=> Len(log) = 0
    <3> HIDE DEF entries, log
    <3>1. CASE Len(log) = 0
      BY <2>3, <3>1
    <3>2. CASE Len(log) # 0
      <4>1. 1 \in 1..Len(log)
        BY <1>3, <3>2
      <4> QED BY <2>3, <3>2, <4>1
    <3> QED BY <3>1, <3>2
  <2>5. /\ pending'[k] = entries
        /\ mem'[k] = [mem[k] EXCEPT !.phase = IF entries = {} THEN "ready" ELSE "hydrating"]
        /\ \A j \in Instances : j # k => mem'[j] = mem[j] /\ pending'[j] = pending[j]
        /\ UNCHANGED ses
    BY <1>0, <1>9, <2>1, <2>2 DEF ReadLedger
  <2>6. /\ mem'[k].phase = IF Len(log) = 0 THEN "ready" ELSE "hydrating"
        /\ mem'[k].seq = 0 /\ mem'[k].content = Empty
    BY <1>0, <2>1, <2>4, <2>5 DEF Boards
  <2>7. Ids(log, 0) = {}
    BY DEF Ids
  <2> HIDE DEF log, entries
  <2>8. Replaying(mem'[k], pending'[k], log, h, Len(log))
    BY <1>3, <1>4, <2>3, <2>5, <2>6 DEF Replaying
  <2>9. Loads(mem'[k], pending'[k], log, h)
    BY <1>7, <2>6, <2>8 DEF Loads
  <2>10. Works(mem'[k], ses'[k], pending'[k], log, h)
    BY <1>2, <1>4, <2>5, <2>6, <2>7, <2>8 DEF Works
  <2> QED BY <1>0, <1>2, <1>5, <1>6, <2>5, <2>9, <2>10, StoryStays DEF log
<1>10. CASE HydrateNext(k)
  <2>1. PICK up \in 0..Len(log) : Replaying(mem[k], pending[k], log, h, up)
    BY <1>1 DEF Loads
  <2> DEFINE n == mem[k].seq + 1
             p == [at |-> n, entry |-> log[n]]
             rest == pending[k] \ {p}
             reads == {[at |-> i, entry |-> log[i]] : i \in n..up}
  <2>2. /\ mem[k].phase = "hydrating" /\ mem[k].seq \in Nat /\ mem[k].seq < up /\ up \in Nat /\ up <= Len(log)
        /\ mem[k].content = h[n - 1] /\ n \in 1..up /\ n \in 1..Len(log)
        /\ \A i \in n..up : i \in 1..Len(log)
        /\ pending[k] = reads
    BY <1>0, <1>3, <1>10, <2>1 DEF HydrateNext, Replaying, Boards
  <2>3. p \in pending[k] /\ p.entry = log[n] /\ p.entry.seq = n
    BY <1>4, <2>2
  <2>4. \A q \in pending[k] : (\A r \in pending[k] : ReadsBefore(q, r)) => q = p
    <3> SUFFICES ASSUME NEW i \in n..up,
                        ReadsBefore([at |-> i, entry |-> log[i]], p)
                 PROVE  i = n
      BY <2>2, <2>3
    <3>1. log[i].seq = i /\ log[n].seq = n
      BY <1>4, <2>2
    <3> QED BY <2>2, <3>1 DEF ReadsBefore
  <2>5. LET result == Process(mem[k].content, p.entry.mut) IN
        p.entry.seq = mem[k].seq + 1 /\ result.ok /\ result.content = h[n]
    BY <1>4, <2>2, <2>3
  <2> HIDE DEF n, p, rest, log, reads
  <2>6. /\ mem' = [mem EXCEPT ![k] = [mem[k] EXCEPT
               !.content = h[n], !.seq = n, !.phase = IF rest = {} THEN "ready" ELSE "hydrating"]]
        /\ pending' = [pending EXCEPT ![k] = rest]
        /\ ses' = [ses EXCEPT ![k].remembered = @ \cup ({p.entry.mut.cid} \cap ClientIds)]
    <3>1. PICK q \in pending[k] :
            /\ \A r \in pending[k] : ReadsBefore(q, r)
            /\ LET result == Process(mem[k].content, q.entry.mut)
                   left   == pending[k] \ {q}
               IN
               IF q.entry.seq # mem[k].seq + 1 \/ ~result.ok
               THEN FailLoad(k) /\ UNCHANGED ses
               ELSE /\ mem' = [mem EXCEPT ![k] = [mem[k] EXCEPT
                         !.content = result.content, !.seq = q.entry.seq,
                         !.phase = IF left = {} THEN "ready" ELSE "hydrating"]]
                    /\ pending' = [pending EXCEPT ![k] = left]
                    /\ ses' = [ses EXCEPT ![k].remembered =
                                 @ \cup ({q.entry.mut.cid} \cap ClientIds)]
                    /\ UNCHANGED << users, client >>
      BY <1>10 DEF HydrateNext
    <3>2. q = p
      BY <2>4, <3>1
    <3> QED BY <2>3, <2>5, <3>1, <3>2 DEF rest
  <2>7. rest = {[at |-> i, entry |-> log[i]] : i \in (n + 1)..up}
    BY <2>2 DEF rest, p, reads, n
  <2>8. n \in Nat /\ (rest = {} <=> n = up) /\ (n = up \/ n < up)
    <3>1. n \in Nat /\ (n = up \/ n < up)
      BY <2>2 DEF n
    <3>2. CASE n = up
      <4>1. (n + 1)..up = {}
        BY <2>2, <3>1, <3>2
      <4> QED BY <2>7, <3>1, <3>2, <4>1
    <3>3. CASE n < up
      <4>1. n + 1 \in (n + 1)..up
        BY <2>2, <3>1, <3>3
      <4>2. [at |-> n + 1, entry |-> log[n + 1]] \in rest
        BY <2>7, <4>1
      <4>3. n # up
        BY <2>2, <3>1, <3>3
      <4> QED BY <3>1, <4>2, <4>3
    <3> QED BY <3>1, <3>2, <3>3
  <2>9. /\ mem'[k].content = h[n] /\ mem'[k].seq = n /\ pending'[k] = rest
        /\ mem'[k].phase = IF n = up THEN "ready" ELSE "hydrating"
        /\ \A j \in Instances : j # k => mem'[j] = mem[j] /\ ses'[j] = ses[j] /\ pending'[j] = pending[j]
    BY <1>0, <2>6, <2>8 DEF Boards
  <2>10. /\ ses'[k].queue = << >> /\ ses'[k].step = "idle"
         /\ ses'[k].remembered = ses[k].remembered \cup ({log[n].mut.cid} \cap ClientIds)
    BY <1>0, <1>2, <2>3, <2>6 DEF Sessions
  <2>11. Replaying(mem'[k], pending'[k], log, h, up)
    BY <2>7, <2>8, <2>9 DEF Replaying
  <2>12. Loads(mem'[k], pending'[k], log, h)
    BY <2>9, <2>11 DEF Loads
  <2>13. ASSUME registry' = k, k \notin dropDue'
         PROVE  Works(mem'[k], ses'[k], pending'[k], log, h)
    <3>1. Works(mem[k], ses[k], pending[k], log, h)
      BY <1>5, <2>13 DEF Mirrors, Instances, log
    <3>2. up = Len(log)
      <4>1. reads = {[at |-> i, entry |-> log[i]] : i \in n..Len(log)} /\ mem[k].seq < Len(log)
        BY <2>2, <3>1 DEF Works, Replaying, n
      <4>2. Len(log) \in n..Len(log) /\ Len(log) \in Nat
        BY <1>3, <2>2, <4>1 DEF n, log
      <4>3. [at |-> Len(log), entry |-> log[Len(log)]] \in reads
        BY <4>1, <4>2
      <4>4. Len(log) \in n..up
        BY <4>3 DEF reads
      <4> QED BY <2>2, <4>2, <4>4
    <3>3. Ids(log, mem[k].seq) \subseteq ses[k].remembered
      BY <2>2, <3>1 DEF Works
    <3>4. Ids(log, n) \subseteq ses'[k].remembered
      <4>1. \A i \in 1..n : i = n \/ i \in 1..mem[k].seq
        BY <2>2 DEF n
      <4> QED BY <2>2, <2>10, <3>3, <4>1 DEF Ids
    <3> QED BY <2>9, <2>10, <2>11, <3>2, <3>4 DEF Works
  <2> QED BY <1>0, <1>5, <1>6, <2>9, <2>10, <2>12, <2>13, StoryStays DEF log
<1> QED BY <1>8, <1>9, <1>10 DEF Recover

\* What an acceptance under way brings to the ledger, in whole or in part, goes on
\* with the story.
LEMMA AcceptanceGoesOn ==
  ASSUME Kept, Undisturbed, NEW h, Mirrors(h), NEW k \in Instances, ses[k].step # "idle",
         NEW whole \in 0..Len(ses[k].batch)
  PROVE  LET longer == Log(file) \o SubSeq(ses[k].batch, 1, whole) IN
         /\ longer \in Seq(SentEntry) /\ Len(longer) = Len(Log(file)) + whole
         /\ Single(longer)
         /\ Ids(longer, Len(longer)) \subseteq
              Ids(Log(file), Len(Log(file))) \cup ({ses[k].batch[1].mut.cid} \cap ClientIds)
         /\ \E g : /\ Tells(longer, g)
                   /\ \A i \in 0..Len(Log(file)) : g[i] = h[i]
                   /\ whole # 0 => g[Len(longer)] = mem[k].content
<1> DEFINE log == Log(file)
           s   == ses[k]
<1>1. mem[k].phase = "ready" /\ Works(mem[k], s, pending[k], log, h)
  BY OneAtWork
<1>2. Accepting(mem[k], s, Len(log), h[Len(log)])
  BY <1>1 DEF Works
<1>3. /\ log \in Seq(SentEntry) /\ s.batch \in Seq(SentEntry) /\ mem[k].content \in Content
      /\ s.mut \in Muts
  BY LogIs, BoardFields DEF Kept, Typed, TypeOK, Appends, Appending, InFlight
<1>4. ASSUME s.batch[1].mut \in Muts, NEW i \in DOMAIN log, log[i].mut = s.batch[1].mut
      PROVE  FALSE
  <2>1. s.batch[1].mut.cid # NoClientId
    BY <1>4, DurableBoardAssumption, BoundsAssumption
  <2>2. s.batch[1].mut = s.mut /\ s.mut.cid \notin s.remembered
    BY <1>2, <2>1 DEF Accepting
  <2>3. s.mut.cid \in Ids(log, Len(log))
    BY <1>3, <1>4, <2>2, DurableBoardAssumption DEF Ids
  <2>4. Ids(log, Len(log)) \subseteq s.remembered
    BY <1>1 DEF Works
  <2> QED BY <2>2, <2>3, <2>4
<1>5. Tells(log, h) /\ Single(log) /\ Leads(h[Len(log)], s.batch, Len(log), mem[k].content)
  BY <1>2 DEF Mirrors, Accepting
<1> HIDE DEF log, s
<1>6. whole \in 0..Len(s.batch)
  BY DEF s
<1> QED BY <1>3, <1>4, <1>5, <1>6, StoryGoesOn DEF log, s

\* A load that is under way stays in the story when the story goes on.
LEMMA LoadsGoOn ==
  ASSUME NEW b, NEW reads, NEW log \in Seq(SentEntry), NEW longer \in Seq(SentEntry), NEW h, NEW g,
         Len(log) <= Len(longer), \A i \in 1..Len(log) : longer[i] = log[i],
         b.seq \in Nat, \A i \in 0..Len(log) : g[i] = h[i], Loads(b, reads, log, h)
  PROVE  Loads(b, reads, longer, g)
<1>1. PICK n \in 0..Len(log) : Replaying(b, reads, log, h, n)
  BY DEF Loads
<1>2. /\ n \in 0..Len(longer) /\ n \in Nat
      /\ \A i \in 1..n : longer[i] = log[i]
  OBVIOUS
<1>3. Replaying(b, reads, longer, g, n)
  <2> SUFFICES ASSUME b.phase = "hydrating"
               PROVE  /\ b.seq < n /\ b.content = g[b.seq]
                      /\ reads = {[at |-> i, entry |-> longer[i]] : i \in (b.seq + 1)..n}
    BY DEF Replaying
  <2>1. /\ b.seq < n /\ b.content = h[b.seq]
        /\ reads = {[at |-> i, entry |-> log[i]] : i \in (b.seq + 1)..n}
    BY <1>1 DEF Replaying
  <2>2. b.seq \in 0..Len(log) /\ \A i \in (b.seq + 1)..n : i \in 1..n
    BY <1>2, <2>1
  <2> QED BY <1>2, <2>1, <2>2
<1> QED BY <1>2, <1>3 DEF Loads

\* Taking a task leaves the instance at work in step with the story.
LEMMA TakeMirrors ==
  ASSUME Kept, Undisturbed, NEW h, Mirrors(h), NEW k \in Instances, Take(k)
  PROVE  Mirrors(h)'
<1> DEFINE log == Log(file)
<1>0. /\ ses[k] \in Sessions /\ mem[k] \in Boards /\ mem \in [Instances -> Boards]
      /\ ses \in [Instances -> Sessions] /\ mem[k].content \in Content
      /\ registry \in {0} \cup Instances
  BY SessionFields, BoardFields DEF Kept, Typed, TypeOK
<1>1. /\ ses[k].step = "idle" /\ ses[k].queue # << >>
      /\ UNCHANGED << file, snap, registry, dropDue, pending >>
  BY DEF Take, TakeSeal, TakeRetry, TakeRefused, TakeWrite, NextTask, storage
<1>2. mem[k].phase = "ready" /\ Works(mem[k], ses[k], pending[k], log, h)
  BY <1>1, OneAtWork
<1>3. log' = log
  BY <1>1 DEF Log, LastLine, IsEntry
<1>4. /\ log \in Seq(SentEntry) /\ Len(log) \in Nat /\ 0 \in 0..Len(log)
      /\ h[Len(log)] \in Content /\ Distinct(h[Len(log)])
  <2>1. log \in Seq(SentEntry)
    BY LogIs DEF Kept, Typed, TypeOK
  <2>2. Len(log) \in 0..Len(log)
    BY <2>1
  <2> QED BY <2>1, <2>2 DEF Mirrors, Tells
<1> HIDE DEF log
<1>5. ASSUME mem'[k].phase = "ready" PROVE Loads(mem'[k], pending'[k], log, h)
  BY <1>4, <1>5 DEF Loads, Replaying
<1>6. ASSUME mem' = mem, \A j \in Instances : j # k => ses'[j] = ses[j],
             ses'[k].step = "idle", ses'[k].remembered = ses[k].remembered
      PROVE  Mirrors(h)'
  <2>1. Works(mem'[k], ses'[k], pending'[k], log, h)
    BY <1>1, <1>2, <1>6 DEF Works, Replaying
  <2> QED BY <1>0, <1>1, <1>2, <1>3, <1>5, <1>6, <2>1, StoryStays DEF log
<1>7. CASE TakeSeal(k)
  BY <1>0, <1>1, <1>6, <1>7 DEF TakeSeal, Sessions
<1>8. ASSUME NEW m \in Muts, TakeRetry(k, m) \/ TakeRefused(k, m)
      PROVE  Mirrors(h)'
  BY <1>0, <1>1, <1>6, <1>8 DEF TakeRetry, TakeRefused, Sessions
<1>9. ASSUME NEW m \in Muts, TakeWrite(k, m)
      PROVE  Mirrors(h)'
  <2> DEFINE c == mem[k].content
             result == Process(c, m)
             muts   == (IF result.ok THEN << m >> ELSE << >>) \o result.followup
             batch  == Batch(mem[k].seq, muts)
  <2>1. mem[k].seq = Len(log) /\ c = h[Len(log)] /\ Ids(log, Len(log)) \subseteq ses[k].remembered
    BY <1>1, <1>2 DEF Works
  <2>2. /\ muts # << >> /\ ~ses[k].sealed /\ m.cid \notin ses[k].remembered
        /\ mem' = [mem EXCEPT ![k].content = result.content]
        /\ ses' = [ses EXCEPT ![k] = [ses[k] EXCEPT
               !.queue = Tail(ses[k].queue), !.mut = m, !.ok = result.ok,
               !.batch = batch,
               !.step = IF ses[k].boundary = "clean" THEN "write" ELSE "boundary"]]
    BY <1>9 DEF TakeWrite
  <2>3. m \in Mutation
    BY DurableBoardAssumption
  <2>4. /\ Leads(c, batch, Len(log), result.content)
        /\ (batch[1].mut = m /\ result.ok) \/ batch[1].mut.cid = NoClientId
    BY <1>4, <2>1, <2>2, <2>3, AcceptanceLeads
  <2> HIDE DEF c, result, muts, batch
  <2>5. /\ mem'[k].phase = "ready" /\ mem'[k].seq = Len(log) /\ mem'[k].content = result.content
        /\ \A j \in Instances : j # k => mem'[j] = mem[j] /\ ses'[j] = ses[j]
    BY <1>0, <1>2, <2>1, <2>2 DEF Boards
  <2>6. /\ ses'[k].step \in {"write", "boundary"} /\ ses'[k].mut = m /\ ses'[k].ok = result.ok
        /\ ses'[k].batch = batch /\ ses'[k].sealed = ses[k].sealed
        /\ ses'[k].remembered = ses[k].remembered
    BY <1>0, <2>2 DEF Sessions
  <2>7. Accepting(mem'[k], ses'[k], Len(log), h[Len(log)])
    BY <2>1, <2>2, <2>4, <2>5, <2>6 DEF Accepting
  <2>8. Works(mem'[k], ses'[k], pending'[k], log, h)
    BY <2>1, <2>5, <2>6, <2>7 DEF Works, Replaying
  <2> QED BY <1>0, <1>1, <1>3, <1>5, <2>5, <2>8, StoryStays DEF log
<1> QED BY <1>7, <1>8, <1>9 DEF Take

\* The story goes on with what reaches the ledger of an append that is over.
LEMMA AppendMirrors ==
  ASSUME Kept, Undisturbed, NEW h, Mirrors(h), NEW k \in Instances, ses[k].step = "write",
         file' = WriteAll(file, ses[k].batch), UNCHANGED << snap, registry, pending >>,
         \A j \in Instances : j # k => mem'[j] = mem[j] /\ ses'[j] = ses[j],
         mem'[k].phase = mem[k].phase, mem'[k].content = mem[k].content, ses'[k].step = "idle",
         k \in dropDue' \/ /\ mem'[k].seq = mem[k].seq + Len(ses[k].batch)
                           /\ ses'[k].remembered = IF ses[k].ok THEN ses[k].remembered \cup {ses[k].mut.cid}
                                                                ELSE ses[k].remembered
  PROVE  Mirrored'
<1> DEFINE log    == Log(file)
           s      == ses[k]
           batch  == s.batch
           longer == log \o SubSeq(batch, 1, Len(batch))
<1>0. /\ file \in File /\ Sound(file) /\ Appending(s) /\ s.mut \in Muts
      /\ \A j \in Instances : mem[j].seq \in Nat
  BY BoardFields DEF Kept, Typed, TypeOK, Appends, InFlight
<1>1. k = registry /\ mem[k].phase = "ready" /\ Works(mem[k], s, pending[k], log, h)
  BY OneAtWork
<1>2. /\ mem[k].seq = Len(log) /\ Ids(log, Len(log)) \subseteq s.remembered
      /\ Accepting(mem[k], s, Len(log), h[Len(log)])
  BY <1>1 DEF Works
<1>3. /\ batch \in Seq(SentEntry) /\ batch # << >> /\ Len(batch) \in Nat \ {0} /\ file.terminated
      /\ Len(batch) \in 0..Len(batch) /\ log \in Seq(SentEntry)
  BY <1>0, <1>2, LogIs DEF Appending, Accepting, Leads
<1>4. log' = longer
  <2>1. CanEnd(batch, Len(batch), "newline") /\ "newline" \in Ends
    BY <1>3 DEF CanEnd, Ends
  <2> QED BY <1>0, <1>3, <2>1, LogGrows DEF WriteAll
<1>5. PICK g : /\ longer \in Seq(SentEntry) /\ Len(longer) = Len(log) + Len(batch)
               /\ Single(longer) /\ Tells(longer, g) /\ \A i \in 0..Len(log) : g[i] = h[i]
               /\ Ids(longer, Len(longer)) \subseteq Ids(log, Len(log)) \cup ({batch[1].mut.cid} \cap ClientIds)
               /\ g[Len(longer)] = mem[k].content
  <2> DEFINE whole == Len(ses[k].batch)
  <2>1. ses[k].step # "idle" /\ whole # 0 /\ whole \in 0..Len(ses[k].batch)
    BY <1>3
  <2> HIDE DEF whole
  <2>2. LET all == Log(file) \o SubSeq(ses[k].batch, 1, whole) IN
        /\ all \in Seq(SentEntry) /\ Len(all) = Len(Log(file)) + whole
        /\ Single(all)
        /\ Ids(all, Len(all)) \subseteq
             Ids(Log(file), Len(Log(file))) \cup ({ses[k].batch[1].mut.cid} \cap ClientIds)
        /\ \E g : /\ Tells(all, g)
                  /\ \A i \in 0..Len(Log(file)) : g[i] = h[i]
                  /\ whole # 0 => g[Len(all)] = mem[k].content
    BY <2>1, AcceptanceGoesOn
  <2> QED BY <2>1, <2>2 DEF whole
<1> HIDE DEF longer, log
<1>6. ASSUME NEW j \in Instances PROVE Loads(mem'[j], pending'[j], longer, g)
  <2>1. Loads(mem[j], pending[j], log, h)
    BY DEF Mirrors, log
  <2>2. Loads(mem[j], pending[j], longer, g)
    <3>1. longer = log \o SubSeq(batch, 1, Len(batch))
      BY DEF longer
    <3>2. Len(log) <= Len(longer) /\ \A i \in 1..Len(log) : longer[i] = log[i]
      <4> HIDE DEF batch
      <4> QED BY <1>3, <3>1
    <3>3. mem[j].seq \in Nat /\ longer \in Seq(SentEntry) /\ log \in Seq(SentEntry)
      BY <1>0, <1>3, <1>5
    <3>4. \A i \in 0..Len(log) : g[i] = h[i]
      BY <1>5
    <3> QED BY <2>1, <3>2, <3>3, <3>4, LoadsGoOn
  <2>3. CASE j = k
    <3>1. 0 \in 0..Len(longer)
      BY <1>5
    <3> QED BY <1>1, <2>3, <3>1 DEF Loads, Replaying
  <2> QED BY <2>2, <2>3
<1>7. ASSUME k \notin dropDue' PROVE Works(mem'[k], ses'[k], pending'[k], longer, g)
  <2>1. Ids(longer, Len(longer)) \subseteq ses'[k].remembered
    BY <1>2, <1>5, <1>7, BoundsAssumption DEF Accepting
  <2> QED BY <1>1, <1>2, <1>5, <1>7, <2>1 DEF Works, Replaying
<1>8. ASSUME NEW j \in Instances PROVE (Busy(j) => Ready(j))'
  BY <1>1 DEF Mirrors, Busy, Ready
<1>9. registry' = k /\ snap' = NoSnapshot
  BY <1>1 DEF Mirrors
<1>10. Mirrors(g)'
  BY <1>4, <1>5, <1>6, <1>7, <1>8, <1>9 DEF Mirrors, log
<1> QED BY <1>10 DEF Mirrored

\* An append leaves its instance in step, boundary and repair included, unless it
\* fails: then the instance is out of it until it is dropped.
LEMMA PersistMirrors ==
  ASSUME "short" \notin AppendFaults, Kept, Undisturbed, NEW h, Mirrors(h), NEW k \in Instances, Persist(k)
  PROVE  Mirrored'
<1> DEFINE log == Log(file)
           s   == ses[k]
<1>0. /\ s \in Sessions /\ mem[k] \in Boards /\ mem \in [Instances -> Boards]
      /\ ses \in [Instances -> Sessions] /\ file \in File /\ Sound(file) /\ Appending(s)
      /\ registry \in {0} \cup Instances
  BY SessionFields, BoardFields DEF Kept, Typed, TypeOK, Appends
<1>1. s.step # "idle" /\ UNCHANGED << snap, registry, pending >>
  BY DEF Persist, ReadBoundary, RepairBoundary, BoundaryFails, AppendSucceeds,
         AppendStopsShort, AppendFails, Abandon, storage
<1>2. k = registry /\ mem[k].phase = "ready" /\ Works(mem[k], s, pending[k], log, h)
  BY <1>1, OneAtWork
<1>3. /\ mem[k].seq = Len(log) /\ Ids(log, Len(log)) \subseteq s.remembered
      /\ Accepting(mem[k], s, Len(log), h[Len(log)])
  BY <1>1, <1>2 DEF Works
<1>4. Loads(mem[k], pending[k], log, h)
  BY DEF Mirrors
<1> HIDE DEF log
<1>5. ASSUME mem' = mem, log' = log, dropDue' = dropDue, \A j \in Instances : j # k => ses'[j] = ses[j],
             ses'[k].step # "idle", ses'[k].sealed = s.sealed, ses'[k].mut = s.mut,
             ses'[k].ok = s.ok, ses'[k].batch = s.batch, ses'[k].remembered = s.remembered
      PROVE  Mirrors(h)'
  <2>1. Accepting(mem'[k], ses'[k], Len(log), h[Len(log)])
    BY <1>3, <1>5 DEF Accepting
  <2>2. Works(mem'[k], ses'[k], pending'[k], log, h)
    BY <1>2, <1>3, <1>5, <2>1 DEF Works, Replaying
  <2> QED BY <1>0, <1>1, <1>2, <1>4, <1>5, <2>2, StoryStays DEF log
<1>6. CASE ReadBoundary(k)
  <2>1. log' = log
    BY <1>6 DEF ReadBoundary, storage, log, Log, LastLine, IsEntry
  <2> QED BY <1>0, <1>5, <1>6, <2>1 DEF ReadBoundary, Sessions, Mirrored
<1>7. CASE RepairBoundary(k)
  <2>1. file' = Repair(file, PlanFor(file)) /\ ~file.terminated
    BY <1>0, <1>7 DEF RepairBoundary, Appending
  <2>2. log' = log
    BY <1>0, <2>1, LogStays DEF log
  <2> QED BY <1>0, <1>5, <1>7, <2>2 DEF RepairBoundary, Sessions, Mirrored
<1>8. CASE AppendSucceeds(k)
  <2>1. /\ mem' = [mem EXCEPT ![k].seq = @ + Len(s.batch)]
        /\ \E known : /\ Settle(k, known, s.boundary)
                      /\ known = IF s.ok THEN s.remembered \cup {s.mut.cid} ELSE s.remembered
    BY <1>8 DEF AppendSucceeds, Confirm
  <2>2. /\ mem'[k].phase = mem[k].phase /\ mem'[k].seq = mem[k].seq + Len(s.batch)
        /\ mem'[k].content = mem[k].content /\ ses'[k].step = "idle"
        /\ ses'[k].remembered = IF s.ok THEN s.remembered \cup {s.mut.cid} ELSE s.remembered
        /\ \A j \in Instances : j # k => mem'[j] = mem[j] /\ ses'[j] = ses[j]
    BY <1>0, <2>1 DEF Boards, Sessions, Settle
  <2>3. s.step = "write" /\ file' = WriteAll(file, s.batch)
    BY <1>8 DEF AppendSucceeds
  <2> QED BY <1>1, <2>2, <2>3, AppendMirrors
<1>9. CASE BoundaryFails(k) \/ AppendFails(k)
  <2>1. mem' = mem /\ k \in dropDue' /\ \E boundary : Settle(k, s.remembered, boundary)
    BY <1>9 DEF BoundaryFails, AppendFails, Abandon
  <2>2. ses'[k].step = "idle" /\ \A j \in Instances : j # k => ses'[j] = ses[j]
    BY <1>0, <2>1 DEF Sessions, Settle
  <2>3. CASE file' = file
    <3>1. log' = log
      BY <2>3 DEF log, Log, LastLine, IsEntry
    <3>2. dropDue \subseteq dropDue'
      BY <1>9 DEF BoundaryFails, AppendFails, Abandon
    <3>3. Mirrors(h)'
      BY <1>0, <1>1, <1>2, <1>4, <2>1, <2>2, <3>1, <3>2, StoryStays DEF log
    <3> QED BY <3>3 DEF Mirrored
  <2>4. CASE file' # file
    <3>1. s.step = "write" /\ file' = WriteAll(file, s.batch)
      BY <1>9, <2>4 DEF BoundaryFails, AppendFails
    <3> QED BY <1>1, <2>1, <2>2, <3>1, AppendMirrors
  <2> QED BY <2>3, <2>4
<1>10. ~AppendStopsShort(k)
  BY DEF AppendStopsShort
<1> QED BY <1>6, <1>7, <1>8, <1>9, <1>10 DEF Persist

\* A fresh process finds the story the ledger tells, however much of the append in
\* flight is in it.
LEMMA CrashMirrors ==
  ASSUME Kept, Undisturbed, NEW h, Mirrors(h), Crash
  PROVE  Mirrored'
<1> DEFINE log == Log(file)
<1>0. file \in File /\ Sound(file) /\ Appends
  BY DEF Kept, Typed, TypeOK
<1>1. \E g : Tells(log', g) /\ Single(log') /\ Len(log') \in Nat
  <2>1. CASE file' = file
    <3>1. log' = log
      BY <2>1 DEF Log, LastLine, IsEntry
    <3>2. log \in Seq(SentEntry)
      BY <1>0, LogIs
    <3> QED BY <3>1, <3>2 DEF Mirrors
  <2>2. ASSUME NEW k \in Instances, NEW end \in Ends, NEW whole \in 0..Len(ses[k].batch),
               ses[k].step = "write", CanEnd(ses[k].batch, whole, end),
               file' = Write(file, ses[k].batch, whole, end)
        PROVE  \E g : Tells(log', g) /\ Single(log') /\ Len(log') \in Nat
    <3>1. ses[k].batch \in Seq(SentEntry) /\ file.terminated
      BY <1>0, <2>2 DEF Appends, Appending
    <3>2. log' = log \o SubSeq(ses[k].batch, 1, whole)
      BY <1>0, <2>2, <3>1, LogGrows
    <3> HIDE DEF log
    <3>3. log' \in Seq(SentEntry) => Len(log') \in Nat
      OBVIOUS
    <3> QED BY <2>2, <3>2, <3>3, AcceptanceGoesOn DEF log
  <2> QED BY <2>1, <2>2, DurableBoardAssumption DEF Crash
<1>2. PICK g : Tells(log', g) /\ Single(log') /\ Len(log') \in Nat
  BY <1>1
<1>3. snap' = NoSnapshot /\ registry' = 0
  BY DEF Crash, Mirrors
<1>4. ASSUME NEW k \in Instances
      PROVE  mem'[k].phase \in {"unborn", "dead"} /\ ses'[k] = NewSession
  BY <1>4 DEF Crash, Unborn
<1>5. 0 \in 0..Len(log')
  BY <1>2
<1>6. \A k \in Instances : (Busy(k) => Ready(k))' /\ Loads(mem'[k], pending'[k], log', g)
  BY <1>4, <1>5 DEF Busy, NewSession, Loads, Replaying
<1>7. Mirrors(g)'
  BY <1>2, <1>3, <1>6 DEF Mirrors
<1> QED BY <1>7 DEF Mirrored

\* Drops and unloads take the loaded instance away or leave it where it is.
LEMMA KeepMirrors ==
  ASSUME Kept, NEW h, Mirrors(h), NEW k \in Instances, Drop(k) \/ UnloadSkipsSave(k) \/ UnloadRejects(k)
  PROVE  Mirrored'
<1>0. mem \in [Instances -> Boards]
  BY DEF Kept, Typed, TypeOK
<1>1. UNCHANGED << file, snap, pending, ses >>
  BY DEF Drop, UnloadSkipsSave, UnloadRejects, storage
<1>2. registry' \in {registry, 0} /\ (registry' # 0 /\ registry \in dropDue => registry \in dropDue')
  BY DEF Drop, UnloadSkipsSave, UnloadRejects, Retired
<1> DEFINE Sits == \A j \in Instances : /\ mem'[j].phase = mem[j].phase /\ mem'[j].seq = mem[j].seq
                           /\ mem'[j].content = mem[j].content
<1>3. Sits
  <2>1. mem' = mem \/ \E disposed : mem' = [mem EXCEPT ![k].disposed = disposed]
    BY <1>0 DEF Drop, UnloadSkipsSave, UnloadRejects
  <2>2. ASSUME NEW disposed, mem' = [mem EXCEPT ![k].disposed = disposed] PROVE Sits
    BY <1>0, <2>2 DEF Boards
  <2> QED BY <2>1, <2>2
<1> QED BY <1>1, <1>2, <1>3, QuietMirrors

\* Nothing else the environment does gets an instance out of the story.
LEMMA EnvironmentMirrors ==
  ASSUME Kept, Undisturbed, NEW h, Mirrors(h), Environment, Undisturbed'
  PROVE  Mirrored'
<1> DEFINE log == Log(file)
<1>0. ses \in [Instances -> Sessions] /\ mem \in [Instances -> Boards] /\ registry \in {0} \cup Instances
  BY DEF Kept, Typed, TypeOK
<1>1. ASSUME UNCHANGED << file, snap, mem, pending, ses, registry, dropDue >>
      PROVE  Mirrored'
  BY <1>1, QuietMirrors
<1>2. ASSUME UNCHANGED << file, snap, pending, ses, dropDue >>, registry = 0, NEW k \in Instances, Load(k)
      PROVE  Mirrored'
  <2>1. /\ mem[k].phase = "unborn" /\ registry' = k
        /\ mem' = [mem EXCEPT ![k].phase = "loading"]
    BY <1>2 DEF Load
  <2>2. ses[k].queue = << >> /\ ses[k].step = "idle"
    BY <2>1 DEF Mirrors, Busy, Ready
  <2>3. /\ mem'[k].phase = "loading"
        /\ \A j \in Instances : j # k => mem'[j] = mem[j]
    BY <1>0, <1>2, <2>1 DEF Boards
  <2>4. log' = log
    BY <1>2 DEF Log, LastLine, IsEntry
  <2>5. \E n \in 0..Len(log) : TRUE
    BY DEF Mirrors, Loads
  <2> HIDE DEF log
  <2>6. Loads(mem'[k], pending'[k], log, h) /\ Works(mem'[k], ses'[k], pending'[k], log, h)
    BY <2>3, <2>5 DEF Loads, Works, Replaying
  <2>7. Mirrors(h)'
    BY <1>0, <1>2, <2>1, <2>2, <2>3, <2>4, <2>6, StoryStays DEF log
  <2> QED BY <2>7 DEF Mirrored
<1>3. ASSUME UNCHANGED << file, snap, mem, pending, registry, dropDue >>, registry # 0, Ready(registry),
             NEW task, Enqueue(task)
      PROVE  Mirrored'
  <2>1. registry \in Instances /\ mem[registry].phase = "ready"
    BY <1>0, <1>3 DEF Ready
  <2>2. /\ ses'[registry].step = ses[registry].step /\ ses'[registry].mut = ses[registry].mut
        /\ ses'[registry].ok = ses[registry].ok /\ ses'[registry].batch = ses[registry].batch
        /\ ses'[registry].sealed = ses[registry].sealed
        /\ ses'[registry].remembered = ses[registry].remembered
        /\ \A j \in Instances : j # registry => ses'[j] = ses[j]
    BY <1>0, <1>3, <2>1 DEF Enqueue, Sessions
  <2>3. log' = log
    BY <1>3 DEF Log, LastLine, IsEntry
  <2>4. Loads(mem[registry], pending[registry], log, h)
    BY <2>1 DEF Mirrors
  <2>5. registry \notin dropDue => Works(mem[registry], ses[registry], pending[registry], log, h)
    BY <1>3 DEF Mirrors
  <2> HIDE DEF log
  <2>6. registry \notin dropDue => Works(mem'[registry], ses'[registry], pending'[registry], log, h)
    BY <1>3, <2>2, <2>5 DEF Works, Accepting
  <2>7. Mirrors(h)'
    BY <1>0, <1>3, <2>1, <2>2, <2>3, <2>4, <2>6, StoryStays DEF log
  <2> QED BY <2>7 DEF Mirrored
<1>4. CASE Connect
  BY <1>1, <1>2, <1>4 DEF Connect, storage
<1>5. CASE Reload
  BY <1>2, <1>5 DEF Reload, storage
<1>6. CASE RequestSeal
  BY <1>3, <1>6 DEF RequestSeal, storage
<1>7. ASSUME NEW m \in Muts, Send(m) \/ Resend(m)
      PROVE  Mirrored'
  BY <1>3, <1>7 DEF Send, Resend, storage
<1>8. CASE Leave
  BY <1>1, <1>8 DEF Leave, storage
<1>9. ~LoseSnapshot
  BY DEF LoseSnapshot, Mirrors, NoSnapshot
<1>10. ASSUME NEW k \in Instances, TimerSave(k)
       PROVE  FALSE
  <2>1. saving' = NoSave /\ saving'.inst = k
    BY <1>10 DEF TimerSave, BeginSave, Undisturbed
  <2> QED BY <2>1 DEF NoSave, Instances
<1> QED BY <1>4, <1>5, <1>6, <1>7, <1>8, <1>9, <1>10, CrashMirrors DEF Environment

LEMMA MirroredInit == Init => Mirrored
<1> SUFFICES ASSUME Init PROVE Mirrored
  OBVIOUS
<1> DEFINE h == [n \in 0..0 |-> Empty]
<1>1. Log(file) = << >>
  BY DEF Init, EmptyFile, Log
<1>2. Empty \in Content /\ Distinct(Empty)
  BY DEF Empty, Content, Distinct
<1>3. Tells(<< >>, h) /\ Single(<< >>)
  BY <1>2 DEF Tells, Single
<1>4. snap = NoSnapshot /\ registry = 0 /\ \A k \in Instances : ~Busy(k)
  BY DEF Init, Busy, NewSession
<1>5. 0 \in 0..Len(<< >>)
  OBVIOUS
<1> HIDE DEF h
<1>6. \A k \in Instances : Loads(mem[k], pending[k], << >>, h)
  BY <1>5 DEF Init, Unborn, Loads, Replaying
<1>7. Mirrors(h)
  BY <1>1, <1>3, <1>4, <1>6 DEF Mirrors
<1> QED BY <1>7 DEF Mirrored

LEMMA MirroredStep ==
  ASSUME "short" \notin AppendFaults, Kept, Mirrored, Undisturbed, Undisturbed', [Next]_vars
  PROVE  Mirrored'
<1>0. PICK h : Mirrors(h)
  BY DEF Mirrored
<1>1. CASE UNCHANGED vars
  BY <1>0, <1>1, QuietMirrors DEF vars, storage, server
<1>2. ASSUME NEW k \in Instances PROVE ~UnloadSave(k) /\ ~EndSave
  <2>1. ASSUME UnloadSave(k) PROVE FALSE
    <3>1. saving' = NoSave /\ saving'.inst = k
      BY <2>1 DEF UnloadSave, BeginSave, Undisturbed
    <3> QED BY <3>1 DEF NoSave, Instances
  <2> QED BY <2>1 DEF Undisturbed, EndSave, FinishSave, StaleSave, SaveFails
<1>3. 1 \in Instances
  BY DurableBoardAssumption DEF Instances
<1>4. CASE Serve
  BY <1>0, <1>2, <1>3, <1>4, RecoverMirrors, TakeMirrors, PersistMirrors, KeepMirrors
     DEF Serve, Unload, Mirrored
<1>5. CASE Environment
  BY <1>0, <1>5, EnvironmentMirrors
<1> QED BY <1>1, <1>4, <1>5 DEF Next

-----------------------------------------------------------------------------
(* What a replay of the ledger computes.                                    *)

\* What holds of 0 and is handed on from each number to the next holds of them all.
LEMMA HandedUp ==
  ASSUME NEW n \in Nat, NEW P, 0 \in P, \A k \in 0..n : k # n /\ k \in P => k + 1 \in P
  PROVE  0..n \subseteq P
<1> SUFFICES ASSUME (0..n) \ P # {} PROVE FALSE
  OBVIOUS
<1> DEFINE T == (0..n) \ P
           R == OpToRel(<, Nat)
<1>1. T \in SUBSET Nat /\ T # {}
  OBVIOUS
<1>2. IsWellFoundedOn(R, Nat)
  BY NatLessThanWellFounded
<1>3. \A x, y \in Nat : x < y => << x, y >> \in R
  BY DEF OpToRel
<1> HIDE DEF R, T
<1>4. PICK x \in T : \A y \in T : ~ (<< y, x >> \in R)
  BY <1>1, <1>2, WFMin, Zenon
<1>5. x \in 0..n /\ x \notin P /\ x # 0 /\ x - 1 \in 0..n /\ x - 1 # n /\ x - 1 \in Nat
  BY <1>4 DEF T
<1>6. x - 1 \notin P
  BY <1>5
<1>7. x - 1 \in T
  BY <1>5, <1>6 DEF T
<1>8. x - 1 < x /\ x \in Nat
  BY <1>5
<1> QED BY <1>3, <1>4, <1>5, <1>7, <1>8

\* Replaying the entries of a ledger up to its last sequence gives the board of
\* the story's end.
LEMMA ReplayedIsTold ==
  ASSUME NEW f \in File, Sound(f), NEW h, Tells(Log(f), h)
  PROVE  Replayed(Entries(f, Len(Log(f)))) = h[Len(Log(f))]
<1> DEFINE log == Log(f)
           n   == Len(log)
           places == {i \in DOMAIN f.lines : IsEntry(f.lines[i]) /\ f.lines[i].seq <= n}
<1>1. /\ log \in Seq(SentEntry) /\ n \in Nat /\ DOMAIN log = 1..n
      /\ \A i \in DOMAIN f.lines : IsEntry(f.lines[i]) <=> i \in 1..n
      /\ \A i \in 1..n : i \in DOMAIN f.lines /\ f.lines[i] = log[i] /\ log[i].seq = i
  BY LogIs DEF Tells
<1>2. places = 1..n
  BY <1>1
<1>3. ASSUME NEW r \in 1..n PROVE Nth(1..n, r) = r
  <2>1. Cardinality(1..n) = n
    <3> HIDE DEF n
    <3> QED BY <1>1, FS_Interval
  <2>2. Nth(1..n, r) \in 1..n /\ Rank(1..n, Nth(1..n, r)) = r
    BY <1>1, <2>1, NthIs
  <2>3. ASSUME NEW i \in 1..n PROVE Rank(1..n, i) = i
    <3>1. {j \in 1..n : j <= i} = 1..i
      BY <1>1
    <3>2. Cardinality(1..i) = i
      BY FS_Interval
    <3> QED BY <3>1, <3>2 DEF Rank
  <2> QED BY <2>2, <2>3
<1>4. Entries(f, n) = log
  <2>1. Cardinality(1..n) = n
    <3> HIDE DEF n
    <3> QED BY <1>1, FS_Interval
  <2>2. Entries(f, n) = [r \in 1..n |-> f.lines[Nth(1..n, r)]]
    BY <1>2, <2>1 DEF Entries, ItemsAt
  <2>3. \A r \in 1..n : f.lines[Nth(1..n, r)] = log[r]
    BY <1>1, <1>3
  <2> HIDE DEF n, log
  <2>4. Entries(f, n) = [r \in 1..n |-> log[r]]
    BY <2>2, <2>3
  <2> QED BY <1>1, <2>4 DEF n
<1> DEFINE Is(g) == g = [i \in 0..n |-> IF i = 0 THEN Empty ELSE Process(g[i - 1], log[i].mut).content]
           after == CHOOSE g : Is(g)
<1>5. Replayed(log) = after[n]
  BY DEF Replayed
<1> HIDE DEF log
<1>6. \A i \in 1..n : i - 1 \in 0..n /\ i # 0 /\ i \in 0..n
  BY <1>1
<1> HIDE DEF n
<1>7. Is(h)
  <2>1. h \in [0..n -> Content] /\ h[0] = Empty
    BY DEF Tells, log, n
  <2>2. ASSUME NEW i \in 0..n
        PROVE  h[i] = IF i = 0 THEN Empty ELSE Process(h[i - 1], log[i].mut).content
    <3>1. CASE i = 0
      BY <2>1, <3>1
    <3>2. CASE i # 0
      <4>1. i \in 1..n
        BY <1>1, <3>2
      <4> QED BY <3>2, <4>1 DEF Tells, log, n
    <3> QED BY <3>1, <3>2
  <2>3. h = [i \in 0..n |-> h[i]]
    BY <2>1
  <2> QED BY <2>2, <2>3
<1>8. Is(after)
  <2> HIDE DEF Is
  <2> QED BY <1>7
<1> HIDE DEF after
<1>9. \A i \in 0..n : /\ after[i] = IF i = 0 THEN Empty ELSE Process(after[i - 1], log[i].mut).content
                      /\ h[i] = IF i = 0 THEN Empty ELSE Process(h[i - 1], log[i].mut).content
  <2>1. ASSUME NEW g, Is(g), NEW i \in 0..n
        PROVE  g[i] = IF i = 0 THEN Empty ELSE Process(g[i - 1], log[i].mut).content
    BY <2>1
  <2> HIDE DEF Is
  <2> QED BY <1>7, <1>8, <2>1
<1> HIDE DEF Is
<1>10. after[n] = h[n]
  <2> DEFINE P == {i \in 0..n : after[i] = h[i]}
  <2>1. 0 \in P
    BY <1>1, <1>9
  <2>2. ASSUME NEW i \in 0..n, i # n, i \in P PROVE i + 1 \in P
    <3>1. i + 1 \in 0..n /\ i + 1 # 0 /\ (i + 1) - 1 = i
      BY <1>1, <2>2
    <3>2. after[i + 1] = Process(after[i], log[i + 1].mut).content
      BY <1>9, <3>1
    <3>3. h[i + 1] = Process(h[i], log[i + 1].mut).content
      BY <1>9, <3>1
    <3> QED BY <2>2, <3>1, <3>2, <3>3
  <2> HIDE DEF P
  <2>3. 0..n \subseteq P
    BY <1>1, <2>1, <2>2, HandedUp
  <2>4. n \in P
    BY <1>1, <2>3
  <2> QED BY <2>4 DEF P
<1> QED BY <1>4, <1>5, <1>10 DEF n, log

-----------------------------------------------------------------------------
(* The theorems.                                                            *)

\* The two invariants; the premise asks more than the first of them needs.
Recovering == Kept /\ Mirrored

LEMMA RecoveringStep ==
  ASSUME "short" \notin AppendFaults, Recovering, Undisturbed, Undisturbed', [Next]_vars
  PROVE  Recovering'
<1>1. Calm
  BY DEF Calm, Undisturbed
<1>2. Kept'
  BY <1>1, KeptStep DEF Recovering
<1>3. Mirrored'
  BY MirroredStep DEF Recovering
<1> QED BY <1>2, <1>3 DEF Recovering

LEMMA RecoveringHolds ==
  ASSUME "short" \notin AppendFaults
  PROVE  Spec /\ []Undisturbed => []Recovering
<1>1. Init => Recovering
  BY KeptInit, MirroredInit DEF Recovering
<1>2. Recovering /\ Undisturbed /\ Undisturbed' /\ [Next]_vars => Recovering'
  BY RecoveringStep
<1> QED BY <1>1, <1>2, PTL DEF Spec

\* However often a write is sent again, and wherever a crash, a failed append or an
\* unload falls, the ledger records it once.
THEOREM RecordedOnce ==
  ASSUME "short" \notin AppendFaults
  PROVE  Spec /\ []Undisturbed => []AppliedOnce
<1>1. ASSUME Recovering PROVE AppliedOnce
  <2>1. file \in File /\ Sound(file) /\ Single(Log(file))
    BY <1>1 DEF Recovering, Kept, Typed, TypeOK, Mirrored, Mirrors
  <2> QED BY <2>1, LogIs DEF AppliedOnce, Single
<1> QED BY <1>1, RecoveringHolds, PTL

\* No load meets a gap, a corrupt line or an entry the engine rejects, whether the
\* instance is still the loaded one or not.
THEOREM LoadsSucceed ==
  ASSUME "short" \notin AppendFaults
  PROVE  Spec /\ []Undisturbed => []LoadNeverBreaks
<1>1. Recovering => LoadNeverBreaks
  BY DEF Recovering, Mirrored, Mirrors, Loads, LoadNeverBreaks
<1> QED BY <1>1, RecoveringHolds, PTL

\* Between two acceptances the board loaded is what replaying its ledger gives.
THEOREM LoadedIsItsLedger ==
  ASSUME "short" \notin AppendFaults
  PROVE  Spec /\ []Undisturbed => []LoadedBoardIsItsLedger
<1>1. ASSUME Recovering, registry # 0, registry \notin dropDue, Ready(registry), ses[registry].step = "idle"
      PROVE  mem[registry].content = Replayed(Entries(file, mem[registry].seq))
  <2>1. PICK h : Mirrors(h)
    BY <1>1 DEF Recovering, Mirrored
  <2>2. file \in File /\ Sound(file) /\ Tells(Log(file), h)
    BY <1>1, <2>1 DEF Recovering, Kept, Typed, TypeOK, Mirrors
  <2>3. mem[registry].seq = Len(Log(file)) /\ mem[registry].content = h[Len(Log(file))]
    BY <1>1, <2>1 DEF Mirrors, Works, Ready
  <2> QED BY <2>2, <2>3, ReplayedIsTold
<1>2. Recovering => LoadedBoardIsItsLedger
  BY <1>1 DEF LoadedBoardIsItsLedger
<1> QED BY <1>2, RecoveringHolds, PTL

\* While nobody unloads the board, a sealed session is that of the loaded instance.
Sealing == \A k \in Instances : ses[k].sealed => Ready(k) /\ k = registry /\ k \notin dropDue

LEMMA SealingStep ==
  ASSUME "short" \notin AppendFaults, Recovering, Sealing, Undisturbed, Undisturbed', unloads = {}, [Next]_vars
  PROVE  /\ Sealing'
         /\ \A k \in Instances : ses[k].sealed /\ ses'[k].sealed =>
              file' = file /\ mem'[k].content = mem[k].content
<1> DEFINE Final == \A k \in Instances : ses[k].sealed /\ ses'[k].sealed =>
                      file' = file /\ mem'[k].content = mem[k].content
<1>0. /\ Kept /\ ses \in [Instances -> Sessions] /\ mem \in [Instances -> Boards]
      /\ registry \in {0} \cup Instances /\ 0 \notin Instances
  BY DEF Recovering, Kept, Typed, TypeOK, Instances
<1>1. PICK h : Mirrors(h)
  BY DEF Recovering, Mirrored
<1>2. ASSUME \A k \in Instances : ses'[k].sealed => ses[k].sealed,
             \A k \in Instances : ses[k].sealed =>
               /\ mem'[k].phase = mem[k].phase /\ mem'[k].content = mem[k].content
               /\ file' = file /\ registry' = registry /\ k \notin dropDue'
      PROVE  Sealing' /\ Final
  BY <1>2 DEF Sealing, Ready
<1>3. CASE UNCHANGED vars
  BY <1>2, <1>3 DEF vars, storage, server, Sealing
<1>4. ASSUME NEW k \in Instances, Recover(k) PROVE Sealing' /\ Final
  <2>1. ~Ready(k) /\ UNCHANGED << file, registry, dropDue >> /\ \A j \in Instances : j # k => mem'[j] = mem[j]
    BY <1>0, <1>4 DEF Recover, ReadSnapshot, ReadLedger, HydrateNext, FailLoad, storage, Ready
  <2>2. \A j \in Instances : ses'[j].sealed = ses[j].sealed
    <3>1. ses' = ses \/ \E remembered : ses' = [ses EXCEPT ![k].remembered = remembered]
      BY <1>0, <1>4 DEF Recover, ReadSnapshot, ReadLedger, HydrateNext
    <3>2. ASSUME NEW remembered, ses' = [ses EXCEPT ![k].remembered = remembered]
          PROVE  \A j \in Instances : ses'[j].sealed = ses[j].sealed
      BY <1>0, <3>2 DEF Sessions
    <3> QED BY <3>1, <3>2
  <2> QED BY <1>2, <2>1, <2>2 DEF Sealing
<1>5. ASSUME NEW k \in Instances, Take(k) PROVE Sealing' /\ Final
  <2>1. ses[k].queue # << >> /\ UNCHANGED << file, registry, dropDue >>
    BY <1>5 DEF Take, TakeSeal, TakeRetry, TakeRefused, TakeWrite, NextTask, storage
  <2>2. k = registry /\ k \notin dropDue /\ Ready(k)
    BY <1>1, <2>1, OneAtWork DEF Ready
  <2>3. CASE TakeSeal(k)
    <3>1. mem' = mem /\ \A j \in Instances : j # k => ses'[j] = ses[j]
      BY <1>0, <2>3 DEF TakeSeal
    <3> QED BY <2>1, <2>2, <3>1 DEF Sealing, Ready
  <2>4. ASSUME NEW m \in Muts, TakeRetry(k, m) \/ TakeRefused(k, m) PROVE Sealing' /\ Final
    <3>1. mem' = mem /\ \A j \in Instances : ses'[j].sealed = ses[j].sealed
      <4>1. mem' = mem /\ ses' = [ses EXCEPT ![k].queue = Tail(ses[k].queue)]
        BY <1>0, <2>4 DEF TakeRetry, TakeRefused
      <4> QED BY <1>0, <4>1 DEF Sessions
    <3> QED BY <1>2, <2>1, <3>1 DEF Sealing
  <2>5. ASSUME NEW m \in Muts, TakeWrite(k, m) PROVE Sealing' /\ Final
    <3>1. \A j \in Instances : ~ses[j].sealed
      BY <2>2, <2>5 DEF TakeWrite, Sealing
    <3>2. \A j \in Instances : ses'[j].sealed = ses[j].sealed
      BY <1>0, <2>5 DEF TakeWrite, Sessions
    <3> QED BY <1>2, <3>1, <3>2
  <2> QED BY <1>5, <2>3, <2>4, <2>5 DEF Take
<1>6. ASSUME NEW k \in Instances, Persist(k) PROVE Sealing' /\ Final
  <2>1. ses[k].step # "idle"
    BY <1>6 DEF Persist, ReadBoundary, RepairBoundary, BoundaryFails, AppendSucceeds, AppendStopsShort, AppendFails
  <2>2. k = registry /\ ~ses[k].sealed
    BY <1>1, <2>1, OneAtWork DEF Works, Accepting
  <2>3. \A j \in Instances : ~ses[j].sealed
    BY <2>2 DEF Sealing
  <2>4. \A j \in Instances : ses'[j].sealed = ses[j].sealed
    <3>1. CASE ReadBoundary(k) \/ RepairBoundary(k)
      <4>1. \A j \in Instances : j # k => ses'[j] = ses[j]
        BY <1>0, <3>1 DEF ReadBoundary, RepairBoundary
      <4>2. ses'[k].sealed = ses[k].sealed
        <5>1. CASE ReadBoundary(k)
          BY <1>0, <5>1 DEF ReadBoundary, Sessions
        <5>2. CASE RepairBoundary(k)
          BY <1>0, <5>2 DEF RepairBoundary, Sessions
        <5> QED BY <3>1, <5>1, <5>2
      <4> QED BY <4>1, <4>2
    <3>2. CASE BoundaryFails(k) \/ AppendSucceeds(k) \/ AppendFails(k)
      <4>1. \E remembered, boundary : Settle(k, remembered, boundary)
        BY <3>2 DEF BoundaryFails, AppendSucceeds, AppendFails, Abandon, Confirm
      <4> QED BY <1>0, <4>1 DEF Settle, Sessions
    <3> QED BY <1>6, <3>1, <3>2 DEF Persist, AppendStopsShort
  <2> QED BY <1>2, <2>3, <2>4
<1>7. ASSUME NEW k \in Instances, Drop(k) PROVE Sealing' /\ Final
  <2>1. ASSUME NEW j \in Instances, ses[j].sealed
        PROVE  /\ mem' = mem /\ registry' = registry /\ j \notin dropDue'
    BY <1>7, <2>1 DEF Drop, Sealing
  <2>2. UNCHANGED << file, ses >>
    BY <1>7 DEF Drop, storage
  <2> QED BY <1>2, <2>1, <2>2
<1>8. ASSUME NEW k \in Instances PROVE ~Unload(k) /\ ~TimerSave(k) /\ ~EndSave
  <2>1. ~TimerSave(k)
    <3>1. ASSUME TimerSave(k) PROVE saving' = NoSave /\ saving'.inst = k
      BY <3>1 DEF TimerSave, BeginSave, Undisturbed
    <3> QED BY <3>1 DEF NoSave, Instances
  <2> QED BY <2>1 DEF Undisturbed, Unload, UnloadSave, UnloadSkipsSave, UnloadRejects,
       EndSave, FinishSave, StaleSave, SaveFails
<1>9. CASE Environment
  <2>1. CASE Crash
    BY <2>1 DEF Crash, NewSession, Sealing
  <2>2. CASE Connect \/ Reload
    <3>1. UNCHANGED << file, ses, dropDue >> /\ (UNCHANGED << mem, registry >> \/ registry = 0)
      BY <2>2 DEF Connect, Reload, storage
    <3> QED BY <1>0, <1>2, <3>1 DEF Sealing
  <2>3. ASSUME NEW task, registry \in Instances, Enqueue(task), UNCHANGED << file, mem, registry, dropDue >>
        PROVE  Sealing' /\ Final
    <3>1. \A j \in Instances : ses'[j].sealed = ses[j].sealed
      BY <1>0, <2>3 DEF Enqueue, Sessions
    <3> QED BY <1>2, <2>3, <3>1 DEF Sealing
  <2>4. CASE RequestSeal
    BY <1>0, <2>3, <2>4 DEF RequestSeal, storage
  <2>5. ASSUME NEW m \in Muts, Send(m) \/ Resend(m) PROVE Sealing' /\ Final
    BY <1>0, <2>3, <2>5 DEF Send, Resend, storage
  <2>6. CASE Leave \/ LoseSnapshot
    <3>1. UNCHANGED << file, mem, ses, registry, dropDue >>
      BY <2>6 DEF Leave, LoseSnapshot, storage, server
    <3> QED BY <1>2, <3>1 DEF Sealing
  <2> QED BY <1>8, <1>9, <2>1, <2>2, <2>4, <2>5, <2>6 DEF Environment
<1>10. 1 \in Instances
  BY DurableBoardAssumption DEF Instances
<1> QED BY <1>3, <1>4, <1>5, <1>6, <1>7, <1>8, <1>9, <1>10 DEF Next, Serve

\* Once a seal has taken effect nothing more reaches the ledger, nor the board, as
\* long as nobody unloads it: the board loaded next would not be sealed.
THEOREM SealsAreFinal ==
  ASSUME "short" \notin AppendFaults
  PROVE  Spec /\ []Undisturbed /\ [](unloads = {}) => SealedIsFinal
<1>1. Init => Sealing
  BY DEF Init, NewSession, Sealing
<1>2. Recovering /\ Sealing /\ Undisturbed /\ Undisturbed' /\ unloads = {} /\ [Next]_vars => Sealing'
  BY SealingStep
<1>3. Recovering /\ Sealing /\ Undisturbed /\ Undisturbed' /\ unloads = {} /\ [Next]_vars =>
        [\A k \in Instances : ses[k].sealed /\ ses'[k].sealed =>
           /\ file' = file
           /\ mem'[k].content = mem[k].content]_<< file, mem, ses >>
  BY SealingStep
<1> QED BY <1>1, <1>2, <1>3, RecoveringHolds, PTL DEF Spec, SealedIsFinal
=============================================================================
