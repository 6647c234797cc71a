---------------------------- MODULE WebhooksProofs ----------------------------
(***************************************************************************)
(* Proofs about the outbox of the webhooks, for any number of events,      *)
(* subscriptions, passes, failures and faults: a captured subscription is  *)
(* never forgotten, and an id that is on disk is the event's for good.     *)
(*                                                                         *)
(* The argument: the id under which a pass sends an event is the one the   *)
(* event has until a crash, which stops the pass; a delivery is taken off  *)
(* the queue by its own acknowledgement only; and there are ids enough,    *)
(* for a crash forgets at most one of each event.                          *)
(***************************************************************************)
EXTENDS Webhooks, FiniteSetTheorems, TLAPS

Instants == Int \cup {b + NextBackoff(n) : b \in Nat, n \in Nat}
Delivery == [state : {"none", "queued", "delivered"}, attempts : Nat, first : Int,
             next : Instants]
OutboxEntry == [id : Nat, created : Nat, pruned : BOOLEAN, to : [Subs -> Delivery]]
Content == [status : [Subs -> {"none", "active", "suspended", "revoked"}],
            entry : [Events -> OutboxEntry]]
PassRecord ==
  [at : {"idle", "delivering", "sending", "recording", "suspending"}, began : Nat,
   due : (SUBSET (Events \X Subs)) \cup (SUBSET Subs),
   item : {<< >>} \cup (Events \X Subs \X Nat),
   outcome : {"none", "delivered", "failed"}]

TypeOK ==
  /\ now \in Nat /\ occurred \subseteq Events /\ pending \in BOOLEAN
  /\ memory \in Content /\ stored \in Content
  /\ minted \in Nat
  /\ captured \in [Ids -> SUBSET Subs]
  /\ received \in [Subs -> SUBSET Nat]
  /\ pass \in [Passes -> PassRecord]
  /\ failures \in Nat /\ faults \in 0..MaxFaults

(* Ids are handed out one by one; a crash forgets at most one per event.   *)
Named == {e \in Events : Entry(e).id # NoId}
EnoughIds == minted <= Cardinality(Named) + Cardinality(Events) * faults

(* What is in an outbox: ids that were handed out, and no delivery without *)
(* its entry.                                                              *)
InOrder(m) == \A e \in Events :
  /\ m.entry[e].id <= minted
  /\ m.entry[e].id = NoId => \A s \in Subs : m.entry[e].to[s].state = "none"

Remembered(m) == \A e \in Events : m.entry[e].id # NoId =>
  \A s \in captured[m.entry[e].id] :
    \/ m.entry[e].id \in received[s]
    \/ m.entry[e].to[s].state = "queued"
    \/ m.status[s] = "revoked"

(* Memory names the events as the documents do.                            *)
Faithful == \A e \in Events : stored.entry[e].id # NoId => Entry(e).id = stored.entry[e].id

(* A pass sends what has an entry, under its id; an acknowledgement is one *)
(* of the endpoint.                                                        *)
PassKnows(p) ==
  /\ pass[p].at \in {"delivering", "sending", "recording"} =>
       pass[p].due \subseteq Named \X Subs
  /\ pass[p].at \in {"sending", "recording"} =>
       /\ pass[p].item \in Named \X Subs \X Nat
       /\ pass[p].item[3] = Entry(pass[p].item[1]).id
  /\ pass[p].at = "recording" /\ pass[p].outcome = "delivered" =>
       pass[p].item[3] \in received[pass[p].item[2]]

WebhookInv ==
  /\ TypeOK /\ EnoughIds
  /\ InOrder(memory) /\ InOrder(stored)
  /\ Remembered(memory) /\ Remembered(stored)
  /\ Faithful
  /\ \A p \in Passes : PassKnows(p)

-----------------------------------------------------------------------------
(* There is an id for every event that is named.                           *)
LEMMA Times ==
  ASSUME NEW n \in Nat, NEW f \in Nat, NEW g \in Nat, f <= g
  PROVE  n * f <= n * g /\ n * (g + 1) = n * g + n /\ n * f \in Nat /\ n * g \in Nat
  <1>1. PICK d \in Nat : g = f + d
    <2>1. g - f \in Nat /\ g = f + (g - f)
      OBVIOUS
    <2> QED
      BY <2>1
  <1>2. n * (f + d) = n * f + n * d /\ n * d \in Nat /\ n * f \in Nat
    OBVIOUS
  <1>3. n * (g + 1) = n * g + n * 1 /\ n * g \in Nat
    OBVIOUS
  <1> QED
    BY <1>1, <1>2, <1>3

LEMMA NamedIsFinite ==
  /\ IsFiniteSet(Named) /\ Cardinality(Named) \in Nat
  /\ Cardinality(Events) \in Nat /\ Cardinality(Named) <= Cardinality(Events)
  <1>1. Named \subseteq Events
    BY DEF Named
  <1> QED
    BY <1>1, WebhookAssumption, FS_Subset, FS_CardinalityType

LEMMA IdsAreEnough ==
  ASSUME TypeOK, EnoughIds
  PROVE  /\ minted <= Cardinality(Events) * (MaxFaults + 1)
         /\ Cardinality(Named) < Cardinality(Events) => minted + 1 \in Ids
         /\ \A i \in Nat : i # NoId /\ i <= minted => i \in Ids
  <1> DEFINE n == Cardinality(Events)
             k == Cardinality(Named)
  <1>1. n \in Nat /\ k \in Nat /\ k <= n
    BY NamedIsFinite
  <1>2. faults \in Nat /\ MaxFaults \in Nat /\ faults <= MaxFaults /\ minted \in Nat
    BY WebhookAssumption DEF TypeOK
  <1>3. /\ n * faults <= n * MaxFaults /\ n * (MaxFaults + 1) = n * MaxFaults + n
        /\ n * faults \in Nat /\ n * MaxFaults \in Nat
    BY <1>1, <1>2, Times
  <1>4. minted <= k + n * faults
    BY DEF EnoughIds
  <1> HIDE DEF n, k
  <1>5. minted <= n * (MaxFaults + 1) /\ (k < n => minted + 1 <= n * (MaxFaults + 1))
    BY <1>1, <1>2, <1>3, <1>4
  <1>6. n * (MaxFaults + 1) \in Nat
    BY <1>1, <1>3
  <1> QED
    BY <1>2, <1>5, <1>6 DEF Ids, NoId, n, k

LEMMA NamesAreIds ==
  ASSUME WebhookInv, NEW e \in Events
  PROVE  /\ memory.entry[e].id # NoId => memory.entry[e].id \in Ids
         /\ stored.entry[e].id # NoId => stored.entry[e].id \in Ids
  <1>1. memory.entry[e].id \in Nat /\ stored.entry[e].id \in Nat
    BY DEF WebhookInv, TypeOK, Content, OutboxEntry
  <1>2. memory.entry[e].id <= minted /\ stored.entry[e].id <= minted
    BY DEF WebhookInv, InOrder
  <1> QED
    BY <1>1, <1>2, IdsAreEnough DEF WebhookInv

-----------------------------------------------------------------------------
(* Every step but the naming of an event and a crash.                      *)
LEMMA NamesStay ==
  ASSUME WebhookInv, memory' \in Content, UNCHANGED <<stored, minted, captured, faults>>,
         \A s \in Subs : received[s] \subseteq received'[s],
         \A e \in Events : memory'.entry[e].id = memory.entry[e].id,
         \A e \in Events : memory.entry[e].id = NoId =>
           \A s \in Subs : memory'.entry[e].to[s].state = "none",
         \A s \in Subs : memory.status[s] = "revoked" => memory'.status[s] = "revoked",
         \A e \in Events, s \in Subs : memory.entry[e].to[s].state = "queued" =>
           \/ memory'.entry[e].to[s].state = "queued" \/ memory'.status[s] = "revoked"
           \/ memory.entry[e].id \in received'[s]
  PROVE  /\ EnoughIds' /\ InOrder(memory)' /\ InOrder(stored)'
         /\ Remembered(memory)' /\ Remembered(stored)' /\ Faithful' /\ Named' = Named
         /\ \A p \in Passes : pass'[p] = pass[p] => PassKnows(p)'
  <1>1. Named' = Named
    BY DEF Named, Entry
  <1>2. EnoughIds'
    BY <1>1 DEF WebhookInv, EnoughIds
  <1>3. InOrder(memory)' /\ InOrder(stored)' /\ Faithful'
    BY DEF WebhookInv, InOrder, Faithful, Entry
  <1>4. \A e \in Events : memory.entry[e].id # NoId => captured[memory.entry[e].id] \subseteq Subs
    BY NamesAreIds DEF WebhookInv, TypeOK
  <1>5. Remembered(memory)'
    BY <1>4 DEF WebhookInv, Remembered
  <1>6. Remembered(stored)'
    <2>1. \A e \in Events : stored.entry[e].id # NoId => captured[stored.entry[e].id] \subseteq Subs
      BY NamesAreIds DEF WebhookInv, TypeOK
    <2> QED
      BY <2>1 DEF WebhookInv, Remembered
  <1>7. ASSUME NEW p \in Passes, pass'[p] = pass[p]
        PROVE  PassKnows(p)'
    BY <1>1, <1>7 DEF WebhookInv, PassKnows, Entry, Named
  <1> QED
    BY <1>1, <1>2, <1>3, <1>5, <1>6, <1>7

-----------------------------------------------------------------------------
(* The owners of the subscriptions.                                        *)
LEMMA OwnerKeeps ==
  ASSUME WebhookInv, NEW s \in Subs, Owner(s)
  PROVE  WebhookInv'
  <1>1. memory \in Content /\ TypeOK
    BY DEF WebhookInv, TypeOK
  <1>2. UNCHANGED <<now, occurred, stored, minted, captured, received, pass, failures, faults>>
        /\ pending' = TRUE
    BY DEF Owner, CreateSubscription, RevokeSubscription, ResumeSubscription, Change
  <1>3. memory' \in Content
    <2>1. CASE CreateSubscription(s)
      BY <1>1, <2>1 DEF CreateSubscription, Change, Content
    <2>2. CASE RevokeSubscription(s)
      <3>1. Unsent \in Delivery
        BY DEF Unsent, Delivery, Instants, Never
      <3>2. [memory.status EXCEPT ![s] = "revoked"]
               \in [Subs -> {"none", "active", "suspended", "revoked"}]
        BY <1>1 DEF Content
      <3>3. [e \in Events |-> [Entry(e) EXCEPT !.to[s] = Unsent]] \in [Events -> OutboxEntry]
        BY <1>1, <3>1 DEF Content, OutboxEntry, Entry
      <3> QED
        BY <2>2, <3>2, <3>3 DEF RevokeSubscription, Change, Content
    <2>3. CASE ResumeSubscription(s)
      <3>1. [memory.status EXCEPT ![s] = "active"]
               \in [Subs -> {"none", "active", "suspended", "revoked"}]
        BY <1>1 DEF Content
      <3>2. ASSUME NEW d \in Delivery PROVE Forgiven(d) \in Delivery
        BY DEF Forgiven, Delivery, Never
      <3>3. \A e \in Events : Entry(e) \in OutboxEntry /\ Forgiven(Entry(e).to[s]) \in Delivery
        BY <1>1, <3>2 DEF Content, OutboxEntry, Entry
      <3>4. [e \in Events |-> [Entry(e) EXCEPT !.to[s] = Forgiven(@)]] \in [Events -> OutboxEntry]
        BY <3>3 DEF OutboxEntry
      <3> QED
        BY <2>3, <3>1, <3>4 DEF ResumeSubscription, Change, Content
    <2> QED
      BY <2>1, <2>2, <2>3 DEF Owner
  <1>4. \A e \in Events : /\ memory'.entry[e].id = memory.entry[e].id
          /\ \A t \in Subs : memory'.entry[e].to[t].state = memory.entry[e].to[t].state
                             \/ (t = s /\ memory'.entry[e].to[t].state = "none"
                                 /\ memory'.status[s] = "revoked")
    <2>1. CASE CreateSubscription(s)
      BY <1>1, <2>1 DEF CreateSubscription, Change, Content
    <2>2. CASE RevokeSubscription(s)
      <3>1. memory'.status = [memory.status EXCEPT ![s] = "revoked"]
            /\ memory'.entry = [e \in Events |-> [Entry(e) EXCEPT !.to[s] = Unsent]]
        BY <2>2 DEF RevokeSubscription, Change
      <3>2. memory'.status[s] = "revoked"
        BY <1>1, <3>1 DEF Content
      <3>3. ASSUME NEW e \in Events
            PROVE  /\ memory'.entry[e].id = memory.entry[e].id
                   /\ memory'.entry[e].to = [memory.entry[e].to EXCEPT ![s] = Unsent]
                   /\ memory.entry[e].to \in [Subs -> Delivery]
        <4>1. memory.entry[e] \in OutboxEntry
          BY <1>1 DEF Content
        <4>2. memory'.entry[e] = [memory.entry[e] EXCEPT !.to[s] = Unsent]
          BY <3>1 DEF Entry
        <4> QED
          BY <4>1, <4>2 DEF OutboxEntry
      <3>4. ASSUME NEW e \in Events, NEW t \in Subs
            PROVE  \/ memory'.entry[e].to[t] = memory.entry[e].to[t]
                   \/ t = s /\ memory'.entry[e].to[t] = Unsent
        BY <3>3
      <3>5. Unsent.state = "none"
        BY DEF Unsent
      <3>6. ASSUME NEW e \in Events, NEW t \in Subs
            PROVE  memory'.entry[e].to[t].state = memory.entry[e].to[t].state
                   \/ (t = s /\ memory'.entry[e].to[t].state = "none"
                            /\ memory'.status[s] = "revoked")
        BY <3>2, <3>4, <3>5
      <3> QED
        BY <3>3, <3>6
    <2>3. CASE ResumeSubscription(s)
      <3>1. memory'.entry = [e \in Events |-> [Entry(e) EXCEPT !.to[s] = Forgiven(@)]]
        BY <2>3 DEF ResumeSubscription, Change
      <3>2. ASSUME NEW e \in Events
            PROVE  /\ memory'.entry[e].id = memory.entry[e].id
                   /\ memory'.entry[e].to = [memory.entry[e].to EXCEPT
                                               ![s] = Forgiven(memory.entry[e].to[s])]
                   /\ memory.entry[e].to \in [Subs -> Delivery]
        <4>1. memory.entry[e] \in OutboxEntry
          BY <1>1 DEF Content
        <4>2. memory'.entry[e] = [memory.entry[e] EXCEPT !.to[s] = Forgiven(memory.entry[e].to[s])]
          BY <3>1, <4>1 DEF Entry, OutboxEntry
        <4> QED
          BY <4>1, <4>2 DEF OutboxEntry
      <3>3. ASSUME NEW d \in Delivery PROVE Forgiven(d).state = d.state
        BY DEF Forgiven, Delivery
      <3>4. ASSUME NEW e \in Events, NEW t \in Subs
            PROVE  memory'.entry[e].to[t].state = memory.entry[e].to[t].state
        BY <3>2, <3>3, ZenonT(40)
      <3> QED
        BY <3>2, <3>4
    <2> QED
      BY <2>1, <2>2, <2>3 DEF Owner
  <1>5. \A t \in Subs : memory.status[t] = "revoked" => memory'.status[t] = "revoked"
    BY <1>1 DEF Owner, CreateSubscription, RevokeSubscription, ResumeSubscription, Change, Content,
                Status
  <1>6. TypeOK'
    BY <1>1, <1>2, <1>3 DEF TypeOK
  <1>7. \A e \in Events : memory.entry[e].id = NoId =>
           \A t \in Subs : memory'.entry[e].to[t].state = "none"
    BY <1>4 DEF WebhookInv, InOrder
  <1> QED
    BY <1>2, <1>3, <1>4, <1>5, <1>6, <1>7, NamesStay DEF WebhookInv

-----------------------------------------------------------------------------
(* The outbox.                                                             *)
LEMMA EnqueueKeeps ==
  ASSUME WebhookInv, NEW e \in Events, EnqueueIfAbsent(e)
  PROVE  WebhookInv'
  <1> DEFINE new == [id |-> minted + 1, created |-> now, pruned |-> FALSE,
                     to |-> [s \in Subs |-> Addressed(s)]]
             active == {s \in Subs : Status(s) = "active"}
  <1>1. /\ memory \in Content /\ stored \in Content /\ minted \in Nat /\ now \in Nat
        /\ captured \in [Ids -> SUBSET Subs]
    BY DEF WebhookInv, TypeOK
  <1>2. /\ UNCHANGED <<now, occurred, stored, received, pass, failures, faults>>
        /\ minted' = minted + 1 /\ Entry(e).id = NoId
        /\ captured' = [captured EXCEPT ![minted + 1] = active]
        /\ memory' = [memory EXCEPT !.entry[e] = new] /\ pending' = TRUE
    BY DEF EnqueueIfAbsent, Change
  <1>3. new \in OutboxEntry
    <2>1. ASSUME NEW s \in Subs PROVE Addressed(s) \in Delivery
      <3>1. Unsent \in Delivery /\ now \in Instants
        BY <1>1 DEF Unsent, Delivery, Instants, Never
      <3>2. [Unsent EXCEPT !.state = "queued", !.next = now] \in Delivery
        BY <3>1 DEF Delivery
      <3> QED
        BY <3>1, <3>2 DEF Addressed
    <2>2. [s \in Subs |-> Addressed(s)] \in [Subs -> Delivery]
      BY <2>1
    <2>3. FALSE \in BOOLEAN /\ minted + 1 \in Nat
      BY <1>1
    <2> QED
      BY <1>1, <2>2, <2>3, Zenon DEF OutboxEntry
  <1> HIDE DEF new
  <1>4. /\ memory' \in Content /\ memory'.entry[e] = new /\ memory'.status = memory.status
        /\ \A d \in Events \ {e} : memory'.entry[d] = memory.entry[d]
    BY <1>1, <1>2, <1>3 DEF Content
  <1>5. new.id = minted + 1 /\ \A s \in Subs : new.to[s] = Addressed(s)
    BY DEF new
  <1>6. Named' = Named \cup {e} /\ e \notin Named
    BY <1>1, <1>2, <1>4, <1>5 DEF Named, Entry, NoId
  <1>7. Cardinality(Named') = Cardinality(Named) + 1 /\ Cardinality(Named) < Cardinality(Events)
    <2>1. Cardinality(Named') = Cardinality(Named) + 1
      BY <1>6, NamedIsFinite, FS_AddElement
    <2>2. Named \cup {e} \subseteq Events
      BY DEF Named
    <2>3. Cardinality(Named \cup {e}) <= Cardinality(Events)
      BY <2>2, WebhookAssumption, FS_Subset
    <2> QED
      BY <1>6, <2>1, <2>3, NamedIsFinite
  <1>8. minted + 1 \in Ids
    BY <1>7, IdsAreEnough DEF WebhookInv
  <1>9. /\ captured' \in [Ids -> SUBSET Subs] /\ captured'[minted + 1] = active
        /\ \A i \in Ids : i # minted + 1 => captured'[i] = captured[i]
    BY <1>1, <1>2, <1>8
  <1>10. TypeOK'
    BY <1>1, <1>2, <1>4, <1>9 DEF WebhookInv, TypeOK
  <1>11. EnoughIds'
    <2>1. /\ Cardinality(Named) \in Nat /\ Cardinality(Events) * faults \in Int
          /\ minted <= Cardinality(Named) + Cardinality(Events) * faults
      BY NamedIsFinite, WebhookAssumption DEF WebhookInv, EnoughIds, TypeOK
    <2>2. minted' <= Cardinality(Named') + Cardinality(Events) * faults
      BY <1>1, <1>2, <1>7, <2>1
    <2> QED
      BY <1>2, <2>2 DEF EnoughIds
  <1>12. InOrder(memory)' /\ InOrder(stored)'
    BY <1>1, <1>2, <1>4, <1>5 DEF WebhookInv, InOrder, Content, OutboxEntry, NoId
  <1>13. Remembered(memory)'
    <2>1. ASSUME NEW d \in Events \ {e}, memory.entry[d].id # NoId
          PROVE  captured'[memory.entry[d].id] = captured[memory.entry[d].id]
      <3>1. memory.entry[d].id \in Ids /\ memory.entry[d].id \in Nat
        BY <1>1, <2>1, NamesAreIds DEF Content, OutboxEntry
      <3>2. memory.entry[d].id <= minted
        BY DEF WebhookInv, InOrder
      <3> QED
        BY <1>1, <1>9, <3>1, <3>2
    <2>2. ASSUME NEW s \in active PROVE new.to[s].state = "queued"
      BY <1>5 DEF Addressed, Unsent, active
    <2>3. ASSUME NEW d \in Events \ {e}, memory'.entry[d].id # NoId,
                 NEW s \in captured'[memory'.entry[d].id]
          PROVE  \/ memory'.entry[d].id \in received'[s]
                 \/ memory'.entry[d].to[s].state = "queued"
                 \/ memory'.status[s] = "revoked"
      <3>1. memory'.entry[d] = memory.entry[d]
        BY <1>4
      <3>2. memory.entry[d].id # NoId /\ s \in captured[memory.entry[d].id]
        BY <2>1, <2>3, <3>1
      <3>3. \/ memory.entry[d].id \in received[s]
            \/ memory.entry[d].to[s].state = "queued"
            \/ memory.status[s] = "revoked"
        BY <3>2 DEF WebhookInv, Remembered
      <3> QED
        BY <1>2, <1>4, <3>1, <3>3
    <2> QED
      BY <1>4, <1>5, <1>9, <2>2, <2>3 DEF Remembered
  <1>14. Remembered(stored)'
    <2>1. ASSUME NEW d \in Events, stored.entry[d].id # NoId
          PROVE  captured'[stored.entry[d].id] = captured[stored.entry[d].id]
      <3>1. stored.entry[d].id \in Ids /\ stored.entry[d].id \in Nat
        BY <1>1, <2>1, NamesAreIds DEF Content, OutboxEntry
      <3>2. stored.entry[d].id <= minted
        BY DEF WebhookInv, InOrder
      <3> QED
        BY <1>1, <1>9, <3>1, <3>2
    <2> QED
      BY <1>2, <2>1, SMTT(30) DEF WebhookInv, Remembered
  <1>15. Faithful'
    BY <1>1, <1>2, <1>4 DEF WebhookInv, Faithful, Entry
  <1>16. ASSUME NEW p \in Passes PROVE PassKnows(p)'
    <2>1. \A x \in Named : memory'.entry[x] = memory.entry[x] /\ x \in Named'
      BY <1>4, <1>6 DEF Named
    <2>2. pass'[p] = pass[p] /\ received' = received
      BY <1>2
    <2>3. PassKnows(p)
      BY DEF WebhookInv
    <2>4. pass[p].at \in {"sending", "recording"} =>
            /\ pass[p].item \in Named' \X Subs \X Nat
            /\ memory'.entry[pass[p].item[1]] = memory.entry[pass[p].item[1]]
      BY <2>1, <2>3 DEF PassKnows
    <2>5. pass[p].at \in {"delivering", "sending", "recording"} =>
            pass[p].due \subseteq Named' \X Subs
      BY <2>1, <2>3 DEF PassKnows
    <2> QED
      BY <2>2, <2>3, <2>4, <2>5 DEF PassKnows, Entry
  <1> QED
    BY <1>10, <1>11, <1>12, <1>13, <1>14, <1>15, <1>16 DEF WebhookInv

-----------------------------------------------------------------------------
(* The clock, the documents, the process.                                  *)
LEMMA RestKeeps ==
  ASSUME WebhookInv,
         \/ UNCHANGED vars \/ Tick \/ PersistFails \/ \E e \in Events : Occur(e)
  PROVE  WebhookInv'
  <1>1. /\ UNCHANGED <<memory, stored, minted, captured, received, pass, failures>>
        /\ faults' \in 0..MaxFaults /\ faults' >= faults
    BY WebhookAssumption DEF vars, Tick, PersistFails, Occur, Fault, WebhookInv, TypeOK
  <1>2. now' \in Nat /\ occurred' \subseteq Events /\ pending' \in BOOLEAN
    <2>1. now \in Nat /\ occurred \subseteq Events /\ pending \in BOOLEAN
      BY DEF WebhookInv, TypeOK
    <2>2. CASE UNCHANGED vars
      BY <2>1, <2>2 DEF vars
    <2>3. CASE Tick
      BY <2>1, <2>3 DEF Tick
    <2>4. CASE PersistFails
      BY <2>1, <2>4 DEF PersistFails
    <2>5. CASE \E e \in Events : Occur(e)
      BY <2>1, <2>5 DEF Occur
    <2> QED
      BY <2>2, <2>3, <2>4, <2>5
  <1>3. TypeOK'
    BY <1>1, <1>2 DEF WebhookInv, TypeOK
  <1>4. EnoughIds'
    <2>1. Named' = Named
      BY <1>1 DEF Named, Entry
    <2>2. Cardinality(Events) * faults <= Cardinality(Events) * faults'
          /\ Cardinality(Events) * faults \in Nat /\ Cardinality(Events) * faults' \in Nat
      <3>1. faults \in Nat /\ faults' \in Nat /\ faults <= faults'
        BY <1>1, WebhookAssumption DEF WebhookInv, TypeOK
      <3> QED
        BY <3>1, NamedIsFinite, Times
    <2>3. minted <= Cardinality(Named) + Cardinality(Events) * faults /\ minted \in Nat
      BY DEF WebhookInv, EnoughIds, TypeOK
    <2>4. minted <= Cardinality(Named) + Cardinality(Events) * faults'
      BY <2>2, <2>3, NamedIsFinite
    <2> QED
      BY <1>1, <2>1, <2>4 DEF EnoughIds
  <1>5. InOrder(memory)' /\ InOrder(stored)' /\ Remembered(memory)' /\ Remembered(stored)'
        /\ Faithful'
    BY <1>1 DEF WebhookInv, InOrder, Remembered, Faithful, Entry
  <1>6. ASSUME NEW p \in Passes PROVE PassKnows(p)'
    BY <1>1 DEF WebhookInv, PassKnows, Named, Entry
  <1> QED
    BY <1>3, <1>4, <1>5, <1>6 DEF WebhookInv

LEMMA PersistKeeps ==
  ASSUME WebhookInv, Persist
  PROVE  WebhookInv'
  <1>1. /\ UNCHANGED <<now, occurred, memory, minted, captured, received, pass, failures, faults>>
        /\ stored' = memory /\ pending' = FALSE
    BY DEF Persist
  <1>2. TypeOK' /\ EnoughIds'
    BY <1>1 DEF WebhookInv, TypeOK, EnoughIds, Named, Entry
  <1>3. InOrder(memory)' /\ InOrder(stored)' /\ Remembered(memory)' /\ Remembered(stored)'
        /\ Faithful'
    BY <1>1 DEF WebhookInv, InOrder, Remembered, Faithful, Entry
  <1>4. ASSUME NEW p \in Passes PROVE PassKnows(p)'
    BY <1>1 DEF WebhookInv, PassKnows, Named, Entry
  <1> QED
    BY <1>2, <1>3, <1>4 DEF WebhookInv

LEMMA CrashKeeps ==
  ASSUME WebhookInv, Crash
  PROVE  WebhookInv'
  <1>1. /\ UNCHANGED <<now, occurred, stored, minted, captured, received, failures>>
        /\ memory' = stored /\ pending' = FALSE /\ pass' = [p \in Passes |-> Resting]
        /\ faults' = faults + 1 /\ faults < MaxFaults
    BY DEF Crash, Fault
  <1>2. TypeOK'
    <2>1. Resting \in PassRecord
      BY DEF Resting, PassRecord
    <2>2. pass' \in [Passes -> PassRecord]
      BY <1>1, <2>1
    <2>3. faults' \in 0..MaxFaults
      BY <1>1, WebhookAssumption DEF WebhookInv, TypeOK
    <2> QED
      BY <1>1, <2>2, <2>3 DEF WebhookInv, TypeOK
  <1>3. EnoughIds'
    <2>1. Cardinality(Named') \in Nat
      <3>1. Named' \subseteq Events
        BY DEF Named
      <3> QED
        BY <3>1, WebhookAssumption, FS_Subset, FS_CardinalityType
    <2>2. /\ Cardinality(Events) * faults' = Cardinality(Events) * faults + Cardinality(Events)
          /\ Cardinality(Events) * faults \in Nat
      <3>1. faults \in Nat
        BY DEF WebhookInv, TypeOK
      <3> QED
        BY <1>1, <3>1, NamedIsFinite, Times
    <2>3. minted <= Cardinality(Named) + Cardinality(Events) * faults /\ minted \in Nat
      BY DEF WebhookInv, EnoughIds, TypeOK
    <2>4. minted <= Cardinality(Named') + Cardinality(Events) * faults'
      BY <2>1, <2>2, <2>3, NamedIsFinite
    <2> QED
      BY <1>1, <2>4 DEF EnoughIds
  <1>4. InOrder(memory)' /\ InOrder(stored)' /\ Remembered(memory)' /\ Remembered(stored)'
        /\ Faithful'
    BY <1>1 DEF WebhookInv, InOrder, Remembered, Faithful, Entry
  <1>5. ASSUME NEW p \in Passes PROVE PassKnows(p)'
    BY <1>1 DEF PassKnows, Resting
  <1> QED
    BY <1>2, <1>3, <1>4, <1>5 DEF WebhookInv

-----------------------------------------------------------------------------
(* A delivery pass.                                                        *)

(* What is queued has an entry.                                            *)
LEMMA QueuedIsNamed ==
  ASSUME WebhookInv, NEW e \in Events, NEW s \in Subs, Queued(e, s)
  PROVE  e \in Named
  BY DEF WebhookInv, InOrder, Queued, Entry, Named

(* A step of one pass that names nothing leaves the others in order.       *)
LEMMA OnePass ==
  ASSUME WebhookInv, NEW p \in Passes, memory' \in Content,
         UNCHANGED <<now, occurred, stored, minted, captured, faults>>,
         pending' \in BOOLEAN, failures' \in Nat, received' \in [Subs -> SUBSET Nat],
         NEW record \in PassRecord, pass' = [pass EXCEPT ![p] = record],
         \A s \in Subs : received[s] \subseteq received'[s],
         \A e \in Events : memory'.entry[e].id = memory.entry[e].id,
         \A e \in Events : memory.entry[e].id = NoId =>
           \A s \in Subs : memory'.entry[e].to[s].state = "none",
         \A s \in Subs : memory.status[s] = "revoked" => memory'.status[s] = "revoked",
         \A e \in Events, s \in Subs : memory.entry[e].to[s].state = "queued" =>
           \/ memory'.entry[e].to[s].state = "queued" \/ memory'.status[s] = "revoked"
           \/ memory.entry[e].id \in received'[s],
         record.at \in {"delivering", "sending", "recording"} =>
           record.due \subseteq Named \X Subs,
         record.at \in {"sending", "recording"} =>
           /\ record.item \in Named \X Subs \X Nat
           /\ record.item[3] = memory.entry[record.item[1]].id,
         record.at = "recording" /\ record.outcome = "delivered" =>
           record.item[3] \in received'[record.item[2]]
  PROVE  WebhookInv'
  <1>1. /\ EnoughIds' /\ InOrder(memory)' /\ InOrder(stored)'
        /\ Remembered(memory)' /\ Remembered(stored)' /\ Faithful' /\ Named' = Named
    BY NamesStay
  <1>2. pass \in [Passes -> PassRecord] /\ TypeOK
    BY DEF WebhookInv, TypeOK
  <1>3. TypeOK'
    BY <1>2 DEF TypeOK
  <1>4. ASSUME NEW q \in Passes, q # p PROVE PassKnows(q)'
    <2>1. pass'[q] = pass[q] /\ PassKnows(q)
      BY <1>2, <1>4 DEF WebhookInv
    <2>2. pass[q].at \in {"sending", "recording"} =>
            memory'.entry[pass[q].item[1]].id = memory.entry[pass[q].item[1]].id
            /\ pass[q].item[2] \in Subs
      BY <2>1 DEF PassKnows, Named
    <2> QED
      BY <1>1, <2>1, <2>2 DEF PassKnows, Entry
  <1>5. PassKnows(p)'
    <2>1. pass'[p] = record
      BY <1>2
    <2>2. record.at \in {"sending", "recording"} =>
            memory'.entry[record.item[1]].id = memory.entry[record.item[1]].id
      BY DEF Named
    <2> QED
      BY <1>1, <2>1, <2>2 DEF PassKnows, Entry
  <1> QED
    BY <1>1, <1>3, <1>4, <1>5 DEF WebhookInv

LEMMA SendsKeeps ==
  ASSUME WebhookInv, NEW p \in Passes, NEW due \in SUBSET (Named \X Subs), NEW began \in Nat,
         Sends(p, due, began),
         UNCHANGED <<now, occurred, memory, stored, pending, minted, captured, received,
                     failures, faults>>
  PROVE  WebhookInv'
  <1>1. PICK x \in due :
          pass' = [pass EXCEPT ![p] = [at |-> "sending", began |-> began, due |-> due \ {x},
                                 item |-> <<x[1], x[2], Entry(x[1]).id>>, outcome |-> "none"]]
    BY DEF Sends
  <1> DEFINE record == [at |-> "sending", began |-> began, due |-> due \ {x},
                        item |-> <<x[1], x[2], Entry(x[1]).id>>, outcome |-> "none"]
  <1>2. TypeOK /\ memory \in Content
    BY DEF WebhookInv, TypeOK
  <1>3. x[1] \in Named /\ x[2] \in Subs /\ Entry(x[1]).id \in Nat
    BY <1>2 DEF Named, Content, OutboxEntry, Entry
  <1>4. /\ record.at = "sending" /\ record.due \subseteq Named \X Subs
        /\ record.item \in Named \X Subs \X Nat
        /\ record.item[3] = memory.entry[record.item[1]].id
    BY <1>3 DEF Entry
  <1>5. record \in PassRecord
    <2>1. Named \subseteq Events
      BY DEF Named
    <2>2. due \ {x} \in (SUBSET (Events \X Subs)) \cup (SUBSET Subs)
      BY <2>1
    <2>3. <<x[1], x[2], Entry(x[1]).id>> \in {<< >>} \cup (Events \X Subs \X Nat)
      BY <1>3, <2>1
    <2> QED
      BY <2>2, <2>3 DEF PassRecord
  <1> HIDE DEF record
  <1>6. pass' = [pass EXCEPT ![p] = record]
    BY <1>1 DEF record
  <1>7. \A e \in Events : memory.entry[e].id = NoId =>
           \A s \in Subs : memory'.entry[e].to[s].state = "none"
    BY DEF WebhookInv, InOrder
  <1> QED
    BY <1>2, <1>4, <1>5, <1>6, <1>7, OnePass DEF TypeOK

LEMMA ListKeeps ==
  ASSUME WebhookInv, NEW p \in Passes, ListDueDeliveries(p) \/ DeliverOne(p)
  PROVE  WebhookInv'
  <1>1. pass[p] \in PassRecord /\ now \in Nat /\ TypeOK /\ memory \in Content
    BY DEF WebhookInv, TypeOK
  <1>2. UNCHANGED <<now, occurred, memory, stored, pending, minted, captured, received,
                    failures, faults>>
    BY DEF ListDueDeliveries, DeliverOne
  <1>3. CASE ListDueDeliveries(p) /\ Sends(p, DueDeliveries, now)
    <2>1. DueDeliveries \subseteq Named \X Subs
      BY QueuedIsNamed DEF DueDeliveries
    <2> QED
      BY <1>1, <1>2, <1>3, <2>1, SendsKeeps
  <1>4. CASE DeliverOne(p)
    <2>1. Sends(p, pass[p].due, pass[p].began) /\ pass[p].at = "delivering"
      BY <1>4 DEF DeliverOne
    <2>2. pass[p].due \subseteq Named \X Subs /\ pass[p].began \in Nat
      BY <1>1, <2>1 DEF WebhookInv, PassKnows, PassRecord
    <2> QED
      BY <1>2, <2>1, <2>2, SendsKeeps
  <1>5. CASE ListDueDeliveries(p) /\ ~Sends(p, DueDeliveries, now)
    <2> DEFINE record == [Resting EXCEPT !.at = "delivering", !.began = now]
    <2>1. record \in PassRecord /\ record.at = "delivering" /\ record.due = {}
      BY <1>1 DEF Resting, PassRecord
    <2> HIDE DEF record
    <2>2. pass' = [pass EXCEPT ![p] = record]
      BY <1>5 DEF ListDueDeliveries, record
    <2>3. \A e \in Events : memory.entry[e].id = NoId =>
             \A s \in Subs : memory'.entry[e].to[s].state = "none"
      BY <1>2 DEF WebhookInv, InOrder
    <2> QED
      BY <1>1, <1>2, <2>1, <2>2, <2>3, OnePass DEF TypeOK
  <1> QED
    BY <1>3, <1>4, <1>5

LEMMA AnswerKeeps ==
  ASSUME WebhookInv, NEW p \in Passes, Acknowledged(p) \/ NotAcknowledged(p)
  PROVE  WebhookInv'
  <1>1. pass[p] \in PassRecord /\ TypeOK /\ memory \in Content /\ pass \in [Passes -> PassRecord]
        /\ received \in [Subs -> SUBSET Nat] /\ PassKnows(p)
    BY DEF WebhookInv, TypeOK
  <1>2. UNCHANGED <<now, occurred, memory, stored, pending, minted, captured, faults>>
        /\ pass[p].at = "sending" /\ failures' \in Nat
    BY <1>1 DEF Acknowledged, NotAcknowledged, TypeOK
  <1>3. PICK outcome \in {"delivered", "failed"} :
          /\ pass' = [pass EXCEPT ![p].at = "recording", ![p].outcome = outcome]
          /\ Process(p) \/ (outcome = "failed" /\ UNCHANGED received)
    BY DEF Acknowledged, NotAcknowledged, Answered
  <1> DEFINE record == [pass[p] EXCEPT !.at = "recording", !.outcome = outcome]
  <1>4. /\ pass[p].item \in Named \X Subs \X Nat
        /\ pass[p].item[3] = memory.entry[pass[p].item[1]].id
        /\ pass[p].due \subseteq Named \X Subs
    BY <1>1, <1>2 DEF PassKnows, Entry
  <1>5. record \in PassRecord /\ record.at = "recording" /\ record.outcome = outcome
        /\ record.item = pass[p].item /\ record.due = pass[p].due
    BY <1>1 DEF PassRecord
  <1>6. pass' = [pass EXCEPT ![p] = record]
    BY <1>1, <1>3
  <1> HIDE DEF record
  <1>7. /\ received' \in [Subs -> SUBSET Nat] /\ \A s \in Subs : received[s] \subseteq received'[s]
        /\ outcome = "delivered" => pass[p].item[3] \in received'[pass[p].item[2]]
    <2>1. pass[p].item[2] \in Subs /\ pass[p].item[3] \in Nat
      BY <1>4
    <2>2. CASE Process(p)
      BY <1>1, <2>1, <2>2 DEF Process
    <2>3. CASE outcome = "failed" /\ UNCHANGED received
      BY <1>1, <2>3
    <2> QED
      BY <1>3, <2>2, <2>3
  <1>8. \A e \in Events : memory.entry[e].id = NoId =>
             \A s \in Subs : memory'.entry[e].to[s].state = "none"
    BY <1>2 DEF WebhookInv, InOrder
  <1> QED
    BY <1>1, <1>2, <1>4, <1>5, <1>6, <1>7, <1>8, OnePass DEF TypeOK

\* The record of a delivery is changed at most, and is taken off the queue
\* only when the endpoint has processed it.
LEMMA RecordedDelivery ==
  ASSUME WebhookInv, NEW p \in Passes, Record(p)
  PROVE  /\ memory' \in Content /\ memory'.status = memory.status /\ pending' \in BOOLEAN
         /\ \A e \in Events : memory'.entry[e].id = memory.entry[e].id
         /\ \A e \in Events, s \in Subs :
              \/ memory'.entry[e].to[s] = memory.entry[e].to[s]
              \/ /\ memory.entry[e].to[s].state = "queued"
                 /\ memory'.entry[e].to[s].state = "queued" \/ memory.entry[e].id \in received[s]
  <1> DEFINE e == pass[p].item[1]
             s == pass[p].item[2]
             d == memory.entry[e].to[s]
  <1>1. memory \in Content /\ pass[p] \in PassRecord /\ PassKnows(p) /\ now \in Nat /\ pending \in BOOLEAN
    BY DEF WebhookInv, TypeOK
  <1>2. pass[p].at = "recording"
    BY DEF Record
  <1>3. e \in Events /\ s \in Subs /\ pass[p].item[3] = memory.entry[e].id
        /\ (pass[p].outcome = "delivered" => memory.entry[e].id \in received[s])
    <2>1. pass[p].item \in Named \X Subs \X Nat /\ pass[p].item[3] = memory.entry[e].id
      BY <1>1, <1>2 DEF PassKnows, Entry
    <2>2. Named \subseteq Events
      BY DEF Named
    <2> QED
      BY <1>1, <1>2, <2>1, <2>2 DEF PassKnows
  <1>4. d \in Delivery /\ memory.entry[e] \in OutboxEntry
    BY <1>1, <1>3 DEF Content, OutboxEntry
  <1>5. \/ UNCHANGED <<memory, pending>>
        \/ \E new \in Delivery :
             /\ Queued(e, s) /\ Deliver(e, s, new)
             /\ new.state = "queued" \/ memory.entry[e].id \in received[s]
    <2>1. CASE pass[p].outcome = "delivered"
      <3>1. [d EXCEPT !.state = "delivered"] \in Delivery
        BY <1>4 DEF Delivery
      <3>2. RecordDeliverySuccess(p)
        BY <2>1 DEF Record
      <3> QED
        BY <1>3, <2>1, <3>1, <3>2 DEF RecordDeliverySuccess, Entry
    <2>2. CASE pass[p].outcome # "delivered"
      <3> DEFINE new == [d EXCEPT !.attempts = @ + 1,
                                  !.first = IF @ = Never THEN now ELSE @,
                                  !.next = pass[p].began + NextBackoff(d.attempts + 1)]
      <3> HIDE DEF d
      <3>1. pass[p].began \in Nat /\ d.attempts + 1 \in Nat
        BY <1>1, <1>4 DEF PassRecord, Delivery
      <3>2. pass[p].began + NextBackoff(d.attempts + 1) \in Instants
        <4>1. ASSUME NEW b \in Nat, NEW n \in Nat PROVE b + NextBackoff(n) \in Instants
          <5>1. b + NextBackoff(n) \in {x + NextBackoff(k) : x \in Nat, k \in Nat}
            OBVIOUS
          <5> QED
            BY <5>1 DEF Instants
        <4> QED
          BY <3>1, <4>1
      <3>3. (IF d.first = Never THEN now ELSE d.first) \in Int
        BY <1>1, <1>4 DEF Delivery
      <3>4. new \in Delivery /\ new.state = d.state
        BY <1>4, <3>1, <3>2, <3>3 DEF Delivery
      <3>5. RecordDeliveryFailure(p)
        BY <2>2 DEF Record
      <3>6. Queued(e, s) => Deliver(e, s, new) /\ d.state = "queued"
        BY <3>5 DEF RecordDeliveryFailure, Entry, Queued, d
      <3>7. ~Queued(e, s) => UNCHANGED <<memory, pending>>
        BY <3>5 DEF RecordDeliveryFailure
      <3> HIDE DEF new
      <3> QED
        BY <3>4, <3>6, <3>7
    <2> QED
      BY <2>1, <2>2
  <1>6. CASE UNCHANGED <<memory, pending>>
    BY <1>1, <1>6
  <1>7. ASSUME NEW new \in Delivery, Queued(e, s), Deliver(e, s, new),
               new.state = "queued" \/ memory.entry[e].id \in received[s]
        PROVE  /\ memory' \in Content /\ memory'.status = memory.status /\ pending' \in BOOLEAN
               /\ \A x \in Events : memory'.entry[x].id = memory.entry[x].id
               /\ \A x \in Events, t \in Subs :
                    \/ memory'.entry[x].to[t] = memory.entry[x].to[t]
                    \/ /\ memory.entry[x].to[t].state = "queued"
                       /\ memory'.entry[x].to[t].state = "queued" \/ memory.entry[x].id \in received[t]
    <2>1. memory' = [memory EXCEPT !.entry[e].to[s] = new] /\ pending' = TRUE
      BY <1>7 DEF Deliver, Change
    <2>2. [memory.entry[e] EXCEPT !.to[s] = new] \in OutboxEntry
      BY <1>4 DEF OutboxEntry
    <2>3. memory' \in Content /\ memory'.status = memory.status
      BY <1>1, <1>3, <2>1, <2>2 DEF Content
    <2>4. \A x \in Events : x # e => memory'.entry[x] = memory.entry[x]
      BY <1>1, <2>1 DEF Content
    <2>5. memory'.entry[e] = [memory.entry[e] EXCEPT !.to[s] = new]
      BY <1>1, <1>3, <2>1 DEF Content
    <2>6. memory'.entry[e].id = memory.entry[e].id /\ memory'.entry[e].to[s] = new
          /\ \A t \in Subs : t # s => memory'.entry[e].to[t] = memory.entry[e].to[t]
      BY <1>3, <1>4, <2>5 DEF OutboxEntry
    <2>7. memory.entry[e].to[s].state = "queued"
      BY <1>7 DEF Queued, Entry
    <2> HIDE DEF e, s, d
    <2> QED
      BY <1>7, <2>1, <2>3, <2>4, <2>6, <2>7
  <1> QED
    BY <1>5, <1>6, <1>7

LEMMA RecordKeeps ==
  ASSUME WebhookInv, NEW p \in Passes, Record(p)
  PROVE  WebhookInv'
  <1>1. TypeOK /\ pass[p] \in PassRecord /\ pass \in [Passes -> PassRecord] /\ PassKnows(p)
    BY DEF WebhookInv, TypeOK
  <1>2. UNCHANGED <<now, occurred, stored, minted, captured, received, failures, faults>>
        /\ pass[p].at = "recording"
    BY DEF Record
  <1> DEFINE record == [pass[p] EXCEPT !.at = "delivering", !.item = << >>, !.outcome = "none"]
  <1>3. record \in PassRecord /\ record.at = "delivering" /\ record.due = pass[p].due
    BY <1>1 DEF PassRecord
  <1>4. pass' = [pass EXCEPT ![p] = record]
    BY <1>1 DEF Record
  <1> HIDE DEF record
  <1>5. record.due \subseteq Named \X Subs
    BY <1>1, <1>2, <1>3 DEF PassKnows
  <1>6. \A e \in Events : memory.entry[e].id = NoId =>
             \A s \in Subs : memory'.entry[e].to[s].state = "none"
    <2>1. \A e \in Events : memory.entry[e].id = NoId =>
             \A s \in Subs : memory.entry[e].to[s].state = "none"
      BY DEF WebhookInv, InOrder
    <2> QED
      BY <2>1, RecordedDelivery
  <1> QED
    BY <1>1, <1>2, <1>3, <1>4, <1>5, <1>6, RecordedDelivery, OnePass DEF TypeOK

LEMMA SuspendKeeps ==
  ASSUME WebhookInv, NEW p \in Passes, SuspendSubscription(p)
  PROVE  WebhookInv'
  <1>1. /\ TypeOK /\ pass[p] \in PassRecord /\ pass \in [Passes -> PassRecord]
        /\ memory \in Content /\ pending \in BOOLEAN
    BY DEF WebhookInv, TypeOK
  <1>2. UNCHANGED <<now, occurred, stored, minted, captured, received, failures, faults>>
    BY DEF SuspendSubscription
  <1>3. PICK s \in SuspendableSubscriptions(p) :
          /\ IF Status(s) = "active"
             THEN Change([memory EXCEPT !.status[s] = "suspended"])
             ELSE UNCHANGED <<memory, pending>>
          /\ pass' = [pass EXCEPT ![p].at = "suspending",
                                  ![p].due = SuspendableSubscriptions(p) \ {s}]
    BY DEF SuspendSubscription
  <1>4. memory' \in Content /\ memory'.entry = memory.entry /\ pending' \in BOOLEAN
    <2>1. [memory EXCEPT !.status[s] = "suspended"] \in Content
          /\ [memory EXCEPT !.status[s] = "suspended"].entry = memory.entry
      BY <1>1 DEF Content
    <2> QED
      BY <1>1, <1>3, <2>1 DEF Change
  <1>5. \A t \in Subs : memory.status[t] = "revoked" => memory'.status[t] = "revoked"
    BY <1>1, <1>3 DEF Change, Content, Status
  <1> DEFINE rest == SuspendableSubscriptions(p) \ {s}
             record == [pass[p] EXCEPT !.at = "suspending", !.due = rest]
  <1>6. rest \in (SUBSET (Events \X Subs)) \cup (SUBSET Subs)
    BY <1>1 DEF SuspendableSubscriptions, PassRecord
  <1> HIDE DEF rest
  <1>7. record \in PassRecord /\ record.at = "suspending"
    BY <1>1, <1>6 DEF PassRecord
  <1>8. pass' = [pass EXCEPT ![p] = record]
    BY <1>1, <1>3 DEF rest
  <1> HIDE DEF record
  <1>9. \A e \in Events : memory.entry[e].id = NoId =>
             \A t \in Subs : memory'.entry[e].to[t].state = "none"
    BY <1>4 DEF WebhookInv, InOrder
  <1> QED
    BY <1>1, <1>2, <1>4, <1>5, <1>7, <1>8, <1>9, OnePass DEF TypeOK

LEMMA PruneKeeps ==
  ASSUME WebhookInv, NEW p \in Passes, PruneDeliveredEntries(p)
  PROVE  WebhookInv'
  <1> DEFINE old == {e \in Events : Prunable(e, pass[p].began)}
  <1>1. /\ TypeOK /\ memory \in Content /\ pending \in BOOLEAN /\ pass \in [Passes -> PassRecord]
    BY DEF WebhookInv, TypeOK
  <1>2. UNCHANGED <<now, occurred, stored, minted, captured, received, failures, faults>>
        /\ pass' = [pass EXCEPT ![p] = Resting] /\ pending' = (pending \/ old # {})
        /\ memory' = [memory EXCEPT !.entry =
                  [e \in Events |-> IF e \in old THEN Tombstone(e) ELSE Entry(e)]]
    BY DEF PruneDeliveredEntries
  <1>3. pending' \in BOOLEAN
    BY <1>1, <1>2
  <1>4. ASSUME NEW e \in Events
        PROVE  /\ Tombstone(e) \in OutboxEntry /\ Tombstone(e).id = memory.entry[e].id
               /\ \A s \in Subs : Tombstone(e).to[s].state = "none"
    <2>1. memory.entry[e] \in OutboxEntry
      BY <1>1 DEF Content
    <2>2. [s \in Subs |-> Unsent] \in [Subs -> Delivery]
      BY DEF Unsent, Delivery, Instants, Never
    <2>3. Tombstone(e) = [memory.entry[e] EXCEPT !.pruned = TRUE, !.to = [s \in Subs |-> Unsent]]
      BY DEF Tombstone, Entry
    <2>4. Tombstone(e) \in OutboxEntry /\ Tombstone(e).id = memory.entry[e].id
          /\ Tombstone(e).to = [s \in Subs |-> Unsent]
      BY <2>1, <2>2, <2>3 DEF OutboxEntry
    <2> QED
      BY <2>4 DEF Unsent
  <1>5. memory'.status = memory.status
        /\ \A e \in Events : memory'.entry[e] = IF e \in old THEN Tombstone(e) ELSE memory.entry[e]
    BY <1>1, <1>2 DEF Content, Entry
  <1>6. memory' \in Content
    <2>1. [e \in Events |-> IF e \in old THEN Tombstone(e) ELSE Entry(e)] \in [Events -> OutboxEntry]
      BY <1>1, <1>4 DEF Content, Entry
    <2> QED
      BY <1>1, <1>2, <2>1 DEF Content
  <1>7. \A e \in old, s \in Subs : memory.entry[e].to[s].state # "queued"
    BY DEF Prunable, FullyDelivered, Queued, Entry
  <1>8. Resting \in PassRecord /\ Resting.at = "idle"
    BY DEF Resting, PassRecord
  <1> HIDE DEF old
  <1>9. \A e \in Events : memory.entry[e].id = NoId =>
             \A s \in Subs : memory'.entry[e].to[s].state = "none"
    <2>1. \A e \in Events : memory.entry[e].id = NoId =>
             \A s \in Subs : memory.entry[e].to[s].state = "none"
      BY DEF WebhookInv, InOrder
    <2> QED
      BY <1>4, <1>5, <2>1
  <1>10. \A e \in Events : memory'.entry[e].id = memory.entry[e].id
    BY <1>4, <1>5
  <1>11. \A e \in Events, s \in Subs : memory.entry[e].to[s].state = "queued" =>
           memory'.entry[e].to[s].state = "queued"
    BY <1>5, <1>7
  <1> QED
    BY <1>1, <1>2, <1>3, <1>5, <1>6, <1>8, <1>9, <1>10, <1>11, OnePass DEF TypeOK

-----------------------------------------------------------------------------
(* The theorems.                                                           *)
LEMMA InitInv == Init => WebhookInv
  <1> SUFFICES ASSUME Init PROVE WebhookInv
    OBVIOUS
  <1>1. memory \in Content /\ \A e \in Events : memory.entry[e] = NoEntry
    <2>1. NoEntry \in OutboxEntry
      <3>1. [s \in Subs |-> Unsent] \in [Subs -> Delivery]
        BY DEF Unsent, Delivery, Instants, Never
      <3> QED
        BY <3>1, Zenon DEF NoEntry, OutboxEntry, NoId
    <2> QED
      BY <2>1 DEF Init, Content
  <1>2. NoEntry.id = NoId /\ \A s \in Subs : NoEntry.to[s].state = "none"
    BY DEF NoEntry, Unsent
  <1>3. Resting \in PassRecord /\ Resting.at = "idle"
    BY DEF Resting, PassRecord
  <1>4. stored = memory /\ minted = 0 /\ faults = 0 /\ \A p \in Passes : pass[p] = Resting
    BY DEF Init
  <1>5. TypeOK
    <2>1. /\ now \in Nat /\ occurred \subseteq Events /\ pending \in BOOLEAN /\ minted \in Nat
          /\ failures \in Nat /\ faults \in 0..MaxFaults
      <3>1. now = 0 /\ occurred = {} /\ pending = FALSE /\ minted = 0 /\ failures = 0 /\ faults = 0
        BY DEF Init
      <3>2. 0 \in 0..MaxFaults /\ FALSE \in BOOLEAN
        BY WebhookAssumption
      <3> QED
        BY <3>1, <3>2
    <2>2. captured \in [Ids -> SUBSET Subs] /\ received \in [Subs -> SUBSET Nat]
          /\ pass \in [Passes -> PassRecord]
      BY <1>3 DEF Init
    <2> QED
      BY <1>1, <1>4, <2>1, <2>2 DEF TypeOK
  <1>6. EnoughIds
    <2>1. Cardinality(Events) * 0 = 0
      BY NamedIsFinite
    <2> QED
      BY <1>4, <2>1, NamedIsFinite DEF EnoughIds
  <1>7. InOrder(memory) /\ InOrder(stored) /\ Remembered(memory) /\ Remembered(stored) /\ Faithful
    BY <1>1, <1>2, <1>4 DEF InOrder, Remembered, Faithful, Entry, NoId
  <1>8. \A p \in Passes : PassKnows(p)
    BY <1>3, <1>4 DEF PassKnows
  <1> QED
    BY <1>5, <1>6, <1>7, <1>8 DEF WebhookInv

LEMMA NextKeeps == WebhookInv /\ [Next]_vars => WebhookInv'
  <1> SUFFICES ASSUME WebhookInv, [Next]_vars PROVE WebhookInv'
    OBVIOUS
  <1>1. ASSUME NEW p \in Passes, Pass(p) PROVE WebhookInv'
    BY <1>1, ListKeeps, AnswerKeeps, RecordKeeps, SuspendKeeps, PruneKeeps DEF Pass
  <1> QED
    BY <1>1, OwnerKeeps, EnqueueKeeps, RestKeeps, PersistKeeps, CrashKeeps DEF Next

LEMMA InvHolds == Spec => []WebhookInv
  BY InitInv, NextKeeps, PTL DEF Spec

(* The shape of the outbox, and ids enough for every event and fault.      *)
THEOREM WebhookTypes == Spec => []TypeOK
  <1>1. WebhookInv => TypeOK
    BY DEF WebhookInv
  <1> QED
    BY <1>1, InvHolds, PTL

(* A subscription an entry was captured with has processed it, has it      *)
(* queued or was revoked, in memory as on disk (pipeline.mjs:278,          *)
(* store.mjs:598).                                                         *)
THEOREM CapturedIsDelivered == Spec => []NothingIsLost
  <1>1. WebhookInv => NothingIsLost
    BY DEF WebhookInv, Remembered, NothingIsLost
  <1> QED
    BY <1>1, InvHolds, PTL

(* The id of an event that is on disk is its id for good (store.mjs:435).  *)
THEOREM IdsAreStable == Spec => StableOnceStored
  <1>1. ASSUME WebhookInv, [Next]_vars
        PROVE  [\A e \in Events : stored.entry[e].id # NoId
                  => stored'.entry[e].id = stored.entry[e].id]_vars
    <2>1. CASE Persist
      BY <1>1, <2>1 DEF Persist, WebhookInv, Faithful, Entry
    <2>2. CASE ~Persist /\ Next
      <3>1. stored' = stored
        BY <2>2 DEF Next, Owner, CreateSubscription, RevokeSubscription, ResumeSubscription, Occur,
           EnqueueIfAbsent, Pass, ListDueDeliveries, DeliverOne, Acknowledged, NotAcknowledged,
           Record, SuspendSubscription, PruneDeliveredEntries, Tick, PersistFails, Crash
      <3> QED
        BY <3>1
    <2> QED
      BY <1>1, <2>1, <2>2
  <1> QED
    BY <1>1, InvHolds, PTL DEF Spec, StableOnceStored

=============================================================================
