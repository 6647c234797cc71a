------------------------------ MODULE Webhooks ------------------------------
(***************************************************************************)
(* Signed webhooks: life-cycle events derived from the durable sessions    *)
(* into one outbox entry each, captured with the subscriptions active at   *)
(* that moment and delivered to every one of them at least once.  Requests *)
(* and the timer run delivery passes without waiting for one another, so   *)
(* passes overlap; an endpoint may fail, or process a delivery whose       *)
(* answer is lost; a subscription that keeps failing is suspended, resumed *)
(* or revoked under the passes; the write of the store may fail and the    *)
(* process may crash.                                                      *)
(*                                                                         *)
(* An entry is known by the event it is about, its dedupe key.  The write  *)
(* replaces the subscriptions and the outbox together (their tearing is    *)
(* the subject of ReservationStore).  Payloads, secrets and signatures are *)
(* left out.                                                               *)
(***************************************************************************)
EXTENDS Integers, FiniteSets

CONSTANTS
  Events,      \* life-cycle events of the sessions of one organizer
  Subs,        \* subscriptions
  Passes,      \* delivery passes that may overlap
  Horizon,     \* bound: the last instant of the clock
  Retry,       \* HOSTED_WEBHOOK_RETRY_MS
  MaxBackoff,  \* MAX_RETRY_BACKOFF_MS
  GiveUp,      \* HOSTED_WEBHOOK_GIVE_UP_MS, 0 to disable
  Keep,        \* DELIVERED_ENTRY_RETENTION_MS
  MaxFailures, \* bound: deliveries that are not acknowledged
  MaxFaults    \* bound: failed writes and crashes

ASSUME WebhookAssumption ==
  /\ Horizon \in Nat /\ Retry \in Nat /\ MaxBackoff \in Nat /\ GiveUp \in Nat
  /\ Keep \in Nat /\ MaxFailures \in Nat /\ MaxFaults \in Nat
  /\ IsFiniteSet(Events)

VARIABLES
  now,
  occurred,  \* the events the organizer store has on record
  memory,    \* subscriptionsById and entriesById
  stored,    \* the documents
  pending,   \* whether a write is queued
  minted,    \* stable event ids handed out
  captured,  \* id -> the subscriptions its entry was captured with
  received,  \* subscription -> the ids its endpoint has processed
  pass,      \* delivery pass -> its place in runDueDeliveries
  failures,
  faults

vars == <<now, occurred, memory, stored, pending, minted, captured, received,
          pass, failures, faults>>

Never == -1
NoId == 0
Ids == 1..(Cardinality(Events) * (MaxFaults + 1))

Unsent   == [state |-> "none", attempts |-> 0, first |-> Never, next |-> 0]
NoEntry  == [id |-> NoId, created |-> 0, pruned |-> FALSE,
             to |-> [s \in Subs |-> Unsent]]
Resting  == [at |-> "idle", began |-> 0, due |-> {}, item |-> << >>, outcome |-> "none"]

Init ==
  /\ now = 0
  /\ occurred = {}
  /\ memory = [status |-> [s \in Subs |-> "none"], entry |-> [e \in Events |-> NoEntry]]
  /\ stored = memory
  /\ pending = FALSE
  /\ minted = 0
  /\ captured = [i \in Ids |-> {}]
  /\ received = [s \in Subs |-> {}]
  /\ pass = [p \in Passes |-> Resting]
  /\ failures = 0
  /\ faults = 0

Status(s)  == memory.status[s]
Entry(e)   == memory.entry[e]
Queued(e, s) == Entry(e).to[s].state = "queued"

Change(content) == memory' = content /\ pending' = TRUE
Deliver(e, s, delivery) == Change([memory EXCEPT !.entry[e].to[s] = delivery])

-----------------------------------------------------------------------------
(* The subscriptions and their owners.                                     *)

CreateSubscription(s) ==
  /\ Status(s) = "none"
  /\ Change([memory EXCEPT !.status[s] = "active"])
  /\ UNCHANGED <<now, occurred, stored, minted, captured, received, pass, failures, faults>>

(* Everything addressed to the subscription goes with it.                  *)
RevokeSubscription(s) ==
  /\ Status(s) \in {"active", "suspended"}
  /\ Change([status |-> [memory.status EXCEPT ![s] = "revoked"],
             entry |-> [e \in Events |-> [Entry(e) EXCEPT !.to[s] = Unsent]]])
  /\ UNCHANGED <<now, occurred, stored, minted, captured, received, pass, failures, faults>>

Forgiven(delivery) ==
  IF delivery.state = "queued" THEN [delivery EXCEPT !.first = Never] ELSE delivery

ResumeSubscription(s) ==
  /\ Status(s) = "suspended"
  /\ Change([status |-> [memory.status EXCEPT ![s] = "active"],
             entry |-> [e \in Events |-> [Entry(e) EXCEPT !.to[s] = Forgiven(@)]]])
  /\ UNCHANGED <<now, occurred, stored, minted, captured, received, pass, failures, faults>>

-----------------------------------------------------------------------------
(* The outbox.                                                             *)

(* A session opens, closes, is archived: the organizer store has it on     *)
(* record before a pass derives anything from it.                          *)
Occur(e) ==
  /\ e \notin occurred
  /\ occurred' = occurred \cup {e}
  /\ UNCHANGED <<now, memory, stored, pending, minted, captured, received, pass,
                 failures, faults>>

Addressed(s) ==
  IF Status(s) = "active" THEN [Unsent EXCEPT !.state = "queued", !.next = now] ELSE Unsent

(* A faulty dedupe: a tombstone does not count.                            *)
EnqueuesBuried(e) ==
  /\ e \in occurred
  /\ Entry(e).id = NoId \/ Entry(e).pruned
  /\ minted < Cardinality(Ids)
  /\ minted' = minted + 1
  /\ captured' = [captured EXCEPT ![minted'] = {s \in Subs : Status(s) = "active"}]
  /\ Change([memory EXCEPT !.entry[e] =
               [id |-> minted', created |-> now, pruned |-> FALSE,
                to |-> [s \in Subs |-> Addressed(s)]]])
  /\ UNCHANGED <<now, occurred, stored, received, pass, failures, faults>>

EnqueueIfAbsent(e) ==
  /\ e \in occurred
  /\ Entry(e).id = NoId
  /\ minted' = minted + 1
  /\ captured' = [captured EXCEPT ![minted'] = {s \in Subs : Status(s) = "active"}]
  /\ Change([memory EXCEPT !.entry[e] =
               [id |-> minted', created |-> now, pruned |-> FALSE,
                to |-> [s \in Subs |-> Addressed(s)]]])
  /\ UNCHANGED <<now, occurred, stored, received, pass, failures, faults>>

-----------------------------------------------------------------------------
(* A delivery pass.                                                        *)

DueDeliveries ==
  {x \in Events \X Subs : /\ Queued(x[1], x[2]) /\ Entry(x[1]).to[x[2]].next <= now
                          /\ Status(x[2]) = "active"}

Suspendable(s, at) ==
  /\ GiveUp > 0 /\ Status(s) = "active"
  /\ \E e \in Events : /\ Queued(e, s) /\ Entry(e).to[s].first # Never
                       /\ Entry(e).to[s].first + GiveUp <= at

(* A faulty condition: one delivery is enough.                             *)
DeliveredToOne(e) == \E s \in Subs : Entry(e).to[s].state = "delivered"

FullyDelivered(e) ==
  /\ \E s \in Subs : Entry(e).to[s].state = "delivered"
  /\ \A s \in Subs : ~Queued(e, s)

Prunable(e, at) == FullyDelivered(e) /\ ~Entry(e).pruned /\ Entry(e).created + Keep <= at

Sends(p, due, began) ==
  \E x \in due :
    pass' = [pass EXCEPT ![p] = [at |-> "sending", began |-> began, due |-> due \ {x},
                                 item |-> <<x[1], x[2], Entry(x[1]).id>>,
                                 outcome |-> "none"]]

(* What a pass does when nothing is due; without it, it does nothing.      *)
HasChores == (\E s \in Subs : Suspendable(s, now)) \/ (\E e \in Events : Prunable(e, now))

ListDueDeliveries(p) ==
  /\ pass[p].at = "idle"
  /\ \/ Sends(p, DueDeliveries, now)
     \/ /\ DueDeliveries = {} /\ HasChores
        /\ pass' = [pass EXCEPT ![p] = [Resting EXCEPT !.at = "delivering", !.began = now]]
  /\ UNCHANGED <<now, occurred, memory, stored, pending, minted, captured, received,
                 failures, faults>>

(* The list is not looked at again: what was delivered, suspended or       *)
(* revoked since is sent all the same.                                     *)
DeliverOne(p) ==
  /\ pass[p].at = "delivering"
  /\ Sends(p, pass[p].due, pass[p].began)
  /\ UNCHANGED <<now, occurred, memory, stored, pending, minted, captured, received,
                 failures, faults>>

Answered(p, outcome) == pass' = [pass EXCEPT ![p].at = "recording", ![p].outcome = outcome]

Process(p) == received' = [received EXCEPT ![pass[p].item[2]] = @ \cup {pass[p].item[3]}]

Acknowledged(p) ==
  /\ pass[p].at = "sending"
  /\ Process(p)
  /\ Answered(p, "delivered")
  /\ UNCHANGED <<now, occurred, memory, stored, pending, minted, captured, failures, faults>>

(* An error of the endpoint, or an answer that is lost or comes too late.  *)
NotAcknowledged(p) ==
  /\ pass[p].at = "sending"
  /\ failures < MaxFailures
  /\ failures' = failures + 1
  /\ Process(p) \/ UNCHANGED received
  /\ Answered(p, "failed")
  /\ UNCHANGED <<now, occurred, memory, stored, pending, minted, captured, faults>>

NextBackoff(n) == LET d == Retry * 2^(n - 1) IN IF d < MaxBackoff THEN d ELSE MaxBackoff

RecordDeliveryFailure(p) ==
  LET e == pass[p].item[1]  s == pass[p].item[2]  d == Entry(e).to[s] IN
  IF Queued(e, s)
  THEN Deliver(e, s, [d EXCEPT !.attempts = @ + 1,
                               !.first = IF @ = Never THEN now ELSE @,
                               !.next = pass[p].began + NextBackoff(d.attempts + 1)])
  ELSE UNCHANGED <<memory, pending>>

RecordDeliverySuccess(p) ==
  LET e == pass[p].item[1]  s == pass[p].item[2] IN
  IF Queued(e, s)
  THEN Deliver(e, s, [Entry(e).to[s] EXCEPT !.state = "delivered"])
  ELSE UNCHANGED <<memory, pending>>

(* What the list has left is taken after the write of the record.          *)
Record(p) ==
  /\ pass[p].at = "recording"
  /\ IF pass[p].outcome = "delivered"
     THEN RecordDeliverySuccess(p) ELSE RecordDeliveryFailure(p)
  /\ pass' = [pass EXCEPT ![p].at = "delivering", ![p].item = << >>, ![p].outcome = "none"]
  /\ UNCHANGED <<now, occurred, stored, minted, captured, received, failures, faults>>

SuspendableSubscriptions(p) ==
  IF pass[p].at = "suspending" THEN pass[p].due
  ELSE {s \in Subs : Suspendable(s, pass[p].began)}

Delivered(p) ==
  \/ pass[p].at = "delivering" /\ pass[p].due = {}
  \/ pass[p].at = "suspending"

(* The list is made once; the write of one suspension is awaited before    *)
(* the next.                                                               *)
SuspendSubscription(p) ==
  /\ Delivered(p)
  /\ \E s \in SuspendableSubscriptions(p) :
       /\ IF Status(s) = "active"
          THEN Change([memory EXCEPT !.status[s] = "suspended"])
          ELSE UNCHANGED <<memory, pending>>
       /\ pass' = [pass EXCEPT ![p].at = "suspending",
                               ![p].due = SuspendableSubscriptions(p) \ {s}]
  /\ UNCHANGED <<now, occurred, stored, minted, captured, received, failures, faults>>

Tombstone(e) == [Entry(e) EXCEPT !.pruned = TRUE, !.to = [s \in Subs |-> Unsent]]

PruneDeliveredEntries(p) ==
  LET old == {e \in Events : Prunable(e, pass[p].began)} IN
  /\ Delivered(p) /\ SuspendableSubscriptions(p) = {}
  /\ memory' = [memory EXCEPT !.entry =
                  [e \in Events |-> IF e \in old THEN Tombstone(e) ELSE Entry(e)]]
  /\ pending' = (pending \/ old # {})
  /\ pass' = [pass EXCEPT ![p] = Resting]
  /\ UNCHANGED <<now, occurred, stored, minted, captured, received, failures, faults>>

-----------------------------------------------------------------------------
(* The clock, the documents, the process.                                  *)

(* A pass is tried before time goes on.                                    *)
Tick ==
  /\ now < Horizon
  /\ DueDeliveries = {} /\ ~HasChores
  /\ \A p \in Passes : pass[p].at = "idle"
  /\ now' = now + 1
  /\ UNCHANGED <<occurred, memory, stored, pending, minted, captured, received, pass,
                 failures, faults>>

Persist ==
  /\ pending
  /\ stored' = memory
  /\ pending' = FALSE
  /\ UNCHANGED <<now, occurred, memory, minted, captured, received, pass, failures, faults>>

Fault == faults < MaxFaults /\ faults' = faults + 1

PersistFails ==
  /\ pending
  /\ Fault
  /\ pending' = FALSE
  /\ UNCHANGED <<now, occurred, memory, stored, minted, captured, received, pass, failures>>

Crash ==
  /\ Fault
  /\ memory' = stored
  /\ pending' = FALSE
  /\ pass' = [p \in Passes |-> Resting]
  /\ UNCHANGED <<now, occurred, stored, minted, captured, received, failures>>

Owner(s) == CreateSubscription(s) \/ RevokeSubscription(s) \/ ResumeSubscription(s)

Pass(p) ==
  \/ ListDueDeliveries(p) \/ DeliverOne(p) \/ Acknowledged(p) \/ NotAcknowledged(p)
  \/ Record(p) \/ SuspendSubscription(p) \/ PruneDeliveredEntries(p)

Next ==
  \/ \E s \in Subs : Owner(s)
  \/ \E e \in Events : Occur(e) \/ EnqueueIfAbsent(e)
  \/ \E p \in Passes : Pass(p)
  \/ Tick \/ Persist \/ PersistFails \/ Crash

Spec == Init /\ [][Next]_vars

-----------------------------------------------------------------------------
(* Properties.                                                             *)

(* A subscription an entry was captured with has processed it, has it      *)
(* queued, or was revoked: in memory as on disk, through failures, late    *)
(* answers, suspensions, resumptions, prunings and crashes (pipeline.mjs:  *)
(* 278, store.mjs:598).                                                    *)
NothingIsLost ==
  \A m \in {memory, stored} : \A e \in Events :
    m.entry[e].id # NoId =>
      \A s \in captured[m.entry[e].id] :
        \/ m.entry[e].id \in received[s]
        \/ m.entry[e].to[s].state = "queued"
        \/ m.status[s] = "revoked"

(* The id of an event that is on disk is its id for good: restarts, passes *)
(* derived again and tombstones never make a second one (store.mjs:435).   *)
StableOnceStored ==
  [][\A e \in Events : stored.entry[e].id # NoId
       => stored'.entry[e].id = stored.entry[e].id]_vars
=============================================================================
