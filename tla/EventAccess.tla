------------------------------ MODULE EventAccess ------------------------------
(***************************************************************************)
(* Who may be on one event's board: memberships and Event Bans, the Entry  *)
(* Grants an integration hands out, the moderators' dispositions and the   *)
(* connections they evict.                                                 *)
(*                                                                         *)
(* Three stores keep this, each with its own maps in memory, documents and *)
(* queue of writes: memberships with bans, credentials with grants, and    *)
(* the moderation log.  A call changes the maps at once and then waits for *)
(* a write of its own; what it does next, in the next store or on the      *)
(* board, it does when that write is done.  Requests of different people   *)
(* interleave at those waits, a write may fail under any of them, and the  *)
(* process may stop and load what is stored.                               *)
(*                                                                         *)
(* The session is open.  Seats, the Entry Lock and the role of a           *)
(* connection are SeatAdmission's: here a handshake may end at any time.   *)
(* The file adapter is modelled: it replaces one document after the other. *)
(***************************************************************************)
EXTENDS Naturals, Sequences, FiniteSets

CONSTANTS
    Accounts,   \* the participants; moderators are not among them
    Grants,     \* Entry Grants of one API Credential
    Sockets,    \* connections
    OwnerOf,    \* [Sockets -> Accounts]
    Calls,      \* the requests being served at once
    NoOne,      \* no account
    MaxFaults   \* bound: failed writes and restarts

ASSUME AccessAssumption == OwnerOf \in [Sockets -> Accounts] /\ MaxFaults \in Nat

VARIABLES
    memberships, bans,   \* the membership store: sets of accounts
    credential,          \* "active" or "revoked"
    grants,              \* [Grants -> status and who redeemed it]
    disk,                \* what is stored
    queue,               \* of each store, the calls that wait for a write, in order
    job,                 \* of each store, the write under way
    calls,               \* what each request is doing
    sockets,             \* [Sockets -> "away", "admitted", "live" or "leaving"]
    faults,
    \* Told by no store: what the properties remember.
    handed,              \* grants whose token left the service
    admitted,            \* [Grants -> the accounts it made a member]
    dead,                \* grants still open when a revocation was confirmed
    outlawed,            \* a ban was confirmed, and no admission since
    lifted,              \* an unban has begun since that ban was confirmed
    raced,               \* made a member while banned
    spared               \* connections a ban did not evict

access   == <<memberships, bans>>
issuing  == <<credential, grants>>
storing  == <<disk, queue, job>>
memory   == <<handed, admitted, dead, outlawed, lifted, raced, spared>>
vars     == <<access, issuing, storing, calls, sockets, faults, memory>>

Stores == {"memberships", "integrations", "moderation"}
Idle   == [op |-> "none", on |-> NoOne, grant |-> {}, had |-> FALSE, overtaken |-> FALSE]
NoJob  == [at |-> 0, members |-> {}, bans |-> {}, known |-> {}]
Unmade == [status |-> "none", by |-> NoOne]

\* How many documents a store's write replaces, one after the other.
Documents(store) == IF store = "integrations" THEN 2 ELSE 1

Live(s)     == sockets[s] \in {"live", "leaving"}
SocketsOf(a) == {s \in Sockets : OwnerOf[s] = a}
Existing    == {g \in Grants : grants[g].status # "none"}

Init ==
    /\ memberships = {} /\ bans = {}
    /\ credential = "active"
    /\ grants = [g \in Grants |-> Unmade]
    /\ disk = [members |-> {}, bans |-> {}, credential |-> "active",
               grants |-> [g \in Grants |-> Unmade]]
    /\ queue = [s \in Stores |-> << >>]
    /\ job = [s \in Stores |-> NoJob]
    /\ calls = [c \in Calls |-> Idle]
    /\ sockets = [s \in Sockets |-> "away"]
    /\ faults = 0
    /\ handed = {} /\ dead = {}
    /\ admitted = [g \in Grants |-> {}]
    /\ outlawed = {} /\ lifted = {} /\ raced = {} /\ spared = {}

EnqueueWrite(store, c) == queue' = [queue EXCEPT ![store] = Append(@, c)]

Begin(c, op, a, g, had) ==
    /\ calls[c] = Idle
    /\ calls' = [calls EXCEPT ![c] =
                    [op |-> op, on |-> a, grant |-> g, had |-> had, overtaken |-> FALSE]]

-----------------------------------------------------------------------------
\* Memberships.

\* The account was let in: it is no outlaw any more, unless it is banned still.
NoteAdmission(a) ==
    /\ outlawed' = IF a \in bans THEN outlawed ELSE outlawed \ {a}
    /\ raced' = IF a \in bans THEN raced \cup {a} ELSE raced

(***************************************************************************)
(* The Access Code at the event page (serveEventEnter, admit): the ban is  *)
(* read and the membership made without a wait between them.  A member     *)
(* changes nothing.                                                        *)
(***************************************************************************)
Enter(c, a) ==
    /\ a \notin bans /\ a \notin memberships
    /\ Begin(c, "enter", a, {}, FALSE)
    /\ memberships' = memberships \cup {a}
    /\ NoteAdmission(a)
    /\ EnqueueWrite("memberships", c)
    /\ UNCHANGED <<bans, issuing, disk, job, sockets, faults,
                   handed, admitted, dead, lifted, spared>>

\* A moderator on the board bans whom it sees there (handleHostedModerationActionMessage,
\* applyModeration, banEvent): the membership is revoked with it.
Ban(c, s) ==
    LET a == OwnerOf[s] IN
    /\ Live(s)
    /\ Begin(c, "ban", a, {}, FALSE)
    /\ memberships' = memberships \ {a}
    /\ bans' = bans \cup {a}
    /\ EnqueueWrite("memberships", c)
    /\ UNCHANGED <<issuing, disk, job, sockets, faults, memory>>

\* The bans of an account that are not answered yet are lifted with it.
BeginUnban(c, a) ==
    /\ a \in bans /\ calls[c] = Idle
    /\ calls' = [d \in Calls |->
          IF d = c THEN [Idle EXCEPT !.op = "unban", !.on = a]
          ELSE [calls[d] EXCEPT !.overtaken = @ \/ (calls[d].op = "ban" /\ calls[d].on = a)]]
    /\ lifted' = lifted \cup {a}

\* A faulty unban: the account gets its membership back.
UnbanReadmits(c, a) ==
    /\ BeginUnban(c, a)
    /\ bans' = bans \ {a}
    /\ memberships' = memberships \cup {a}
    /\ EnqueueWrite("memberships", c)
    /\ UNCHANGED <<issuing, disk, job, sockets, faults,
                   handed, admitted, dead, outlawed, raced, spared>>

\* Lifting a ban (applyUnban, unbanEvent): eligible again, not a member again.
Unban(c, a) ==
    /\ BeginUnban(c, a)
    /\ bans' = bans \ {a}
    /\ EnqueueWrite("memberships", c)
    /\ UNCHANGED <<memberships, issuing, disk, job, sockets, faults,
                   handed, admitted, dead, outlawed, raced, spared>>

\* A kick is only recorded before it evicts.
Kick(c, s) ==
    /\ Live(s)
    /\ Begin(c, "kick", OwnerOf[s], {}, FALSE)
    /\ EnqueueWrite("moderation", c)
    /\ UNCHANGED <<access, issuing, disk, job, sockets, faults, memory>>

-----------------------------------------------------------------------------
\* Integrations.

\* An integration asks for a grant; the token leaves with the answer.
CreateEntryGrant(c, g) ==
    /\ credential = "active" /\ grants[g] = Unmade
    /\ Begin(c, "issue", NoOne, {g}, FALSE)
    /\ grants' = [grants EXCEPT ![g].status = "open"]
    /\ EnqueueWrite("integrations", c)
    /\ UNCHANGED <<access, credential, disk, job, sockets, faults, memory>>

\* Its ten minutes are over.
Expire(g) ==
    /\ grants[g].status = "open"
    /\ grants' = [grants EXCEPT ![g].status = "expired"]
    /\ disk' = [disk EXCEPT !.grants[g].status = IF @ = "open" THEN "expired" ELSE @]
    /\ UNCHANGED <<access, credential, queue, job, calls, sockets, faults, memory>>

\* A second revocation finds the credential revoked and writes nothing.
RevokeCredential(c) ==
    /\ credential = "active"
    /\ Begin(c, "revoke", NoOne, {}, FALSE)
    /\ credential' = "revoked"
    /\ EnqueueWrite("integrations", c)
    /\ UNCHANGED <<access, grants, disk, job, sockets, faults, memory>>

\* A faulty redemption: it admits first and writes the grant afterwards.
AdmitsBeforeTheWrite(c, a, g) ==
    /\ g \in handed /\ grants[g].status = "open"
    /\ credential = "active" /\ a \notin bans
    /\ Begin(c, "redeem", a, {g}, TRUE)
    /\ grants' = [grants EXCEPT ![g] = [status |-> "redeemed", by |-> a]]
    /\ memberships' = memberships \cup {a}
    /\ admitted' = [admitted EXCEPT ![g] = @ \cup {a}]
    /\ NoteAdmission(a)
    /\ EnqueueWrite("integrations", c)
    /\ UNCHANGED <<bans, credential, disk, job, sockets, faults,
                   handed, dead, lifted, spared>>

(***************************************************************************)
(* The browser's exchange of a grant (serveEventEntryGrantRedeem,          *)
(* redeemEntryGrant): ban and membership are read and the grant is used up *)
(* in one go; whether to admit is decided then and done after the write.   *)
(***************************************************************************)
RedeemEntryGrant(c, a, g) ==
    /\ g \in handed /\ grants[g].status = "open"
    /\ credential = "active" /\ a \notin bans
    /\ Begin(c, "redeem", a, {g}, a \in memberships)
    /\ grants' = [grants EXCEPT ![g] = [status |-> "redeemed", by |-> a]]
    /\ EnqueueWrite("integrations", c)
    /\ UNCHANGED <<access, credential, disk, job, sockets, faults, memory>>

-----------------------------------------------------------------------------
\* What a call does when its write is done.

Answered(c) == calls' = [calls EXCEPT ![c] = Idle]

\* The grant is stored as used: the account becomes a member, whatever was
\* decided about it meanwhile.
AdmitRedeemed(c) ==
    LET a == calls[c].on IN
    /\ memberships' = memberships \cup {a}
    /\ admitted' = [g \in Grants |->
                     IF g \in calls[c].grant THEN admitted[g] \cup {a} ELSE admitted[g]]
    /\ NoteAdmission(a)
    /\ IF a \in memberships
         THEN Answered(c) /\ queue' = [queue EXCEPT !["integrations"] = Tail(@)]
         ELSE /\ queue' = [queue EXCEPT !["integrations"] = Tail(@),
                                        !["memberships"] = Append(@, c)]
              /\ UNCHANGED calls
    /\ UNCHANGED <<bans, issuing, sockets, handed, dead, lifted, spared>>

\* A faulty eviction: only one of the account's connections is told to leave.
EvictsOne(a) ==
    \E t \in SocketsOf(a) :
        sockets' = [sockets EXCEPT ![t] = IF @ = "live" THEN "leaving" ELSE @]

\* Every connection the account has in the table is told to leave, and closed
\* when it answers or the timeout is over (evictEventAccount,
\* notifyModerationDisconnectThenClose).
EvictEventAccount(a) ==
    sockets' = [s \in Sockets |->
        IF OwnerOf[s] = a /\ sockets[s] = "live" THEN "leaving" ELSE sockets[s]]

\* The disposition is in the log: its effect on the board, and the answer.
\* A handshake under way is in no table yet.
Disposed(c) ==
    LET a == calls[c].on IN
    /\ IF calls[c].op = "unban" THEN UNCHANGED sockets ELSE EvictEventAccount(a)
    /\ IF calls[c].op = "ban" /\ ~calls[c].overtaken
         THEN /\ outlawed' = outlawed \cup {a}
              /\ lifted' = lifted \ {a}
              /\ raced' = IF a \in memberships \cup disk.members \cup job["memberships"].members
                            THEN raced ELSE raced \ {a}
         ELSE UNCHANGED <<outlawed, lifted, raced>>
    /\ spared' = IF calls[c].op = "ban"
                   THEN spared \cup {s \in SocketsOf(a) : sockets[s] = "admitted"} ELSE spared
    /\ Answered(c)
    /\ queue' = [queue EXCEPT !["moderation"] = Tail(@)]
    /\ UNCHANGED <<access, issuing, handed, admitted, dead>>

\* Goes on with the call whose write of a store is done.
Continue(store, c) ==
    CASE store = "moderation" -> Disposed(c)
      [] store = "memberships" /\ calls[c].op \in {"ban", "unban"} ->
            /\ queue' = [queue EXCEPT !["memberships"] = Tail(@),
                                      !["moderation"] = Append(@, c)]
            /\ UNCHANGED <<access, issuing, calls, sockets, memory>>
      [] store = "integrations" /\ calls[c].op = "redeem" /\ ~calls[c].had ->
            AdmitRedeemed(c)
      [] OTHER ->
            /\ queue' = [queue EXCEPT ![store] = Tail(@)]
            /\ Answered(c)
            /\ handed' = IF calls[c].op = "issue" THEN handed \cup calls[c].grant ELSE handed
            /\ dead' = IF calls[c].op = "revoke"
                         THEN dead \cup {g \in Grants : grants[g].status = "open"} ELSE dead
            /\ UNCHANGED <<access, issuing, sockets,
                           admitted, outlawed, lifted, raced, spared>>

-----------------------------------------------------------------------------
\* The writes of a store, one at a time.

\* Which records are written is fixed when the write starts (persistNow).
PersistNow(store) ==
    /\ job[store].at = 0 /\ queue[store] # << >>
    /\ job' = [job EXCEPT ![store] =
                 [at |-> 1,
                  members |-> IF store = "memberships" THEN memberships ELSE {},
                  bans |-> IF store = "memberships" THEN bans ELSE {},
                  known |-> IF store = "integrations" THEN Existing ELSE {}]]
    /\ UNCHANGED <<access, issuing, disk, queue, calls, sockets, faults, memory>>

\* One document replaced; what a grant or the credential says is read now.
Replaced(store) ==
    CASE store = "memberships" ->
            [disk EXCEPT !.members = job[store].members, !.bans = job[store].bans]
      [] store = "integrations" /\ job[store].at = 1 ->
            [disk EXCEPT !.credential = credential]
      [] store = "integrations" /\ job[store].at = 2 ->
            [disk EXCEPT !.grants = [g \in Grants |->
                IF g \in job[store].known THEN grants[g] ELSE Unmade]]
      [] OTHER -> disk

WriteDocument(store) ==
    /\ job[store].at > 0
    /\ disk' = Replaced(store)
    /\ IF job[store].at < Documents(store)
         THEN /\ job' = [job EXCEPT ![store].at = @ + 1]
              /\ UNCHANGED <<access, issuing, queue, calls, sockets, memory>>
         ELSE /\ job' = [job EXCEPT ![store] = NoJob]
              /\ Continue(store, Head(queue[store]))
    /\ UNCHANGED faults

(***************************************************************************)
(* A write fails: the maps keep the change, the request ends with an error *)
(* and does nothing of what it still meant to do.  The next write goes on. *)
(***************************************************************************)
WriteFails(store) ==
    /\ job[store].at > 0 /\ faults < MaxFaults
    /\ faults' = faults + 1
    /\ job' = [job EXCEPT ![store] = NoJob]
    /\ queue' = [queue EXCEPT ![store] = Tail(@)]
    /\ LET c == Head(queue[store]) IN
         /\ Answered(c)
         /\ spared' = IF calls[c].op = "ban"
                        THEN spared \cup {s \in SocketsOf(calls[c].on) : sockets[s] # "away"}
                        ELSE spared
    /\ UNCHANGED <<access, issuing, disk, sockets,
                   handed, admitted, dead, outlawed, lifted, raced>>

\* The process stops and loads what is stored (ensureLoaded).
Restart ==
    /\ faults < MaxFaults
    /\ faults' = faults + 1
    /\ memberships' = disk.members /\ bans' = disk.bans
    /\ credential' = disk.credential /\ grants' = disk.grants
    /\ queue' = [s \in Stores |-> << >>]
    /\ job' = [s \in Stores |-> NoJob]
    /\ calls' = [c \in Calls |-> Idle]
    /\ sockets' = [s \in Sockets |-> "away"]
    /\ spared' = {}
    /\ UNCHANGED <<disk, handed, admitted, dead, outlawed, lifted, raced>>

-----------------------------------------------------------------------------
\* Connections.

\* The verdict of a handshake (admitEventBoard): a member, and not banned.
AdmitHostedSocket(s) ==
    /\ sockets[s] = "away"
    /\ OwnerOf[s] \in memberships /\ OwnerOf[s] \notin bans
    /\ sockets' = [sockets EXCEPT ![s] = "admitted"]
    /\ UNCHANGED <<access, issuing, storing, calls, faults, memory>>

\* Its replay is there, it enters the table; the verdict stands.
HandleSocketConnection(s) ==
    /\ sockets[s] = "admitted"
    /\ sockets' = [sockets EXCEPT ![s] = "live"]
    /\ UNCHANGED <<access, issuing, storing, calls, faults, memory>>

\* It closes, is refused a seat or is closed after its notice.
SocketGone(s) ==
    /\ sockets[s] # "away"
    /\ sockets' = [sockets EXCEPT ![s] = "away"]
    /\ spared' = spared \ {s}
    /\ UNCHANGED <<access, issuing, storing, calls, faults,
                   handed, admitted, dead, outlawed, lifted, raced>>

Serve(c) ==
    \/ \E a \in Accounts : Enter(c, a) \/ Unban(c, a)
    \/ \E s \in Sockets : Ban(c, s) \/ Kick(c, s)
    \/ \E g \in Grants : CreateEntryGrant(c, g)
    \/ \E a \in Accounts, g \in Grants : RedeemEntryGrant(c, a, g)
    \/ RevokeCredential(c)

Next ==
    \/ \E c \in Calls : Serve(c)
    \/ \E g \in Grants : Expire(g)
    \/ \E store \in Stores : PersistNow(store) \/ WriteDocument(store) \/ WriteFails(store)
    \/ Restart
    \/ \E s \in Sockets :
         AdmitHostedSocket(s) \/ HandleSocketConnection(s) \/ SocketGone(s)

Spec == Init /\ [][Next]_vars

-----------------------------------------------------------------------------

Grant == [status : {"none", "open", "redeemed", "expired"}, by : Accounts \cup {NoOne}]
Call  == [op : {"none", "enter", "ban", "unban", "kick", "issue", "revoke", "redeem"},
          on : Accounts \cup {NoOne}, grant : SUBSET Grants,
          had : BOOLEAN, overtaken : BOOLEAN]
Stored == [members : SUBSET Accounts, bans : SUBSET Accounts,
           credential : {"active", "revoked"}, grants : [Grants -> Grant]]
Write == [at : 0..2, members : SUBSET Accounts, bans : SUBSET Accounts, known : SUBSET Grants]

\* Every variable holds what the maps, documents and queues of its store may hold.
TypeOK ==
    /\ memberships \in SUBSET Accounts /\ bans \in SUBSET Accounts
    /\ credential \in {"active", "revoked"}
    /\ grants \in [Grants -> Grant]
    /\ disk \in Stored
    /\ queue \in [Stores -> Seq(Calls)]
    /\ job \in [Stores -> Write]
    /\ calls \in [Calls -> Call]
    /\ \A c \in Calls : calls[c].op \notin {"none", "issue", "revoke"} => calls[c].on \in Accounts
    /\ sockets \in [Sockets -> {"away", "admitted", "live", "leaving"}]
    /\ faults \in Nat
    /\ handed \in SUBSET Grants /\ dead \in SUBSET Grants
    /\ admitted \in [Grants -> SUBSET Accounts]
    /\ outlawed \in SUBSET Accounts /\ lifted \in SUBSET Accounts /\ raced \in SUBSET Accounts
    /\ spared \in SUBSET Sockets

(***************************************************************************)
(* An Entry Grant makes one account a member at most, whatever overlaps,   *)
(* fails or restarts: a grant a restart gives back has admitted nobody.    *)
(* One still open when the revocation of its credential was confirmed      *)
(* admits nobody at all (redeemEntryGrant, revokeCredential,               *)
(* serveEventEntryGrantRedeem).                                            *)
(***************************************************************************)
GrantsAreSpentOnce ==
    \A g \in Grants : Cardinality(admitted[g]) <= IF g \in dead THEN 0 ELSE 1

(***************************************************************************)
(* A confirmed ban holds: until an unban it is in memory and in storage,   *)
(* and no restart, lifted ban or write that was queued before makes the    *)
(* account a member again until it is admitted anew.  The exception is a   *)
(* redemption that was waiting for its write when the ban fell, which      *)
(* admits the banned account (banEvent, unbanEvent, admit).                *)
(***************************************************************************)
OutlawedStaysOut ==
    \A a \in outlawed :
        /\ a \in raced \/ a \notin memberships \cup disk.members
        /\ a \in lifted \/ a \in bans \cap disk.bans

\* A write over an admitted connection asks again about bans, and about nothing
\* else of an account (revalidateSocketWrite).
CanWrite(s) == sockets[s] = "live" /\ OwnerOf[s] \notin bans

(***************************************************************************)
(* Whoever can write is a member: no connection outlives the membership of *)
(* its account, although a write does not ask for it.  A ban still waiting *)
(* for its writes has evicted nobody yet; one whose write failed never     *)
(* does, and a handshake under way is not in the table it goes through.    *)
(***************************************************************************)
WritersBelong ==
    \A s \in Sockets : CanWrite(s) =>
        \/ OwnerOf[s] \in memberships
        \/ s \in spared
        \/ \E c \in Calls : calls[c].op = "ban" /\ calls[c].on = OwnerOf[s]

=============================================================================
