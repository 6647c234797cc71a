--------------------------- MODULE SeatAdmission ----------------------------
(***************************************************************************)
(* Who may sit and who may write on a hosted board: the handshake of a     *)
(* connection (server/socket/index.mjs) against the admission decision     *)
(* (server/hosted_event/admission/index.mjs) and the seat registry, with   *)
(* the entry lock, Event Moderator grants and the refresh of live          *)
(* connections that a revoked grant sets off.                              *)
(*                                                                         *)
(* A handshake is admitted, replays the board, and only then is registered *)
(* with the seats: other handshakes, disconnects, locks and grants happen  *)
(* in between.  The Board Session is open throughout.                      *)
(***************************************************************************)
EXTENDS SeatRegistry

CONSTANTS
  Owner,        \* the account each socket belongs to
  Moderatable,  \* BOUND: the accounts a grant is given to and taken from
  Lockable,     \* BOUND: whether the organizer uses the Entry Lock
  Yields        \* whether a refresh may have to wait for the board's load

ASSUME SeatAssumption ==
  /\ Owner \in [Sockets -> Accounts]
  /\ Moderatable \subseteq Accounts
  /\ Lockable \in BOOLEAN
  /\ Yields \in BOOLEAN
  /\ NoSocket \notin Sockets
  /\ SeatCount \in Nat
  /\ IsFiniteSet(Accounts)

VARIABLES
  seats,        \* the registry: each account's seat
  sock,         \* each connection: phase, admitted role, current role
  active,       \* activeSockets, which are also the users of the board
  moderators,   \* accounts with an Event Moderator grant
  locked,       \* the event's Entry Lock
  revoked,      \* accounts whose revoked grant is stored and no more
  refreshing    \* connections a revoked grant still has to refresh

vars == << seats, sock, active, moderators, locked, revoked, refreshing >>

Phases == {"idle", "admitted", "connected", "closed"}
Roles  == {"none", "governor", "editor", "reader"}

\* `role' is hostedEventAdmission.role, `pinned' hostedBoardRole, and `known'
\* whether the admission carries the socket id it was registered under.
Connection == [phase : Phases, role : Roles, pinned : Roles, known : BOOLEAN]
Fresh      == [phase |-> "idle", role |-> "none", pinned |-> "none", known |-> FALSE]

TypeOK ==
  /\ seats \in [Accounts -> Seat]
  /\ sock \in [Sockets -> Connection]
  /\ active \subseteq Sockets
  /\ moderators \subseteq Accounts
  /\ locked \in BOOLEAN
  /\ revoked \subseteq Accounts
  /\ refreshing \subseteq Sockets

Init ==
  /\ seats = [a \in Accounts |-> Absent]
  /\ sock = [s \in Sockets |-> Fresh]
  /\ active = {}
  /\ moderators = {}
  /\ locked = FALSE
  /\ revoked = {}
  /\ refreshing = {}

-----------------------------------------------------------------------------
(* The admission decision, taken on a registry whose expired seats have     *)
(* just been released (a governor's and a locked-out account's is taken     *)
(* before that, which no one can tell).                                     *)

Governs(a)   == a \in moderators
LockedOut(a) == locked /\ ~Holds(seats[a])

Admits(a) == Governs(a) \/ (~LockedOut(a) /\ PreviewAdmits(Released(seats), a))

RoleOf(a) ==
  IF Governs(a) THEN "governor"
  ELSE IF PreviewWritable(Released(seats), a) THEN "editor" ELSE "reader"

\* Nothing runs between two steps of a refresh that does not wait.
Awake == Yields \/ refreshing = {}

Close(s) == [sock EXCEPT ![s].phase = "closed"]

-----------------------------------------------------------------------------
(* A connection's life.                                                     *)

Admit(s) ==
  /\ Awake
  /\ sock[s].phase = "idle"
  /\ seats' = Released(seats)
  /\ sock' = IF Admits(Owner[s])
             THEN [sock EXCEPT ![s] = [phase |-> "admitted", role |-> RoleOf(Owner[s]),
                                       pinned |-> RoleOf(Owner[s]), known |-> FALSE]]
             ELSE Close(s)
  /\ UNCHANGED << active, moderators, locked, revoked, refreshing >>

\* The client gives up, or replay fails.
Abort(s) ==
  /\ Awake
  /\ sock[s].phase = "admitted"
  /\ sock' = Close(s)
  /\ UNCHANGED << seats, active, moderators, locked, revoked, refreshing >>

\* handleSocketConnection: the connection becomes active and is registered with
\* the seats, unless it governs.
ConnectGovernor(s) ==
  /\ Awake
  /\ sock[s].phase = "admitted"
  /\ sock[s].role = "governor"
  /\ sock' = [sock EXCEPT ![s].phase = "connected", ![s].known = TRUE]
  /\ active' = active \cup {s}
  /\ UNCHANGED << seats, moderators, locked, revoked, refreshing >>

\* Mutant of ConnectMember: the admission never learns its socket id.
LosesSocketId(s) ==
  /\ Awake
  /\ sock[s].phase = "admitted"
  /\ sock[s].role # "governor"
  /\ ConnectAdmits(seats, Owner[s])
  /\ seats' = [seats EXCEPT ![Owner[s]] = Joined(@, s)]
  /\ sock' = [sock EXCEPT ![s].phase = "connected"]
  /\ active' = active \cup {s}
  /\ UNCHANGED << moderators, locked, revoked, refreshing >>

ConnectMember(s) ==
  LET a == Owner[s] seat == Joined(seats[a], s) IN
  /\ Awake
  /\ sock[s].phase = "admitted"
  /\ sock[s].role # "governor"
  /\ ConnectAdmits(seats, a)
  /\ seats' = [seats EXCEPT ![a] = seat]
  /\ sock' = [sock EXCEPT ![s] = [phase |-> "connected", role |-> sock[s].role,
                 pinned |-> IF seats[a].writer = NoSocket THEN "editor" ELSE "reader",
                 known |-> TRUE]]
  /\ active' = active \cup {s}
  /\ UNCHANGED << moderators, locked, revoked, refreshing >>

\* The last seat went to somebody else meanwhile.  The socket is disconnected
\* before its disconnecting handler is in place, and joins the board after.
ConnectRefused(s) ==
  /\ Awake
  /\ sock[s].phase = "admitted"
  /\ sock[s].role # "governor"
  /\ ~ConnectAdmits(seats, Owner[s])
  /\ sock' = Close(s)
  /\ active' = active \cup {s}
  /\ UNCHANGED << seats, moderators, locked, revoked, refreshing >>

\* Mutant of Gone: the seat is not released.
KeepsSeat(s) ==
  /\ active' = active \ {s}
  /\ sock' = Close(s)
  /\ UNCHANGED seats

\* The disconnecting handler: the seat is released and the companion that is
\* promoted becomes an editor.
Gone(s) ==
  LET a == Owner[s] IN
  /\ active' = active \ {s}
  /\ IF ~Connected(seats[a], s)
     THEN sock' = Close(s) /\ UNCHANGED seats
     ELSE LET seat == Left(seats[a], s) IN
          /\ seats' = [seats EXCEPT ![a] = seat]
          /\ sock' = IF /\ seats[a].writer = s /\ seat.writer # NoSocket
                        /\ seat.writer \in active /\ sock[seat.writer].role # "governor"
                     THEN [Close(s) EXCEPT ![seat.writer].pinned = "editor"]
                     ELSE Close(s)

Disconnect(s) ==
  /\ Awake
  /\ sock[s].phase = "connected"
  /\ Gone(s)
  /\ UNCHANGED << moderators, locked, revoked, refreshing >>

-----------------------------------------------------------------------------
(* What happens to the event meanwhile.                                     *)

Expire(a) ==
  /\ Awake
  /\ seats[a].conns = << >> /\ seats[a].grace = "running"
  /\ seats' = [seats EXCEPT ![a].grace = "over"]
  /\ UNCHANGED << sock, active, moderators, locked, revoked, refreshing >>

SetLock ==
  /\ Awake
  /\ Lockable
  /\ locked' = ~locked
  /\ UNCHANGED << seats, sock, active, moderators, revoked, refreshing >>

\* A grant touches no live connection.
Grant(a) ==
  /\ Awake
  /\ a \in Moderatable
  /\ ~Governs(a)
  /\ moderators' = moderators \cup {a}
  /\ UNCHANGED << seats, sock, active, locked, revoked, refreshing >>

\* A revoked grant is stored first and then has the account's live connections
\* refreshed.  (BOUND: the next one waits until they all are.)
Revoke(a) ==
  /\ Awake
  /\ Governs(a)
  /\ a \notin revoked
  /\ \A s \in refreshing : Owner[s] # a
  /\ moderators' = moderators \ {a}
  /\ revoked' = revoked \cup {a}
  /\ UNCHANGED << seats, sock, active, locked, refreshing >>

-----------------------------------------------------------------------------
(* refreshHostedSocketAdmission, which decides again about one connection: it  *)
(* keeps it, takes it to the registry, or drops it.                            *)

\* A verdict that changed the role of a member connection takes it to the
\* registry, which cannot refuse what the preview has just admitted.
Rejoins(s) == RoleOf(Owner[s]) \notin {"governor", sock[s].role}

\* The new verdict does not carry a socket id.
Refreshed(s, pinned) ==
  [sock EXCEPT ![s] = [phase |-> sock[s].phase, role |-> RoleOf(Owner[s]),
                       pinned |-> pinned, known |-> FALSE]]

RefreshKeeps(s) ==
  /\ Admits(Owner[s])
  /\ ~Rejoins(s)
  /\ seats' = Released(seats)
  /\ sock' = Refreshed(s, RoleOf(Owner[s]))
  /\ UNCHANGED active

RefreshRejoins(s) ==
  LET a == Owner[s] now == Released(seats) IN
  /\ Admits(a)
  /\ Rejoins(s)
  /\ seats' = [now EXCEPT ![a] = Joined(now[a], s)]
  /\ sock' = Refreshed(s, IF now[a].writer = NoSocket THEN "editor" ELSE "reader")
  /\ UNCHANGED active

RefreshDrops(s) ==
  /\ ~Admits(Owner[s])
  /\ IF sock[s].phase = "connected" THEN Gone(s) ELSE UNCHANGED << seats, sock, active >>

RefreshOne(s) == RefreshKeeps(s) \/ RefreshRejoins(s) \/ RefreshDrops(s)

\* refreshEventAccountAccess goes through the connections that are active when
\* it starts: the first one at once, each other one after an await of the board,
\* which lets others run only when that board is being loaded.
BeginRefresh(a) ==
  LET those == {s \in active : Owner[s] = a} IN
  /\ Awake
  /\ a \in revoked
  /\ revoked' = revoked \ {a}
  /\ IF those = {} THEN UNCHANGED << seats, sock, active, refreshing >>
     ELSE \E s \in those : RefreshOne(s) /\ refreshing' = refreshing \cup (those \ {s})
  /\ UNCHANGED << moderators, locked >>

Refresh(s) ==
  /\ s \in refreshing
  /\ RefreshOne(s)
  /\ refreshing' = refreshing \ {s}
  /\ UNCHANGED << moderators, locked, revoked >>

-----------------------------------------------------------------------------

Connections ==
  \E s \in Sockets : \/ Admit(s) \/ Abort(s)
                    \/ ConnectGovernor(s) \/ ConnectMember(s) \/ ConnectRefused(s)
                    \/ Disconnect(s)

Organizer == SetLock \/ \E a \in Accounts : Grant(a) \/ Revoke(a) \/ BeginRefresh(a)

Next ==
  \/ Connections
  \/ Organizer
  \/ \E a \in Accounts : Expire(a)
  \/ \E s \in Sockets : Refresh(s)

Spec == Init /\ [][Next]_vars

\* Time passes.
FairSpec == Spec /\ \A a \in Accounts : WF_vars(Expire(a))

-----------------------------------------------------------------------------
(* What the registry promises.                                              *)

\* canApplyBoardMessage: the pinned role allows it and, for a connection that
\* was admitted as an editor, revalidateSocketWrite finds it in the writer slot
\* (an admission without a socket id is `undefined' there, as the writer of an
\* account without a seat is).
IsWriter(s) ==
  LET seat == seats[Owner[s]] IN
  IF sock[s].known THEN seat.writer = s ELSE seat = Absent

CanWrite(s) ==
  /\ sock[s].phase = "connected"
  /\ \/ sock[s].role = "governor"
     \/ sock[s].pinned = "editor" /\ (sock[s].role = "editor" => IsWriter(s))

Members(a) == {s \in Sockets : /\ Owner[s] = a /\ sock[s].phase = "connected"
                              /\ sock[s].role # "governor"}

\* `connect ... re-checks capacity so racing previews cannot oversubscribe the
\* event': however handshakes, disconnects, graces and refreshes interleave, no
\* more accounts hold a seat than the session has.
NeverOversold == Cardinality(Occupied(seats)) <= SeatCount

\* `the account always has exactly one': the writer slot names one of the
\* account's registered connections whenever it has any, and nobody otherwise.
OneWriterEach ==
  \A a \in Accounts : IF seats[a].conns = << >> THEN seats[a].writer = NoSocket
                      ELSE Connected(seats[a], seats[a].writer)

\* Two connections of one account that sit on a seat never can both write, the
\* moment of a promotion included.
AtMostOneEditor ==
  \A a \in Accounts : \A s, t \in Members(a) : CanWrite(s) /\ CanWrite(t) => s = t

\* An account that has connections on its seat can write through one of them. This
\* and the next one leave out an account that may be a moderator for a while: a
\* refresh can seat it under an admission without a socket id, and can register a
\* connection that is gone (ConnectRefused, RefreshRejoins).
MemberCanWrite ==
  \A a \in Accounts \ Moderatable : Members(a) # {} => \E s \in Members(a) : CanWrite(s)

\* Once every connection of an account is gone its seat comes back to the event.
SeatsComeBack ==
  \A a \in Accounts \ Moderatable :
    (\A s \in Sockets : Owner[s] = a => sock[s].phase = "closed")
      ~> a \notin Occupied(seats)

-----------------------------------------------------------------------------
(* The promise itself, in terms of accounts alone.                          *)

Standing(a) == IF seats[a].conns # << >> THEN "live"
               ELSE IF seats[a].grace = "running" THEN "grace" ELSE "free"

Promise == INSTANCE SeatPromise WITH standing <- [a \in Accounts |-> Standing(a)]

\* The registry, used by the handshakes as it is, implements that promise: a
\* seat is taken only while one is free, is kept through the grace of an account
\* that left, and is given up in no other way.
KeepsThePromise == Promise!Spec
=============================================================================
