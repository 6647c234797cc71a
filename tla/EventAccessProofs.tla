-------------------------- MODULE EventAccessProofs --------------------------
(***************************************************************************)
(* For any number of participants, connections, grants, requests and       *)
(* faults: an Entry Grant makes one account a member at most, a confirmed  *)
(* ban keeps its account out, and whoever can write is a member.           *)
(*                                                                         *)
(* The argument for grants: nobody is admitted by a grant before the       *)
(* documents say who used it, and from then on neither the maps nor the    *)
(* documents ever say otherwise, for the write that is under way carries   *)
(* it again.  Bans are the second half of the module.                      *)
(***************************************************************************)
EXTENDS EventAccess, FiniteSetTheorems, TLAPS

Redeemed(a) == [status |-> "redeemed", by |-> a]

Tasks(store) ==
    CASE store = "memberships"  -> {"enter", "ban", "unban", "redeem"}
      [] store = "integrations" -> {"issue", "revoke", "redeem"}
      [] store = "moderation"   -> {"kick", "ban", "unban"}

\* A call waits in one queue, once ...
Apart(q) ==
    \A s, t \in Stores : \A i \in 1..Len(q[s]), j \in 1..Len(q[t]) :
        q[s][i] = q[t][j] => s = t /\ i = j

\* ... and for a store it has to do with.
Waiting ==
    /\ Apart(queue)
    /\ \A s \in Stores : \A i \in 1..Len(queue[s]) : calls[queue[s][i]].op \in Tasks(s)
    /\ \A s \in Stores : job[s].at > 0 => queue[s] # << >>

\* What a call in progress has done to the maps is still there.
Asked ==
    \A c \in Calls :
        /\ calls[c].op = "redeem" =>
             \A g \in calls[c].grant : grants[g] = Redeemed(calls[c].on)
        /\ calls[c].op = "revoke" => credential = "revoked"

\* The write under way carries what is stored already and what its call is about.
Carried ==
    job["integrations"].at > 0 =>
        LET c == Head(queue["integrations"]) IN
        /\ \A g \in Grants : disk.grants[g].status # "none" => g \in job["integrations"].known
        /\ calls[c].op = "redeem" => calls[c].grant \subseteq job["integrations"].known
        /\ calls[c].op = "revoke" /\ job["integrations"].at = 2 => disk.credential = "revoked"

\* What the documents say of a used grant, the maps say.
Level ==
    \A g \in Grants :
        /\ disk.grants[g].status # "none" => grants[g].status # "none"
        /\ disk.grants[g].status = "redeemed" => grants[g] = disk.grants[g]

\* Whom a grant admitted, the documents name.
Spent == \A g \in Grants : \A a \in admitted[g] : disk.grants[g] = Redeemed(a)

\* A grant whose credential was revoked under it is never used.
Buried ==
    \A g \in dead : /\ credential = "revoked" /\ disk.credential = "revoked"
                    /\ grants[g].status # "redeemed"

Inv == TypeOK /\ Waiting /\ Asked /\ Carried /\ Level /\ Spent /\ Buried

-----------------------------------------------------------------------------
(***************************************************************************)
(* The queues.                                                             *)
(***************************************************************************)

Nowhere(q, c) == \A s \in Stores : \A i \in 1..Len(q[s]) : q[s][i] # c

\* r is q with c at the end of one queue.
Joined(q, r, st, c) ==
    /\ r \in [Stores -> Seq(Calls)]
    /\ Apart(r)
    /\ \A s \in Stores : \A i \in 1..Len(r[s]) :
          \/ i \in 1..Len(q[s]) /\ r[s][i] = q[s][i]
          \/ s = st /\ r[s][i] = c
    /\ \A s \in Stores : q[s] # << >> => r[s] # << >> /\ Head(r[s]) = Head(q[s])

\* r is q without c, the first of one queue.
Left(q, r, st, c) ==
    /\ c \in Calls
    /\ r \in [Stores -> Seq(Calls)]
    /\ Apart(r)
    /\ Nowhere(r, c)
    /\ \A s \in Stores : \A i \in 1..Len(r[s]) : \E k \in 1..Len(q[s]) : r[s][i] = q[s][k]
    /\ \A s \in Stores \ {st} : r[s] = q[s]

\* A call that waits nowhere joins the end of a queue.
LEMMA Joining ==
  ASSUME NEW q \in [Stores -> Seq(Calls)], NEW st \in Stores, NEW c \in Calls,
         Apart(q), Nowhere(q, c),
         NEW r, r = [q EXCEPT ![st] = Append(@, c)]
  PROVE  Joined(q, r, st, c)
<1>1. r \in [Stores -> Seq(Calls)]
  OBVIOUS
<1>2. \A s \in Stores : \A i \in 1..Len(r[s]) :
        \/ i \in 1..Len(q[s]) /\ r[s][i] = q[s][i]
        \/ s = st /\ r[s][i] = c /\ i = Len(q[s]) + 1
  <2> SUFFICES ASSUME NEW s \in Stores, NEW i \in 1..Len(r[s])
               PROVE  \/ i \in 1..Len(q[s]) /\ r[s][i] = q[s][i]
                      \/ s = st /\ r[s][i] = c /\ i = Len(q[s]) + 1
    OBVIOUS
  <2>1. CASE s = st
    <3>1. r[s] = Append(q[s], c) /\ q[s] \in Seq(Calls)
      BY <2>1
    <3> QED  BY <2>1, <3>1
  <2>2. CASE s # st
    <3>1. r[s] = q[s]
      BY <2>2
    <3> QED  BY <3>1
  <2> QED  BY <2>1, <2>2
<1>3. Apart(r)
  <2> SUFFICES ASSUME NEW s \in Stores, NEW t \in Stores,
                      NEW i \in 1..Len(r[s]), NEW j \in 1..Len(r[t]), r[s][i] = r[t][j]
               PROVE  s = t /\ i = j
    BY DEF Apart
  <2>1. (i \in 1..Len(q[s]) /\ r[s][i] = q[s][i]) \/ (s = st /\ r[s][i] = c /\ i = Len(q[s]) + 1)
    BY <1>2
  <2>2. (j \in 1..Len(q[t]) /\ r[t][j] = q[t][j]) \/ (t = st /\ r[t][j] = c /\ j = Len(q[t]) + 1)
    BY <1>2
  <2> QED  BY <2>1, <2>2 DEF Apart, Nowhere
<1>4. \A s \in Stores : q[s] # << >> => r[s] # << >> /\ Head(r[s]) = Head(q[s])
  <2> SUFFICES ASSUME NEW s \in Stores, q[s] # << >>
               PROVE  r[s] # << >> /\ Head(r[s]) = Head(q[s])
    OBVIOUS
  <2>1. q[s] \in Seq(Calls)
    OBVIOUS
  <2>2. r[s] = q[s] \/ r[s] = Append(q[s], c)
    OBVIOUS
  <2> QED  BY <2>1, <2>2
<1>5. \A s \in Stores : \A i \in 1..Len(r[s]) :
        \/ i \in 1..Len(q[s]) /\ r[s][i] = q[s][i]
        \/ s = st /\ r[s][i] = c
  BY <1>2
<1> QED  BY <1>1, <1>3, <1>4, <1>5 DEF Joined

\* The first of a queue leaves it, and waits nowhere then.
LEMMA Leaving ==
  ASSUME NEW q \in [Stores -> Seq(Calls)], NEW st \in Stores, q[st] # << >>, Apart(q),
         NEW r, r = [q EXCEPT ![st] = Tail(@)],
         NEW c, c = Head(q[st])
  PROVE  Left(q, r, st, c)
<1>1. q[st] \in Seq(Calls) /\ Len(q[st]) \in Nat /\ Len(q[st]) >= 1 /\ c = q[st][1]
  OBVIOUS
<1>2. c \in Calls /\ Tail(q[st]) \in Seq(Calls)
  BY <1>1
<1>3. r \in [Stores -> Seq(Calls)] /\ r[st] = Tail(q[st]) /\ \A s \in Stores \ {st} : r[s] = q[s]
  BY <1>2
<1>4. \A s \in Stores : \A i \in 1..Len(r[s]) :
        \/ s = st /\ i + 1 \in 1..Len(q[s]) /\ r[s][i] = q[s][i + 1]
        \/ s # st /\ i \in 1..Len(q[s]) /\ r[s][i] = q[s][i]
  <2> SUFFICES ASSUME NEW s \in Stores, NEW i \in 1..Len(r[s])
               PROVE  \/ s = st /\ i + 1 \in 1..Len(q[s]) /\ r[s][i] = q[s][i + 1]
                      \/ s # st /\ i \in 1..Len(q[s]) /\ r[s][i] = q[s][i]
    OBVIOUS
  <2>1. CASE s = st
    <3>1. r[s] = Tail(q[st]) /\ Len(r[s]) = Len(q[st]) - 1
      BY <1>1, <1>3, <2>1
    <3> QED  BY <1>1, <2>1, <3>1
  <2>2. CASE s # st
    BY <1>3, <2>2
  <2> QED  BY <2>1, <2>2
<1>5. Apart(r)
  <2> SUFFICES ASSUME NEW s \in Stores, NEW t \in Stores,
                      NEW i \in 1..Len(r[s]), NEW j \in 1..Len(r[t]), r[s][i] = r[t][j]
               PROVE  s = t /\ i = j
    BY DEF Apart
  <2>1. i \in Nat /\ j \in Nat
    BY <1>3
  <2>2. PICK k \in 1..Len(q[s]) : r[s][i] = q[s][k] /\ k = IF s = st THEN i + 1 ELSE i
    BY <1>4
  <2>3. PICK l \in 1..Len(q[t]) : r[t][j] = q[t][l] /\ l = IF t = st THEN j + 1 ELSE j
    BY <1>4
  <2>4. q[s][k] = q[t][l]
    BY <2>2, <2>3
  <2>5. s = t /\ k = l
    BY <2>4 DEF Apart
  <2> QED  BY <2>1, <2>2, <2>3, <2>5
<1>6. \A s \in Stores : \A i \in 1..Len(r[s]) :
        r[s][i] # c /\ \E k \in 1..Len(q[s]) : r[s][i] = q[s][k]
  <2> SUFFICES ASSUME NEW s \in Stores, NEW i \in 1..Len(r[s])
               PROVE  r[s][i] # c /\ \E k \in 1..Len(q[s]) : r[s][i] = q[s][k]
    OBVIOUS
  <2>1. i \in Nat /\ i >= 1 /\ 1 \in 1..Len(q[st])
    BY <1>1, <1>3
  <2>2. PICK k \in 1..Len(q[s]) : r[s][i] = q[s][k] /\ (s = st => k = i + 1)
    BY <1>4
  <2>3. r[s][i] # c
    BY <1>1, <2>1, <2>2 DEF Apart
  <2> QED  BY <2>2, <2>3
<1> QED  BY <1>2, <1>3, <1>5, <1>6 DEF Left, Nowhere

-----------------------------------------------------------------------------
(***************************************************************************)
(* What the steps of a call do to the queues, whatever else they change.   *)
(***************************************************************************)

\* A call is taken up and queues a write.
LEMMA Begun ==
  ASSUME Inv, NEW c \in Calls, NEW st \in Stores, calls[c] = Idle,
         calls'[c].op \in Tasks(st),
         \A d \in Calls \ {c} : calls'[d].op = calls[d].op /\ calls'[d].grant = calls[d].grant,
         EnqueueWrite(st, c), UNCHANGED <<disk, job>>
  PROVE  queue' \in [Stores -> Seq(Calls)] /\ Waiting' /\ Carried'
<1>0. queue' = [queue EXCEPT ![st] = Append(@, c)]
  BY DEF EnqueueWrite
<1>1. queue \in [Stores -> Seq(Calls)] /\ Apart(queue)
  BY DEF Inv, TypeOK, Waiting
<1>2. \A s \in Stores : \A i \in 1..Len(queue[s]) :
        queue[s][i] \in Calls /\ queue[s][i] # c
  <2> SUFFICES ASSUME NEW s \in Stores, NEW i \in 1..Len(queue[s])
               PROVE  queue[s][i] \in Calls /\ queue[s][i] # c
    OBVIOUS
  <2>1. queue[s][i] \in Calls
    BY <1>1
  <2>2. calls[queue[s][i]].op \in Tasks(s)
    BY DEF Inv, Waiting
  <2>3. "none" \notin Tasks(s) /\ calls[c].op = "none"
    BY DEF Tasks, Stores, Idle
  <2> QED  BY <2>1, <2>2, <2>3
<1>3. Joined(queue, queue', st, c)
  <2>1. Nowhere(queue, c)
    BY <1>2 DEF Nowhere
  <2>2. queue \in [Stores -> Seq(Calls)]
    BY <1>1
  <2>3. Apart(queue)
    BY <1>1
  <2> QED  BY <1>0, <2>1, <2>2, <2>3, Joining, ZenonT(60)
<1>4. Waiting'
  <2>1. \A s \in Stores : \A i \in 1..Len(queue'[s]) : calls'[queue'[s][i]].op \in Tasks(s)
    <3> SUFFICES ASSUME NEW s \in Stores, NEW i \in 1..Len(queue'[s])
                 PROVE  calls'[queue'[s][i]].op \in Tasks(s)
      OBVIOUS
    <3>1. CASE i \in 1..Len(queue[s]) /\ queue'[s][i] = queue[s][i]
      BY <3>1, <1>2 DEF Inv, Waiting
    <3>2. CASE s = st /\ queue'[s][i] = c
      BY <3>2
    <3> QED  BY <3>1, <3>2, <1>3 DEF Joined
  <2>2. \A s \in Stores : job'[s].at > 0 => queue'[s] # << >>
    BY <1>3 DEF Inv, Waiting, Joined
  <2> QED  BY <1>3, <2>1, <2>2 DEF Waiting, Joined
<1>5. Carried'
  <2> SUFFICES ASSUME job["integrations"].at > 0
               PROVE  Carried'
    BY DEF Carried
  <2> DEFINE d == Head(queue["integrations"])
  <2>1. "integrations" \in Stores /\ queue["integrations"] # << >>
    BY DEF Inv, Waiting, Stores
  <2>2. Head(queue'["integrations"]) = d
    BY <1>3, <2>1 DEF Joined
  <2>3. d \in Calls /\ d # c
    <3>1. queue["integrations"] \in Seq(Calls)
      BY <1>1, <2>1
    <3>2. d = queue["integrations"][1] /\ 1 \in 1..Len(queue["integrations"])
      BY <2>1, <3>1
    <3> QED  BY <1>2, <2>1, <3>2
  <2>4. calls'[d].op = calls[d].op /\ calls'[d].grant = calls[d].grant
    BY <2>3
  <2> HIDE DEF d
  <2>5. /\ \A g \in Grants : disk.grants[g].status # "none" => g \in job["integrations"].known
        /\ calls[d].op = "redeem" => calls[d].grant \subseteq job["integrations"].known
        /\ calls[d].op = "revoke" /\ job["integrations"].at = 2 => disk.credential = "revoked"
    BY DEF Inv, Carried, d
  <2> QED  BY <2>2, <2>4, <2>5 DEF Carried
<1> QED  BY <1>3, <1>4, <1>5 DEF Joined

\* The first call of a queue whose write is over.
LEMMA HeadOf ==
  ASSUME Inv, NEW st \in Stores, job[st].at > 0
  PROVE  /\ queue[st] # << >>
         /\ Head(queue[st]) \in Calls
         /\ calls[Head(queue[st])].op \in Tasks(st)
<1>1. queue[st] # << >> /\ queue[st] \in Seq(Calls)
  BY DEF Inv, Waiting, TypeOK
<1>2. Head(queue[st]) = queue[st][1] /\ 1 \in 1..Len(queue[st]) /\ Head(queue[st]) \in Calls
  BY <1>1
<1>3. calls[queue[st][1]].op \in Tasks(st)
  BY <1>2 DEF Inv, Waiting
<1> QED  BY <1>1, <1>2, <1>3

\* It leaves the queue, answered or to join another one.
LEMMA Gone ==
  ASSUME Inv, NEW st \in Stores, job[st].at > 0,
         job' = [job EXCEPT ![st] = NoJob],
         queue' = [queue EXCEPT ![st] = Tail(@)],
         calls' = [calls EXCEPT ![Head(queue[st])] = Idle],
         st = "integrations" \/ (disk.grants = disk'.grants /\ disk.credential = disk'.credential)
  PROVE  queue' \in [Stores -> Seq(Calls)] /\ Waiting' /\ Carried'
<1> DEFINE c == Head(queue[st])
<1>1. queue \in [Stores -> Seq(Calls)] /\ Apart(queue) /\ queue[st] # << >>
      /\ calls \in [Calls -> Call] /\ job \in [Stores -> Write]
  BY DEF Inv, TypeOK, Waiting
<1>2. Left(queue, queue', st, c)
  <2>1. queue \in [Stores -> Seq(Calls)]
    BY <1>1
  <2>2. queue[st] # << >>
    BY <1>1
  <2>3. Apart(queue)
    BY <1>1
  <2> QED  BY <2>1, <2>2, <2>3, Leaving, ZenonT(60)
<1>3. \A s \in Stores : \A i \in 1..Len(queue'[s]) : calls'[queue'[s][i]].op \in Tasks(s)
  <2> SUFFICES ASSUME NEW s \in Stores, NEW i \in 1..Len(queue'[s])
               PROVE  calls'[queue'[s][i]].op \in Tasks(s)
    OBVIOUS
  <2>1. PICK k \in 1..Len(queue[s]) : queue'[s][i] = queue[s][k]
    BY <1>2 DEF Left
  <2>2. queue[s][k] \in Calls /\ calls[queue[s][k]].op \in Tasks(s)
    BY <1>1 DEF Inv, Waiting
  <2>3. queue[s][k] # c
    <3>1. queue'[s][i] # c
      BY <1>2 DEF Left, Nowhere
    <3> HIDE DEF c
    <3> QED  BY <2>1, <3>1
  <2>4. calls'[queue[s][k]] = calls[queue[s][k]]
    BY <1>1, <2>2, <2>3
  <2> QED  BY <2>1, <2>2, <2>4
<1>4. \A s \in Stores : job'[s].at > 0 => queue'[s] # << >>
  <2> SUFFICES ASSUME NEW s \in Stores, job'[s].at > 0
               PROVE  queue'[s] # << >>
    OBVIOUS
  <2>1. s # st
    BY <1>1 DEF NoJob
  <2> QED  BY <1>1, <1>2, <2>1 DEF Inv, Waiting, Left
<1>5. Waiting'
  BY <1>2, <1>3, <1>4 DEF Waiting, Left
<1>6. Carried'
  <2> SUFFICES ASSUME job'["integrations"].at > 0
               PROVE  Carried'
    BY DEF Carried
  <2>1. "integrations" \in Stores /\ st # "integrations"
    BY <1>1 DEF NoJob, Stores
  <2>2. job'["integrations"] = job["integrations"] /\ queue'["integrations"] = queue["integrations"]
    BY <1>1, <1>2, <2>1 DEF Left
  <2> DEFINE d == Head(queue["integrations"])
  <2>3. queue["integrations"] # << >> /\ queue["integrations"] \in Seq(Calls)
    BY <1>1, <2>1, <2>2 DEF Inv, Waiting
  <2>4. d = queue["integrations"][1] /\ 1 \in 1..Len(queue["integrations"]) /\ d \in Calls
    BY <2>3
  <2>5. d # c
    BY <1>2, <2>1, <2>2, <2>4 DEF Left, Nowhere
  <2>6. calls'[d] = calls[d]
    BY <1>1, <2>4, <2>5
  <2> HIDE DEF c, d
  <2>7. /\ \A g \in Grants : disk.grants[g].status # "none" => g \in job["integrations"].known
        /\ calls[d].op = "redeem" => calls[d].grant \subseteq job["integrations"].known
        /\ calls[d].op = "revoke" /\ job["integrations"].at = 2 => disk.credential = "revoked"
    BY <2>2 DEF Inv, Carried, d
  <2>8. disk.grants = disk'.grants /\ disk.credential = disk'.credential
    BY <2>1
  <2>9. Head(queue'["integrations"]) = d
    BY <2>2 DEF d
  <2> QED  BY <2>2, <2>6, <2>7, <2>8, <2>9 DEF Carried
<1> QED  BY <1>2, <1>5, <1>6 DEF Left

\* It goes on to wait in the queue of another store.
LEMMA Moved ==
  ASSUME Inv, NEW st \in Stores, NEW t \in Stores, t # st, job[st].at > 0,
         calls[Head(queue[st])].op \in Tasks(t),
         job' = [job EXCEPT ![st] = NoJob],
         queue' = [queue EXCEPT ![st] = Tail(@), ![t] = Append(@, Head(queue[st]))],
         calls' = calls,
         st = "integrations" \/ (disk.grants = disk'.grants /\ disk.credential = disk'.credential)
  PROVE  queue' \in [Stores -> Seq(Calls)] /\ Waiting' /\ Carried'
<1> DEFINE c == Head(queue[st])
           q == [queue EXCEPT ![st] = Tail(@)]
<1>1. queue \in [Stores -> Seq(Calls)] /\ Apart(queue) /\ queue[st] # << >>
      /\ calls \in [Calls -> Call] /\ job \in [Stores -> Write]
  BY DEF Inv, TypeOK, Waiting
<1>2. Left(queue, q, st, c)
  <2>1. queue \in [Stores -> Seq(Calls)]
    BY <1>1
  <2>2. queue[st] # << >>
    BY <1>1
  <2>3. Apart(queue)
    BY <1>1
  <2> QED  BY <2>1, <2>2, <2>3, Leaving, ZenonT(60)
<1>3. queue' = [q EXCEPT ![t] = Append(@, c)]
  OBVIOUS
<1> HIDE DEF c, q
<1>4. Joined(q, queue', t, c)
  <2>1. q \in [Stores -> Seq(Calls)] /\ c \in Calls
    BY <1>2 DEF Left
  <2>2. Apart(q)
    BY <1>2 DEF Left
  <2>3. Nowhere(q, c)
    BY <1>2 DEF Left
  <2> QED  BY <1>3, <2>1, <2>2, <2>3, Joining, ZenonT(60)
<1>5. \A s \in Stores : \A i \in 1..Len(queue'[s]) : calls'[queue'[s][i]].op \in Tasks(s)
  <2> SUFFICES ASSUME NEW s \in Stores, NEW i \in 1..Len(queue'[s])
               PROVE  calls[queue'[s][i]].op \in Tasks(s)
    OBVIOUS
  <2>1. CASE s = t /\ queue'[s][i] = c
    BY <2>1 DEF c
  <2>2. CASE i \in 1..Len(q[s]) /\ queue'[s][i] = q[s][i]
    <3>1. PICK k \in 1..Len(queue[s]) : q[s][i] = queue[s][k]
      BY <1>2, <2>2 DEF Left
    <3> QED  BY <2>2, <3>1 DEF Inv, Waiting
  <2> QED  BY <1>4, <2>1, <2>2 DEF Joined
<1>6. \A s \in Stores : job'[s].at > 0 =>
        s # st /\ job'[s] = job[s] /\ queue[s] # << >> /\ queue'[s] # << >>
        /\ Head(queue'[s]) = Head(queue[s])
  <2> SUFFICES ASSUME NEW s \in Stores, job'[s].at > 0
               PROVE  s # st /\ job'[s] = job[s] /\ queue[s] # << >> /\ queue'[s] # << >>
                      /\ Head(queue'[s]) = Head(queue[s])
    OBVIOUS
  <2>1. s # st /\ job'[s] = job[s]
    BY <1>1 DEF NoJob
  <2>2. queue[s] # << >> /\ q[s] = queue[s]
    BY <1>2, <2>1 DEF Inv, Waiting, Left
  <2> QED  BY <1>4, <2>1, <2>2 DEF Joined
<1>7. Waiting'
  BY <1>4, <1>5, <1>6 DEF Waiting, Joined
<1>8. Carried'
  <2> SUFFICES ASSUME job'["integrations"].at > 0
               PROVE  Carried'
    BY DEF Carried
  <2> DEFINE d == Head(queue["integrations"])
  <2>1. "integrations" \in Stores
    BY DEF Stores
  <2>2. st # "integrations" /\ job'["integrations"] = job["integrations"]
        /\ Head(queue'["integrations"]) = d
    BY <1>6, <2>1
  <2> HIDE DEF d
  <2>3. /\ \A g \in Grants : disk.grants[g].status # "none" => g \in job["integrations"].known
        /\ calls[d].op = "redeem" => calls[d].grant \subseteq job["integrations"].known
        /\ calls[d].op = "revoke" /\ job["integrations"].at = 2 => disk.credential = "revoked"
    BY <2>2 DEF Inv, Carried, d
  <2>4. disk.grants = disk'.grants /\ disk.credential = disk'.credential
    BY <2>2
  <2> QED  BY <2>2, <2>3, <2>4 DEF Carried
<1> QED  BY <1>4, <1>7, <1>8 DEF Joined

-----------------------------------------------------------------------------
(***************************************************************************)
(* Calls that begin.                                                       *)
(***************************************************************************)

Ops == {"none", "enter", "ban", "unban", "kick", "issue", "revoke", "redeem"}

LEMMA Beginning ==
  ASSUME TypeOK, NEW c \in Calls, NEW op \in Ops, NEW a \in Accounts \cup {NoOne},
         NEW g \in SUBSET Grants, NEW had \in BOOLEAN,
         op \notin {"none", "issue", "revoke"} => a \in Accounts,
         Begin(c, op, a, g, had)
  PROVE  /\ calls[c] = Idle
         /\ calls' \in [Calls -> Call]
         /\ \A d \in Calls : calls'[d].op \notin {"none", "issue", "revoke"} => calls'[d].on \in Accounts
         /\ calls'[c].op = op /\ calls'[c].on = a /\ calls'[c].grant = g
         /\ \A d \in Calls \ {c} : calls'[d] = calls[d]
<1> DEFINE new == [op |-> op, on |-> a, grant |-> g, had |-> had, overtaken |-> FALSE]
<1>1. new \in Call
  BY DEF Call, Ops
<1>2. calls[c] = Idle /\ calls' = [calls EXCEPT ![c] = new] /\ calls \in [Calls -> Call]
  BY DEF Begin, TypeOK
<1>3. new.op = op /\ new.on = a /\ new.grant = g
  OBVIOUS
<1> HIDE DEF new
<1>4. calls' \in [Calls -> Call] /\ calls'[c] = new /\ \A d \in Calls \ {c} : calls'[d] = calls[d]
  BY <1>1, <1>2
<1>5. \A d \in Calls : calls'[d].op \notin {"none", "issue", "revoke"} => calls'[d].on \in Accounts
  BY <1>3, <1>4 DEF TypeOK
<1> QED  BY <1>2, <1>3, <1>4, <1>5

LEMMA EnterKeeps ==
  ASSUME Inv, NEW c \in Calls, NEW a \in Accounts, Enter(c, a)  PROVE Inv'
<1>1. TypeOK
  BY DEF Inv
<1>2. Begin(c, "enter", a, {}, FALSE) /\ "enter" \in Ops
  BY DEF Enter, Ops
<1>3. /\ calls[c] = Idle
      /\ calls' \in [Calls -> Call]
      /\ \A d \in Calls : calls'[d].op \notin {"none", "issue", "revoke"} => calls'[d].on \in Accounts
      /\ calls'[c].op = "enter"
      /\ \A d \in Calls \ {c} : calls'[d] = calls[d]
  BY <1>1, <1>2, Beginning
<1>4. queue' \in [Stores -> Seq(Calls)] /\ Waiting' /\ Carried'
  <2>1. "memberships" \in Stores /\ "enter" \in Tasks("memberships")
    BY DEF Stores, Tasks
  <2>2. EnqueueWrite("memberships", c) /\ UNCHANGED <<disk, job>>
    BY DEF Enter
  <2> QED  BY <1>3, <2>1, <2>2, Begun
<1>5. TypeOK'
  BY <1>1, <1>3, <1>4 DEF TypeOK, Enter, NoteAdmission, issuing
<1>6. Asked'
  BY <1>3 DEF Inv, Asked, Enter, issuing
<1>7. Level' /\ Spent' /\ Buried'
  BY DEF Inv, Level, Spent, Buried, Enter, issuing
<1> QED  BY <1>4, <1>5, <1>6, <1>7 DEF Inv

LEMMA BanKeeps ==
  ASSUME Inv, NEW c \in Calls, NEW s \in Sockets, Ban(c, s)  PROVE Inv'
<1>1. TypeOK
  BY DEF Inv
<1>2. Begin(c, "ban", OwnerOf[s], {}, FALSE) /\ "ban" \in Ops /\ OwnerOf[s] \in Accounts \cup {NoOne}
  BY AccessAssumption DEF Ban, Ops
<1>3. /\ calls[c] = Idle
      /\ calls' \in [Calls -> Call]
      /\ \A d \in Calls : calls'[d].op \notin {"none", "issue", "revoke"} => calls'[d].on \in Accounts
      /\ calls'[c].op = "ban" /\ calls'[c].on = OwnerOf[s] /\ calls'[c].grant = {}
      /\ \A d \in Calls \ {c} : calls'[d] = calls[d]
  BY <1>1, <1>2, Beginning, AccessAssumption
<1>4. queue' \in [Stores -> Seq(Calls)] /\ Waiting' /\ Carried'
  <2>1. "memberships" \in Stores /\ "ban" \in Tasks("memberships")
    BY DEF Stores, Tasks
  <2>2. EnqueueWrite("memberships", c) /\ UNCHANGED <<disk, job>>
    BY DEF Ban
  <2> QED  BY <1>3, <2>1, <2>2, Begun
<1>5. TypeOK'
  <2>1. OwnerOf[s] \in Accounts
    BY AccessAssumption
  <2>2. memberships' = memberships \ {OwnerOf[s]} /\ bans' = bans \cup {OwnerOf[s]}
    BY DEF Ban
  <2>3. memberships' \in SUBSET Accounts /\ bans' \in SUBSET Accounts
    BY <1>1, <2>1, <2>2 DEF TypeOK
  <2>4. UNCHANGED <<issuing, disk, job, sockets, faults, memory>>
    BY DEF Ban
  <2> QED  BY <1>1, <1>3, <1>4, <2>3, <2>4 DEF TypeOK, issuing, memory
<1>6. Asked'
  <2>1. UNCHANGED <<grants, credential>>
    BY DEF Ban, issuing
  <2>2. \A d \in Calls : calls'[d].op \in {"redeem", "revoke"} => calls'[d] = calls[d]
    BY <1>3
  <2>3. Asked
    BY DEF Inv
  <2> QED  BY <2>1, <2>2, <2>3 DEF Asked
<1>7. Level' /\ Spent' /\ Buried'
  BY <1>1 DEF Inv, TypeOK, Level, Spent, Buried, Ban, issuing, memory
<1> QED  BY <1>4, <1>5, <1>6, <1>7 DEF Inv

LEMMA KickKeeps ==
  ASSUME Inv, NEW c \in Calls, NEW s \in Sockets, Kick(c, s)  PROVE Inv'
<1>1. TypeOK
  BY DEF Inv
<1>2. Begin(c, "kick", OwnerOf[s], {}, FALSE) /\ "kick" \in Ops /\ OwnerOf[s] \in Accounts \cup {NoOne}
  BY AccessAssumption DEF Kick, Ops
<1>3. /\ calls[c] = Idle
      /\ calls' \in [Calls -> Call]
      /\ \A d \in Calls : calls'[d].op \notin {"none", "issue", "revoke"} => calls'[d].on \in Accounts
      /\ calls'[c].op = "kick" /\ calls'[c].on = OwnerOf[s] /\ calls'[c].grant = {}
      /\ \A d \in Calls \ {c} : calls'[d] = calls[d]
  BY <1>1, <1>2, Beginning, AccessAssumption
<1>4. queue' \in [Stores -> Seq(Calls)] /\ Waiting' /\ Carried'
  <2>1. "moderation" \in Stores /\ "kick" \in Tasks("moderation")
    BY DEF Stores, Tasks
  <2>2. EnqueueWrite("moderation", c) /\ UNCHANGED <<disk, job>>
    BY DEF Kick
  <2> QED  BY <1>3, <2>1, <2>2, Begun
<1>5. TypeOK'
  BY <1>1, <1>3, <1>4, AccessAssumption DEF TypeOK, Kick, access, issuing, memory
<1>6. Asked'
  BY <1>1, <1>3 DEF Inv, TypeOK, Asked, Kick, issuing
<1>7. Level' /\ Spent' /\ Buried'
  BY <1>1 DEF Inv, TypeOK, Level, Spent, Buried, Kick, issuing, memory
<1> QED  BY <1>4, <1>5, <1>6, <1>7 DEF Inv

LEMMA CreateEntryGrantKeeps ==
  ASSUME Inv, NEW c \in Calls, NEW g \in Grants, CreateEntryGrant(c, g)  PROVE Inv'
<1>1. TypeOK
  BY DEF Inv
<1>2. Begin(c, "issue", NoOne, {g}, FALSE) /\ "issue" \in Ops /\ NoOne \in Accounts \cup {NoOne}
  BY AccessAssumption DEF CreateEntryGrant, Ops
<1>3. /\ calls[c] = Idle
      /\ calls' \in [Calls -> Call]
      /\ \A d \in Calls : calls'[d].op \notin {"none", "issue", "revoke"} => calls'[d].on \in Accounts
      /\ calls'[c].op = "issue" /\ calls'[c].on = NoOne /\ calls'[c].grant = {g}
      /\ \A d \in Calls \ {c} : calls'[d] = calls[d]
  BY <1>1, <1>2, Beginning, AccessAssumption
<1>4. queue' \in [Stores -> Seq(Calls)] /\ Waiting' /\ Carried'
  <2>1. "integrations" \in Stores /\ "issue" \in Tasks("integrations")
    BY DEF Stores, Tasks
  <2>2. EnqueueWrite("integrations", c) /\ UNCHANGED <<disk, job>>
    BY DEF CreateEntryGrant
  <2> QED  BY <1>3, <2>1, <2>2, Begun
<1>5. TypeOK'
  BY <1>1, <1>3, <1>4 DEF TypeOK, CreateEntryGrant, access, issuing, memory, Grant, Unmade, Redeemed
<1>6. Asked'
  BY <1>1, <1>3, SMTT(30) DEF Inv, TypeOK, Asked, CreateEntryGrant, issuing, Grant, Unmade, Redeemed
<1>7. Level' /\ Spent' /\ Buried'
  BY <1>1 DEF Inv, TypeOK, Level, Spent, Buried, CreateEntryGrant, issuing, memory, Grant, Unmade, Redeemed
<1> QED  BY <1>4, <1>5, <1>6, <1>7 DEF Inv

LEMMA RevokeCredentialKeeps ==
  ASSUME Inv, NEW c \in Calls, RevokeCredential(c)  PROVE Inv'
<1>1. TypeOK
  BY DEF Inv
<1>2. Begin(c, "revoke", NoOne, {}, FALSE) /\ "revoke" \in Ops /\ NoOne \in Accounts \cup {NoOne}
  BY AccessAssumption DEF RevokeCredential, Ops
<1>3. /\ calls[c] = Idle
      /\ calls' \in [Calls -> Call]
      /\ \A d \in Calls : calls'[d].op \notin {"none", "issue", "revoke"} => calls'[d].on \in Accounts
      /\ calls'[c].op = "revoke" /\ calls'[c].on = NoOne /\ calls'[c].grant = {}
      /\ \A d \in Calls \ {c} : calls'[d] = calls[d]
  BY <1>1, <1>2, Beginning, AccessAssumption
<1>4. queue' \in [Stores -> Seq(Calls)] /\ Waiting' /\ Carried'
  <2>1. "integrations" \in Stores /\ "revoke" \in Tasks("integrations")
    BY DEF Stores, Tasks
  <2>2. EnqueueWrite("integrations", c) /\ UNCHANGED <<disk, job>>
    BY DEF RevokeCredential
  <2> QED  BY <1>3, <2>1, <2>2, Begun
<1>5. TypeOK'
  BY <1>1, <1>3, <1>4 DEF TypeOK, RevokeCredential, access, issuing, memory
<1>6. Asked'
  BY <1>1, <1>3 DEF Inv, TypeOK, Asked, RevokeCredential, issuing
<1>7. Level' /\ Spent' /\ Buried'
  BY <1>1 DEF Inv, TypeOK, Level, Spent, Buried, RevokeCredential, issuing, memory
<1> QED  BY <1>4, <1>5, <1>6, <1>7 DEF Inv

LEMMA RedeemEntryGrantKeeps ==
  ASSUME Inv, NEW c \in Calls, NEW a \in Accounts, NEW g \in Grants, RedeemEntryGrant(c, a, g)  PROVE Inv'
<1>1. TypeOK
  BY DEF Inv
<1>2. Begin(c, "redeem", a, {g}, TRUE) \/ Begin(c, "redeem", a, {g}, FALSE)
  <2>1. (a \in memberships) = TRUE \/ (a \in memberships) = FALSE
    OBVIOUS
  <2>2. Begin(c, "redeem", a, {g}, a \in memberships)
    BY DEF RedeemEntryGrant
  <2> QED  BY <2>1, <2>2
<1>3. /\ calls[c] = Idle
      /\ calls' \in [Calls -> Call]
      /\ \A d \in Calls : calls'[d].op \notin {"none", "issue", "revoke"} => calls'[d].on \in Accounts
      /\ calls'[c].op = "redeem" /\ calls'[c].on = a /\ calls'[c].grant = {g}
      /\ \A d \in Calls \ {c} : calls'[d] = calls[d]
  <2>1. "redeem" \in Ops /\ a \in Accounts \cup {NoOne}
    BY DEF Ops
  <2>2. CASE Begin(c, "redeem", a, {g}, TRUE)
    BY <1>1, <2>1, <2>2, Beginning
  <2>3. CASE Begin(c, "redeem", a, {g}, FALSE)
    BY <1>1, <2>1, <2>3, Beginning
  <2> QED  BY <1>2, <2>2, <2>3
<1>4. queue' \in [Stores -> Seq(Calls)] /\ Waiting' /\ Carried'
  <2>1. "integrations" \in Stores /\ "redeem" \in Tasks("integrations")
    BY DEF Stores, Tasks
  <2>2. EnqueueWrite("integrations", c) /\ UNCHANGED <<disk, job>>
    BY DEF RedeemEntryGrant
  <2> QED  BY <1>3, <2>1, <2>2, Begun
<1>5. TypeOK'
  BY <1>1, <1>3, <1>4 DEF TypeOK, RedeemEntryGrant, access, issuing, memory, Grant, Redeemed
<1>6. Asked'
  <2>1. /\ grants[g].status = "open" /\ grants \in [Grants -> Grant]
        /\ grants' = [grants EXCEPT ![g] = Redeemed(a)]
        /\ UNCHANGED credential
    BY <1>1 DEF RedeemEntryGrant, TypeOK, Redeemed
  <2> SUFFICES ASSUME NEW d \in Calls
               PROVE  /\ calls'[d].op = "redeem" =>
                           \A h \in calls'[d].grant : grants'[h] = Redeemed(calls'[d].on)
                      /\ calls'[d].op = "revoke" => credential' = "revoked"
    BY DEF Asked
  <2>2. CASE d = c
    BY <1>3, <2>1, <2>2
  <2>3. CASE d # c
    <3>1. calls'[d] = calls[d] /\ calls[d].grant \subseteq Grants
      BY <1>1, <1>3, <2>3 DEF TypeOK, Call
    <3>2. calls[d].op = "redeem" =>
            \A h \in calls[d].grant : h # g /\ grants[h] = Redeemed(calls[d].on)
      BY <2>1 DEF Inv, Asked, Redeemed
    <3>3. \A h \in Grants : h # g => grants'[h] = grants[h]
      BY <2>1
    <3>4. calls[d].op = "revoke" => credential = "revoked"
      BY DEF Inv, Asked
    <3> QED  BY <2>1, <3>1, <3>2, <3>3, <3>4
  <2> QED  BY <2>2, <2>3
<1>7. Level' /\ Spent' /\ Buried'
  BY <1>1 DEF Inv, TypeOK, Level, Spent, Buried, RedeemEntryGrant, issuing, memory, Grant, Redeemed
<1> QED  BY <1>4, <1>5, <1>6, <1>7 DEF Inv

LEMMA UnbanKeeps ==
  ASSUME Inv, NEW c \in Calls, NEW a \in Accounts, Unban(c, a)  PROVE Inv'
<1>1. TypeOK
  BY DEF Inv
<1> DEFINE Lifted(d) == [calls[d] EXCEPT
             !.overtaken = @ \/ (calls[d].op = "ban" /\ calls[d].on = a)]
           new == [Idle EXCEPT !.op = "unban", !.on = a]
<1>2. calls[c] = Idle /\ calls' = [d \in Calls |-> IF d = c THEN new ELSE Lifted(d)]
  BY DEF Unban, BeginUnban
<1>3. \A d \in Calls : /\ Lifted(d) \in Call
                       /\ Lifted(d).op = calls[d].op /\ Lifted(d).on = calls[d].on
                       /\ Lifted(d).grant = calls[d].grant
  <2> SUFFICES ASSUME NEW d \in Calls
               PROVE  /\ Lifted(d) \in Call
                      /\ Lifted(d).op = calls[d].op /\ Lifted(d).on = calls[d].on
                      /\ Lifted(d).grant = calls[d].grant
    OBVIOUS
  <2>1. calls[d] \in Call
    BY <1>1 DEF TypeOK
  <2> DEFINE o == calls[d].overtaken \/ (calls[d].op = "ban" /\ calls[d].on = a)
  <2>2. o \in BOOLEAN
    BY Zenon
  <2>3. Lifted(d) = [calls[d] EXCEPT !.overtaken = o]
    OBVIOUS
  <2> HIDE DEF o, Lifted
  <2> QED  BY <2>1, <2>2, <2>3 DEF Call
<1>4. new \in Call /\ new.op = "unban" /\ new.on = a
  BY DEF Call, Idle
<1> HIDE DEF Lifted, new
<1>5. /\ calls' \in [Calls -> Call]
      /\ calls'[c] = new
      /\ \A d \in Calls \ {c} : calls'[d] = Lifted(d)
  BY <1>2, <1>3, <1>4
<1>6. \A d \in Calls : calls'[d].op \notin {"none", "issue", "revoke"} => calls'[d].on \in Accounts
  BY <1>1, <1>3, <1>4, <1>5 DEF TypeOK
<1>7. queue' \in [Stores -> Seq(Calls)] /\ Waiting' /\ Carried'
  <2>1. "memberships" \in Stores /\ calls'[c].op \in Tasks("memberships")
    BY <1>4, <1>5 DEF Stores, Tasks
  <2>2. EnqueueWrite("memberships", c) /\ UNCHANGED <<disk, job>>
    BY DEF Unban
  <2>3. \A d \in Calls \ {c} : calls'[d].op = calls[d].op /\ calls'[d].grant = calls[d].grant
    BY <1>3, <1>5
  <2> QED  BY <1>2, <2>1, <2>2, <2>3, Begun
<1>8. TypeOK'
  BY <1>1, <1>5, <1>6, <1>7 DEF TypeOK, Unban, BeginUnban, issuing
<1>9. Asked'
  BY <1>3, <1>4, <1>5 DEF Inv, Asked, Unban, issuing
<1>10. Level' /\ Spent' /\ Buried'
  BY DEF Inv, Level, Spent, Buried, Unban, issuing
<1> QED  BY <1>7, <1>8, <1>9, <1>10 DEF Inv

LEMMA ExpireKeeps ==
  ASSUME Inv, NEW g \in Grants, Expire(g)  PROVE Inv'
<1>1. TypeOK /\ Level
  BY DEF Inv
<1>2. /\ grants \in [Grants -> Grant] /\ grants' \in [Grants -> Grant]
      /\ grants[g].status = "open" /\ grants'[g].status = "expired"
      /\ \A h \in Grants \ {g} : grants'[h] = grants[h]
  BY <1>1 DEF TypeOK, Expire, Grant
<1>3. disk.grants[g].status # "redeemed"
  BY <1>1, <1>2 DEF Level
<1> DEFINE status == IF disk.grants[g].status = "open" THEN "expired" ELSE disk.grants[g].status
           stored == [disk.grants EXCEPT ![g].status = status]
<1>4. disk \in Stored /\ disk' = [disk EXCEPT !.grants = stored]
  BY <1>1 DEF TypeOK, Expire
<1>5. /\ disk.grants \in [Grants -> Grant] /\ stored \in [Grants -> Grant]
      /\ stored[g].status = status
      /\ \A h \in Grants \ {g} : stored[h] = disk.grants[h]
  BY <1>4 DEF Stored, Grant
<1>6. status \in {"none", "expired"} /\ (status = "none" <=> disk.grants[g].status = "none")
  BY <1>3, <1>5 DEF Grant
<1> HIDE DEF stored, status
<1>7. disk' \in Stored /\ disk'.grants = stored /\ disk'.credential = disk.credential
  BY <1>4, <1>5 DEF Stored
<1>8. UNCHANGED <<access, credential, queue, job, calls, sockets, faults, memory>>
  BY DEF Expire
<1>9. TypeOK'
  BY <1>1, <1>2, <1>7, <1>8 DEF TypeOK, access, memory
<1>10. Waiting'
  BY <1>8 DEF Inv, Waiting
<1>11. Asked'
  <2> SUFFICES ASSUME NEW d \in Calls, calls[d].op = "redeem", NEW h \in calls[d].grant
               PROVE  grants'[h] = Redeemed(calls[d].on)
    BY <1>8 DEF Inv, Asked
  <2>1. h \in Grants
    BY <1>1 DEF TypeOK, Call
  <2>2. grants[h] = Redeemed(calls[d].on)
    BY DEF Inv, Asked
  <2>3. h # g
    BY <1>2, <2>2 DEF Redeemed
  <2> QED  BY <1>2, <2>1, <2>2, <2>3
<1>12. Carried'
  <2>1. \A h \in Grants : disk'.grants[h].status # "none" => disk.grants[h].status # "none"
    BY <1>5, <1>6, <1>7
  <2> QED  BY <1>7, <1>8, <2>1 DEF Inv, Carried
<1>13. Level'
  <2> SUFFICES ASSUME NEW h \in Grants
               PROVE  /\ disk'.grants[h].status # "none" => grants'[h].status # "none"
                      /\ disk'.grants[h].status = "redeemed" => grants'[h] = disk'.grants[h]
    BY DEF Level
  <2>1. CASE h = g
    BY <1>2, <1>5, <1>6, <1>7, <2>1
  <2>2. CASE h # g
    BY <1>1, <1>2, <1>5, <1>7, <2>2 DEF Level
  <2> QED  BY <2>1, <2>2
<1>14. Spent'
  <2> SUFFICES ASSUME NEW h \in Grants, NEW a \in admitted[h]
               PROVE  disk'.grants[h] = Redeemed(a)
    BY <1>8 DEF Spent, memory
  <2>1. disk.grants[h] = Redeemed(a)
    BY DEF Inv, Spent
  <2>2. h # g
    BY <1>3, <2>1 DEF Redeemed
  <2> QED  BY <1>5, <1>7, <2>1, <2>2
<1>15. Buried'
  <2>1. \A h \in Grants : grants'[h].status = "redeemed" => grants[h].status = "redeemed"
    BY <1>2
  <2>2. dead \in SUBSET Grants
    BY <1>1 DEF TypeOK
  <2> QED  BY <1>7, <1>8, <2>1, <2>2 DEF Inv, Buried, memory
<1> QED  BY <1>9, <1>10, <1>11, <1>12, <1>13, <1>14, <1>15 DEF Inv

-----------------------------------------------------------------------------
(***************************************************************************)
(* The writes.                                                             *)
(***************************************************************************)

LEMMA PersistNowKeeps ==
  ASSUME Inv, NEW st \in Stores, PersistNow(st)  PROVE Inv'
<1>1. TypeOK
  BY DEF Inv
<1> DEFINE new == [at |-> 1,
                   members |-> IF st = "memberships" THEN memberships ELSE {},
                   bans |-> IF st = "memberships" THEN bans ELSE {},
                   known |-> IF st = "integrations" THEN Existing ELSE {}]
<1>2. new \in Write
  BY <1>1 DEF TypeOK, Write, Existing
<1>3. job' = [job EXCEPT ![st] = new] /\ queue[st] # << >>
      /\ UNCHANGED <<access, issuing, disk, queue, calls, sockets, faults, memory>>
  BY DEF PersistNow
<1>4. new.at = 1 /\ (st = "integrations" => new.known = Existing)
  OBVIOUS
<1> HIDE DEF new
<1>5. /\ job' \in [Stores -> Write] /\ job'[st] = new
      /\ \A s \in Stores \ {st} : job'[s] = job[s]
  BY <1>1, <1>2, <1>3 DEF TypeOK
<1>6. TypeOK'
  BY <1>1, <1>3, <1>5 DEF TypeOK, access, issuing, memory
<1>7. Waiting'
  <2>1. \A s \in Stores : job'[s].at > 0 => queue[s] # << >>
    BY <1>3, <1>5 DEF Inv, Waiting
  <2> QED  BY <1>3, <2>1 DEF Inv, Waiting
<1>8. Carried'
  <2>0. "integrations" \in Stores
    BY DEF Stores
  <2>1. CASE st # "integrations"
    <3>1. job'["integrations"] = job["integrations"]
      BY <1>5, <2>0, <2>1
    <3> QED  BY <1>3, <3>1 DEF Inv, Carried
  <2>2. CASE st = "integrations"
    <3> DEFINE d == Head(queue["integrations"])
    <3>1. d \in Calls
      BY <1>1, <1>3, <2>0, <2>2 DEF TypeOK
    <3> HIDE DEF d
    <3>2. \A g \in Grants : disk.grants[g].status # "none" => g \in Existing
      BY DEF Inv, Level, Existing
    <3>3. calls[d].op = "redeem" => calls[d].grant \subseteq Existing
      <4>1. calls[d].grant \subseteq Grants
        BY <1>1, <3>1 DEF TypeOK, Call
      <4>2. calls[d].op = "redeem" => \A g \in calls[d].grant : grants[g].status # "none"
        <5>1. Redeemed(calls[d].on).status = "redeemed"
          BY DEF Redeemed
        <5>2. calls[d].op = "redeem" => \A g \in calls[d].grant : grants[g] = Redeemed(calls[d].on)
          BY <3>1 DEF Inv, Asked
        <5> QED  BY <5>1, <5>2
      <4> QED  BY <4>1, <4>2 DEF Existing
    <3>4. job'["integrations"].at = 1 /\ job'["integrations"].known = Existing
      BY <1>4, <1>5, <2>2
    <3> QED  BY <1>3, <3>2, <3>3, <3>4 DEF Carried, d
  <2> QED  BY <2>1, <2>2
<1>9. Asked' /\ Level' /\ Spent' /\ Buried'
  BY <1>3 DEF Inv, Asked, Level, Spent, Buried, issuing, memory
<1> QED  BY <1>6, <1>7, <1>8, <1>9 DEF Inv

\* A request is answered: what the others have done is still there.
LEMMA Answering ==
  ASSUME Inv, NEW c \in Calls, Answered(c), UNCHANGED <<grants, credential>>
  PROVE  /\ calls' \in [Calls -> Call]
         /\ \A d \in Calls : calls'[d].op \notin {"none", "issue", "revoke"} => calls'[d].on \in Accounts
         /\ Asked'
<1>1. Idle \in Call /\ Idle.op = "none"
  BY DEF Idle, Call
<1>2. /\ calls' \in [Calls -> Call] /\ calls'[c] = Idle
      /\ \A d \in Calls \ {c} : calls'[d] = calls[d]
  BY <1>1 DEF Inv, TypeOK, Answered
<1>3. \A d \in Calls : calls'[d].op \notin {"none", "issue", "revoke"} => calls'[d].on \in Accounts
  BY <1>1, <1>2 DEF Inv, TypeOK
<1>4. Asked'
  BY <1>1, <1>2 DEF Inv, Asked
<1> QED  BY <1>2, <1>3, <1>4

LEMMA WriteFailsKeeps ==
  ASSUME Inv, NEW st \in Stores, WriteFails(st)  PROVE Inv'
<1> DEFINE c == Head(queue[st])
<1>1. TypeOK
  BY DEF Inv
<1>2. job[st].at > 0 /\ job' = [job EXCEPT ![st] = NoJob]
      /\ queue' = [queue EXCEPT ![st] = Tail(@)] /\ Answered(c)
      /\ faults' = faults + 1
      /\ UNCHANGED <<access, issuing, disk, sockets,
                     handed, admitted, dead, outlawed, lifted, raced>>
  BY DEF WriteFails
<1>3. c \in Calls
  BY <1>2, HeadOf
<1>4. queue' \in [Stores -> Seq(Calls)] /\ Waiting' /\ Carried'
  BY <1>2, Gone DEF Answered
<1>5. spared' \in SUBSET Sockets
  BY <1>1 DEF WriteFails, TypeOK, SocketsOf
<1>6. NoJob \in Write
  BY DEF NoJob, Write
<1>7. job' \in [Stores -> Write]
  BY <1>1, <1>2, <1>6 DEF TypeOK
<1> HIDE DEF c
<1>8. /\ calls' \in [Calls -> Call]
      /\ \A d \in Calls : calls'[d].op \notin {"none", "issue", "revoke"} => calls'[d].on \in Accounts
      /\ Asked'
  BY <1>2, <1>3, Answering DEF issuing
<1>9. TypeOK'
  BY <1>1, <1>2, <1>4, <1>5, <1>7, <1>8 DEF TypeOK, access, issuing
<1>10. Level' /\ Spent' /\ Buried'
  BY <1>2 DEF Inv, Level, Spent, Buried, issuing
<1> QED  BY <1>4, <1>8, <1>9, <1>10 DEF Inv

\* The records of the credentials are on disk, those of the grants follow.
LEMMA FirstDocumentKeeps ==
  ASSUME Inv, WriteDocument("integrations"), job["integrations"].at = 1  PROVE Inv'
<1>1. TypeOK /\ "integrations" \in Stores
  BY DEF Inv, Stores
<1> DEFINE st == "integrations"
           d == Head(queue[st])
<1>2. /\ disk' = [disk EXCEPT !.credential = credential]
      /\ job' = [job EXCEPT ![st].at = @ + 1]
      /\ UNCHANGED <<access, issuing, queue, calls, sockets, memory, faults>>
  BY DEF WriteDocument, Replaced, Documents
<1>3. /\ disk' \in Stored /\ disk'.grants = disk.grants /\ disk'.credential = credential
  BY <1>1, <1>2 DEF TypeOK, Stored
<1>4. job[st] \in Write
  BY <1>1 DEF TypeOK
<1>5. /\ job' \in [Stores -> Write]
      /\ job'[st].at = 2 /\ job'[st].known = job[st].known
      /\ \A s \in Stores \ {st} : job'[s] = job[s]
  <2> DEFINE new == [job[st] EXCEPT !.at = 2]
  <2>1. new \in Write /\ new.at = 2 /\ new.known = job[st].known
    BY <1>4 DEF Write
  <2>2. job' = [job EXCEPT ![st] = new]
    BY <1>2
  <2> HIDE DEF new
  <2> QED  BY <1>1, <2>1, <2>2 DEF TypeOK
<1>6. TypeOK'
  BY <1>1, <1>2, <1>3, <1>5 DEF TypeOK, access, issuing, memory
<1>7. Waiting'
  <2>1. \A s \in Stores : job'[s].at > 0 => queue[s] # << >>
    BY <1>5 DEF Inv, Waiting
  <2> QED  BY <1>2, <2>1 DEF Inv, Waiting
<1>8. d \in Calls
  BY <1>1, HeadOf
<1> HIDE DEF d
<1>9. Carried'
  <2>1. /\ \A g \in Grants : disk.grants[g].status # "none" => g \in job[st].known
        /\ calls[d].op = "redeem" => calls[d].grant \subseteq job[st].known
    BY DEF Inv, Carried, d
  <2>2. calls[d].op = "revoke" => credential = "revoked"
    BY <1>8 DEF Inv, Asked
  <2> QED  BY <1>2, <1>3, <1>5, <2>1, <2>2 DEF Carried, d
<1>10. Asked' /\ Level' /\ Spent' /\ Buried'
  BY <1>2, <1>3 DEF Inv, Asked, Level, Spent, Buried, issuing, memory
<1> QED  BY <1>6, <1>7, <1>9, <1>10 DEF Inv

\* The memberships, or the record of a disposition, are on disk.
LEMMA OtherDocumentKeeps ==
  ASSUME Inv, NEW st \in {"memberships", "moderation"}, WriteDocument(st)  PROVE Inv'
<1> DEFINE c == Head(queue[st])
<1>1. TypeOK /\ st \in Stores /\ st # "integrations"
  BY DEF Inv, Stores
<1>2. /\ job[st].at > 0 /\ job' = [job EXCEPT ![st] = NoJob] /\ disk' = Replaced(st)
      /\ Continue(st, c) /\ UNCHANGED faults
  <2>1. job[st].at \in 0..2 /\ Documents(st) = 1
    BY <1>1 DEF TypeOK, Write, Documents
  <2>2. job[st].at > 0
    BY DEF WriteDocument
  <2>3. ~(job[st].at < Documents(st))
    BY <2>1, <2>2
  <2> QED  BY <2>2, <2>3 DEF WriteDocument
<1>3. c \in Calls /\ calls[c].op \in Tasks(st)
  BY <1>1, <1>2, HeadOf
<1>4. disk' \in Stored /\ disk'.grants = disk.grants /\ disk'.credential = disk.credential
  <2>1. job[st] \in Write /\ disk \in Stored
    BY <1>1 DEF TypeOK
  <2>2. CASE st = "memberships"
    BY <1>2, <2>1, <2>2 DEF Replaced, Stored, Write
  <2>3. CASE st = "moderation"
    BY <1>2, <2>1, <2>3 DEF Replaced
  <2> QED  BY <2>2, <2>3
<1>5. job' \in [Stores -> Write]
  <2>1. NoJob \in Write
    BY DEF NoJob, Write
  <2> QED  BY <1>1, <1>2, <2>1 DEF TypeOK
<1>6. CASE st = "moderation"
  <2>1. Disposed(c)
    BY <1>2, <1>6 DEF Continue
  <2>2. /\ Answered(c) /\ queue' = [queue EXCEPT ![st] = Tail(@)]
        /\ UNCHANGED <<access, issuing, handed, admitted, dead>>
    BY <1>6, <2>1 DEF Disposed
  <2>3. queue' \in [Stores -> Seq(Calls)] /\ Waiting' /\ Carried'
    BY <1>1, <1>2, <1>4, <2>2, Gone DEF Answered
  <2>4. calls[c].on \in Accounts
    BY <1>1, <1>3, <1>6 DEF TypeOK, Tasks
  <2> HIDE DEF c
  <2>5. /\ calls' \in [Calls -> Call]
        /\ \A d \in Calls : calls'[d].op \notin {"none", "issue", "revoke"} => calls'[d].on \in Accounts
        /\ Asked'
    BY <1>3, <2>2, Answering DEF issuing
  <2>6. sockets' \in [Sockets -> {"away", "admitted", "live", "leaving"}]
    BY <1>1, <2>1 DEF Disposed, EvictEventAccount, TypeOK
  <2>7. outlawed' \in SUBSET Accounts /\ lifted' \in SUBSET Accounts /\ raced' \in SUBSET Accounts
    BY <1>1, <2>1, <2>4 DEF Disposed, TypeOK
  <2>8. spared' \in SUBSET Sockets
    BY <1>1, <2>1 DEF Disposed, TypeOK, SocketsOf
  <2>9. TypeOK'
    BY <1>1, <1>2, <1>4, <1>5, <2>2, <2>3, <2>5, <2>6, <2>7, <2>8 DEF TypeOK, access, issuing
  <2>10. Level' /\ Spent' /\ Buried'
    BY <1>4, <2>2 DEF Inv, Level, Spent, Buried, issuing
  <2> QED  BY <2>3, <2>5, <2>9, <2>10 DEF Inv
<1>7. CASE st = "memberships" /\ calls[c].op \in {"ban", "unban"}
  <2>1. /\ queue' = [queue EXCEPT ![st] = Tail(@), !["moderation"] = Append(@, c)]
        /\ UNCHANGED <<access, issuing, calls, sockets, memory>>
    BY <1>2, <1>7 DEF Continue
  <2>2. "moderation" \in Stores /\ "moderation" # st /\ calls[c].op \in Tasks("moderation")
    BY <1>7 DEF Stores, Tasks
  <2>3. queue' \in [Stores -> Seq(Calls)] /\ Waiting' /\ Carried'
    BY <1>1, <1>2, <1>4, <2>1, <2>2, Moved
  <2>4. TypeOK'
    BY <1>1, <1>2, <1>4, <1>5, <2>1, <2>3 DEF TypeOK, access, issuing, memory
  <2>5. Asked' /\ Level' /\ Spent' /\ Buried'
    BY <1>4, <2>1 DEF Inv, Asked, Level, Spent, Buried, issuing, memory
  <2> QED  BY <2>3, <2>4, <2>5 DEF Inv
<1>8. CASE st = "memberships" /\ calls[c].op \notin {"ban", "unban"}
  <2>0. calls[c].op \notin {"issue", "revoke"}
    BY <1>3, <1>8 DEF Tasks
  <2>1. /\ Answered(c) /\ queue' = [queue EXCEPT ![st] = Tail(@)]
        /\ UNCHANGED <<access, issuing, sockets, memory>>
    BY <1>2, <1>8, <2>0 DEF Continue, memory
  <2>2. queue' \in [Stores -> Seq(Calls)] /\ Waiting' /\ Carried'
    BY <1>1, <1>2, <1>4, <2>1, Gone DEF Answered
  <2> HIDE DEF c
  <2>3. /\ calls' \in [Calls -> Call]
        /\ \A d \in Calls : calls'[d].op \notin {"none", "issue", "revoke"} => calls'[d].on \in Accounts
        /\ Asked'
    BY <1>3, <2>1, Answering DEF issuing
  <2>4. TypeOK'
    BY <1>1, <1>2, <1>4, <1>5, <2>1, <2>2, <2>3 DEF TypeOK, access, issuing, memory
  <2>5. Level' /\ Spent' /\ Buried'
    BY <1>4, <2>1 DEF Inv, Level, Spent, Buried, issuing, memory
  <2> QED  BY <2>2, <2>3, <2>4, <2>5 DEF Inv
<1> QED  BY <1>6, <1>7, <1>8

LEMMA RestartKeeps ==
  ASSUME Inv, Restart  PROVE Inv'
<1>1. TypeOK /\ NoJob \in Write /\ Idle \in Call /\ Idle.op = "none" /\ NoJob.at = 0
  BY DEF Inv, NoJob, Write, Idle, Call
<1>2. /\ memberships' = disk.members /\ bans' = disk.bans
      /\ credential' = disk.credential /\ grants' = disk.grants
      /\ queue' = [s \in Stores |-> << >>]
      /\ job' = [s \in Stores |-> NoJob]
      /\ calls' = [c \in Calls |-> Idle]
      /\ sockets' = [s \in Sockets |-> "away"]
      /\ spared' = {} /\ faults' = faults + 1
      /\ UNCHANGED <<disk, handed, admitted, dead, outlawed, lifted, raced>>
  BY DEF Restart
<1>3. queue' \in [Stores -> Seq(Calls)] /\ job' \in [Stores -> Write] /\ calls' \in [Calls -> Call]
      /\ sockets' \in [Sockets -> {"away", "admitted", "live", "leaving"}]
  BY <1>1, <1>2
<1>4. disk \in Stored
  BY <1>1 DEF TypeOK
<1>5. TypeOK'
  BY <1>1, <1>2, <1>3, <1>4 DEF TypeOK, Stored
<1>6. Waiting'
  BY <1>1, <1>2 DEF Waiting, Apart
<1>7. Asked'
  BY <1>1, <1>2 DEF Asked
<1>8. Carried'
  BY <1>1, <1>2 DEF Carried, Stores
<1>9. Level' /\ Spent'
  BY <1>2 DEF Inv, Level, Spent
<1>10. Buried'
  <2>1. \A g \in dead : disk.credential = "revoked" /\ grants[g].status # "redeemed" /\ g \in Grants
    BY <1>1 DEF Inv, Buried, TypeOK
  <2>2. \A g \in Grants : disk.grants[g].status = "redeemed" => grants[g] = disk.grants[g]
    BY DEF Inv, Level
  <2> QED  BY <1>2, <2>1, <2>2 DEF Buried
<1> QED  BY <1>5, <1>6, <1>7, <1>8, <1>9, <1>10 DEF Inv

\* The records of the grants are on disk: the call goes on.
LEMMA SecondDocumentKeeps ==
  ASSUME Inv, WriteDocument("integrations"), job["integrations"].at # 1  PROVE Inv'
<1> DEFINE st == "integrations"
           c == Head(queue[st])
           a == calls[c].on
<1>1. TypeOK /\ st \in Stores /\ NoJob \in Write
  BY DEF Inv, Stores, NoJob, Write
<1>2. job[st].at = 2 /\ job[st] \in Write
  <2>1. job[st] \in Write
    BY <1>1 DEF TypeOK
  <2> QED  BY <2>1 DEF WriteDocument, Write
<1>3. /\ job' = [job EXCEPT ![st] = NoJob]
      /\ disk' = [disk EXCEPT !.grants = [g \in Grants |->
                    IF g \in job[st].known THEN grants[g] ELSE Unmade]]
      /\ Continue(st, c) /\ UNCHANGED faults
  BY <1>2 DEF WriteDocument, Replaced, Documents
<1>4. c \in Calls /\ calls[c].op \in Tasks(st)
  BY <1>1, <1>2, HeadOf
<1>5. grants \in [Grants -> Grant] /\ disk \in Stored /\ calls[c] \in Call
  BY <1>1, <1>4 DEF TypeOK
<1> HIDE DEF c
\* What the documents say now ...
<1>6. /\ disk'.credential = disk.credential /\ disk' \in Stored
      /\ \A g \in Grants : disk'.grants[g] =
            IF g \in job[st].known THEN grants[g] ELSE Unmade
  <2> DEFINE new == [g \in Grants |-> IF g \in job[st].known THEN grants[g] ELSE Unmade]
  <2>1. Unmade \in Grant
    BY DEF Unmade, Grant
  <2>2. new \in [Grants -> Grant] /\ \A g \in Grants : new[g] =
            IF g \in job[st].known THEN grants[g] ELSE Unmade
    BY <1>5, <2>1
  <2> HIDE DEF new
  <2>3. disk' = [disk EXCEPT !.grants = new]
    BY <1>3 DEF new
  <2> QED  BY <1>5, <2>2, <2>3 DEF Stored
<1>7. \A g \in Grants : g \notin job[st].known =>
        disk.grants[g].status = "none"
  BY <1>2 DEF Inv, Carried
<1>8. calls[c].op = "redeem" =>
        \A g \in calls[c].grant : g \in Grants /\ g \in job[st].known /\ grants[g] = Redeemed(a)
  BY <1>2, <1>4, <1>5 DEF Inv, Carried, Asked, c, Call
<1>9. calls[c].op = "revoke" => credential = "revoked" /\ disk.credential = "revoked"
  BY <1>2, <1>4 DEF Inv, Carried, Asked, c
\* ... is what the maps say, and of a used grant what they said before.
<1>10. \A g \in Grants : /\ disk'.grants[g].status # "none" => disk'.grants[g] = grants[g]
                         /\ disk.grants[g].status = "redeemed" => disk'.grants[g] = disk.grants[g]
  <2>1. Unmade.status = "none"
    BY DEF Unmade
  <2>2. \A g \in Grants : disk.grants[g].status = "redeemed" =>
          g \in job[st].known /\ grants[g] = disk.grants[g]
    BY <1>7 DEF Inv, Level
  <2> QED  BY <1>6, <2>1, <2>2
<1>11. "integrations" \in Stores /\ job["integrations"].at > 0
      /\ job' = [job EXCEPT !["integrations"] = NoJob]
  BY <1>1, <1>2, <1>3
<1>12. UNCHANGED issuing
  BY <1>3, <1>4 DEF Continue, AdmitRedeemed, Tasks
<1>13. Level'
  BY <1>10, <1>12 DEF Level, issuing
<1>14. \A g \in Grants : \A b \in admitted[g] : disk'.grants[g] = Redeemed(b)
  <2> SUFFICES ASSUME NEW g \in Grants, NEW b \in admitted[g]
               PROVE  disk'.grants[g] = Redeemed(b)
    OBVIOUS
  <2>1. disk.grants[g] = Redeemed(b)
    BY DEF Inv, Spent
  <2>2. Redeemed(b).status = "redeemed"
    BY DEF Redeemed
  <2> QED  BY <1>10, <2>1, <2>2
<1>15. job' \in [Stores -> Write]
  BY <1>1, <1>3 DEF TypeOK
<1>16. CASE calls[c].op = "redeem" /\ ~calls[c].had
  <2>1. AdmitRedeemed(c)
    BY <1>3, <1>16 DEF Continue
  <2>2. a \in Accounts
    BY <1>1, <1>4, <1>16 DEF TypeOK
  <2>3. /\ memberships' = memberships \cup {a} /\ NoteAdmission(a)
        /\ admitted' = [g \in Grants |->
                 IF g \in calls[c].grant THEN admitted[g] \cup {a} ELSE admitted[g]]
        /\ UNCHANGED <<bans, issuing, sockets, handed, dead, lifted, spared>>
    BY <2>1 DEF AdmitRedeemed
  <2>4. queue' \in [Stores -> Seq(Calls)] /\ Waiting' /\ Carried'
        /\ calls' \in [Calls -> Call]
        /\ (\A d \in Calls : calls'[d].op \notin {"none", "issue", "revoke"} => calls'[d].on \in Accounts)
        /\ Asked'
    <3>1. CASE a \in memberships
      <4>1. Answered(c) /\ queue' = [queue EXCEPT ![st] = Tail(@)]
        BY <2>1, <3>1 DEF AdmitRedeemed
      <4>2. queue' \in [Stores -> Seq(Calls)] /\ Waiting' /\ Carried'
        BY <1>11, <4>1, Gone DEF Answered, c
      <4>3. UNCHANGED <<grants, credential>>
        BY <1>12 DEF issuing
      <4> QED  BY <1>4, <4>1, <4>2, <4>3, Answering
    <3>2. CASE a \notin memberships
      <4>1. calls' = calls
            /\ queue' = [queue EXCEPT ![st] = Tail(@), !["memberships"] = Append(@, c)]
        BY <2>1, <3>2 DEF AdmitRedeemed
      <4>2. "memberships" \in Stores /\ "memberships" # st
            /\ calls[c].op \in Tasks("memberships")
        BY <1>16 DEF Stores, Tasks
      <4>3. queue' \in [Stores -> Seq(Calls)] /\ Waiting' /\ Carried'
        BY <1>11, <4>1, <4>2, Moved DEF c
      <4>4. Asked'
        BY <1>12, <4>1 DEF Inv, Asked, issuing
      <4> QED  BY <1>1, <4>1, <4>3, <4>4 DEF TypeOK
    <3> QED  BY <3>1, <3>2
  <2>5. memberships' \in SUBSET Accounts /\ admitted' \in [Grants -> SUBSET Accounts]
    BY <1>1, <2>2, <2>3 DEF TypeOK
  <2>6. outlawed' \in SUBSET Accounts /\ raced' \in SUBSET Accounts
    BY <1>1, <2>2, <2>3 DEF TypeOK, NoteAdmission
  <2>7. TypeOK'
    BY <1>1, <1>3, <1>6, <1>15, <2>3, <2>4, <2>5, <2>6 DEF TypeOK, issuing
  <2>8. Spent'
    <3> SUFFICES ASSUME NEW g \in Grants, NEW b \in admitted'[g]
                 PROVE  disk'.grants[g] = Redeemed(b)
      BY DEF Spent
    <3>1. CASE g \in calls[c].grant
      <4>1. disk'.grants[g] = Redeemed(a)
        BY <1>6, <1>8, <1>16, <3>1
      <4>2. b \in admitted[g] \/ b = a
        BY <2>3, <3>1
      <4> QED  BY <1>14, <4>1, <4>2
    <3>2. CASE g \notin calls[c].grant
      BY <1>14, <2>3, <3>2
    <3> QED  BY <3>1, <3>2
  <2>9. Buried'
    BY <1>6, <1>12, <2>3 DEF Inv, Buried, issuing
  <2> QED  BY <1>13, <2>4, <2>7, <2>8, <2>9 DEF Inv
<1>17. CASE ~(calls[c].op = "redeem" /\ ~calls[c].had)
  <2>1. /\ queue' = [queue EXCEPT ![st] = Tail(@)] /\ Answered(c)
        /\ handed' = IF calls[c].op = "issue" THEN handed \cup calls[c].grant ELSE handed
        /\ dead' = IF calls[c].op = "revoke"
                     THEN dead \cup {g \in Grants : grants[g].status = "open"} ELSE dead
        /\ UNCHANGED <<access, sockets, admitted, outlawed, lifted, raced, spared>>
    BY <1>3, <1>17 DEF Continue
  <2>2. queue' \in [Stores -> Seq(Calls)] /\ Waiting' /\ Carried'
    BY <1>11, <2>1, Gone DEF Answered, c
  <2>3. /\ calls' \in [Calls -> Call]
        /\ \A d \in Calls : calls'[d].op \notin {"none", "issue", "revoke"} => calls'[d].on \in Accounts
        /\ Asked'
    BY <1>4, <1>12, <2>1, Answering DEF issuing
  <2>4. handed' \in SUBSET Grants /\ dead' \in SUBSET Grants
    BY <1>1, <1>5, <2>1 DEF TypeOK, Call
  <2>5. TypeOK'
    BY <1>1, <1>3, <1>6, <1>12, <1>15, <2>1, <2>2, <2>3, <2>4 DEF TypeOK, access, issuing
  <2>6. Spent'
    BY <1>14, <2>1 DEF Spent
  <2>7. Buried'
    <3> SUFFICES ASSUME NEW g \in dead'
                 PROVE  /\ credential = "revoked" /\ disk.credential = "revoked"
                        /\ grants[g].status # "redeemed"
      BY <1>6, <1>12 DEF Buried, issuing
    <3>1. CASE g \in dead
      BY <3>1 DEF Inv, Buried
    <3>2. CASE g \notin dead
      <4>1. calls[c].op = "revoke" /\ grants[g].status = "open"
        BY <2>1, <3>2
      <4> QED  BY <1>9, <4>1
    <3> QED  BY <3>1, <3>2
  <2> QED  BY <1>13, <2>2, <2>3, <2>5, <2>6, <2>7 DEF Inv
<1> QED  BY <1>16, <1>17

LEMMA WriteDocumentKeeps ==
  ASSUME Inv, NEW st \in Stores, WriteDocument(st)  PROVE Inv'
<1>1. CASE st = "integrations"
  BY <1>1, FirstDocumentKeeps, SecondDocumentKeeps
<1>2. CASE st # "integrations"
  <2>1. st \in {"memberships", "moderation"}
    BY <1>2 DEF Stores
  <2> QED  BY <2>1, OtherDocumentKeeps
<1> QED  BY <1>1, <1>2

-----------------------------------------------------------------------------
(***************************************************************************)
(* The theorems.                                                           *)
(***************************************************************************)

\* Connections come and go; the stores do not hear of it.
LEMMA ConnectionsKeep ==
  ASSUME Inv, NEW s \in Sockets,
         AdmitHostedSocket(s) \/ HandleSocketConnection(s) \/ SocketGone(s)
  PROVE  Inv'
<1>1. /\ sockets' \in [Sockets -> {"away", "admitted", "live", "leaving"}]
      /\ spared' \in SUBSET Sockets
  BY DEF Inv, TypeOK, AdmitHostedSocket, HandleSocketConnection, SocketGone, memory
<1>2. UNCHANGED <<access, issuing, storing, calls, faults,
                  handed, admitted, dead, outlawed, lifted, raced>>
  BY DEF AdmitHostedSocket, HandleSocketConnection, SocketGone, memory
<1>3. TypeOK'
  BY <1>1, <1>2 DEF Inv, TypeOK, access, issuing, storing
<1>4. Waiting' /\ Asked' /\ Carried'
  BY <1>2 DEF Inv, Waiting, Asked, Carried, issuing, storing
<1>5. Level' /\ Spent' /\ Buried'
  BY <1>2 DEF Inv, Level, Spent, Buried, issuing, storing
<1> QED  BY <1>3, <1>4, <1>5 DEF Inv

LEMMA InitHolds == Init => Inv
<1> SUFFICES ASSUME Init  PROVE Inv
  OBVIOUS
<1>1. Unmade \in Grant /\ Idle \in Call /\ NoJob \in Write
      /\ Idle.op = "none" /\ NoJob.at = 0 /\ Unmade.status = "none"
  BY DEF Unmade, Grant, Idle, Call, NoJob, Write
<1>2. disk \in Stored /\ disk.grants = [g \in Grants |-> Unmade]
  BY <1>1 DEF Init, Stored
<1>3. /\ queue \in [Stores -> Seq(Calls)] /\ job \in [Stores -> Write]
      /\ calls \in [Calls -> Call] /\ grants \in [Grants -> Grant]
  BY <1>1 DEF Init
<1>4. TypeOK
  BY <1>1, <1>2, <1>3, AccessAssumption DEF Init, TypeOK
<1>5. Waiting
  BY <1>1 DEF Init, Waiting, Apart
<1>6. Asked /\ Carried
  BY <1>1 DEF Init, Asked, Carried, Stores
<1>7. Level /\ Spent /\ Buried
  BY <1>1, <1>2 DEF Init, Level, Spent, Buried
<1> QED  BY <1>4, <1>5, <1>6, <1>7 DEF Inv

LEMMA StepKeeps == Inv /\ [Next]_vars => Inv'
<1> SUFFICES ASSUME Inv, [Next]_vars  PROVE Inv'
  OBVIOUS
<1>1. ASSUME NEW c \in Calls, Serve(c)  PROVE Inv'
  BY <1>1, EnterKeeps, UnbanKeeps, BanKeeps, KickKeeps, CreateEntryGrantKeeps,
     RedeemEntryGrantKeeps, RevokeCredentialKeeps DEF Serve
<1>2. ASSUME NEW g \in Grants, Expire(g)  PROVE Inv'
  BY <1>2, ExpireKeeps
<1>3. ASSUME NEW st \in Stores, PersistNow(st) \/ WriteDocument(st) \/ WriteFails(st)  PROVE Inv'
  BY <1>3, PersistNowKeeps, WriteDocumentKeeps, WriteFailsKeeps
<1>4. CASE Restart
  BY <1>4, RestartKeeps
<1>5. ASSUME NEW s \in Sockets,
             AdmitHostedSocket(s) \/ HandleSocketConnection(s) \/ SocketGone(s)
      PROVE  Inv'
  BY <1>5, ConnectionsKeep
<1>6. CASE UNCHANGED vars
  <2>1. TypeOK'
    BY <1>6 DEF Inv, TypeOK, vars, access, issuing, storing, memory
  <2>2. Waiting' /\ Asked' /\ Carried'
    BY <1>6 DEF Inv, Waiting, Asked, Carried, vars, access, issuing, storing, memory
  <2>3. Level' /\ Spent' /\ Buried'
    BY <1>6 DEF Inv, Level, Spent, Buried, vars, access, issuing, storing, memory
  <2> QED  BY <2>1, <2>2, <2>3 DEF Inv
<1> QED  BY <1>1, <1>2, <1>3, <1>4, <1>5, <1>6 DEF Next

LEMMA InvHolds == Spec => []Inv
<1> QED  BY InitHolds, StepKeeps, PTL DEF Spec

(***************************************************************************)
(* The maps, documents, queues and writes of the stores, the requests and  *)
(* the connections always have the shape the code gives them: requests     *)
(* that go from one store's queue to the next one's, restarts and failed   *)
(* writes included (memberships/store.mjs, integrations/store.mjs).        *)
(***************************************************************************)
THEOREM AccessTypes == Spec => []TypeOK
<1>1. Inv => TypeOK
  BY DEF Inv
<1> QED  BY <1>1, InvHolds, PTL

(***************************************************************************)
(* An Entry Grant makes one account a member at most, and none if it was   *)
(* still open when the revocation of its credential was confirmed          *)
(* (redeemEntryGrant, revokeCredential, serveEventEntryGrantRedeem).       *)
(***************************************************************************)
THEOREM GrantsSpentOnce == Spec => []GrantsAreSpentOnce
<1>1. Inv => GrantsAreSpentOnce
  <2> SUFFICES ASSUME Inv, NEW g \in Grants
               PROVE  Cardinality(admitted[g]) <= IF g \in dead THEN 0 ELSE 1
    BY DEF GrantsAreSpentOnce
  <2>1. \A a \in admitted[g] : disk.grants[g] = Redeemed(a)
    BY DEF Inv, Spent
  <2>2. \A a \in admitted[g] : Redeemed(a).status = "redeemed" /\ Redeemed(a).by = a
    BY DEF Redeemed
  <2>3. CASE admitted[g] = {}
    <3>1. Cardinality(admitted[g]) = 0
      BY <2>3, FS_EmptySet
    <3> QED  BY <3>1
  <2>4. CASE admitted[g] # {}
    <3>1. PICK a \in admitted[g] : TRUE
      BY <2>4
    <3>2. admitted[g] = {a}
      BY <2>1, <2>2, <3>1
    <3>3. Cardinality(admitted[g]) = 1
      BY <3>2, FS_Singleton
    <3>4. g \notin dead
      <4>1. grants[g] = disk.grants[g] /\ grants[g].status = "redeemed"
        BY <2>1, <2>2, <3>1 DEF Inv, Level
      <4> QED  BY <4>1 DEF Inv, Buried
    <3> QED  BY <3>3, <3>4
  <2> QED  BY <2>3, <2>4
<1> QED  BY <1>1, InvHolds, PTL

-----------------------------------------------------------------------------
(***************************************************************************)
(* Bans.                                                                   *)
(*                                                                         *)
(* A ban that no unban overtakes holds in the maps from the moment it is   *)
(* asked for, in the write it waits for, and in the documents from then    *)
(* on, the write under way included: what its confirmation promises is     *)
(* there already, and a restart finds it.                                  *)
(***************************************************************************)

MembershipWrite == job["memberships"]

Stands(c, a) == calls[c].op = "ban" /\ ~calls[c].overtaken /\ calls[c].on = a

\* The write under way is the one the call waits for, or the call waits for the log.
Ahead(c)   == /\ MembershipWrite.at > 0 /\ queue["memberships"] # << >>
              /\ Head(queue["memberships"]) = c
Logging(c) == \E i \in 1..Len(queue["moderation"]) : queue["moderation"][i] = c

InTheMaps(a) == a \in bans /\ (a \in raced \/ a \notin memberships)

InTheWrite(a) ==
    a \in MembershipWrite.bans /\ (a \in raced \/ a \notin MembershipWrite.members)

InTheDocuments(a) ==
    /\ a \in disk.bans
    /\ MembershipWrite.at > 0 => a \in MembershipWrite.bans
    /\ a \in raced \/ (a \notin disk.members /\ a \notin MembershipWrite.members)

Banned ==
    \A c \in Calls, a \in Accounts : Stands(c, a) =>
        /\ InTheMaps(a)
        /\ Ahead(c) => InTheWrite(a)
        /\ Logging(c) => InTheDocuments(a)

Outlaws ==
    \A a \in outlawed :
        /\ a \in raced \/ (/\ a \notin memberships /\ a \notin disk.members
                           /\ a \notin MembershipWrite.members)
        /\ a \in lifted \/ (/\ a \in bans /\ a \in disk.bans
                            /\ MembershipWrite.at > 0 => a \in MembershipWrite.bans)

\* What a step does to the bans that stand, seen from their calls.
SameCalls ==
    \A d \in Calls, a \in Accounts : Stands(d, a)' =>
        /\ Stands(d, a)
        /\ Ahead(d)' => Ahead(d)
        /\ Logging(d)' => Logging(d)

SameWrite ==
    \/ MembershipWrite' = MembershipWrite
    \/ MembershipWrite' = NoJob

LEMMA Enqueued ==
  ASSUME Inv, NEW c \in Calls, NEW st \in Stores, calls[c] = Idle,
         EnqueueWrite(st, c), UNCHANGED job
  PROVE  /\ \A d \in Calls : (Ahead(d)' => Ahead(d)) /\ (Logging(d)' => Logging(d) \/ d = c)
         /\ ~Ahead(c)' /\ (Logging(c)' => st = "moderation")
<1>1. queue \in [Stores -> Seq(Calls)] /\ Apart(queue)
      /\ "memberships" \in Stores /\ "moderation" \in Stores
  BY DEF Inv, TypeOK, Waiting, Stores
<1>2. Nowhere(queue, c)
  <2> SUFFICES ASSUME NEW s \in Stores, NEW i \in 1..Len(queue[s])
               PROVE  queue[s][i] # c
    BY DEF Nowhere
  <2>1. calls[queue[s][i]].op \in Tasks(s)
    BY DEF Inv, Waiting
  <2>2. "none" \notin Tasks(s) /\ calls[c].op = "none"
    BY DEF Tasks, Stores, Idle
  <2> QED  BY <2>1, <2>2
<1>3. Joined(queue, queue', st, c)
  <2>1. queue \in [Stores -> Seq(Calls)]
    BY <1>1
  <2>2. Apart(queue)
    BY <1>1
  <2>3. queue' = [queue EXCEPT ![st] = Append(@, c)]
    BY DEF EnqueueWrite
  <2> QED  BY <1>2, <2>1, <2>2, <2>3, Joining, ZenonT(60)
<1>4. MembershipWrite' = MembershipWrite
      /\ (MembershipWrite.at > 0 => queue["memberships"] # << >>)
  BY <1>1 DEF MembershipWrite, Inv, Waiting
<1>5. \A d \in Calls : Ahead(d)' => Ahead(d)
  BY <1>1, <1>3, <1>4 DEF Ahead, Joined
<1>6. \A d \in Calls : Logging(d)' => Logging(d) \/ (d = c /\ st = "moderation")
  <2> SUFFICES ASSUME NEW d \in Calls,
                      NEW i \in 1..Len(queue'["moderation"]), queue'["moderation"][i] = d
               PROVE  Logging(d) \/ (d = c /\ st = "moderation")
    BY DEF Logging
  <2>1. \/ i \in 1..Len(queue["moderation"]) /\ queue'["moderation"][i] = queue["moderation"][i]
        \/ "moderation" = st /\ queue'["moderation"][i] = c
    BY <1>1, <1>3 DEF Joined
  <2> QED  BY <2>1 DEF Logging
<1>7. ~Ahead(c) /\ ~Logging(c)
  <2>1. ~Logging(c)
    BY <1>1, <1>2 DEF Nowhere, Logging
  <2>2. queue["memberships"] # << >> =>
          1 \in 1..Len(queue["memberships"]) /\ Head(queue["memberships"]) = queue["memberships"][1]
    <3>1. queue["memberships"] \in Seq(Calls)
      BY <1>1
    <3> QED  BY <3>1
  <2> QED  BY <1>1, <1>2, <2>1, <2>2 DEF Nowhere, Ahead
<1> QED  BY <1>5, <1>6, <1>7

\* The first of a queue is answered ...
LEMMA Dequeued ==
  ASSUME Inv, NEW st \in Stores, job[st].at > 0,
         job' = [job EXCEPT ![st] = NoJob],
         queue' = [queue EXCEPT ![st] = Tail(@)]
  PROVE  \A d \in Calls : (Ahead(d)' => Ahead(d)) /\ (Logging(d)' => Logging(d))
<1>1. queue \in [Stores -> Seq(Calls)] /\ Apart(queue) /\ job \in [Stores -> Write]
      /\ queue[st] # << >> /\ "memberships" \in Stores /\ "moderation" \in Stores
  BY DEF Inv, TypeOK, Waiting, Stores
<1>2. Left(queue, queue', st, Head(queue[st]))
  <2>1. queue \in [Stores -> Seq(Calls)]
    BY <1>1
  <2>2. Apart(queue)
    BY <1>1
  <2>3. queue[st] # << >>
    BY <1>1
  <2> QED  BY <2>1, <2>2, <2>3, Leaving, ZenonT(60)
<1>3. CASE st = "memberships"
  <2>1. MembershipWrite'.at = 0
    BY <1>1, <1>3 DEF MembershipWrite, NoJob
  <2>2. queue'["moderation"] = queue["moderation"]
    BY <1>1, <1>2, <1>3 DEF Left
  <2> QED  BY <2>1, <2>2 DEF Ahead, Logging
<1>4. CASE st # "memberships"
  <2>1. MembershipWrite' = MembershipWrite /\ queue'["memberships"] = queue["memberships"]
    BY <1>1, <1>2, <1>4 DEF MembershipWrite, Left
  <2>2. \A d \in Calls : Logging(d)' => Logging(d)
    <3> SUFFICES ASSUME NEW d \in Calls,
                        NEW i \in 1..Len(queue'["moderation"]), queue'["moderation"][i] = d
                 PROVE  Logging(d)
      BY DEF Logging
    <3>1. \E k \in 1..Len(queue["moderation"]) : queue'["moderation"][i] = queue["moderation"][k]
      BY <1>1, <1>2 DEF Left
    <3> QED  BY <3>1 DEF Logging
  <2> QED  BY <2>1, <2>2 DEF Ahead
<1> QED  BY <1>3, <1>4

\* ... or goes on to the queue of another store.
LEMMA Requeued ==
  ASSUME Inv, NEW st \in Stores, NEW t \in Stores, t # st, job[st].at > 0,
         job' = [job EXCEPT ![st] = NoJob],
         queue' = [queue EXCEPT ![st] = Tail(@), ![t] = Append(@, Head(queue[st]))]
  PROVE  \A d \in Calls :
            /\ Ahead(d)' => Ahead(d)
            /\ Logging(d)' => Logging(d) \/ (d = Head(queue[st]) /\ t = "moderation")
<1> DEFINE c == Head(queue[st])
           q == [queue EXCEPT ![st] = Tail(@)]
<1>1. queue \in [Stores -> Seq(Calls)] /\ Apart(queue) /\ job \in [Stores -> Write]
      /\ queue[st] # << >> /\ "memberships" \in Stores /\ "moderation" \in Stores
  BY DEF Inv, TypeOK, Waiting, Stores
<1>2. Left(queue, q, st, c)
  <2>1. queue \in [Stores -> Seq(Calls)]
    BY <1>1
  <2>2. Apart(queue)
    BY <1>1
  <2>3. queue[st] # << >>
    BY <1>1
  <2> QED  BY <2>1, <2>2, <2>3, Leaving, ZenonT(60)
<1>3. queue' = [q EXCEPT ![t] = Append(@, c)]
  OBVIOUS
<1> HIDE DEF c, q
<1>4. Joined(q, queue', t, c)
  <2>1. q \in [Stores -> Seq(Calls)] /\ c \in Calls
    BY <1>2 DEF Left
  <2>2. Apart(q)
    BY <1>2 DEF Left
  <2>3. Nowhere(q, c)
    BY <1>2 DEF Left
  <2> QED  BY <1>3, <2>1, <2>2, <2>3, Joining, ZenonT(60)
<1>5. \A d \in Calls : Ahead(d)' => Ahead(d)
  <2>1. CASE st = "memberships"
    <3>1. MembershipWrite'.at = 0
      BY <1>1, <2>1 DEF MembershipWrite, NoJob
    <3> QED  BY <3>1 DEF Ahead
  <2>2. CASE st # "memberships"
    <3>1. MembershipWrite' = MembershipWrite /\ q["memberships"] = queue["memberships"]
      BY <1>1, <1>2, <2>2 DEF MembershipWrite, Left
    <3>2. MembershipWrite.at > 0 => queue["memberships"] # << >>
      BY <1>1 DEF MembershipWrite, Inv, Waiting
    <3> QED  BY <1>1, <1>4, <3>1, <3>2 DEF Ahead, Joined
  <2> QED  BY <2>1, <2>2
<1>6. \A d \in Calls : Logging(d)' => Logging(d) \/ (d = c /\ t = "moderation")
  <2> SUFFICES ASSUME NEW d \in Calls,
                      NEW i \in 1..Len(queue'["moderation"]), queue'["moderation"][i] = d
               PROVE  Logging(d) \/ (d = c /\ t = "moderation")
    BY DEF Logging
  <2>1. CASE i \in 1..Len(q["moderation"]) /\ queue'["moderation"][i] = q["moderation"][i]
    <3>1. \E k \in 1..Len(queue["moderation"]) : q["moderation"][i] = queue["moderation"][k]
      BY <1>1, <1>2, <2>1 DEF Left
    <3> QED  BY <2>1, <3>1 DEF Logging
  <2>2. CASE "moderation" = t /\ queue'["moderation"][i] = c
    BY <2>2
  <2> QED  BY <1>1, <1>4, <2>1, <2>2 DEF Joined
<1> QED  BY <1>5, <1>6 DEF c

\* Nothing a ban is about has changed.
LEMMA NothingMoved ==
  ASSUME Banned, Outlaws, SameCalls, SameWrite,
         disk'.members = disk.members, disk'.bans = disk.bans,
         UNCHANGED <<access, outlawed, lifted, raced>>
  PROVE  Banned' /\ Outlaws'
<1>1. \/ MembershipWrite' = MembershipWrite
      \/ MembershipWrite'.at = 0 /\ MembershipWrite'.members = {} /\ MembershipWrite'.bans = {}
  BY DEF SameWrite, NoJob
<1>2. ASSUME NEW d \in Calls, NEW a \in Accounts, Stands(d, a)'
      PROVE  /\ InTheMaps(a)'
             /\ Ahead(d)' => InTheWrite(a)'
             /\ Logging(d)' => InTheDocuments(a)'
  <2>1. /\ Stands(d, a)
        /\ Ahead(d)' => Ahead(d)
        /\ Logging(d)' => Logging(d)
    BY <1>2 DEF SameCalls
  <2>2. InTheMaps(a) /\ (Ahead(d) => InTheWrite(a)) /\ (Logging(d) => InTheDocuments(a))
    BY <2>1 DEF Banned
  <2>3. InTheMaps(a)'
    BY <2>2 DEF InTheMaps, access
  <2>4. Ahead(d)' => InTheWrite(a)'
    BY <1>1, <2>1, <2>2 DEF InTheWrite, Ahead
  <2>5. Logging(d)' => InTheDocuments(a)'
    BY <1>1, <2>1, <2>2 DEF InTheDocuments
  <2> QED  BY <2>1, <2>3, <2>4, <2>5
<1>3. Banned'
  BY <1>2 DEF Banned
<1>4. Outlaws'
  BY <1>1 DEF Outlaws, access
<1> QED  BY <1>3, <1>4

\* An account is let in: if it is banned, it raced its ban.
LEMMA LetIn ==
  ASSUME Banned, Outlaws, SameCalls, NEW a,
         memberships' = memberships \cup {a}, NoteAdmission(a),
         disk'.members = disk.members, disk'.bans = disk.bans,
         MembershipWrite' = MembershipWrite,
         UNCHANGED <<bans, lifted>>
  PROVE  Banned' /\ Outlaws'
<1>1. /\ a \in bans => outlawed' = outlawed /\ raced' = raced \cup {a}
      /\ a \notin bans => outlawed' = outlawed \ {a} /\ raced' = raced
  BY DEF NoteAdmission
<1>2. ASSUME NEW d \in Calls, NEW b \in Accounts, Stands(d, b)'
      PROVE  /\ InTheMaps(b)'
             /\ Ahead(d)' => InTheWrite(b)'
             /\ Logging(d)' => InTheDocuments(b)'
  <2>1. /\ Stands(d, b)
        /\ Ahead(d)' => Ahead(d)
        /\ Logging(d)' => Logging(d)
    BY <1>2 DEF SameCalls
  <2>2. InTheMaps(b) /\ (Ahead(d) => InTheWrite(b)) /\ (Logging(d) => InTheDocuments(b))
    BY <2>1 DEF Banned
  <2>3. InTheMaps(b)'
    BY <1>1, <2>2 DEF InTheMaps
  <2>4. Ahead(d)' => InTheWrite(b)'
    BY <1>1, <2>1, <2>2 DEF InTheWrite
  <2>5. Logging(d)' => InTheDocuments(b)'
    BY <1>1, <2>1, <2>2 DEF InTheDocuments
  <2> QED  BY <2>1, <2>3, <2>4, <2>5
<1>3. Banned'
  BY <1>2 DEF Banned
<1>4. Outlaws'
  BY <1>1 DEF Outlaws
<1> QED  BY <1>3, <1>4

\* A call that is no ban begins, and waits for a write.
LEMMA OtherCallBegins ==
  ASSUME Inv, NEW c \in Calls, NEW st \in Stores, calls[c] = Idle, calls'[c].op # "ban",
         \A d \in Calls \ {c} : calls'[d] = calls[d],
         EnqueueWrite(st, c), UNCHANGED job
  PROVE  SameCalls /\ SameWrite
<1>1. \A d \in Calls : (Ahead(d)' => Ahead(d)) /\ (Logging(d)' => Logging(d) \/ d = c)
  BY Enqueued
<1>2. \A d \in Calls, a \in Accounts : Stands(d, a)' => d # c /\ Stands(d, a)
  BY DEF Stands
<1>3. SameCalls
  BY <1>1, <1>2 DEF SameCalls
<1> QED  BY <1>3 DEF SameWrite, MembershipWrite

\* A call is over.
LEMMA OthersStand ==
  ASSUME Inv, NEW c \in Calls, Answered(c)
  PROVE  \A d \in Calls, a \in Accounts : Stands(d, a)' => d # c /\ Stands(d, a)
<1>1. calls' = [calls EXCEPT ![c] = Idle] /\ calls \in [Calls -> Call] /\ Idle.op # "ban"
  BY DEF Inv, TypeOK, Answered, Idle
<1> QED  BY <1>1 DEF Stands

LEMMA EnterBans ==
  ASSUME Inv, Banned, Outlaws, NEW c \in Calls, NEW a \in Accounts, Enter(c, a)
  PROVE  Banned' /\ Outlaws'
<1>1. TypeOK /\ "memberships" \in Stores
  BY DEF Inv, Stores
<1>2. Begin(c, "enter", a, {}, FALSE) /\ "enter" \in Ops
  BY DEF Enter, Ops
<1>3. calls[c] = Idle /\ calls'[c].op = "enter" /\ \A d \in Calls \ {c} : calls'[d] = calls[d]
  BY <1>1, <1>2, Beginning
<1>4. EnqueueWrite("memberships", c) /\ UNCHANGED job
  BY DEF Enter
<1>5. SameCalls
  BY <1>1, <1>3, <1>4, OtherCallBegins
<1>6. /\ memberships' = memberships \cup {a} /\ NoteAdmission(a)
      /\ disk'.members = disk.members /\ disk'.bans = disk.bans
      /\ UNCHANGED <<bans, lifted>>
  BY DEF Enter
<1>7. MembershipWrite' = MembershipWrite
  BY <1>4 DEF MembershipWrite
<1> QED  BY <1>5, <1>6, <1>7, LetIn

\* What these calls do to the maps is not about memberships.
LEMMA QuietCallBans ==
  ASSUME Inv, Banned, Outlaws, NEW c \in Calls,
         \/ \E s \in Sockets : Kick(c, s)
         \/ \E g \in Grants : CreateEntryGrant(c, g)
         \/ \E a \in Accounts, g \in Grants : RedeemEntryGrant(c, a, g)
         \/ RevokeCredential(c)
  PROVE  Banned' /\ Outlaws'
<1>1. PICK st \in Stores, op \in Ops, a \in Accounts \cup {NoOne}, g \in SUBSET Grants :
         /\ op # "ban" /\ (op \notin {"none", "issue", "revoke"} => a \in Accounts)
         /\ Begin(c, op, a, g, TRUE) \/ Begin(c, op, a, g, FALSE)
         /\ EnqueueWrite(st, c) /\ UNCHANGED <<access, disk, job, memory>>
  <2>1. ASSUME NEW s \in Sockets, Kick(c, s)
        PROVE  /\ "kick" # "ban" /\ OwnerOf[s] \in Accounts
               /\ Begin(c, "kick", OwnerOf[s], {}, FALSE)
               /\ EnqueueWrite("moderation", c) /\ UNCHANGED <<access, disk, job, memory>>
    BY <2>1, AccessAssumption DEF Kick
  <2>2. ASSUME NEW h \in Grants, CreateEntryGrant(c, h)
        PROVE  /\ "issue" # "ban" /\ Begin(c, "issue", NoOne, {h}, FALSE)
               /\ EnqueueWrite("integrations", c) /\ UNCHANGED <<access, disk, job, memory>>
    BY <2>2 DEF CreateEntryGrant
  <2>3. ASSUME NEW b \in Accounts, NEW h \in Grants, RedeemEntryGrant(c, b, h)
        PROVE  /\ "redeem" # "ban"
               /\ Begin(c, "redeem", b, {h}, TRUE) \/ Begin(c, "redeem", b, {h}, FALSE)
               /\ EnqueueWrite("integrations", c) /\ UNCHANGED <<access, disk, job, memory>>
    <3>1. (b \in memberships) = TRUE \/ (b \in memberships) = FALSE
      OBVIOUS
    <3>2. Begin(c, "redeem", b, {h}, b \in memberships)
      BY <2>3 DEF RedeemEntryGrant
    <3>3. EnqueueWrite("integrations", c) /\ UNCHANGED <<access, disk, job, memory>>
      BY <2>3 DEF RedeemEntryGrant
    <3> QED  BY <3>1, <3>2, <3>3
  <2>4. ASSUME RevokeCredential(c)
        PROVE  /\ "revoke" # "ban" /\ Begin(c, "revoke", NoOne, {}, FALSE)
               /\ EnqueueWrite("integrations", c) /\ UNCHANGED <<access, disk, job, memory>>
    BY <2>4 DEF RevokeCredential
  <2>5. /\ {"moderation", "integrations"} \subseteq Stores
        /\ {"kick", "issue", "redeem", "revoke"} \subseteq Ops
        /\ {} \in SUBSET Grants /\ \A h \in Grants : {h} \in SUBSET Grants
    BY DEF Stores, Ops
  <2>6. CASE \E s \in Sockets : Kick(c, s)
    BY <2>1, <2>5, <2>6
  <2>7. CASE \E h \in Grants : CreateEntryGrant(c, h)
    BY <2>2, <2>5, <2>7
  <2>8. CASE \E b \in Accounts, h \in Grants : RedeemEntryGrant(c, b, h)
    BY <2>3, <2>5, <2>8
  <2>9. CASE RevokeCredential(c)
    BY <2>4, <2>5, <2>9
  <2> QED  BY <2>6, <2>7, <2>8, <2>9
<1>2. calls[c] = Idle /\ calls'[c].op = op /\ \A d \in Calls \ {c} : calls'[d] = calls[d]
  <2>1. TypeOK
    BY DEF Inv
  <2>2. CASE Begin(c, op, a, g, TRUE)
    BY <1>1, <2>1, <2>2, Beginning
  <2>3. CASE Begin(c, op, a, g, FALSE)
    BY <1>1, <2>1, <2>3, Beginning
  <2> QED  BY <1>1, <2>2, <2>3
<1>3. SameCalls /\ SameWrite
  <2>1. calls'[c].op # "ban"
    BY <1>1, <1>2
  <2>2. EnqueueWrite(st, c) /\ UNCHANGED job
    BY <1>1
  <2> QED  BY <1>2, <2>1, <2>2, OtherCallBegins
<1>4. /\ disk'.members = disk.members /\ disk'.bans = disk.bans
      /\ UNCHANGED <<access, outlawed, lifted, raced>>
  BY <1>1 DEF memory
<1> QED  BY <1>3, <1>4, NothingMoved

LEMMA BanBans ==
  ASSUME Inv, Banned, Outlaws, NEW c \in Calls, NEW s \in Sockets, Ban(c, s)
  PROVE  Banned' /\ Outlaws'
<1>1. TypeOK /\ "memberships" \in Stores /\ OwnerOf[s] \in Accounts
  BY AccessAssumption DEF Inv, Stores
<1> DEFINE b == OwnerOf[s]
<1>2. Begin(c, "ban", b, {}, FALSE)
  BY DEF Ban
<1>3. calls[c] = Idle /\ calls'[c].on = b /\ \A d \in Calls \ {c} : calls'[d] = calls[d]
  BY <1>1, <1>2 DEF Begin, TypeOK
<1>4. /\ EnqueueWrite("memberships", c)
      /\ memberships' = memberships \ {b} /\ bans' = bans \cup {b}
      /\ UNCHANGED <<disk, job, memory>>
  BY DEF Ban
<1>5. /\ \A d \in Calls : (Ahead(d)' => Ahead(d)) /\ (Logging(d)' => Logging(d) \/ d = c)
      /\ ~Ahead(c)' /\ (Logging(c)' => "memberships" = "moderation")
  BY <1>1, <1>3, <1>4, Enqueued
<1>6. MembershipWrite' = MembershipWrite
  BY <1>4 DEF MembershipWrite
<1> HIDE DEF b
<1>7. ASSUME NEW d \in Calls, NEW a \in Accounts, Stands(d, a)'
      PROVE  /\ InTheMaps(a)'
             /\ Ahead(d)' => InTheWrite(a)'
             /\ Logging(d)' => InTheDocuments(a)'
  <2>1. CASE d = c
    <3>1. a = b
      BY <1>3, <1>7, <2>1 DEF Stands
    <3>2. InTheMaps(a)'
      BY <1>4, <3>1 DEF InTheMaps
    <3> QED  BY <1>5, <2>1, <3>2
  <2>2. CASE d # c
    <3>1. Stands(d, a) /\ (Ahead(d)' => Ahead(d)) /\ (Logging(d)' => Logging(d))
      BY <1>3, <1>5, <1>7, <2>2 DEF Stands
    <3>2. InTheMaps(a) /\ (Ahead(d) => InTheWrite(a)) /\ (Logging(d) => InTheDocuments(a))
      BY <3>1 DEF Banned
    <3>3. InTheMaps(a)'
      BY <1>4, <3>2 DEF InTheMaps, memory
    <3>4. (Ahead(d)' => InTheWrite(a)') /\ (Logging(d)' => InTheDocuments(a)')
      BY <1>4, <1>6, <3>1, <3>2 DEF InTheWrite, InTheDocuments, memory
    <3> QED  BY <3>3, <3>4
  <2> QED  BY <2>1, <2>2
<1>8. Banned'
  BY <1>7 DEF Banned
<1>9. Outlaws'
  BY <1>4, <1>6 DEF Outlaws, memory
<1> QED  BY <1>8, <1>9

LEMMA UnbanBans ==
  ASSUME Inv, Banned, Outlaws, NEW c \in Calls, NEW b \in Accounts, Unban(c, b)
  PROVE  Banned' /\ Outlaws'
<1>1. TypeOK /\ "memberships" \in Stores
  BY DEF Inv, Stores
<1> DEFINE Over(d) == calls[d].overtaken \/ (calls[d].op = "ban" /\ calls[d].on = b)
<1>2. /\ calls[c] = Idle
      /\ calls' = [d \in Calls |->
            IF d = c THEN [Idle EXCEPT !.op = "unban", !.on = b]
            ELSE [calls[d] EXCEPT !.overtaken = Over(d)]]
      /\ bans' = bans \ {b} /\ lifted' = lifted \cup {b}
      /\ EnqueueWrite("memberships", c)
      /\ UNCHANGED <<memberships, disk, job, outlawed, raced>>
  BY DEF Unban, BeginUnban
<1>3. \A d \in Calls : (Ahead(d)' => Ahead(d)) /\ (Logging(d)' => Logging(d) \/ d = c)
  BY <1>1, <1>2, Enqueued
<1>4. MembershipWrite' = MembershipWrite
  BY <1>2 DEF MembershipWrite
\* A ban that still stands is another account's.
<1>5. ASSUME NEW d \in Calls, NEW a \in Accounts, Stands(d, a)'
      PROVE  d # c /\ Stands(d, a) /\ a # b
  <2>1. d # c
    <3>1. calls'[c] = [Idle EXCEPT !.op = "unban", !.on = b]
      BY <1>2
    <3>2. calls'[c].op = "unban"
      BY <3>1 DEF Idle
    <3> QED  BY <1>5, <3>2 DEF Stands
  <2>2. calls'[d] = [calls[d] EXCEPT !.overtaken = Over(d)] /\ calls[d] \in Call
    BY <1>1, <1>2, <2>1 DEF TypeOK
  <2> HIDE DEF Over
  <2>3. calls'[d].op = calls[d].op /\ calls'[d].on = calls[d].on
    BY <2>2 DEF Call
  <2>4. calls'[d].overtaken = Over(d)
    BY <2>2, Zenon DEF Call
  <2>5. ~Over(d) /\ calls[d].op = "ban" /\ calls[d].on = a
    BY <1>5, <2>3, <2>4 DEF Stands
  <2> QED  BY <2>1, <2>5 DEF Stands, Over
<1>6. ASSUME NEW d \in Calls, NEW a \in Accounts, Stands(d, a)'
      PROVE  /\ InTheMaps(a)'
             /\ Ahead(d)' => InTheWrite(a)'
             /\ Logging(d)' => InTheDocuments(a)'
  <2>1. a # b /\ Stands(d, a) /\ (Ahead(d)' => Ahead(d)) /\ (Logging(d)' => Logging(d))
    BY <1>3, <1>5, <1>6
  <2>2. InTheMaps(a) /\ (Ahead(d) => InTheWrite(a)) /\ (Logging(d) => InTheDocuments(a))
    BY <2>1 DEF Banned
  <2>3. InTheMaps(a)'
    BY <1>2, <2>1, <2>2 DEF InTheMaps
  <2>4. (Ahead(d)' => InTheWrite(a)') /\ (Logging(d)' => InTheDocuments(a)')
    BY <1>2, <1>4, <2>1, <2>2 DEF InTheWrite, InTheDocuments
  <2> QED  BY <2>3, <2>4
<1>7. Banned'
  BY <1>6 DEF Banned
<1>8. Outlaws'
  BY <1>2, <1>4 DEF Outlaws
<1> QED  BY <1>7, <1>8

LEMMA ExpireBans ==
  ASSUME Inv, Banned, Outlaws, NEW g \in Grants, Expire(g)
  PROVE  Banned' /\ Outlaws'
<1>1. disk \in Stored
  BY DEF Inv, TypeOK
<1>2. UNCHANGED <<access, queue, job, calls, memory>>
  BY DEF Expire
<1>3. disk'.members = disk.members /\ disk'.bans = disk.bans
  BY <1>1 DEF Expire, Stored
<1>4. SameCalls /\ SameWrite
  BY <1>2 DEF SameCalls, SameWrite, MembershipWrite, Stands, Ahead, Logging
<1> QED  BY <1>2, <1>3, <1>4, NothingMoved DEF memory

\* A write of the memberships begins with what the maps hold.
LEMMA PersistNowBans ==
  ASSUME Inv, Banned, Outlaws, NEW st \in Stores, PersistNow(st)
  PROVE  Banned' /\ Outlaws'
<1>1. TypeOK /\ "memberships" \in Stores
  BY DEF Inv, Stores
<1>2. UNCHANGED <<access, disk, queue, calls, memory>> /\ job[st].at = 0
  BY DEF PersistNow
<1>3. CASE st # "memberships"
  <2>1. MembershipWrite' = MembershipWrite
    BY <1>1, <1>3 DEF PersistNow, MembershipWrite, TypeOK
  <2>2. SameCalls /\ SameWrite
    BY <1>2, <2>1 DEF SameCalls, SameWrite, Stands, Ahead, Logging
  <2> QED  BY <1>2, <2>2, NothingMoved DEF memory
<1>4. CASE st = "memberships"
  <2>1. /\ MembershipWrite.at = 0
        /\ MembershipWrite'.members = memberships /\ MembershipWrite'.bans = bans
    BY <1>1, <1>2, <1>4 DEF PersistNow, MembershipWrite, TypeOK
  <2>2. ASSUME NEW d \in Calls, NEW a \in Accounts, Stands(d, a)'
        PROVE  /\ InTheMaps(a)'
               /\ Ahead(d)' => InTheWrite(a)'
               /\ Logging(d)' => InTheDocuments(a)'
    <3>1. Stands(d, a) /\ (Logging(d)' => Logging(d))
      BY <1>2, <2>2 DEF Stands, Logging
    <3>2. InTheMaps(a) /\ (Logging(d) => InTheDocuments(a))
      BY <3>1 DEF Banned
    <3>3. InTheMaps(a)' /\ InTheWrite(a)'
      BY <1>2, <2>1, <3>2 DEF InTheMaps, InTheWrite, access, memory
    <3>4. Logging(d)' => InTheDocuments(a)'
      BY <1>2, <2>1, <3>1, <3>2 DEF InTheMaps, InTheDocuments, access, memory
    <3> QED  BY <3>3, <3>4
  <2>3. Banned'
    BY <2>2 DEF Banned
  <2>4. Outlaws'
    BY <1>2, <2>1 DEF Outlaws, access, memory
  <2> QED  BY <2>3, <2>4
<1> QED  BY <1>3, <1>4

LEMMA WriteFailsBans ==
  ASSUME Inv, Banned, Outlaws, NEW st \in Stores, WriteFails(st)
  PROVE  Banned' /\ Outlaws'
<1> DEFINE c == Head(queue[st])
<1>1. /\ job[st].at > 0 /\ job' = [job EXCEPT ![st] = NoJob]
      /\ queue' = [queue EXCEPT ![st] = Tail(@)] /\ Answered(c)
      /\ UNCHANGED <<access, disk, outlawed, lifted, raced>>
  BY DEF WriteFails
<1>2. c \in Calls
  BY <1>1, HeadOf
<1>3. \A d \in Calls : (Ahead(d)' => Ahead(d)) /\ (Logging(d)' => Logging(d))
  BY <1>1, Dequeued
<1> HIDE DEF c
<1>4. SameCalls
  BY <1>1, <1>2, <1>3, OthersStand DEF SameCalls
<1>5. SameWrite
  BY <1>1 DEF Inv, TypeOK, SameWrite, MembershipWrite, Stores
<1> QED  BY <1>1, <1>4, <1>5, NothingMoved

LEMMA RestartBans ==
  ASSUME Inv, Banned, Outlaws, Restart
  PROVE  Banned' /\ Outlaws'
<1>1. /\ memberships' = disk.members /\ bans' = disk.bans
      /\ calls' = [c \in Calls |-> Idle] /\ job' = [s \in Stores |-> NoJob]
      /\ UNCHANGED <<disk, outlawed, lifted, raced>>
  BY DEF Restart
<1>2. MembershipWrite'.at = 0 /\ MembershipWrite'.members = {}
  BY <1>1 DEF MembershipWrite, NoJob, Stores
<1>3. \A d \in Calls : calls'[d].op # "ban"
  BY <1>1 DEF Idle
<1>4. Banned'
  BY <1>3 DEF Banned, Stands
<1>5. Outlaws'
  BY <1>1, <1>2 DEF Outlaws
<1> QED  BY <1>4, <1>5

\* The memberships and bans of the write are the documents now.
LEMMA MembershipDocumentBans ==
  ASSUME Inv, Banned, Outlaws, WriteDocument("memberships")
  PROVE  Banned' /\ Outlaws'
<1> DEFINE st == "memberships"
           c == Head(queue[st])
<1>1. TypeOK /\ st \in Stores /\ "moderation" \in Stores /\ disk \in Stored /\ job[st] \in Write
  BY DEF Inv, TypeOK, Stores
<1>2. /\ job[st].at > 0 /\ job' = [job EXCEPT ![st] = NoJob] /\ disk' = Replaced(st)
      /\ Continue(st, c)
  <2>1. job[st].at \in 0..2 /\ Documents(st) = 1
    BY <1>1 DEF Write, Documents
  <2>2. job[st].at > 0
    BY DEF WriteDocument
  <2>3. ~(job[st].at < Documents(st))
    BY <2>1, <2>2
  <2> QED  BY <2>2, <2>3 DEF WriteDocument
<1>3. c \in Calls /\ calls[c].op \in Tasks(st)
  BY <1>1, <1>2, HeadOf
<1>4. Ahead(c) /\ MembershipWrite.at > 0
  BY <1>1, <1>2 DEF Ahead, MembershipWrite, Inv, Waiting
<1>5. /\ disk'.members = MembershipWrite.members /\ disk'.bans = MembershipWrite.bans
      /\ MembershipWrite'.at = 0 /\ MembershipWrite'.members = {}
  <2>1. disk' = [disk EXCEPT !.members = job[st].members, !.bans = job[st].bans]
    BY <1>2 DEF Replaced
  <2>2. MembershipWrite' = NoJob
    BY <1>1, <1>2 DEF MembershipWrite, TypeOK
  <2> QED  BY <1>1, <2>1, <2>2 DEF Stored, NoJob, MembershipWrite
<1>6. /\ UNCHANGED <<access, outlawed, lifted, raced>>
      /\ \A d \in Calls : Logging(d)' => Logging(d) \/ d = c
      /\ \A d \in Calls, a \in Accounts : Stands(d, a)' => Stands(d, a)
  <2>1. CASE calls[c].op \in {"ban", "unban"}
    <3>1. /\ queue' = [queue EXCEPT ![st] = Tail(@), !["moderation"] = Append(@, c)]
          /\ UNCHANGED <<access, calls, memory>>
      BY <1>2, <2>1 DEF Continue
    <3>2. \A d \in Calls : Logging(d)' => Logging(d) \/ d = c
      BY <1>1, <1>2, <3>1, Requeued
    <3> QED  BY <3>1, <3>2 DEF memory, Stands
  <2>2. CASE calls[c].op \notin {"ban", "unban"}
    <3>1. calls[c].op \notin {"issue", "revoke"}
      BY <1>3, <2>2 DEF Tasks
    <3>2. /\ Answered(c) /\ queue' = [queue EXCEPT ![st] = Tail(@)]
          /\ UNCHANGED <<access, outlawed, lifted, raced>>
      BY <1>2, <2>2, <3>1 DEF Continue
    <3>3. \A d \in Calls : Logging(d)' => Logging(d)
      BY <1>1, <1>2, <3>2, Dequeued
    <3> HIDE DEF c
    <3>4. \A d \in Calls, a \in Accounts : Stands(d, a)' => Stands(d, a)
      BY <1>3, <3>2, OthersStand
    <3> QED  BY <3>2, <3>3, <3>4
  <2> QED  BY <2>1, <2>2
<1> HIDE DEF c
<1>7. ASSUME NEW d \in Calls, NEW a \in Accounts, Stands(d, a)'
      PROVE  /\ InTheMaps(a)'
             /\ Ahead(d)' => InTheWrite(a)'
             /\ Logging(d)' => InTheDocuments(a)'
  <2>1. Stands(d, a)
    BY <1>6, <1>7
  <2>2. InTheMaps(a) /\ (Ahead(d) => InTheWrite(a)) /\ (Logging(d) => InTheDocuments(a))
    BY <2>1 DEF Banned
  <2>3. InTheMaps(a)'
    BY <1>6, <2>2 DEF InTheMaps, access
  <2>4. ~Ahead(d)'
    BY <1>5 DEF Ahead
  <2>5. ASSUME Logging(d)'  PROVE InTheDocuments(a)'
    <3>1. Logging(d) \/ Ahead(d)
      BY <1>4, <1>6, <2>5
    <3>2. MembershipWrite.at > 0 /\ a \in MembershipWrite.bans
          /\ (a \in raced \/ a \notin MembershipWrite.members)
      BY <1>4, <2>2, <3>1 DEF InTheWrite, InTheDocuments
    <3> QED  BY <1>5, <1>6, <3>2 DEF InTheDocuments
  <2> QED  BY <2>3, <2>4, <2>5
<1>8. Banned'
  BY <1>7 DEF Banned
<1>9. Outlaws'
  BY <1>4, <1>5, <1>6 DEF Outlaws, access
<1> QED  BY <1>8, <1>9

\* The disposition is on record: a ban nobody lifted meanwhile is confirmed.
LEMMA ModerationDocumentBans ==
  ASSUME Inv, Banned, Outlaws, WriteDocument("moderation")
  PROVE  Banned' /\ Outlaws'
<1> DEFINE st == "moderation"
           c == Head(queue[st])
           b == calls[c].on
<1>1. TypeOK /\ st \in Stores /\ "memberships" \in Stores /\ job[st] \in Write
      /\ queue[st] \in Seq(Calls)
  BY DEF Inv, TypeOK, Stores
<1>2. /\ job[st].at > 0 /\ job' = [job EXCEPT ![st] = NoJob] /\ disk' = disk
      /\ Disposed(c)
  <2>1. job[st].at \in 0..2 /\ Documents(st) = 1
    BY <1>1 DEF Write, Documents
  <2>2. job[st].at > 0
    BY DEF WriteDocument
  <2>3. ~(job[st].at < Documents(st))
    BY <2>1, <2>2
  <2> QED  BY <2>2, <2>3 DEF WriteDocument, Replaced, Continue
<1>3. c \in Calls /\ calls[c].op \in Tasks(st) /\ queue[st] # << >>
  BY <1>1, <1>2, HeadOf
<1>4. Logging(c)
  <2>1. 1 \in 1..Len(queue[st]) /\ queue[st][1] = c
    BY <1>1, <1>3
  <2> QED  BY <2>1 DEF Logging
<1>5. b \in Accounts
  BY <1>1, <1>3 DEF TypeOK, Tasks
<1>6. MembershipWrite' = MembershipWrite
  BY <1>1, <1>2 DEF MembershipWrite, TypeOK
<1>7. /\ Answered(c) /\ queue' = [queue EXCEPT ![st] = Tail(@)] /\ UNCHANGED access
  BY <1>2 DEF Disposed
<1>8. \A d \in Calls : (Ahead(d)' => Ahead(d)) /\ (Logging(d)' => Logging(d))
  BY <1>1, <1>2, <1>7, Dequeued
<1>9. \/ UNCHANGED <<outlawed, lifted, raced>>
      \/ /\ calls[c].op = "ban" /\ ~calls[c].overtaken
         /\ outlawed' = outlawed \cup {b} /\ lifted' = lifted \ {b}
         /\ raced' = IF b \in memberships \cup disk.members \cup MembershipWrite.members
                       THEN raced ELSE raced \ {b}
  BY <1>2 DEF Disposed, MembershipWrite
<1> HIDE DEF c
<1>10. SameCalls
  BY <1>3, <1>7, <1>8, OthersStand DEF SameCalls
<1>11. CASE UNCHANGED <<outlawed, lifted, raced>>
  BY <1>2, <1>6, <1>7, <1>10, <1>11, NothingMoved DEF SameWrite
<1>12. CASE /\ calls[c].op = "ban" /\ ~calls[c].overtaken
            /\ outlawed' = outlawed \cup {b} /\ lifted' = lifted \ {b}
            /\ raced' = IF b \in memberships \cup disk.members \cup MembershipWrite.members
                          THEN raced ELSE raced \ {b}
  <2>0. PICK e \in Accounts : e = b
    BY <1>5
  <2>1. InTheMaps(e) /\ InTheDocuments(e)
    BY <1>3, <1>4, <1>12, <2>0 DEF Banned, Stands
  <2>2. outlawed' = outlawed \cup {e} /\ lifted' = lifted \ {e}
        /\ \/ raced' = raced
           \/ /\ raced' = raced \ {e} /\ e \notin memberships
              /\ e \notin disk.members /\ e \notin MembershipWrite.members
    BY <1>12, <2>0
  <2> HIDE DEF b
  <2>3. ASSUME NEW d \in Calls, NEW a \in Accounts, Stands(d, a)'
        PROVE  /\ InTheMaps(a)'
               /\ Ahead(d)' => InTheWrite(a)'
               /\ Logging(d)' => InTheDocuments(a)'
    <3>1. /\ Stands(d, a)
          /\ Ahead(d)' => Ahead(d)
          /\ Logging(d)' => Logging(d)
      BY <1>10, <2>3 DEF SameCalls
    <3>2. InTheMaps(a) /\ (Ahead(d) => InTheWrite(a)) /\ (Logging(d) => InTheDocuments(a))
      BY <3>1 DEF Banned
    <3>3. InTheMaps(a)'
      BY <1>7, <2>2, <3>2 DEF InTheMaps, access
    <3>4. Ahead(d)' => InTheWrite(a)'
      BY <1>6, <2>2, <3>1, <3>2 DEF InTheWrite
    <3>5. Logging(d)' => InTheDocuments(a)'
      BY <1>2, <1>6, <2>2, <3>1, <3>2 DEF InTheDocuments
    <3> QED  BY <3>3, <3>4, <3>5
  <2>4. Banned'
    BY <2>3 DEF Banned
  <2>5. Outlaws'
    BY <1>2, <1>6, <1>7, <2>1, <2>2 DEF Outlaws, InTheMaps, InTheDocuments, access
  <2> QED  BY <2>4, <2>5
<1> QED  BY <1>9, <1>11, <1>12

\* The integrations write nothing about memberships; a redemption goes on to make one.
LEMMA IntegrationDocumentBans ==
  ASSUME Inv, Banned, Outlaws, WriteDocument("integrations")
  PROVE  Banned' /\ Outlaws'
<1> DEFINE st == "integrations"
           c == Head(queue[st])
<1>1. TypeOK /\ st \in Stores /\ "memberships" \in Stores /\ job[st] \in Write /\ disk \in Stored
  BY DEF Inv, TypeOK, Stores
<1>2. disk'.members = disk.members /\ disk'.bans = disk.bans
  BY <1>1 DEF WriteDocument, Replaced, Stored, Write
<1>3. CASE job[st].at = 1
  <2>1. /\ job' = [job EXCEPT ![st].at = @ + 1]
        /\ UNCHANGED <<access, queue, calls, memory>>
    BY <1>3 DEF WriteDocument, Documents
  <2>2. MembershipWrite' = MembershipWrite
    BY <1>1, <2>1 DEF MembershipWrite, TypeOK
  <2>3. SameCalls /\ SameWrite
    BY <2>1, <2>2 DEF SameCalls, SameWrite, Stands, Ahead, Logging
  <2> QED  BY <1>2, <2>1, <2>3, NothingMoved DEF memory
<1>4. CASE job[st].at # 1
  <2>1. job[st].at > 0 /\ job' = [job EXCEPT ![st] = NoJob] /\ Continue(st, c)
    <3>1. job[st].at = 2
      BY <1>1, <1>4 DEF WriteDocument, Write
    <3> QED  BY <3>1 DEF WriteDocument, Documents
  <2>2. c \in Calls /\ calls[c].op \in Tasks(st)
    BY <1>1, <2>1, HeadOf
  <2>3. MembershipWrite' = MembershipWrite
    BY <1>1, <2>1 DEF MembershipWrite, TypeOK
  <2>4. CASE calls[c].op = "redeem" /\ ~calls[c].had
    <3>1. AdmitRedeemed(c)
      BY <2>1, <2>4 DEF Continue
    <3>2. /\ memberships' = memberships \cup {calls[c].on} /\ NoteAdmission(calls[c].on)
          /\ UNCHANGED <<bans, lifted>>
      BY <3>1 DEF AdmitRedeemed
    <3>3. SameCalls
      <4>1. CASE calls[c].on \in memberships
        <5>1. Answered(c) /\ queue' = [queue EXCEPT ![st] = Tail(@)]
          BY <3>1, <4>1 DEF AdmitRedeemed
        <5>2. \A d \in Calls : (Ahead(d)' => Ahead(d)) /\ (Logging(d)' => Logging(d))
          BY <1>1, <2>1, <5>1, Dequeued
        <5> HIDE DEF c
        <5> QED  BY <2>2, <5>1, <5>2, OthersStand DEF SameCalls
      <4>2. CASE calls[c].on \notin memberships
        <5>1. /\ queue' = [queue EXCEPT ![st] = Tail(@), !["memberships"] = Append(@, c)]
              /\ calls' = calls
          BY <3>1, <4>2 DEF AdmitRedeemed
        <5>2. \A d \in Calls : (Ahead(d)' => Ahead(d))
                               /\ (Logging(d)' => Logging(d) \/ (d = c /\ "memberships" = "moderation"))
          BY <1>1, <2>1, <5>1, Requeued
        <5> QED  BY <5>1, <5>2 DEF SameCalls, Stands
      <4> QED  BY <4>1, <4>2
    <3>4. PICK b : b = calls[c].on
      OBVIOUS
    <3>5. memberships' = memberships \cup {b} /\ NoteAdmission(b)
      BY <3>2, <3>4
    <3> QED  BY <1>2, <2>3, <3>2, <3>3, <3>5, LetIn
  <2>5. CASE ~(calls[c].op = "redeem" /\ ~calls[c].had)
    <3>1. /\ queue' = [queue EXCEPT ![st] = Tail(@)] /\ Answered(c)
          /\ UNCHANGED <<access, outlawed, lifted, raced>>
      BY <2>1, <2>5 DEF Continue
    <3>2. \A d \in Calls : (Ahead(d)' => Ahead(d)) /\ (Logging(d)' => Logging(d))
      BY <1>1, <2>1, <3>1, Dequeued
    <3> HIDE DEF c
    <3>3. SameCalls /\ SameWrite
      BY <2>2, <2>3, <3>1, <3>2, OthersStand DEF SameCalls, SameWrite
    <3> QED  BY <1>2, <3>1, <3>3, NothingMoved
  <2> QED  BY <2>4, <2>5
<1> QED  BY <1>3, <1>4

LEMMA BansHold == Inv /\ Banned /\ Outlaws /\ [Next]_vars => Banned' /\ Outlaws'
<1> SUFFICES ASSUME Inv, Banned, Outlaws, [Next]_vars  PROVE Banned' /\ Outlaws'
  OBVIOUS
<1>1. ASSUME NEW c \in Calls, Serve(c)  PROVE Banned' /\ Outlaws'
  <2>1. CASE \E a \in Accounts : Enter(c, a) \/ Unban(c, a)
    BY <2>1, EnterBans, UnbanBans
  <2>2. CASE \E s \in Sockets : Ban(c, s)
    BY <2>2, BanBans
  <2>3. CASE \/ \E s \in Sockets : Kick(c, s)
             \/ \E g \in Grants : CreateEntryGrant(c, g)
             \/ \E a \in Accounts, g \in Grants : RedeemEntryGrant(c, a, g)
             \/ RevokeCredential(c)
    BY <2>3, QuietCallBans
  <2> QED  BY <1>1, <2>1, <2>2, <2>3 DEF Serve
<1>2. ASSUME NEW g \in Grants, Expire(g)  PROVE Banned' /\ Outlaws'
  BY <1>2, ExpireBans
<1>3. ASSUME NEW st \in Stores, PersistNow(st) \/ WriteFails(st)  PROVE Banned' /\ Outlaws'
  BY <1>3, PersistNowBans, WriteFailsBans
<1>4. ASSUME NEW st \in Stores, WriteDocument(st)  PROVE Banned' /\ Outlaws'
  BY <1>4, MembershipDocumentBans, ModerationDocumentBans, IntegrationDocumentBans DEF Stores
<1>5. CASE Restart
  BY <1>5, RestartBans
<1>6. CASE \/ UNCHANGED vars
           \/ \E s \in Sockets :
                AdmitHostedSocket(s) \/ HandleSocketConnection(s) \/ SocketGone(s)
  <2>1. UNCHANGED <<access, storing, calls, outlawed, lifted, raced>>
    BY <1>6 DEF vars, AdmitHostedSocket, HandleSocketConnection, SocketGone, memory
  <2>2. SameCalls /\ SameWrite
    BY <2>1 DEF SameCalls, SameWrite, MembershipWrite, Stands, Ahead, Logging, storing
  <2> QED  BY <2>1, <2>2, NothingMoved DEF storing
<1> QED  BY <1>1, <1>2, <1>3, <1>4, <1>5, <1>6 DEF Next

(***************************************************************************)
(* Connections: one that has its verdict belongs to a member, or a ban is  *)
(* under way that has not evicted yet, or never will.                      *)
(***************************************************************************)

Banning(a) == \E c \in Calls : calls[c].op = "ban" /\ calls[c].on = a

Let(s) == sockets[s] \in {"admitted", "live"}

Belonging ==
    \A s \in Sockets : Let(s) =>
        OwnerOf[s] \in memberships \/ s \in spared \/ Banning(OwnerOf[s])

\* Nobody loses the membership or is evicted.
LEMMA NobodyLeaves ==
  ASSUME Belonging,
         memberships \subseteq memberships', spared \subseteq spared',
         \A s \in Sockets : Let(s)' => Let(s),
         \A d \in Calls : calls[d].op = "ban" =>
             calls'[d].op = "ban" /\ calls'[d].on = calls[d].on
  PROVE  Belonging'
<1>1. ASSUME NEW s \in Sockets, Let(s)'
      PROVE  OwnerOf[s] \in memberships' \/ s \in spared' \/ Banning(OwnerOf[s])'
  <2>1. OwnerOf[s] \in memberships \/ s \in spared \/ Banning(OwnerOf[s])
    BY <1>1 DEF Belonging
  <2>2. Banning(OwnerOf[s]) => Banning(OwnerOf[s])'
    BY DEF Banning
  <2> QED  BY <2>1, <2>2
<1> QED  BY <1>1 DEF Belonging

\* Requests that begin, except bans.
LEMMA ServeBelongs ==
  ASSUME Inv, Belonging, NEW c \in Calls, Serve(c)  PROVE Belonging'
<1>1. calls[c] = Idle /\ calls[c].op # "ban"
  <2>1. CASE \E a \in Accounts, g \in Grants : RedeemEntryGrant(c, a, g)
    <3>1. \E had, a, g : Begin(c, "redeem", a, g, had)
      BY <2>1, Zenon DEF RedeemEntryGrant
    <3> QED  BY <3>1 DEF Begin, Idle
  <2>2. CASE \E a \in Accounts : Unban(c, a)
    BY <2>2 DEF Unban, BeginUnban, Idle
  <2>3. CASE \E a \in Accounts : Enter(c, a)
    BY <2>3 DEF Enter, Begin, Idle
  <2>4. CASE \E s \in Sockets : Ban(c, s)
    <3>1. calls[c] = Idle
      BY <2>4 DEF Ban, Begin
    <3> QED  BY <3>1 DEF Idle
  <2>5. CASE \E s \in Sockets : Kick(c, s)
    <3>1. calls[c] = Idle
      BY <2>5 DEF Kick, Begin
    <3> QED  BY <3>1 DEF Idle
  <2>6. CASE \E g \in Grants : CreateEntryGrant(c, g)
    BY <2>6 DEF CreateEntryGrant, Begin, Idle
  <2>7. CASE RevokeCredential(c)
    BY <2>7 DEF RevokeCredential, Begin, Idle
  <2> QED  BY <2>1, <2>2, <2>3, <2>4, <2>5, <2>6, <2>7 DEF Serve
<1>2. calls \in [Calls -> Call]
  BY DEF Inv, TypeOK
<1>3. UNCHANGED <<sockets, spared>>
  BY DEF Serve, Enter, Unban, BeginUnban, Ban, Kick, CreateEntryGrant, RedeemEntryGrant,
         RevokeCredential, memory
<1>4. \A d \in Calls : calls[d].op = "ban" =>
        calls'[d].op = "ban" /\ calls'[d].on = calls[d].on
  <2>1. CASE \E a \in Accounts : Unban(c, a)
    <3>1. PICK a \in Accounts : Unban(c, a)
      BY <2>1
    <3>2. \A d \in Calls \ {c} : calls'[d] = [calls[d] EXCEPT
             !.overtaken = @ \/ (calls[d].op = "ban" /\ calls[d].on = a)]
      BY <3>1 DEF Unban, BeginUnban
    <3>3. \A d \in Calls \ {c} : calls'[d].op = calls[d].op /\ calls'[d].on = calls[d].on
      BY <1>2, <3>2 DEF Call
    <3> QED  BY <1>1, <3>3
  <2>2. CASE ~(\E a \in Accounts : Unban(c, a))
    <3>1. \E new : calls' = [calls EXCEPT ![c] = new]
      BY <2>2 DEF Serve, Enter, Ban, Kick, CreateEntryGrant, RedeemEntryGrant,
                  RevokeCredential, Begin
    <3> QED  BY <1>1, <1>2, <3>1
  <2> QED  BY <2>1, <2>2
<1>5. CASE \E s \in Sockets : Ban(c, s)
  <2>1. PICK s \in Sockets : Ban(c, s)
    BY <1>5
  <2>2. memberships' = memberships \ {OwnerOf[s]}
    BY <2>1 DEF Ban
  <2>3. Banning(OwnerOf[s])'
    <3>1. calls'[c].op = "ban" /\ calls'[c].on = OwnerOf[s]
      BY <1>2, <2>1 DEF Ban, Begin
    <3> QED  BY <3>1 DEF Banning
  <2>4. ASSUME NEW t \in Sockets, Let(t)'
        PROVE  OwnerOf[t] \in memberships' \/ t \in spared' \/ Banning(OwnerOf[t])'
    <3>1. OwnerOf[t] \in memberships \/ t \in spared \/ Banning(OwnerOf[t])
      BY <1>3, <2>4 DEF Belonging, Let
    <3>2. Banning(OwnerOf[t]) => Banning(OwnerOf[t])'
      BY <1>4 DEF Banning
    <3>3. OwnerOf[t] = OwnerOf[s] => Banning(OwnerOf[t])'
      BY <2>3
    <3> QED  BY <1>3, <2>2, <3>1, <3>2, <3>3
  <2> QED  BY <2>4 DEF Belonging
<1>6. CASE ~(\E s \in Sockets : Ban(c, s))
  <2>1. memberships \subseteq memberships'
    BY <1>6 DEF Serve, Enter, Unban, Kick, CreateEntryGrant, RedeemEntryGrant,
                RevokeCredential, access
  <2> QED  BY <1>3, <1>4, <2>1, NobodyLeaves DEF Let
<1> QED  BY <1>5, <1>6

\* A write is done.
LEMMA WriteDocumentBelongs ==
  ASSUME Inv, Belonging, NEW st \in Stores, WriteDocument(st)  PROVE Belonging'
<1> DEFINE c == Head(queue[st])
<1>1. calls \in [Calls -> Call] /\ sockets \in [Sockets -> {"away", "admitted", "live", "leaving"}]
  BY DEF Inv, TypeOK
<1>2. job[st].at > 0
  BY DEF WriteDocument
<1>3. c \in Calls /\ calls[c].op \in Tasks(st)
  BY <1>2, HeadOf
<1>4. \/ UNCHANGED <<access, calls, sockets, memory>>
      \/ Continue(st, c)
  BY DEF WriteDocument
<1> HIDE DEF c
<1>5. CASE UNCHANGED <<access, calls, sockets, memory>>
  BY <1>5, NobodyLeaves DEF access, memory, Let
<1>6. CASE st # "moderation" /\ Continue(st, c)
  <2>1. /\ memberships \subseteq memberships' /\ UNCHANGED <<sockets, spared>>
        /\ calls' = calls \/ (calls[c].op # "ban" /\ calls' = [calls EXCEPT ![c] = Idle])
    <3>1. CASE st = "memberships" /\ calls[c].op \in {"ban", "unban"}
      BY <1>6, <3>1 DEF Continue, access, memory
    <3>2. CASE st = "integrations" /\ calls[c].op = "redeem" /\ ~calls[c].had
      BY <1>6, <3>2 DEF Continue, AdmitRedeemed, Answered
    <3>3. CASE /\ ~(st = "memberships" /\ calls[c].op \in {"ban", "unban"})
               /\ ~(st = "integrations" /\ calls[c].op = "redeem" /\ ~calls[c].had)
      <4>1. calls[c].op # "ban"
        BY <1>3, <1>6, <3>3 DEF Tasks, Stores
      <4> QED  BY <1>6, <3>3, <4>1 DEF Continue, Answered, access
    <3> QED  BY <3>1, <3>2, <3>3
  <2>2. \A d \in Calls : calls[d].op = "ban" =>
          calls'[d].op = "ban" /\ calls'[d].on = calls[d].on
    BY <1>1, <2>1
  <2> QED  BY <2>1, <2>2, NobodyLeaves DEF Let
<1>7. CASE st = "moderation" /\ Continue(st, c)
  <2>1. Disposed(c)
    BY <1>7 DEF Continue
  <2>2. /\ UNCHANGED access /\ calls' = [calls EXCEPT ![c] = Idle]
        /\ spared' = IF calls[c].op = "ban"
                 THEN spared \cup {s \in SocketsOf(calls[c].on) : sockets[s] = "admitted"}
                 ELSE spared
    BY <2>1 DEF Disposed, Answered
  <2>3. \A s \in Sockets : /\ Let(s)' => Let(s)
                           /\ calls[c].op = "ban" /\ OwnerOf[s] = calls[c].on => sockets'[s] # "live"
                           /\ sockets'[s] = "admitted" => sockets[s] = "admitted"
    BY <1>1, <2>1 DEF Disposed, EvictEventAccount, Let
  <2>4. ASSUME NEW s \in Sockets, Let(s)'
        PROVE  OwnerOf[s] \in memberships' \/ s \in spared' \/ Banning(OwnerOf[s])'
    <3>1. OwnerOf[s] \in memberships \/ s \in spared \/ Banning(OwnerOf[s])
      BY <2>3, <2>4 DEF Belonging
    <3>2. CASE OwnerOf[s] \in memberships \/ s \in spared
      BY <2>2, <3>2 DEF access
    <3>3. CASE Banning(OwnerOf[s])
      <4>1. PICK d \in Calls : calls[d].op = "ban" /\ calls[d].on = OwnerOf[s]
        BY <3>3 DEF Banning
      <4>2. CASE d = c
        <5>1. sockets[s] = "admitted"
          BY <2>3, <2>4, <4>1, <4>2 DEF Let
        <5> QED  BY <2>2, <4>1, <4>2, <5>1 DEF SocketsOf
      <4>3. CASE d # c
        BY <1>1, <2>2, <4>1, <4>3 DEF Banning
      <4> QED  BY <4>2, <4>3
    <3> QED  BY <3>1, <3>2, <3>3
  <2> QED  BY <2>4 DEF Belonging
<1> QED  BY <1>4, <1>5, <1>6, <1>7

LEMMA WriteFailsBelongs ==
  ASSUME Inv, Belonging, NEW st \in Stores, WriteFails(st)  PROVE Belonging'
<1> DEFINE c == Head(queue[st])
<1>1. calls \in [Calls -> Call]
  BY DEF Inv, TypeOK
<1>2. /\ UNCHANGED <<access, sockets>> /\ calls' = [calls EXCEPT ![c] = Idle]
      /\ spared' = IF calls[c].op = "ban"
               THEN spared \cup {s \in SocketsOf(calls[c].on) : sockets[s] # "away"}
               ELSE spared
  BY DEF WriteFails, Answered
<1> HIDE DEF c
<1>3. ASSUME NEW s \in Sockets, Let(s)'
      PROVE  OwnerOf[s] \in memberships' \/ s \in spared' \/ Banning(OwnerOf[s])'
  <2>1. Let(s) /\ sockets[s] # "away"
    BY <1>2, <1>3 DEF Let
  <2>2. CASE OwnerOf[s] \in memberships \/ s \in spared
    BY <1>2, <2>2 DEF access
  <2>3. CASE Banning(OwnerOf[s])
    <3>1. PICK d \in Calls : calls[d].op = "ban" /\ calls[d].on = OwnerOf[s]
      BY <2>3 DEF Banning
    <3>2. CASE d = c
      BY <1>2, <2>1, <3>1, <3>2 DEF SocketsOf
    <3>3. CASE d # c
      BY <1>1, <1>2, <3>1, <3>3 DEF Banning
    <3> QED  BY <3>2, <3>3
  <2> QED  BY <2>1, <2>2, <2>3 DEF Belonging
<1> QED  BY <1>3 DEF Belonging

LEMMA BelongingHolds == Inv /\ Belonging /\ [Next]_vars => Belonging'
<1> SUFFICES ASSUME Inv, Belonging, [Next]_vars  PROVE Belonging'
  OBVIOUS
<1>1. ASSUME NEW c \in Calls, Serve(c)  PROVE Belonging'
  BY <1>1, ServeBelongs
<1>2. CASE \/ \E g \in Grants : Expire(g)
           \/ \E st \in Stores : PersistNow(st)
           \/ UNCHANGED vars
  <2>1. UNCHANGED <<access, calls, sockets, spared>>
    BY <1>2 DEF Expire, PersistNow, vars, memory
  <2> QED  BY <2>1, NobodyLeaves DEF access, Let
<1>3. ASSUME NEW st \in Stores, WriteDocument(st) \/ WriteFails(st)  PROVE Belonging'
  BY <1>3, WriteDocumentBelongs, WriteFailsBelongs
<1>4. CASE Restart
  <2>1. \A s \in Sockets : sockets'[s] = "away"
    BY <1>4 DEF Restart
  <2> QED  BY <2>1 DEF Belonging, Let
<1>5. ASSUME NEW s \in Sockets,
             AdmitHostedSocket(s) \/ HandleSocketConnection(s) \/ SocketGone(s)
      PROVE  Belonging'
  <2>1. UNCHANGED <<access, calls>> /\ spared \ {s} \subseteq spared'
    BY <1>5 DEF AdmitHostedSocket, HandleSocketConnection, SocketGone, memory
  <2>2. /\ \A t \in Sockets \ {s} : sockets'[t] = sockets[t]
        /\ Let(s)' => (Let(s) /\ s \in spared => s \in spared') /\ (Let(s) \/ OwnerOf[s] \in memberships)
    BY <1>5 DEF Inv, TypeOK, AdmitHostedSocket, HandleSocketConnection, SocketGone, Let, memory
  <2>3. ASSUME NEW t \in Sockets, Let(t)'
        PROVE  OwnerOf[t] \in memberships' \/ t \in spared' \/ Banning(OwnerOf[t])'
    <3>1. CASE t = s
      BY <2>1, <2>2, <2>3, <3>1 DEF Belonging, Banning, access
    <3>2. CASE t # s
      BY <2>1, <2>2, <2>3, <3>2 DEF Belonging, Banning, access, Let
    <3> QED  BY <3>1, <3>2
  <2> QED  BY <2>3 DEF Belonging
<1> QED  BY <1>1, <1>2, <1>3, <1>4, <1>5 DEF Next

(***************************************************************************)
(* A confirmed ban holds, in memory and in the documents, until an unban;  *)
(* no restart, lifted ban or write that was queued before makes the        *)
(* account a member again until it is admitted anew, unless a redemption   *)
(* raced the ban (banEvent, unbanEvent, admit).                            *)
(***************************************************************************)
THEOREM ConfirmedBansHold == Spec => []OutlawedStaysOut
<1>1. Init => Banned /\ Outlaws
  BY DEF Init, Banned, Outlaws, Stands, Idle
<1>2. Outlaws => OutlawedStaysOut
  BY DEF Outlaws, OutlawedStaysOut
<1> QED  BY <1>1, <1>2, InvHolds, BansHold, PTL DEF Spec

(***************************************************************************)
(* Whoever can write is a member, although no write asks for it: bans      *)
(* evict every connection in the table (evictEventAccount,                 *)
(* revalidateSocketWrite, admitEventBoard).                                *)
(***************************************************************************)
THEOREM WritersAreMembers == Spec => []WritersBelong
<1>1. Init => Belonging
  BY DEF Init, Belonging, Let
<1>2. Belonging => WritersBelong
  BY DEF Belonging, WritersBelong, CanWrite, Let, Banning
<1> QED  BY <1>1, <1>2, InvHolds, BelongingHolds, PTL DEF Spec

=============================================================================
