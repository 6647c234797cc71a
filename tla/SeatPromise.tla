---------------------------- MODULE SeatPromise -----------------------------
(***************************************************************************)
(* What the participants of a Hosted Event are promised about seats        *)
(* (server/hosted_event/admission/seats.mjs, lines 1 to 16), in terms of   *)
(* accounts alone: an account with a live connection has a seat, one that  *)
(* lost its last connection keeps it through a grace, and a new seat is    *)
(* taken only while one is free.                                           *)
(***************************************************************************)
EXTENDS Integers, FiniteSets

CONSTANTS
  Accounts,     \* accounts that may sit
  SeatCount     \* the capacity of the Board Session

VARIABLE
  standing      \* what each account has: no seat, a live one, one in grace

Standings == [Accounts -> {"free", "live", "grace"}]

Seated == {a \in Accounts : standing[a] # "free"}

Init == standing = [a \in Accounts |-> "free"]

Take(a) ==
  /\ standing[a] = "free"
  /\ Cardinality(Seated) < SeatCount
  /\ standing' = [standing EXCEPT ![a] = "live"]

Return(a) ==
  /\ standing[a] = "grace"
  /\ standing' = [standing EXCEPT ![a] = "live"]

Leave(a) ==
  /\ standing[a] = "live"
  /\ standing' = [standing EXCEPT ![a] = "grace"]

GiveUp(a) ==
  /\ standing[a] = "grace"
  /\ standing' = [standing EXCEPT ![a] = "free"]

Next == \E a \in Accounts : Take(a) \/ Return(a) \/ Leave(a) \/ GiveUp(a)

Spec == Init /\ [][Next]_standing

=============================================================================
