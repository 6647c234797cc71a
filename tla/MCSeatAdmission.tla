--------------------------- MODULE MCSeatAdmission ---------------------------
(***************************************************************************)
(* A small event: two accounts with two connections each contend for the   *)
(* seats of a session; one of them may be a moderator for a while.         *)
(***************************************************************************)
EXTENDS SeatAdmission, TLC

CONSTANTS a1, a2, s1, s2, s3, s4

TwoEach == s1 :> a1 @@ s2 :> a1 @@ s3 :> a2 @@ s4 :> a2
Someone == {a1}
=============================================================================
