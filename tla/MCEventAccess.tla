---------------------------- MODULE MCEventAccess ----------------------------
(***************************************************************************)
(* Two participants, one with two connections, one grant, and two requests *)
(* served at once.                                                         *)
(***************************************************************************)
EXTENDS EventAccess, TLC

CONSTANTS ann, bob, s1, s2, c1, c2, g1

Owners == s1 :> ann @@ s2 :> ann

Symmetric == Permutations({s1, s2}) \cup Permutations({c1, c2})

=============================================================================
