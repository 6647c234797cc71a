------------------------- MODULE MCOutcomeRetention -------------------------
(* Instances of OutcomeRetention for TLC.                                  *)
EXTENDS OutcomeRetention, TLC

(* Passes and runners differ in nothing but their names.                   *)
Interchangeable == Permutations(Passes) \cup Permutations(Runners)
=============================================================================
