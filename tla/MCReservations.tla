--------------------------- MODULE MCReservations ---------------------------
(***************************************************************************)
(* Three reservations that contend for two sessions and three seats; they  *)
(* are interchangeable.                                                    *)
(***************************************************************************)
EXTENDS Reservations, TLC

CONSTANTS r1, r2, r3

Interchangeable == Permutations({r1, r2, r3})
=============================================================================
