------------------------- MODULE MCReservationStore -------------------------
(***************************************************************************)
(* One reservation, or two, whose operations overlap the writes of others. *)
(***************************************************************************)
EXTENDS ReservationStore, TLC

CONSTANTS r1, r2
=============================================================================
