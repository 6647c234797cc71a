------------------------- MODULE MCOptimisticWrites -------------------------
(* A shape shared by everybody, a user who draws, copies and clears, and *)
(* others who move, delete and clear meanwhile.                          *)
EXTENDS OptimisticWrites

CONSTANTS a, b

Mut(cid, op, id) == [cid |-> cid, op |-> op, id |-> id, from |-> id]

Shared == << Mut("d", "create", a) >>
MyWrites == {[cid |-> "m1", op |-> "copy", id |-> b, from |-> a], Mut("m2", "resize", b),
             Mut("m3", "clear", a)}
TheirWrites == {Mut("t1", "move", a), Mut("t2", "delete", a), Mut("t3", "clear", a)}
=============================================================================
