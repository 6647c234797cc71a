--------------------------- MODULE MCDurableBoard ---------------------------
(***************************************************************************)
(* Small instances of DurableBoard for TLC: workloads of two to four       *)
(* mutations, the bounds on what the environment does, and the properties. *)
(***************************************************************************)
EXTENDS DurableBoard, TLC

CONSTANTS a, b, c1, c2, c3, c4

Mut(cid, op, id) == [cid |-> cid, op |-> op, id |-> id, from |-> id]

\* A stroke, a point appended to it, a copy that crowds it out of a board of one
\* and an update it outgrows its seed with, which is rejected.
Drawing == {Mut(c1, "create", a), Mut(c2, "append", a),
            [cid |-> c3, op |-> "copy", id |-> b, from |-> a], Mut(c4, "oversize", a)}

\* Items that push each other out of a board of one, an erasure and a clear.
Crowding == {Mut(c1, "create", a), Mut(c2, "create", b), Mut(c3, "delete", b),
             Mut(c4, "clear", a)}

\* The shortest workload in which one write depends on another.
Stroke == {Mut(c1, "create", a), Mut(c2, "append", a)}

Quiet == [e \in Events |-> 0]

Crashing     == [Quiet EXCEPT !["crash"] = 2, !["resend"] = 1, !["seal"] = 1]
Snapshotting == [Quiet EXCEPT !["crash"] = 1, !["timer"] = 2, !["lost"] = 1]
Overlapping  == [Quiet EXCEPT !["fault"] = 1, !["leave"] = 1, !["resend"] = 1]
=============================================================================
