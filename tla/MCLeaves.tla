------------------------------ MODULE MCLeaves ------------------------------
(***************************************************************************)
(* Leaves with days of four six-hour ticks: a day shift 06:00-18:00 and a  *)
(* night shift 18:00-06:00.                                                *)
(***************************************************************************)
EXTENDS Leaves, TLC

CONSTANTS p1, p2, l1

Times1 == "day" :> [start |-> 1, end |-> 3, grace |-> 0]
Times2 ==
    "day" :> [start |-> 1, end |-> 3, grace |-> 0] @@ "night" :> [start |-> 3, end |-> 1, grace |-> 1]
ABody(status, in, out, shift, given) ==
    [status |-> status, in |-> in, out |-> out, shift |-> shift, given |-> given]

\* Entries of a check-out only and of an absence.
LeftOnly == ABody("PRESENT", None, 6, "day", FALSE)
Away == ABody("ABSENT", None, None, None, FALSE)
EntriesMixed == {LeftOnly, Away}
BulkOnLeave == {ABody("LEAVE", None, None, None, FALSE)}
BulkOwnShift == {ABody("PRESENT", 8, 10, None, FALSE)}
PatchesMixed == {ABody(Keep, Keep, None, Keep, FALSE), ABody("LEAVE", None, None, Keep, FALSE)}

Symmetry == Permutations({p1, p2})
=============================================================================
