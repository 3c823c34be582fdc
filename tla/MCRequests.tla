----------------------------- MODULE MCRequests -----------------------------
(***************************************************************************)
(* Requests with one company: sara reports to boss, or to nobody; boss has *)
(* the provisioned role Manager, hr the role HR, and neither hr nor the    *)
(* owner has a file as an employee.                                        *)
(***************************************************************************)
EXTENDS Requests, TLC

CONSTANTS p1, p2, r1

TwoCallers == {p1, p2}
OneRequest == {r1}

Staff == {"sara", "boss", "hr", "owner"}
StaffFile ==
    "sara" :> "e" @@ "boss" :> "m" @@ "hr" :> None @@ "owner" :> None

Symmetry == Permutations(Callers) \cup Permutations(RequestIds)
=============================================================================
