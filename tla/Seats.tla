------------------------------- MODULE Seats --------------------------------
(***************************************************************************)
(* The employees of one company and its seat cap                           *)
(* (backend/src/modules/employee, platform/limits.service.ts).             *)
(*                                                                         *)
(* A creation reads the cap, counts the active employees, and inserts the  *)
(* user and the employee in a later transaction; any number of creations   *)
(* may be between these statements.  An import creates its rows one by one *)
(* in the same way.  An employee stands for the e-mail of its login: the   *)
(* user outlives the employee, so that the e-mail is never free again.     *)
(***************************************************************************)
EXTENDS Naturals, FiniteSets

CONSTANTS
    Employees,     \* by their e-mail
    Callers,       \* creations that may be in flight together
    Caps           \* maxEmployees of the plans, and the default of the trial

ASSUME SeatsAssumption ==
    /\ IsFiniteSet(Employees) /\ IsFiniteSet(Callers) /\ Callers # {}
    /\ Caps \subseteq Nat

VARIABLES
    active,   \* employees with isActive
    retired,  \* employees without it
    back,     \* history: employees that were active again
    logins,   \* e-mails that have a user
    cap,      \* maxEmployees of the company's plan, or the default
    highest,  \* history: the largest cap there has been
    seat      \* caller -> how far its creation is

seatVars == <<active, retired, back, logins, cap, highest, seat>>

NoSeat == [pc |-> "idle", cap |-> 0]

\* assertCanAddEmployee: the cap, then the count.
ReadLimit(c) ==
    /\ seat[c].pc = "idle"
    /\ seat' = [seat EXCEPT ![c] = [pc |-> "limit", cap |-> cap]]
    /\ UNCHANGED <<active, retired, back, logins, cap, highest>>

CountAny(c) ==    \* variant: a full company is not refused
    /\ seat[c].pc = "limit"
    /\ seat' = [seat EXCEPT ![c].pc = "free"]
    /\ UNCHANGED <<active, retired, back, logins, cap, highest>>
CountActive(c) ==
    /\ seat[c].pc = "limit"
    /\ seat' = [seat EXCEPT ![c] = IF Cardinality(active) >= @.cap THEN NoSeat
                                   ELSE [@ EXCEPT !.pc = "free"]]
    /\ UNCHANGED <<active, retired, back, logins, cap, highest>>

\* The transaction of create; a taken e-mail, or a reference that is not of the
\* company, ends the call.
Insert(c, e) ==
    /\ seat[c].pc = "free" /\ e \notin logins
    /\ active' = active \cup {e} /\ logins' = logins \cup {e}
    /\ seat' = [seat EXCEPT ![c] = NoSeat]
    /\ UNCHANGED <<retired, back, cap, highest>>

CreateFails(c) ==
    /\ seat[c].pc # "idle"
    /\ seat' = [seat EXCEPT ![c] = NoSeat]
    /\ UNCHANGED <<active, retired, back, logins, cap, highest>>

\* update with isActive, before which no cap is read; remove and bulkRemove.
Deactivate(e) ==
    /\ e \in active
    /\ active' = active \ {e} /\ retired' = retired \cup {e}
    /\ UNCHANGED <<back, logins, cap, highest, seat>>
Activate(e) ==
    /\ e \in retired
    /\ active' = active \cup {e} /\ retired' = retired \ {e} /\ back' = back \cup {e}
    /\ UNCHANGED <<logins, cap, highest, seat>>
RemoveEmployees(S) ==
    /\ active' = active \ S /\ retired' = retired \ S
    /\ UNCHANGED <<back, logins, cap, highest, seat>>

\* A subscription, a trial, or the platform's operator changing the plan.
ChangePlan ==
    /\ cap' \in Caps
    /\ highest' = IF cap' > highest THEN cap' ELSE highest
    /\ UNCHANGED <<active, retired, back, logins, seat>>

SeatsInit ==
    /\ active = {} /\ retired = {} /\ back = {} /\ logins = {}
    /\ cap \in Caps /\ highest = cap
    /\ seat = [c \in Callers |-> NoSeat]

SeatsNext ==
    \/ \E c \in Callers :
         ReadLimit(c) \/ CountActive(c) \/ CreateFails(c) \/ \E e \in Employees : Insert(c, e)
    \/ \E e \in Employees : Deactivate(e) \/ Activate(e)
    \/ \E S \in SUBSET Employees : RemoveEmployees(S)
    \/ ChangePlan
SeatsSpec == SeatsInit /\ [][SeatsNext]_seatVars

-----------------------------------------------------------------------------
\* Every employee has a login, and is active or not.
SeatsTypeOK ==
    /\ logins \subseteq Employees /\ active \cup retired \cup back \subseteq logins
    /\ active \cap retired = {}
    /\ cap \in Caps /\ highest \in Nat /\ cap <= highest
    /\ seat \in [Callers -> [pc : {"idle", "limit", "free"}, cap : Nat]]

\* The active employees that no update brought back exceed the largest cap there
\* has been by less than the number of creations in flight together: the count and
\* the insertion of a creation are apart, and setting isActive counts nothing
\* (assertCanAddEmployee, create, update).
SeatsBounded ==
    Cardinality(active \ back) < highest + Cardinality(Callers)
=============================================================================
