------------------------------- MODULE Staff --------------------------------
(***************************************************************************)
(* The administration of a company's staff: seats and allowances,          *)
(* departments, roles, payslips and the page they are approved on.  They    *)
(* write disjoint state and none reads what another writes, so that a      *)
(* behaviour of them together is an interleaving of theirs; each behaviour  *)
(* here exercises one of them and leaves the others as they start.  Seats   *)
(* are exercised without allowances, and allowances with fewer employees   *)
(* and one plan.                                                           *)
(***************************************************************************)
EXTENDS Benefits, Departments, Roles, Slip, PayrollPage

CONSTANTS
    Areas,     \* the parts that are exercised
    Hires,     \* employees that are created where the allowances are exercised, one at a time
    Edited     \* employees an administrator sets components of there

VARIABLE area    \* the handlers this behaviour exercises

staffVars == <<area, seatVars, benefitVars, deptVars, roleVars, slipVars, pageVars>>

StaffInit ==
    /\ area \in Areas
    /\ BenefitsInit /\ DeptInit /\ RolesInit
    /\ IF area = "pay" THEN SlipInit ELSE pay = NoSlip /\ slip = NoSlip
    /\ PageInit
    /\ area # "page" => \A c \in PageCycles : ledger[c].status = CHOOSE s \in Opening : TRUE
    /\ area # "seats" => \A x \in Caps : cap >= x
    /\ area # "roles" => \A u \in Users : roleOf[u] = "owner"

\* In a company without benefits a sync does nothing.
SeatsStep == area = "seats" /\ SeatsNext /\ UNCHANGED <<area, benefitVars, deptVars, roleVars, slipVars, pageVars>>
AllowancesStep ==
    /\ area = "allowances" /\ BenefitsNext /\ cap' = cap
    /\ Cardinality(logins') <= Hires /\ Cardinality(byHand') <= Edited
    /\ \A c \in Callers : seat'[c].pc # "idle" =>
         sync' = [s \in Syncs |-> NoSync] /\ \A d \in Callers \ {c} : seat'[d].pc = "idle"
    /\ UNCHANGED <<area, deptVars, roleVars, slipVars, pageVars>>
DepartmentsStep == area = "departments" /\ DeptNext /\ UNCHANGED <<area, seatVars, benefitVars, roleVars, slipVars, pageVars>>
RolesStep == area = "roles" /\ RolesNext /\ UNCHANGED <<area, seatVars, benefitVars, deptVars, slipVars, pageVars>>
PayStep == area = "pay" /\ Calculate /\ UNCHANGED <<area, seatVars, benefitVars, deptVars, roleVars, pageVars>>
PageStep == area = "page" /\ PageNext /\ UNCHANGED <<area, seatVars, benefitVars, deptVars, roleVars, slipVars>>

StaffNext == SeatsStep \/ AllowancesStep \/ DepartmentsStep \/ RolesStep \/ PayStep \/ PageStep
StaffSpec == StaffInit /\ [][StaffNext]_staffVars

TypeOK ==
    /\ SeatsTypeOK /\ BenefitsTypeOK /\ DeptTypeOK /\ RolesTypeOK
    /\ area = "pay" => SlipTypeOK
=============================================================================
