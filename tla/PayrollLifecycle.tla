-------------------------- MODULE PayrollLifecycle --------------------------
(***************************************************************************)
(* What the payroll engine promises, month by month and without requests,  *)
(* statements or row keys: a month's payslips can be computed again and    *)
(* again in DRAFT, are the ones that were submitted when they are          *)
(* approved, and from then on only go with their employee; loan money is   *)
(* deducted by an approval only, from the payslips it approves; an         *)
(* employee who was removed gets no payslip any more.                      *)
(*                                                                         *)
(* The promise is read off the handlers of payroll.service.ts taken one at *)
(* a time.  It is off for a month about which different requests have      *)
(* overlapped: that month is MIXED and says nothing more, and the others   *)
(* are not touched by it (module PayrollRefinement).                       *)
(***************************************************************************)
CONSTANTS Months, Employees, Installments, Owner

VARIABLES
    stage,     \* month -> the status of its payroll
    payslips,  \* month -> the payslips as it stands
    deducted,  \* month -> the installments taken out of its published payslips
    gone       \* the employees who were removed

vars == <<stage, payslips, deducted, gone>>

\* createCycle: a new month is opened, or given up before it has payslips.
Open(m) ==
    /\ stage[m] = "NONE"
    /\ stage' = [stage EXCEPT ![m] = "DRAFT"]
    /\ UNCHANGED <<payslips, deducted, gone>>

GiveUp(m) ==
    /\ stage[m] = "DRAFT"
    /\ payslips[m] = {}
    /\ stage' = [stage EXCEPT ![m] = "NONE"]
    /\ UNCHANGED <<payslips, deducted, gone>>

\* recalculate: the payslips of the last run go, the next run computes one
\* for each employee it finds, out of the employee's own installments.
Erase(m) ==
    /\ stage[m] = "DRAFT"
    /\ payslips' = [payslips EXCEPT ![m] = {}]
    /\ UNCHANGED <<stage, deducted, gone>>

Payslips(emps) ==
    { {[emp |-> e, insts |-> share[e]] : e \in emps} :
      share \in {f \in [emps -> SUBSET Installments] :
                   \A e \in emps : \A i \in f[e] : Owner[i] = e} }

Calculate(m) ==
    /\ stage[m] = "DRAFT"
    /\ payslips[m] = {}
    /\ \E emps \in (SUBSET (Employees \ gone)) \ {{}} : payslips'[m] \in Payslips(emps)
    /\ payslips' = [payslips EXCEPT ![m] = payslips'[m]]
    /\ UNCHANGED <<stage, deducted, gone>>

\* moveToReview and revertToDraft.
Submit(m) ==
    /\ stage[m] = "DRAFT"
    /\ stage' = [stage EXCEPT ![m] = "REVIEW"]
    /\ UNCHANGED <<payslips, deducted, gone>>

Revert(m) ==
    /\ stage[m] = "REVIEW"
    /\ stage' = [stage EXCEPT ![m] = "DRAFT"]
    /\ UNCHANGED <<payslips, deducted, gone>>

Approve(m) ==
    /\ stage[m] = "REVIEW"
    /\ stage' = [stage EXCEPT ![m] = "APPROVED"]
    /\ deducted'[m] \subseteq UNION {s.insts : s \in payslips[m]}
    /\ deducted' = [deducted EXCEPT ![m] = deducted'[m]]
    /\ UNCHANGED <<payslips, gone>>

Close(m) ==
    /\ stage[m] = "APPROVED"
    /\ stage' = [stage EXCEPT ![m] = "CLOSED"]
    /\ UNCHANGED <<payslips, deducted, gone>>

\* EmployeeService.remove: the payslips go with the employee, published or not, and
\* so do the installments.
Remove(e) ==
    /\ e \notin gone
    /\ gone' = gone \cup {e}
    /\ payslips' = [m \in Months |-> {s \in payslips[m] : s.emp # e}]
    /\ deducted' = [m \in Months |-> {i \in deducted[m] : Owner[i] # e}]
    /\ UNCHANGED stage

\* Different requests about a month overlap.
Mix(m) ==
    /\ stage' = [stage EXCEPT ![m] = "MIXED"]
    /\ payslips' = [payslips EXCEPT ![m] = {}]
    /\ deducted' = [deducted EXCEPT ![m] = {}]
    /\ UNCHANGED gone

-----------------------------------------------------------------------------
Init ==
    /\ stage = [m \in Months |-> "NONE"]
    /\ payslips = [m \in Months |-> {}]
    /\ deducted = [m \in Months |-> {}]
    /\ gone = {}

Next ==
    \/ \E m \in Months : \/ Open(m) \/ GiveUp(m) \/ Erase(m) \/ Calculate(m)
                         \/ Submit(m) \/ Revert(m) \/ Approve(m) \/ Close(m) \/ Mix(m)
    \/ \E e \in Employees : Remove(e)

Spec == Init /\ [][Next]_vars
=============================================================================
