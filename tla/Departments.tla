---------------------------- MODULE Departments -----------------------------
(***************************************************************************)
(* Departments and the copy of their name that each employee holds         *)
(* (backend/src/modules/department, employee.service.ts).                  *)
(*                                                                         *)
(* An employee has the id of a department, which the database keeps valid, *)
(* and its name, which the reports group by and only the code keeps right. *)
(* A renaming writes the department and then the copies, an assignment     *)
(* reads the department and writes both fields later, a removal counts the *)
(* employees and deletes later: none of the three is a transaction.        *)
(***************************************************************************)
EXTENDS Naturals, FiniteSets

CONSTANTS
    Staff,       \* the employees of the company
    Depts,       \* ids
    DeptNames,
    NoDept,      \* no department, no name, nothing written yet
    Editors      \* handlers that may be in flight together

ASSUME DepartmentsAssumption == NoDept \notin Depts \cup DeptNames

VARIABLES
    dname,   \* id -> its name, NoDept without a row
    had,     \* history: id -> the names its row has had; an id is not used again
    dept,    \* employee -> departmentId
    label,   \* employee -> department, the copy of the name
    edit     \* handler -> what it has done so far

deptVars == <<dname, had, dept, label, edit>>

NoEdit == [pc |-> "idle", dept |-> NoDept, name |-> NoDept, emp |-> NoDept]
Step(pc, d, n, e) == [pc |-> pc, dept |-> d, name |-> n, emp |-> e]

\* create; a name that another department has is refused by the unique index.
CreateDept(d, n) ==
    /\ had[d] = {} /\ \A x \in Depts : dname[x] # n
    /\ dname' = [dname EXCEPT ![d] = n] /\ had' = [had EXCEPT ![d] = {n}]
    /\ UNCHANGED <<dept, label, edit>>

\* update: the department, and then the copies.
Rename(h, d, n) ==
    /\ edit[h] = NoEdit /\ dname[d] # NoDept /\ \A x \in Depts \ {d} : dname[x] # n
    /\ dname' = [dname EXCEPT ![d] = n]
    /\ had' = [had EXCEPT ![d] = @ \cup {n}]
    /\ edit' = [edit EXCEPT ![h] = Step("copy", d, n, NoDept)]
    /\ UNCHANGED <<dept, label>>
RenameCopies(h) ==
    /\ edit[h].pc = "copy"
    /\ label' = [e \in Staff |-> IF dept[e] = edit[h].dept THEN edit[h].name ELSE label[e]]
    /\ edit' = [edit EXCEPT ![h] = NoEdit]
    /\ UNCHANGED <<dname, had, dept>>

\* remove: a department that has employees is refused; deleting one sets their
\* departmentId to null and leaves the copy.
RemoveCount(h, d) ==
    /\ edit[h] = NoEdit /\ dname[d] # NoDept /\ \A e \in Staff : dept[e] # d
    /\ edit' = [edit EXCEPT ![h] = Step("delete", d, NoDept, NoDept)]
    /\ UNCHANGED <<dname, had, dept, label>>
RemoveDelete(h) ==
    /\ edit[h].pc = "delete"
    /\ dname' = [dname EXCEPT ![edit[h].dept] = NoDept]
    /\ dept' = [e \in Staff |-> IF dept[e] = edit[h].dept THEN NoDept ELSE dept[e]]
    /\ edit' = [edit EXCEPT ![h] = NoEdit]
    /\ UNCHANGED <<had, label>>

\* resolveDepartment, and then the write of create or update; the foreign key
\* refuses a department that is gone.
AssignRead(h, e, d) ==
    /\ edit[h] = NoEdit /\ dname[d] # NoDept
    /\ edit' = [edit EXCEPT ![h] = Step("assign", d, dname[d], e)]
    /\ UNCHANGED <<dname, had, dept, label>>
AssignIdOnly(h) ==    \* variant: the copy is forgotten
    /\ edit[h].pc = "assign" /\ dname[edit[h].dept] # NoDept
    /\ dept' = [dept EXCEPT ![edit[h].emp] = edit[h].dept]
    /\ edit' = [edit EXCEPT ![h] = NoEdit]
    /\ UNCHANGED <<dname, had, label>>
AssignWrite(h) ==
    /\ edit[h].pc = "assign" /\ dname[edit[h].dept] # NoDept
    /\ dept' = [dept EXCEPT ![edit[h].emp] = edit[h].dept]
    /\ label' = [label EXCEPT ![edit[h].emp] = edit[h].name]
    /\ edit' = [edit EXCEPT ![h] = NoEdit]
    /\ UNCHANGED <<dname, had>>
AssignNone(e) ==
    /\ dept[e] # NoDept \/ label[e] # NoDept
    /\ dept' = [dept EXCEPT ![e] = NoDept] /\ label' = [label EXCEPT ![e] = NoDept]
    /\ UNCHANGED <<dname, had, edit>>

\* A statement fails, or the process ends.
EditStops(h) ==
    /\ edit[h] # NoEdit
    /\ edit' = [edit EXCEPT ![h] = NoEdit]
    /\ UNCHANGED <<dname, had, dept, label>>

DeptInit ==
    /\ dname = [d \in Depts |-> NoDept] /\ had = [d \in Depts |-> {}]
    /\ dept = [e \in Staff |-> NoDept] /\ label = [e \in Staff |-> NoDept]
    /\ edit = [h \in Editors |-> NoEdit]

DeptNext ==
    \/ \E d \in Depts, n \in DeptNames : CreateDept(d, n) \/ \E h \in Editors : Rename(h, d, n)
    \/ \E h \in Editors : RenameCopies(h) \/ RemoveDelete(h) \/ AssignWrite(h) \/ EditStops(h)
    \/ \E h \in Editors, d \in Depts : RemoveCount(h, d) \/ \E e \in Staff : AssignRead(h, e, d)
    \/ \E e \in Staff : AssignNone(e)
DeptSpec == DeptInit /\ [][DeptNext]_deptVars

-----------------------------------------------------------------------------
DeptTypeOK ==
    /\ dname \in [Depts -> DeptNames \cup {NoDept}] /\ had \in [Depts -> SUBSET DeptNames]
    /\ dept \in [Staff -> Depts \cup {NoDept}] /\ label \in [Staff -> DeptNames \cup {NoDept}]
    /\ edit \in [Editors -> [pc : {"idle", "copy", "delete", "assign"}, dept : Depts \cup {NoDept},
                             name : DeptNames \cup {NoDept}, emp : Staff \cup {NoDept}]]
    /\ \A h \in Editors : edit[h] # NoEdit => edit[h].dept \in Depts

\* However renamings, removals and assignments overlap or stop half-way, an employee
\* carries a name that its own department has or has had, never another one's and never
\* none (resolveDepartment, update and remove of both services).
OwnNames == \A e \in Staff : dept[e] # NoDept => label[e] \in had[dept[e]]

\* "Keep denormalized Employee.department in sync for groupBy/reports.": once no handler
\* is under way every employee carries the name of its department, or neither.
LabelsMatch ==
    (\A h \in Editors : edit[h] = NoEdit) =>
        \A e \in Staff : label[e] = IF dept[e] = NoDept THEN NoDept ELSE dname[dept[e]]
=============================================================================
