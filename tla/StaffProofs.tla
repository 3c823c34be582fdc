---------------------------- MODULE StaffProofs -----------------------------
(***************************************************************************)
(* Departments, roles, payslips and the payroll page, for any number of    *)
(* employees, users, handlers, cycles and amounts.                         *)
(*                                                                         *)
(* An employee carries a name of its own department because a handler      *)
(* writes the id together with a name that department had when it was read. *)
(* An owner remains because a demotion that was counted still finds the     *)
(* owners it counted, unless another took the role from one in between.     *)
(* The page shows what is selected because every change of the selection   *)
(* cancels the fetches of the one before, and because what a button changes *)
(* is fetched again; only the header can be left to a button's late answer. *)
(* A payslip adds up because each total is a sum of amounts that are not   *)
(* negative, rounded by itself to within half a cent; and overtime is paid *)
(* once because its sum grows with the hours of each day.                  *)
(***************************************************************************)
EXTENDS Departments, Roles, Slip, PayrollPage, FiniteSetTheorems, WellFoundedInduction, TLAPS

-----------------------------------------------------------------------------
(* Departments *)

LEMMA DeptTypeStep == DeptTypeOK /\ [DeptNext]_deptVars => DeptTypeOK'
  <1> SUFFICES ASSUME DeptTypeOK, [DeptNext]_deptVars PROVE DeptTypeOK' OBVIOUS
  <1> USE DepartmentsAssumption DEF DeptTypeOK, NoEdit, Step
  <1>1. ASSUME NEW d \in Depts, NEW n \in DeptNames, CreateDept(d, n) PROVE DeptTypeOK' BY <1>1 DEF CreateDept
  <1>2. ASSUME NEW d \in Depts, NEW n \in DeptNames, NEW h \in Editors, Rename(h, d, n) PROVE DeptTypeOK'
    BY <1>2 DEF Rename
  <1>3. ASSUME NEW h \in Editors, RenameCopies(h) PROVE DeptTypeOK' BY <1>3 DEF RenameCopies
  <1>4. ASSUME NEW h \in Editors, RemoveDelete(h) PROVE DeptTypeOK' BY <1>4 DEF RemoveDelete
  <1>5. ASSUME NEW h \in Editors, AssignWrite(h) PROVE DeptTypeOK' BY <1>5 DEF AssignWrite
  <1>6. ASSUME NEW h \in Editors, EditStops(h) PROVE DeptTypeOK' BY <1>6 DEF EditStops
  <1>7. ASSUME NEW h \in Editors, NEW d \in Depts, RemoveCount(h, d) PROVE DeptTypeOK' BY <1>7 DEF RemoveCount
  <1>8. ASSUME NEW h \in Editors, NEW d \in Depts, NEW e \in Staff, AssignRead(h, e, d) PROVE DeptTypeOK'
    BY <1>8 DEF AssignRead
  <1>9. ASSUME NEW e \in Staff, AssignNone(e) PROVE DeptTypeOK' BY <1>9 DEF AssignNone
  <1>10. CASE UNCHANGED deptVars BY <1>10 DEF deptVars
  <1> QED BY <1>1, <1>2, <1>3, <1>4, <1>5, <1>6, <1>7, <1>8, <1>9, <1>10 DEF DeptNext

\* Rows and handlers are well formed (department.service, employee.service).
THEOREM DepartmentsTyped == DeptSpec => []DeptTypeOK
  <1>1. DeptInit => DeptTypeOK BY DEF DeptInit, DeptTypeOK, NoEdit
  <1> QED BY <1>1, DeptTypeStep, PTL DEF DeptSpec

\* A handler carries a name its department has or has had, and so does its row.
NamesKept ==
    /\ \A d \in Depts : dname[d] # NoDept => dname[d] \in had[d]
    /\ \A h \in Editors : edit[h].pc \in {"copy", "assign"} => edit[h].name \in had[edit[h].dept]
    /\ \A h \in Editors : edit[h].pc = "assign" => edit[h].emp \in Staff

LEMMA DeptInvStep ==
    DeptTypeOK /\ NamesKept /\ OwnNames /\ [DeptNext]_deptVars => (NamesKept /\ OwnNames)'
  <1> SUFFICES ASSUME DeptTypeOK, NamesKept, OwnNames, [DeptNext]_deptVars PROVE NamesKept' /\ OwnNames' OBVIOUS
  <1> USE DepartmentsAssumption
  <1>0. DeptTypeOK' BY DeptTypeStep
  <1> DEFINE Goal == NamesKept' /\ OwnNames'
  <1>1. ASSUME NEW d \in Depts, NEW n \in DeptNames, CreateDept(d, n) PROVE Goal
    <2> USE <1>0, <1>1 DEF CreateDept, NoEdit, Step, DeptTypeOK
    <2>1. NamesKept' BY DEF NamesKept
    <2>2. OwnNames' BY DEF OwnNames, NamesKept
    <2> QED BY <2>1, <2>2
  <1>2. ASSUME NEW d \in Depts, NEW n \in DeptNames, NEW h \in Editors, Rename(h, d, n) PROVE Goal
    <2> USE <1>0, <1>2 DEF Rename, NoEdit, Step, DeptTypeOK
    <2>1. NamesKept' BY DEF NamesKept
    <2>2. OwnNames' BY DEF OwnNames, NamesKept
    <2> QED BY <2>1, <2>2
  <1>3. ASSUME NEW h \in Editors, RenameCopies(h) PROVE Goal
    <2> USE <1>0, <1>3 DEF RenameCopies, NoEdit, Step, DeptTypeOK
    <2>1. NamesKept' BY DEF NamesKept
    <2>2. OwnNames' BY DEF OwnNames, NamesKept
    <2> QED BY <2>1, <2>2
  <1>4. ASSUME NEW h \in Editors, RemoveDelete(h) PROVE Goal
    <2> USE <1>0, <1>4 DEF RemoveDelete, NoEdit, Step, DeptTypeOK
    <2>1. NamesKept' BY DEF NamesKept
    <2>2. OwnNames' BY DEF OwnNames, NamesKept
    <2> QED BY <2>1, <2>2
  <1>5. ASSUME NEW h \in Editors, AssignWrite(h) PROVE Goal
    <2> USE <1>0, <1>5 DEF AssignWrite, NoEdit, Step, DeptTypeOK
    <2>1. NamesKept' BY DEF NamesKept
    <2>2. OwnNames' BY DEF OwnNames, NamesKept
    <2> QED BY <2>1, <2>2
  <1>6. ASSUME NEW h \in Editors, EditStops(h) PROVE Goal
    <2> USE <1>0, <1>6 DEF EditStops, NoEdit, Step, DeptTypeOK
    <2>1. NamesKept' BY DEF NamesKept
    <2>2. OwnNames' BY DEF OwnNames, NamesKept
    <2> QED BY <2>1, <2>2
  <1>7. ASSUME NEW h \in Editors, NEW d \in Depts, RemoveCount(h, d) PROVE Goal
    <2> USE <1>0, <1>7 DEF RemoveCount, NoEdit, Step, DeptTypeOK
    <2>1. NamesKept' BY DEF NamesKept
    <2>2. OwnNames' BY DEF OwnNames, NamesKept
    <2> QED BY <2>1, <2>2
  <1>8. ASSUME NEW h \in Editors, NEW d \in Depts, NEW e \in Staff, AssignRead(h, e, d) PROVE Goal
    <2> USE <1>0, <1>8 DEF AssignRead, NoEdit, Step, DeptTypeOK
    <2>1. NamesKept' BY DEF NamesKept
    <2>2. OwnNames' BY DEF OwnNames, NamesKept
    <2> QED BY <2>1, <2>2
  <1>9. ASSUME NEW e \in Staff, AssignNone(e) PROVE Goal
    <2> USE <1>0, <1>9 DEF AssignNone, NoEdit, Step, DeptTypeOK
    <2>1. NamesKept' BY DEF NamesKept
    <2>2. OwnNames' BY DEF OwnNames, NamesKept
    <2> QED BY <2>1, <2>2
  <1>10. CASE UNCHANGED deptVars BY <1>10 DEF deptVars, NamesKept, OwnNames
  <1> QED BY <1>1, <1>2, <1>3, <1>4, <1>5, <1>6, <1>7, <1>8, <1>9, <1>10 DEF DeptNext

\* For any employees, departments and handlers in flight: an employee of a department
\* carries a name that department has or has had.
THEOREM DepartmentsOwnNames == DeptSpec => []OwnNames
  <1> DEFINE I == DeptTypeOK /\ NamesKept /\ OwnNames
  <1>1. DeptInit => I
    BY DepartmentsAssumption DEF DeptInit, DeptTypeOK, NamesKept, OwnNames, NoEdit
  <1>2. I /\ [DeptNext]_deptVars => I' BY DeptTypeStep, DeptInvStep
  <1> QED BY <1>1, <1>2, PTL DEF DeptSpec

-----------------------------------------------------------------------------
(* Roles *)

LEMMA NoChangeTyped ==
    NoChange \in [pc : {"idle", "count", "write", "unassign"}, users : SUBSET Users,
                  from : Custom \cup SystemRoles, to : Custom \cup SystemRoles,
                  own : BOOLEAN, late : BOOLEAN]
  BY DEF NoChange, SystemRoles

LEMMA RolesTypeStep == RolesTypeOK /\ [RolesNext]_roleVars => RolesTypeOK'
  <1> SUFFICES ASSUME RolesTypeOK, [RolesNext]_roleVars PROVE RolesTypeOK' OBVIOUS
  <1> USE RolesAssumption DEF RolesTypeOK, NoChange, SystemRoles
  <1>1. ASSUME NEW r \in Custom, CreateRole(r)
       PROVE  RolesTypeOK'
    BY <1>1 DEF CreateRole
  <1>2. ASSUME NEW r \in Custom, RemoveRole(r)
       PROVE  RolesTypeOK'
    BY <1>2 DEF RemoveRole
  <1>3. ASSUME NEW h \in Actors, NEW by \in Users, NEW u \in Users, NEW r \in Custom \cup {"owner", "employee"}, Assign(h, by, u, r)
       PROVE  RolesTypeOK'
    BY <1>3 DEF Assign
  <1>4. ASSUME NEW h \in Actors, NEW by \in Users, NEW S \in SUBSET Users, NEW r \in Custom \cup {"owner"}, Unassign(h, by, S, r)
       PROVE  RolesTypeOK'
    BY <1>4 DEF Unassign
  <1>5. ASSUME NEW h \in Actors, AssignCount(h)
       PROVE  RolesTypeOK'
    BY <1>5 DEF AssignCount
  <1>6. ASSUME NEW h \in Actors, AssignUser(h)
       PROVE  RolesTypeOK'
    BY <1>6 DEF AssignUser, Write
  <1>7. ASSUME NEW h \in Actors, UnassignWrite(h)
       PROVE  RolesTypeOK'
    BY <1>7 DEF UnassignWrite, Write
  <1>8. ASSUME NEW h \in Actors, ChangeStops(h)
       PROVE  RolesTypeOK'
    BY <1>8 DEF ChangeStops
  <1>9. CASE UNCHANGED roleVars BY <1>9 DEF roleVars
  <1> QED BY <1>1, <1>2, <1>3, <1>4, <1>5, <1>6, <1>7, <1>8, <1>9 DEF RolesNext

\* Users have roles there are (role.service).
THEOREM RolesTyped == RolesSpec => []RolesTypeOK
  <1>1. RolesInit => RolesTypeOK BY NoChangeTyped DEF RolesInit, RolesTypeOK, SystemRoles
  <1> QED BY <1>1, RolesTypeStep, PTL DEF RolesSpec

\* A company of finitely many users with more owners than a set it has another one.
LEMMA OwnerOutside ==
    ASSUME NEW S \in SUBSET Users, Cardinality(Owners) >= Cardinality(S) + 1
    PROVE  \E o \in Owners : o \notin S
  <1> SUFFICES ASSUME Owners \subseteq S PROVE FALSE BY DEF Owners
  <1>1. IsFiniteSet(S) BY FS_Subset, RolesAssumption
  <1>2. Cardinality(Owners) <= Cardinality(S) /\ IsFiniteSet(Owners) BY <1>1, FS_Subset
  <1> QED BY <1>1, <1>2, FS_CardinalityType

\* A handler that no other has overtaken has read what still holds, or leaves an owner.
Reads(x) == \E u \in Users : x.users = {u} /\ (x.from = "owner" \/ \E o \in Owners : o # u)
LeavesOwner(x) == \E o \in Owners : o \notin x.users
Holds(x) ==
    /\ x.pc = "count" => Reads(x)
    /\ x.pc = "write" => x.users # {} /\ (x.to # "owner" => LeavesOwner(x))
    /\ x.pc = "unassign" /\ x.from = "owner" => LeavesOwner(x)
RolesInv ==
    /\ \A h \in Actors : change[h].pc = "idle" => change[h] = NoChange
    /\ \A h \in Actors : change[h].pc \in {"count", "write"} => change[h].users # {}
    /\ ~crossed => Owners # {} /\ \A h \in Actors : ~change[h].late => Holds(change[h])

\* A step of a handler before it writes.
LEMMA ReadsKeep ==
    ASSUME RolesTypeOK, RolesInv, NEW h \in Actors, NEW x, roleOf' = roleOf, crossed' = crossed,
           change' = [change EXCEPT ![h] = x],
           x.pc = "idle" => x = NoChange,
           x.pc \in {"count", "write"} => x.users # {},
           ~crossed /\ ~x.late => Holds(x)
    PROVE  RolesInv'
  <1>1. Owners' = Owners BY DEF Owners
  <1>2. \A g \in Actors : change'[g] = IF g = h THEN x ELSE change[g] BY DEF RolesTypeOK
  <1>3. \A y : Holds(y)' <=> Holds(y)
    <2> SUFFICES ASSUME NEW y PROVE Holds(y)' <=> Holds(y) OBVIOUS
    <2> QED BY <1>1 DEF Holds, Reads, LeavesOwner
  <1> QED BY <1>1, <1>2, <1>3 DEF RolesInv, Holds, Reads, LeavesOwner

\* A write that takes the role from nobody only adds owners.
LEMMA OwnersGrow ==
    ASSUME NEW x, Owners \subseteq Owners', Holds(x) PROVE Holds(x)'
  BY DEF Holds, Reads, LeavesOwner

LEMMA WriteKeeps ==
    ASSUME RolesTypeOK, RolesInv, NEW h \in Actors, NEW r \in [Users -> Custom \cup SystemRoles], Write(h, r),
           ~crossed /\ ~change[h].late => \E o \in Users : r[o] = "owner"
    PROVE  RolesInv'
  <1> DEFINE taken == \E u \in Owners : r[u] # "owner"
  <1>1. Owners' = {u \in Users : r[u] = "owner"} BY DEF Owners, Write
  <1>2. crossed' = (crossed \/ (taken /\ change[h].late)) BY DEF Write
  <1>3. \A g \in Actors : change'[g] = IF g = h \/ change[g] = NoChange THEN NoChange
                                      ELSE [change[g] EXCEPT !.late = @ \/ taken]
    BY DEF Write
  <1> HIDE DEF taken
  <1>4. \A g \in Actors : change'[g].pc = "idle" => change'[g] = NoChange
    BY <1>3 DEF RolesInv, RolesTypeOK, NoChange
  <1>5. \A g \in Actors : change'[g].pc \in {"count", "write"} => change'[g].users # {}
    <2> SUFFICES ASSUME NEW g \in Actors, change'[g] # NoChange, change'[g].pc \in {"count", "write"}
                 PROVE  change'[g].users # {}
      BY DEF NoChange
    <2>1. change'[g] = [change[g] EXCEPT !.late = @ \/ taken] BY <1>3
    <2>2. change'[g].pc = change[g].pc /\ change'[g].users = change[g].users
      BY <2>1 DEF RolesTypeOK
    <2> QED BY <2>2 DEF RolesInv
  <1>6. ASSUME ~crossed' PROVE Owners' # {} /\ \A g \in Actors : ~change'[g].late => Holds(change[g])'
    <2>1. ~crossed /\ (taken => ~change[h].late) BY <1>2, <1>6
    <2>2. CASE taken
      <3>1. Owners' # {} BY <2>1, <2>2, <1>1
      <3>2. ASSUME NEW g \in Actors, ~change'[g].late PROVE change'[g] = NoChange
        BY <3>2, <2>2, <1>3 DEF RolesTypeOK, NoChange
      <3>3. Holds(NoChange)' BY DEF Holds, NoChange
      <3>4. ASSUME NEW g \in Actors, ~change'[g].late PROVE Holds(change[g])'
        <4>1. change'[g] = NoChange BY <3>2, <3>4
        <4> QED BY <4>1, <3>3 DEF Holds, Reads, LeavesOwner
      <3> QED BY <3>1, <3>4
    <2>3. CASE ~taken
      <3>1. Owners \subseteq Owners' BY <2>3, <1>1 DEF taken, Owners
      <3>2. Owners # {} BY <2>1 DEF RolesInv
      <3>3. ASSUME NEW g \in Actors, ~change'[g].late PROVE Holds(change[g])'
        <4>1. CASE change'[g] = NoChange BY <4>1 DEF Holds, NoChange
        <4>2. CASE change'[g] # NoChange
          <5>1. change'[g] = change[g] /\ ~change[g].late
            BY <4>2, <3>3, <2>3, <1>3 DEF RolesTypeOK
          <5>2. Holds(change[g]) BY <5>1, <2>1 DEF RolesInv
          <5> QED BY <5>1, <5>2, <3>1 DEF Holds, Reads, LeavesOwner
        <4> QED BY <4>1, <4>2
      <3> QED BY <3>1, <3>2, <3>3
    <2> QED BY <2>2, <2>3
  <1> QED BY <1>4, <1>5, <1>6 DEF RolesInv

LEMMA RolesInvStep == ASSUME RolesTypeOK, RolesInv, [RolesNext]_roleVars PROVE RolesInv'
  <1> USE RolesAssumption
  <1>0. RolesTypeOK' BY RolesTypeStep
  <1>1. ASSUME NEW r \in Custom, CreateRole(r) PROVE RolesInv'
    <2>1. Owners' = Owners BY <1>1 DEF CreateRole, Owners
    <2> QED BY <1>1, <2>1 DEF CreateRole, RolesInv, Holds, Reads, LeavesOwner
  <1>2. ASSUME NEW r \in Custom, RemoveRole(r) PROVE RolesInv'
    <2>1. Owners' = Owners BY <1>2 DEF RemoveRole, Owners
    <2> QED BY <1>2, <2>1 DEF RemoveRole, RolesInv, Holds, Reads, LeavesOwner
  <1>3. ASSUME NEW h \in Actors, NEW by \in Users, NEW u \in Users, NEW r \in Custom \cup {"owner", "employee"}, Assign(h, by, u, r)
        PROVE  RolesInv'
    <2> DEFINE x == [pc |-> "count", users |-> {u}, from |-> roleOf[u], to |-> r, own |-> u = by, late |-> FALSE]
    <2>1. change' = [change EXCEPT ![h] = x] /\ roleOf' = roleOf /\ crossed' = crossed BY <1>3 DEF Assign
    <2>2. ~crossed => Holds(x)
      <3>1. roleOf[u] = "owner" <=> u \in Owners BY DEF Owners
      <3> QED BY <3>1 DEF RolesInv, Holds, Reads
    <2>3. x.users # {} /\ x.pc = "count" OBVIOUS
    <2> HIDE DEF x
    <2> QED BY <2>1, <2>2, <2>3, ReadsKeep
  <1>4. ASSUME NEW h \in Actors, NEW by \in Users, NEW S \in SUBSET Users, NEW r \in Custom \cup {"owner"}, Unassign(h, by, S, r)
        PROVE  RolesInv'
    <2> DEFINE x == [pc |-> "unassign", users |-> S, from |-> r, to |-> "employee", own |-> FALSE, late |-> FALSE]
    <2>1. change' = [change EXCEPT ![h] = x] /\ roleOf' = roleOf /\ crossed' = crossed BY <1>4 DEF Unassign
    <2>2. Holds(x) BY <1>4, OwnerOutside DEF Unassign, Holds, LeavesOwner
    <2>3. x.pc = "unassign" OBVIOUS
    <2> HIDE DEF x
    <2> QED BY <2>1, <2>2, <2>3, ReadsKeep
  <1>5. ASSUME NEW h \in Actors, AssignCount(h) PROVE RolesInv'
    <2> DEFINE x == [change[h] EXCEPT !.pc = "write"]
    <2>1. roleOf' = roleOf /\ crossed' = crossed /\ change[h].pc = "count" BY <1>5 DEF AssignCount
    <2>2. CASE change' = [change EXCEPT ![h] = NoChange]
      BY <2>1, <2>2, ReadsKeep DEF NoChange, Holds
    <2>3. CASE /\ change' = [change EXCEPT ![h] = x]
               /\ ~(change[h].from = "owner" /\ change[h].to # "owner" /\ Cardinality(Owners) <= 1)
      <3>1. /\ x.pc = "write" /\ x.users = change[h].users /\ x.to = change[h].to
            /\ x.late = change[h].late
        BY DEF RolesTypeOK
      <3>2. x.users # {} BY <2>1, <3>1 DEF RolesInv
      <3>3. ASSUME ~crossed, ~x.late PROVE Holds(x)
        <4>1. PICK u \in Users : /\ change[h].users = {u}
                                 /\ change[h].from = "owner" \/ \E o \in Owners : o # u
          BY <3>3, <3>1, <2>1 DEF RolesInv, Holds, Reads
        <4>2. Cardinality(Owners) \in Nat
          BY FS_Subset, FS_CardinalityType DEF Owners
        <4>3. Cardinality(Owners) > 1 => \E o \in Owners : o # u
          <5>1. Cardinality({u}) = 1 /\ {u} \in SUBSET Users BY FS_Singleton
          <5> QED BY <5>1, <4>2, OwnerOutside
        <4>4. change[h].to # "owner" => \E o \in Owners : o # u BY <2>3, <4>1, <4>2, <4>3
        <4> QED BY <3>1, <4>1, <4>4 DEF Holds, LeavesOwner
      <3> HIDE DEF x
      <3> QED BY <2>1, <2>3, <3>1, <3>2, <3>3, ReadsKeep
    <2> QED BY <1>5, <2>2, <2>3 DEF AssignCount
  <1>6. ASSUME NEW h \in Actors, AssignUser(h) PROVE RolesInv'
    <2> DEFINE x == change[h]
               r == [u \in Users |-> IF u \in x.users THEN x.to ELSE roleOf[u]]
    <2>1. Write(h, r) /\ x.pc = "write" BY <1>6 DEF AssignUser
    <2>2. r \in [Users -> Custom \cup SystemRoles] BY DEF RolesTypeOK, SystemRoles
    <2>3. ASSUME ~crossed, ~x.late PROVE \E o \in Users : r[o] = "owner"
      <3>1. x.users # {} /\ x.users \subseteq Users /\ (x.to # "owner" => \E o \in Owners : o \notin x.users)
        BY <2>1, <2>3 DEF RolesInv, RolesTypeOK, Holds, LeavesOwner
      <3>2. CASE x.to = "owner" BY <3>1, <3>2
      <3>3. CASE x.to # "owner" BY <3>1, <3>3 DEF Owners
      <3> QED BY <3>2, <3>3
    <2> HIDE DEF r
    <2> QED BY <2>1, <2>2, <2>3, WriteKeeps
  <1>7. ASSUME NEW h \in Actors, UnassignWrite(h) PROVE RolesInv'
    <2> DEFINE x == change[h]
               r == [u \in Users |-> IF u \in x.users /\ roleOf[u] = x.from THEN "employee" ELSE roleOf[u]]
    <2>1. Write(h, r) /\ x.pc = "unassign" BY <1>7 DEF UnassignWrite
    <2>2. r \in [Users -> Custom \cup SystemRoles] BY DEF RolesTypeOK, SystemRoles
    <2>3. ASSUME ~crossed, ~x.late PROVE \E o \in Users : r[o] = "owner"
      <3>1. PICK o \in Owners : x.from = "owner" => o \notin x.users
        BY <2>1, <2>3 DEF RolesInv, Holds, LeavesOwner
      <3>2. o \in Users /\ roleOf[o] = "owner" BY DEF Owners
      <3>3. r[o] = "owner" BY <3>1, <3>2
      <3> QED BY <3>2, <3>3
    <2> HIDE DEF r
    <2> QED BY <2>1, <2>2, <2>3, WriteKeeps
  <1>8. ASSUME NEW h \in Actors, ChangeStops(h) PROVE RolesInv'
    BY <1>8, ReadsKeep DEF ChangeStops, NoChange, Holds
  <1>9. CASE UNCHANGED roleVars
    BY <1>9 DEF roleVars, RolesInv, Holds, Reads, LeavesOwner, Owners, NoChange
  <1> QED BY <1>1, <1>2, <1>3, <1>4, <1>5, <1>6, <1>7, <1>8, <1>9 DEF RolesNext

\* For any users, roles and handlers in flight: a company keeps an owner as long as no
\* handler takes the Owner role after another took it under way.
THEOREM RolesAlwaysAnOwner == RolesSpec => []AlwaysAnOwner
  <1> DEFINE I == RolesTypeOK /\ RolesInv
  <1>1. RolesInit => I
    <2> SUFFICES ASSUME RolesInit PROVE RolesTypeOK /\ RolesInv OBVIOUS
    <2>1. RolesTypeOK BY NoChangeTyped DEF RolesInit, RolesTypeOK, SystemRoles
    <2>2. NoChange.pc = "idle" BY DEF NoChange
    <2>3. \A h \in Actors : change[h] = NoChange BY DEF RolesInit
    <2>4. Holds(NoChange) BY <2>2 DEF Holds
    <2> QED BY <2>1, <2>2, <2>3, <2>4 DEF RolesInit, RolesInv
  <1>2. I /\ [RolesNext]_roleVars => I' BY RolesTypeStep, RolesInvStep
  <1>3. I => AlwaysAnOwner BY DEF AlwaysAnOwner, RolesInv
  <1> QED BY <1>1, <1>2, <1>3, PTL DEF RolesSpec

-----------------------------------------------------------------------------
(* Sums.  SumFunction takes the elements of the domain away one by one; that *)
(* such a function exists, and what it comes to, is shown for ever larger    *)
(* subsets of the domain: the least exception would have a smaller one.      *)

LEMMA LeastNumber == ASSUME NEW T, T \subseteq Nat, T # {} PROVE \E i \in T : \A j \in T : ~(j < i)
  <1>1. PICK i \in T : \A j \in T : <<j, i>> \notin OpToRel(<, Nat)
    BY NatLessThanWellFounded, WFMin, Zenon
  <1>2. ASSUME NEW j \in T, j < i PROVE <<j, i>> \in OpToRel(<, Nat)
    <2>1. i \in Nat /\ j \in Nat OBVIOUS
    <2> QED BY <1>2, <2>1, Zenon DEF OpToRel
  <1> QED BY <1>1, <1>2

\* Of any subsets of a finite set there is one of which none has a part.
LEMMA SmallestSubset ==
    ASSUME NEW D, IsFiniteSet(D), NEW T, T \subseteq SUBSET D, T # {}
    PROVE  \E s \in T : \A x \in s : s \ {x} \notin T
  <1> DEFINE sizes == {n \in Nat : \E s \in T : Cardinality(s) = n}
  <1>1. \A s \in T : IsFiniteSet(s) /\ Cardinality(s) \in Nat
    BY FS_Subset, FS_CardinalityType
  <1>2. sizes \subseteq Nat /\ sizes # {} BY <1>1
  <1>3. PICK n \in sizes : \A m \in sizes : ~(m < n)
    <2> HIDE DEF sizes
    <2> QED BY <1>2, LeastNumber
  <1>4. PICK s \in T : Cardinality(s) = n OBVIOUS
  <1>5. ASSUME NEW x \in s, s \ {x} \in T PROVE FALSE
    <2>1. Cardinality(s \ {x}) = n - 1 BY <1>1, <1>4, FS_RemoveElement
    <2>2. n - 1 \in sizes BY <1>1, <1>5, <2>1
    <2> QED BY <1>3, <2>2
  <1> QED BY <1>4, <1>5

First(s) == CHOOSE x \in s : TRUE
Adds(f, amounts, D) ==
    f = [s \in SUBSET D |-> IF s = {} THEN 0 ELSE amounts[First(s)] + f[s \ {First(s)}]]

\* f adds up the subsets of no more than n elements.
AddsUpTo(f, amounts, D, n) ==
    \A s \in SUBSET D : Cardinality(s) <= n =>
        f[s] = IF s = {} THEN 0 ELSE amounts[First(s)] + f[s \ {First(s)}]

LEMMA AddsUpToExists ==
    ASSUME NEW D, IsFiniteSet(D), NEW amounts, NEW n \in Nat
    PROVE  \E f : AddsUpTo(f, amounts, D, n)
  <1> DEFINE T == {m \in Nat : ~\E f : AddsUpTo(f, amounts, D, m)}
  <1>0. \A s \in SUBSET D : IsFiniteSet(s) /\ Cardinality(s) \in Nat
    BY FS_Subset, FS_CardinalityType
  <1>1. AddsUpTo([s \in SUBSET D |-> 0], amounts, D, 0)
    BY <1>0, FS_EmptySet DEF AddsUpTo
  <1>2. ASSUME NEW m \in Nat, NEW g, AddsUpTo(g, amounts, D, m)
        PROVE  \E f : AddsUpTo(f, amounts, D, m + 1)
    <2> DEFINE f == [s \in SUBSET D |-> IF Cardinality(s) <= m THEN g[s]
                                        ELSE amounts[First(s)] + g[s \ {First(s)}]]
    <2>1. ASSUME NEW s \in SUBSET D, s # {}
          PROVE  /\ s \ {First(s)} \in SUBSET D
                 /\ Cardinality(s \ {First(s)}) = Cardinality(s) - 1
      <3>1. First(s) \in s BY <2>1 DEF First
      <3> QED BY <1>0, <3>1, FS_RemoveElement
    <2>2. ASSUME NEW s \in SUBSET D, Cardinality(s) <= m + 1
          PROVE  f[s] = IF s = {} THEN 0 ELSE amounts[First(s)] + f[s \ {First(s)}]
      <3>1. CASE s = {}
        <4>1. Cardinality(s) <= m BY <3>1, FS_EmptySet
        <4> QED BY <1>2, <3>1, <4>1 DEF AddsUpTo
      <3>2. CASE s # {}
        <4>1. /\ s \ {First(s)} \in SUBSET D
              /\ Cardinality(s \ {First(s)}) = Cardinality(s) - 1 /\ Cardinality(s) \in Nat
          BY <1>0, <2>1, <3>2
        <4>2. Cardinality(s \ {First(s)}) <= m BY <2>2, <4>1
        <4>3. f[s \ {First(s)}] = g[s \ {First(s)}] BY <4>1, <4>2
        <4>4. Cardinality(s) <= m => g[s] = amounts[First(s)] + g[s \ {First(s)}] BY <1>2, <3>2 DEF AddsUpTo
        <4>5. f[s] = amounts[First(s)] + g[s \ {First(s)}] BY <4>4
        <4> HIDE DEF f
        <4> QED BY <3>2, <4>3, <4>5
      <3> QED BY <3>1, <3>2
    <2> HIDE DEF f
    <2> QED BY <2>2 DEF AddsUpTo
  <1>3. T = {}
    <2> SUFFICES ASSUME T # {} PROVE FALSE OBVIOUS
    <2>1. PICK i \in T : \A j \in T : ~(j < i)
      <3>1. T \subseteq Nat OBVIOUS
      <3> HIDE DEF T
      <3> QED BY <3>1, LeastNumber
    <2>2. i \in Nat /\ ~\E f : AddsUpTo(f, amounts, D, i) OBVIOUS
    <2>3. i # 0 BY <1>1, <2>2
    <2>4. i - 1 \in Nat /\ i - 1 < i BY <2>2, <2>3
    <2>5. \E f : AddsUpTo(f, amounts, D, i - 1) BY <2>1, <2>4
    <2>6. \E f : AddsUpTo(f, amounts, D, (i - 1) + 1) BY <1>2, <2>4, <2>5
    <2>7. (i - 1) + 1 = i BY <2>2
    <2> QED BY <2>2, <2>6, <2>7
  <1> QED BY <1>3

LEMMA AddsExists == ASSUME NEW D, IsFiniteSet(D), NEW amounts PROVE \E f : Adds(f, amounts, D)
  <1>0. Cardinality(D) \in Nat BY FS_CardinalityType
  <1>1. \A s \in SUBSET D : Cardinality(s) <= Cardinality(D) BY FS_Subset
  <1>2. PICK g : AddsUpTo(g, amounts, D, Cardinality(D)) BY <1>0, AddsUpToExists
  <1>3. \A s \in SUBSET D : g[s] = IF s = {} THEN 0 ELSE amounts[First(s)] + g[s \ {First(s)}]
    BY <1>1, <1>2 DEF AddsUpTo
  <1> DEFINE f == [s \in SUBSET D |-> g[s]]
  <1>4. Adds(f, amounts, D)
    <2>1. \A s \in SUBSET D : s \ {First(s)} \in SUBSET D OBVIOUS
    <2> QED BY <1>3, <2>1 DEF Adds
  <1> QED BY <1>4

LEMMA SumIs ==
    ASSUME NEW D, IsFiniteSet(D), NEW amounts, DOMAIN amounts = D
    PROVE  \E f : Adds(f, amounts, D) /\ SumFunction(amounts) = f[D]
  <1> DEFINE f == CHOOSE g : Adds(g, amounts, D)
  <1>1. Adds(f, amounts, D)
    <2> HIDE DEF Adds
    <2> QED BY AddsExists
  <1>2. SumFunction(amounts) = f[D]
    BY DEF SumFunction, SumFunctionOnSet, FoldFunctionOnSet, MapThenFoldSet, Adds, First
  <1> QED BY <1>1, <1>2

\* A sum of amounts of which none is negative is not, and grows with each of them.
LEMMA SumMonotone ==
    ASSUME NEW D, IsFiniteSet(D), NEW v \in [D -> Nat], NEW w \in [D -> Nat],
           \A x \in D : v[x] <= w[x]
    PROVE  /\ SumFunction(v) \in Nat /\ SumFunction(w) \in Nat
           /\ SumFunction(v) <= SumFunction(w)
  <1>1. PICK a : Adds(a, v, D) /\ SumFunction(v) = a[D] BY SumIs
  <1>2. PICK b : Adds(b, w, D) /\ SumFunction(w) = b[D] BY SumIs
  <1> DEFINE Good(s) == a[s] \in Nat /\ b[s] \in Nat /\ a[s] <= b[s]
             T == {s \in SUBSET D : ~Good(s)}
  <1>3. T = {}
    <2> SUFFICES ASSUME T # {} PROVE FALSE OBVIOUS
    <2>1. PICK s \in T : \A x \in s : s \ {x} \notin T
      <3>1. T \subseteq SUBSET D OBVIOUS
      <3> HIDE DEF T
      <3> QED BY <3>1, SmallestSubset
    <2>2. s \in SUBSET D /\ ~Good(s) OBVIOUS
    <2>3. s # {} BY <1>1, <1>2, <2>2 DEF Adds
    <2>4. First(s) \in s /\ First(s) \in D BY <2>2, <2>3 DEF First
    <2>5. Good(s \ {First(s)}) BY <2>1, <2>2, <2>4
    <2>6. a[s] = v[First(s)] + a[s \ {First(s)}] /\ b[s] = w[First(s)] + b[s \ {First(s)}]
      BY <1>1, <1>2, <2>2, <2>3 DEF Adds
    <2>7. v[First(s)] \in Nat /\ w[First(s)] \in Nat /\ v[First(s)] <= w[First(s)]
      BY <2>4
    <2> QED BY <2>2, <2>5, <2>6, <2>7
  <1>4. Good(D)
    <2> HIDE DEF Good
    <2> QED BY <1>3
  <1> QED BY <1>1, <1>2, <1>4

LEMMA SumIsNat == ASSUME NEW D, IsFiniteSet(D), NEW v \in [D -> Nat] PROVE SumFunction(v) \in Nat
  BY SumMonotone

-----------------------------------------------------------------------------
(* Rounding *)

\* A quotient is an integer, and leaves a remainder below the divisor.
LEMMA Division == ASSUME NEW x \in Nat, NEW n \in Nat \ {0}
                  PROVE  /\ x \div n \in Nat
                         /\ (x \div n) * n <= x /\ x < (x \div n) * n + n
  OBVIOUS

LEMMA HalfUnit == Unit \div 2 \in Nat /\ Unit = 2 * (Unit \div 2) /\ Unit \in Nat \ {0}
  BY SlipAssumption

\* Rounding moves an amount by half a cent at most.
LEMMA MoneyBounds == ASSUME NEW x \in Nat
                     PROVE  /\ Money(x) \in Nat
                            /\ Money(x) * Unit <= x + Unit \div 2
                            /\ x + Unit \div 2 < Money(x) * Unit + Unit
  <1>1. x + Unit \div 2 \in Nat BY HalfUnit
  <1>2. Money(x) = (x + Unit \div 2) \div Unit BY DEF Money
  <1> QED BY <1>1, <1>2, Division, HalfUnit

LEMMA UnderTwo == ASSUME NEW k \in Int, k * Unit < 2 * Unit PROVE k <= 1
  <1> SUFFICES ASSUME k >= 2 PROVE FALSE OBVIOUS
  <1>1. k * Unit >= 2 * Unit BY HalfUnit
  <1> QED BY <1>1, HalfUnit

LEMMA Distribute == ASSUME NEW p \in Int, NEW q \in Int, NEW n \in Int
                    PROVE  /\ (p + q) * n = p * n + q * n /\ (p - q) * n = p * n - q * n
                           /\ p * n \in Int
  OBVIOUS

LEMMA DistributeFour ==
    ASSUME NEW p \in Int, NEW q \in Int, NEW r \in Int, NEW s \in Int, NEW n \in Int
    PROVE  (p + q + r - s) * n = p * n + q * n + r * n - s * n
  <1>1. (p + q + r - s) * n = (p + q + r) * n - s * n BY Distribute
  <1>2. (p + q + r) * n = (p + q) * n + r * n BY Distribute
  <1>3. (p + q) * n = p * n + q * n BY Distribute
  <1> QED BY <1>1, <1>2, <1>3

\* Two amounts of cents less than two cents apart are one cent apart at most.
LEMMA CentApart == ASSUME NEW m \in Int, NEW r \in Int,
                          m * Unit - r * Unit < 2 * Unit, r * Unit - m * Unit < 2 * Unit
                   PROVE  m - r <= 1 /\ r - m <= 1
  <1>1. Unit \in Int /\ m - r \in Int /\ r - m \in Int BY HalfUnit
  <1>2. (m - r) * Unit = m * Unit - r * Unit /\ (r - m) * Unit = r * Unit - m * Unit
    BY <1>1, Distribute
  <1> QED BY <1>1, <1>2, UnderTwo

LEMMA NetFloor == ASSUME NEW g, NEW d, NEW l
                  PROVE  Net(g, d, l) = Bigger(Money(g - (d + l) * Unit), 0)
  BY DEF Net

LEMMA UnderThree == ASSUME NEW k \in Int, k * Unit < 3 * Unit PROVE k <= 2
  <1> SUFFICES ASSUME k >= 3 PROVE FALSE OBVIOUS
  <1>1. k * Unit >= 3 * Unit BY HalfUnit
  <1> QED BY <1>1, HalfUnit

\* Four amounts rounded apart come to their sum rounded once, to within two cents.
LEMMA DetailsApart ==
    ASSUME NEW a \in Nat, NEW b \in Nat, NEW c \in Nat, NEW d \in Nat
    PROVE  (Money(a) + Money(b) + Money(c) + Money(d)) - Money(a + b + c + d) \in -2 .. 2
  <1>1. PICK h \in Nat : h = Unit \div 2 /\ Unit = 2 * h /\ Unit \in Nat \ {0} BY HalfUnit
  <1>2. PICK s \in Nat : s = a + b + c + d OBVIOUS
  <1>3. /\ Money(a) \in Nat /\ Money(a) * Unit <= a + h /\ a + h < Money(a) * Unit + Unit
        /\ Money(b) \in Nat /\ Money(b) * Unit <= b + h /\ b + h < Money(b) * Unit + Unit
    BY <1>1, MoneyBounds
  <1>4. /\ Money(c) \in Nat /\ Money(c) * Unit <= c + h /\ c + h < Money(c) * Unit + Unit
        /\ Money(d) \in Nat /\ Money(d) * Unit <= d + h /\ d + h < Money(d) * Unit + Unit
    BY <1>1, MoneyBounds
  <1>5. Money(s) \in Nat /\ Money(s) * Unit <= s + h /\ s + h < Money(s) * Unit + Unit
    BY <1>1, <1>2, MoneyBounds
  <1>6. PICK k \in Int : k = (Money(a) + Money(b) + Money(c) + Money(d)) - Money(s)
    BY <1>3, <1>4, <1>5
  <1>7. k * Unit = Money(a) * Unit + Money(b) * Unit + Money(c) * Unit
                     + Money(d) * Unit - Money(s) * Unit
    <2>1. PICK m \in Int : m = Money(c) + Money(d) BY <1>4
    <2>2. k = Money(a) + Money(b) + m - Money(s) BY <1>3, <1>4, <1>5, <1>6, <2>1
    <2>3. k * Unit = Money(a) * Unit + Money(b) * Unit + m * Unit - Money(s) * Unit
      BY <1>1, <1>3, <1>5, <2>1, <2>2, DistributeFour
    <2>4. m * Unit = Money(c) * Unit + Money(d) * Unit BY <1>1, <1>4, <2>1, Distribute
    <2>5. /\ Money(a) * Unit \in Int /\ Money(b) * Unit \in Int /\ Money(c) * Unit \in Int
          /\ Money(d) * Unit \in Int /\ Money(s) * Unit \in Int
      BY <1>1, <1>3, <1>4, <1>5
    <2> QED BY <2>3, <2>4, <2>5
  <1>8. /\ Money(a) * Unit \in Int /\ Money(b) * Unit \in Int /\ Money(c) * Unit \in Int
        /\ Money(d) * Unit \in Int /\ Money(s) * Unit \in Int
    BY <1>1, <1>3, <1>4, <1>5
  <1>9. k * Unit < 3 * Unit /\ (-k) * Unit < 3 * Unit
    <2>1. -(5 * h) <= k * Unit /\ k * Unit <= 5 * h
      BY <1>1, <1>2, <1>3, <1>4, <1>5, <1>7, <1>8
    <2>2. (-k) * Unit = -(k * Unit) BY <1>1, <1>6
    <2> QED BY <1>1, <1>6, <2>1, <2>2
  <1>10. k <= 2 /\ -k <= 2 BY <1>6, <1>9, UnderThree
  <1> QED BY <1>2, <1>6, <1>10

\* The totals of a payslip, rounded apart, and its net differ by a cent at most.
LEMMA RoundedApart ==
    ASSUME NEW b \in Nat, NEW a \in Nat, NEW o \in Nat, NEW d \in Nat, NEW l \in Nat,
           NEW rest \in Int, rest = (Money(b) + Money(a) + Money(o)) - d - l
    PROVE  IF Net(b + a + o, d, l) = 0 THEN rest <= 1 ELSE Net(b + a + o, d, l) - rest \in -1 .. 1
  <1>1. PICK h \in Nat : h = Unit \div 2 /\ Unit = 2 * h BY HalfUnit
  <1>2. Unit \in Nat \ {0} BY HalfUnit
  <1>3. PICK x \in Int : x = (b + a + o) - (d + l) * Unit BY <1>2
  <1>4. Money(b) \in Nat /\ Money(a) \in Nat /\ Money(o) \in Nat BY MoneyBounds
  <1>5. rest * Unit <= x + 3 * h /\ x - 3 * h < rest * Unit
    <2>1. rest * Unit = Money(b) * Unit + Money(a) * Unit + Money(o) * Unit - (d + l) * Unit
      <3>1. rest = (Money(b) + Money(a) + Money(o)) - (d + l) BY <1>4
      <3> QED BY <1>2, <1>4, <3>1, DistributeFour
    <2>2. /\ Money(b) * Unit <= b + h /\ b + h < Money(b) * Unit + Unit
          /\ Money(a) * Unit <= a + h /\ a + h < Money(a) * Unit + Unit
          /\ Money(o) * Unit <= o + h /\ o + h < Money(o) * Unit + Unit
      BY <1>1, MoneyBounds
    <2>3. /\ Money(b) * Unit \in Int /\ Money(a) * Unit \in Int /\ Money(o) * Unit \in Int
          /\ (d + l) * Unit \in Int
      BY <1>2, <1>4
    <2> QED BY <1>1, <1>3, <2>1, <2>2, <2>3
  <1>6. Net(b + a + o, d, l) = Bigger(Money(x), 0) 
    <2>1. Net(b + a + o, d, l) = Bigger(Money((b + a + o) - (d + l) * Unit), 0) BY NetFloor
    <2>2. x = (b + a + o) - (d + l) * Unit BY <1>3
    <2> QED BY <2>1, <2>2, Zenon
  <1>7. rest * Unit \in Int BY <1>2
  <1>8. CASE x >= 0
    <2>1. /\ Money(x) \in Nat /\ Money(x) * Unit <= x + h /\ x + h < Money(x) * Unit + Unit
      <3>1. x \in Nat BY <1>8
      <3> QED BY <1>1, <3>1, MoneyBounds
    <2>2. Money(x) * Unit \in Int BY <1>2, <2>1
    <2>3. Money(x) * Unit - rest * Unit < 2 * Unit /\ rest * Unit - Money(x) * Unit < 2 * Unit
      BY <1>1, <1>2, <1>5, <1>7, <2>1, <2>2
    <2>4. Money(x) - rest <= 1 /\ rest - Money(x) <= 1
      BY <2>1, <2>3, CentApart
    <2>5. Bigger(Money(x), 0) = Money(x) BY <2>1 DEF Bigger
    <2> QED BY <1>6, <2>1, <2>4, <2>5
  <1>9. CASE x < 0
    <2>1. Money(x) \in Int /\ Money(x) <= 0
      <3>1. -x + h \in Nat BY <1>9
      <3>2. (-x + h) \div Unit \in Nat BY <1>2, <3>1, Division
      <3>3. Money(x) = -((-x + h) \div Unit) BY <1>1, <1>9 DEF Money
      <3> QED BY <3>2, <3>3
    <2>2. Bigger(Money(x), 0) = 0 BY <2>1 DEF Bigger
    <2>3. rest * Unit < 2 * Unit BY <1>1, <1>2, <1>5, <1>7, <1>9
    <2> QED BY <1>6, <2>2, <2>3, UnderTwo
  <1> QED BY <1>8, <1>9

\* A set of numbers below some bound has a greatest.
LEMMA MaxIs ==
    ASSUME NEW S, S \subseteq Nat, S # {}, NEW n \in Nat, \A y \in S : y <= n
    PROVE  Max(S) \in S /\ \A y \in S : y <= Max(S)
  <1> DEFINE bounds == {m \in Nat : \A y \in S : y <= m}
  <1>1. PICK m \in bounds : \A k \in bounds : ~(k < m)
    <2>1. bounds \subseteq Nat /\ bounds # {} OBVIOUS
    <2> HIDE DEF bounds
    <2> QED BY <2>1, LeastNumber
  <1>2. m \in Nat /\ \A y \in S : y <= m OBVIOUS
  <1>3. m \in S
    <2> SUFFICES ASSUME m \notin S PROVE FALSE OBVIOUS
    <2>1. \A y \in S : y \in Nat /\ y < m BY <1>2
    <2>2. \E y \in S : y \in Nat /\ y < m BY <2>1
    <2>2a. m # 0 BY <2>2
    <2>3. m - 1 \in bounds BY <1>2, <2>1, <2>2a
    <2> QED BY <1>1, <1>2, <2>3
  <1>4. m \in S /\ \A y \in S : m >= y BY <1>2, <1>3
  <1>5. Max(S) \in S /\ \A y \in S : Max(S) >= y BY <1>4 DEF Max
  <1> QED BY <1>5

LEMMA Bounded == ASSUME NEW D, IsFiniteSet(D), NEW f \in [D -> Nat]
                 PROVE  \E n \in Nat : \A x \in D : f[x] <= n
  <1> DEFINE Good(s) == \E n \in Nat : \A x \in s : f[x] <= n
             T == {s \in SUBSET D : ~Good(s)}
  <1>1. T = {}
    <2> SUFFICES ASSUME T # {} PROVE FALSE OBVIOUS
    <2>1. PICK s \in T : \A x \in s : s \ {x} \notin T
      <3>1. T \subseteq SUBSET D OBVIOUS
      <3> HIDE DEF T
      <3> QED BY <3>1, SmallestSubset
    <2>2. PICK x : x \in s /\ x \in D OBVIOUS
    <2>3. Good(s \ {x}) BY <2>1, <2>2
    <2>4. PICK n \in Nat : \A y \in s \ {x} : f[y] <= n BY <2>3
    <2>5. n + f[x] \in Nat /\ \A y \in s : f[y] <= n + f[x] BY <2>2, <2>4
    <2> QED BY <2>5
  <1> QED BY <1>1

-----------------------------------------------------------------------------
(* The parts of a payslip *)

LEMMA HalvesIsNat == ASSUME NEW x \in Nat, NEW n \in Nat PROVE Halves(x, n) \in Nat
  <1>1. x * n \in Nat OBVIOUS
  <1> QED BY <1>1 DEF Halves

LEMMA HalvesMonotone ==
    ASSUME NEW x \in Nat, NEW y \in Nat, NEW n \in Nat, x <= y PROVE Halves(x, n) <= Halves(y, n)
  <1>1. x * n \in Nat /\ y * n \in Nat /\ x * n <= y * n OBVIOUS
  <1> QED BY <1>1 DEF Halves

LEMMA PercentIsNat == ASSUME NEW x \in Nat, NEW n \in Nat PROVE Percent(x, n) \in Nat
  BY DEF Percent

LEMMA Rates == ASSUME NEW p \in Pay
               PROVE  HourRate(p) \in Nat /\ DayRate(p) \in Nat /\ HourRate(p) \div 60 \in Nat
  <1>1. p.basic * Unit \in Nat BY SlipAssumption DEF Pay
  <1>2. HourRate(p) \in Nat BY <1>1, SlipAssumption DEF HourRate, Pay
  <1> QED BY <1>2 DEF DayRate

LEMMA DayIs == ASSUME NEW p \in Pay, NEW d \in Days
               PROVE  p.days[d] \in DayRow /\ ClockOver(p, d) \in Nat /\ LateMinutes(p, d) \in Nat
  <1>1. p.days[d] \in DayRow BY DEF Pay
  <1> QED BY <1>1 DEF DayRow, ClockOver, LateMinutes

\* The last request for a day is the one that counts.
LEMMA LastGrantIs ==
    ASSUME NEW p \in Pay, NEW d
    PROVE  LET own == {i \in DOMAIN p.grants : p.grants[i].day = d}
           IN  LastGrant(p, d) = IF own = {} THEN 0 ELSE p.grants[Max(own)].hours
  <1> DEFINE D == DOMAIN p.grants
             Own(s) == {i \in s : p.grants[i].day = d}
             Folds(f) == f = [s \in SUBSET D |->
                IF s = {} THEN 0 ELSE IF p.grants[Max(s)].day = d THEN p.grants[Max(s)].hours
                                      ELSE f[s \ {Max(s)}]]
             fold == CHOOSE f : Folds(f)
             c == [s \in SUBSET D |-> IF Own(s) = {} THEN 0 ELSE p.grants[Max(Own(s))].hours]
  <1>1. PICK n \in Nat : D = 1 .. n BY DEF Pay
  <1>2. LastGrant(p, d) = fold[D] BY DEF LastGrant, FoldLeft, MapThenFoldSet
  <1>3. ASSUME NEW s \in SUBSET D, s # {} PROVE Max(s) \in s /\ \A y \in s : y <= Max(s)
    <2>1. s \subseteq Nat /\ \A y \in s : y <= n BY <1>1
    <2> QED BY <1>3, <2>1, MaxIs
  <1>4. Folds(c)
    <2>1. ASSUME NEW s \in SUBSET D
          PROVE  c[s] = IF s = {} THEN 0 ELSE IF p.grants[Max(s)].day = d THEN p.grants[Max(s)].hours
                                              ELSE c[s \ {Max(s)}]
      <3> DEFINE m == Max(s)
      <3>1. CASE s = {} BY <3>1
      <3>2. CASE s # {} /\ p.grants[m].day = d
        <4>1. m \in s /\ \A y \in s : y <= m BY <1>3, <3>2
        <4>2. m \in Own(s) BY <3>2, <4>1
        <4>3. Max(Own(s)) \in Own(s) /\ m <= Max(Own(s))
          <5>1. Own(s) \in SUBSET D /\ Own(s) # {} BY <4>2
          <5> HIDE DEF Own, m
          <5> QED BY <1>3, <4>2, <5>1
        <4>4. Max(Own(s)) <= m /\ Max(Own(s)) \in Nat /\ m \in Nat BY <1>1, <4>1, <4>3
        <4>5. Max(Own(s)) = m BY <4>3, <4>4
        <4> QED BY <3>2, <4>2, <4>5
      <3>3. CASE s # {} /\ p.grants[m].day # d
        <4>1. Own(s \ {m}) = Own(s) BY <3>3
        <4>2. s \ {m} \in SUBSET D OBVIOUS
        <4> QED BY <3>3, <4>1, <4>2
      <3> QED BY <3>1, <3>2, <3>3
    <2> HIDE DEF c
    <2>2. c = [s \in SUBSET D |-> c[s]] BY DEF c
    <2> QED BY <2>1, <2>2
  <1>5. Folds(fold)
    <2> HIDE DEF Folds
    <2> QED BY <1>4
  <1> HIDE DEF fold
  <1>6. \A s \in SUBSET D : fold[s] = c[s]
    <2> DEFINE T == {s \in SUBSET D : fold[s] # c[s]}
    <2> SUFFICES ASSUME T # {} PROVE FALSE OBVIOUS
    <2>1. PICK s \in T : \A x \in s : s \ {x} \notin T
      <3>1. T \subseteq SUBSET D OBVIOUS
      <3>2. IsFiniteSet(D) BY <1>1, FS_Interval
      <3> HIDE DEF T, D
      <3> QED BY <3>1, <3>2, SmallestSubset
    <2>2. s \in SUBSET D /\ fold[s] # c[s] OBVIOUS
    <2> HIDE DEF c
    <2>3. s # {} BY <1>4, <1>5, <2>2
    <2>4. Max(s) \in s BY <1>3, <2>2, <2>3
    <2>5. fold[s \ {Max(s)}] = c[s \ {Max(s)}] BY <2>1, <2>2, <2>4
    <2> QED BY <1>4, <1>5, <2>2, <2>3, <2>5
  <1>7. fold[D] = c[D] BY <1>6
  <1> QED BY <1>2, <1>7

LEMMA GrantIs == ASSUME NEW p \in Pay, NEW i \in DOMAIN p.grants 
                PROVE  p.grants[i] \in Grant /\ p.grants[i].hours \in Nat
  <1>1. p.grants \in Seq(Grant) BY DEF Pay
  <1>2. p.grants[i] \in Grant BY <1>1
  <1> QED BY <1>2 DEF Grant

\* What is paid of a day lies between the clock and the most of all there is, and is
\* the most when no two requests are for one day.
LEMMA PaidHoursAre ==
    ASSUME NEW p \in Pay, NEW d \in Days
    PROVE  LET own == {i \in DOMAIN p.grants : p.grants[i].day = d}
               most == Max({p.grants[i].hours : i \in own} \cup {ClockOver(p, d)})
           IN  /\ PaidHours(p, d) \in Nat /\ most \in Nat
               /\ ClockOver(p, d) <= PaidHours(p, d) /\ PaidHours(p, d) <= most
               /\ IsInjective([i \in DOMAIN p.grants |-> p.grants[i].day]) => PaidHours(p, d) = most
  <1> DEFINE own == {i \in DOMAIN p.grants : p.grants[i].day = d}
             hours == {p.grants[i].hours : i \in own} \cup {ClockOver(p, d)}
  <1>1. PICK n \in Nat : DOMAIN p.grants = 1 .. n BY DEF Pay
  <1>2. ClockOver(p, d) \in Nat BY DayIs
  <1>3. hours \subseteq Nat /\ hours # {} BY <1>2, GrantIs
  <1>4. Max(hours) \in hours /\ \A y \in hours : y <= Max(hours)
    <2>1. IsFiniteSet(DOMAIN p.grants) BY <1>1, FS_Interval
    <2> DEFINE D == DOMAIN p.grants
               f == [i \in D |-> p.grants[i].hours]
    <2>2. f \in [D -> Nat] BY GrantIs
    <2>2a. \E k \in Nat : \A i \in D : f[i] <= k
      <3> HIDE DEF f, D
      <3> QED BY <2>1, <2>2, Bounded DEF D
    <2>3. PICK k \in Nat : \A i \in DOMAIN p.grants : p.grants[i].hours <= k
      BY <2>2a
    <2>4. k + ClockOver(p, d) \in Nat /\ \A y \in hours : y <= k + ClockOver(p, d)
      BY <1>2, <2>3, GrantIs
    <2> HIDE DEF hours
    <2> QED BY <1>3, <2>4, MaxIs
  <1>5. ASSUME own # {} PROVE Max(own) \in own
    <2>1. own \subseteq Nat /\ \A y \in own : y <= n BY <1>1
    <2> HIDE DEF own
    <2> QED BY <1>5, <2>1, MaxIs
  <1>6. LastGrant(p, d) = IF own = {} THEN 0 ELSE p.grants[Max(own)].hours BY LastGrantIs
  <1>7. LastGrant(p, d) \in Nat /\ (LastGrant(p, d) \in hours \/ (own = {} /\ LastGrant(p, d) = 0))
    <2>1. CASE own = {} BY <1>6, <2>1
    <2>2. CASE own # {}
      <3>1. Max(own) \in own /\ Max(own) \in DOMAIN p.grants BY <1>5, <2>2
      <3>2. p.grants[Max(own)].hours \in hours BY <3>1
      <3> QED BY <1>3, <1>6, <2>2, <3>2
    <2> QED BY <2>1, <2>2
  <1>8. PaidHours(p, d) = IF ClockOver(p, d) >= LastGrant(p, d) THEN ClockOver(p, d) ELSE LastGrant(p, d)
    BY DEF PaidHours, Bigger
  <1>9. ClockOver(p, d) \in hours OBVIOUS
  <1>9a. Max(hours) \in Nat /\ ClockOver(p, d) <= Max(hours) /\ LastGrant(p, d) <= Max(hours)
    <2> HIDE DEF hours, own
    <2>1. Max(hours) \in Nat BY <1>3, <1>4
    <2> QED BY <1>4, <1>7, <1>9, <2>1
  <1>10. ASSUME IsInjective([i \in DOMAIN p.grants |-> p.grants[i].day])
         PROVE  PaidHours(p, d) = Max(hours)
    <2>1. \A y \in hours : y = ClockOver(p, d) \/ y = LastGrant(p, d)
      <3>1. CASE own = {} BY <3>1
      <3>2. CASE own # {}
        <4>1. \A i, j \in own : i = j BY <1>10 DEF IsInjective
        <4>2. Max(own) \in own BY <1>5, <3>2
        <4>3. \A i \in own : p.grants[i].hours = LastGrant(p, d)
          <5> HIDE DEF own
          <5> QED BY <1>6, <3>2, <4>1, <4>2
        <4> QED BY <4>3
      <3> QED BY <3>1, <3>2
    <2> HIDE DEF hours, own
    <2>2. Max(hours) = ClockOver(p, d) \/ Max(hours) = LastGrant(p, d) BY <1>4, <2>1
    <2> QED BY <1>2, <1>7, <1>8, <1>9a, <2>2
  <1>11. /\ PaidHours(p, d) \in Nat /\ Max(hours) \in Nat
         /\ ClockOver(p, d) <= PaidHours(p, d) /\ PaidHours(p, d) <= Max(hours)
    <2> HIDE DEF hours, own
    <2> QED BY <1>2, <1>7, <1>8, <1>9a
  <1> QED BY <1>10, <1>11

\* Nothing a payslip adds up is negative.
WholeTotals(p) ==
    {Earned(p), Parts(p, "ALLOWANCE"), Overtime(p), Parts(p, "DEDUCTION"), Absence(p),
     Delay(p), Gosi(p), p.loans} \subseteq Nat

LEMMA EarnedIsNat == ASSUME NEW p \in Pay PROVE Earned(p) \in Nat
  <1> DEFINE w == [d \in Days |-> DayEarns(p, p.days[d])]
  <1>1. HourRate(p) \in Nat /\ DayRate(p) \in Nat BY Rates
  <1>2. ASSUME NEW d \in Days PROVE DayEarns(p, p.days[d]) \in Nat
    <2>1. p.days[d].worked \in Nat /\ p.days[d].over \in Nat BY DayIs DEF DayRow
    <2>2. Bigger(p.days[d].worked - p.days[d].over, 0) \in Nat BY <2>1 DEF Bigger
    <2>3. Bigger(p.days[d].worked - p.days[d].over, 0) * HourRate(p) \in Nat BY <1>1, <2>2
    <2>4. Bigger(Halves(DayRate(p), 2 - p.excused), 0) \in Nat
      <3>1. 2 - p.excused \in Int BY DEF Pay
      <3>2. DayRate(p) * (2 - p.excused) \in Int BY <1>1, <3>1
      <3>3. Halves(DayRate(p), 2 - p.excused) \in Int BY <3>2 DEF Halves
      <3> QED BY <3>3 DEF Bigger
    <2> QED BY <1>1, <2>3, <2>4 DEF DayEarns
  <1>3. w \in [Days -> Nat] BY <1>2
  <1>4. SumFunction(w) \in Nat
    <2> HIDE DEF w
    <2> QED BY <1>3, SumIsNat, SlipAssumption
  <1>5. p.basic * Unit \in Nat BY SlipAssumption DEF Pay
  <1> QED BY <1>4, <1>5 DEF Earned

LEMMA PartsAreNat == ASSUME NEW p \in Pay, NEW type PROVE Parts(p, type) \in Nat
  <1> DEFINE D == DOMAIN p.parts
             w == [i \in D |-> IF p.parts[i].type = type THEN PartPays(p, p.parts[i]) ELSE 0]
  <1>1. p.parts \in Seq(Part) BY DEF Pay
  <1>2. ASSUME NEW i \in D PROVE PartPays(p, p.parts[i]) \in Nat
    <2>1. p.parts[i] \in Part BY <1>1
    <2>2. p.parts[i].amount \in Nat BY <2>1 DEF Part
    <2>3. p.parts[i].amount * Unit \in Nat BY <2>2, SlipAssumption
    <2>4. Percent(Earned(p), p.parts[i].amount) \in Nat BY <2>2, EarnedIsNat, PercentIsNat
    <2> QED BY <2>3, <2>4 DEF PartPays
  <1>3. w \in [D -> Nat] BY <1>2
  <1>4. PICK n \in Nat : D = 1 .. n BY <1>1
  <1>5. IsFiniteSet(D) BY <1>4, FS_Interval
  <1>6. Parts(p, type) = SumFunction(w) BY DEF Parts
  <1> HIDE DEF D, w
  <1> QED BY <1>3, <1>5, <1>6, SumIsNat

LEMMA AbsenceIsNat == ASSUME NEW p \in Pay PROVE Absence(p) \in Nat
  <1> DEFINE w == [d \in Days |->
                     CASE p.days[d].status = "ABSENT" -> Halves(DayRate(p), p.unexcused)
                       [] p.days[d].status = "LEAVE" -> Halves(DayRate(p), p.excused)
                       [] OTHER -> 0]
  <1>1. DayRate(p) \in Nat /\ p.unexcused \in Nat /\ p.excused \in Nat BY Rates DEF Pay
  <1>2. Halves(DayRate(p), p.unexcused) \in Nat /\ Halves(DayRate(p), p.excused) \in Nat
    BY <1>1, HalvesIsNat
  <1>3. w \in [Days -> Nat] BY <1>2
  <1>4. Absence(p) = IF p.basis # "MONTHLY" THEN 0 ELSE SumFunction(w) BY DEF Absence
  <1> HIDE DEF w
  <1> QED BY <1>3, <1>4, SumIsNat, SlipAssumption

LEMMA DelayIsNat == ASSUME NEW p \in Pay PROVE Delay(p) \in Nat
  <1> DEFINE w == [d \in Days |-> LateMinutes(p, d)]
             late == {d \in Days : LateMinutes(p, d) > 0}
  <1>1. w \in [Days -> Nat] BY DayIs
  <1>2. SumFunction(w) \in Nat
    <2> HIDE DEF w
    <2> QED BY <1>1, SumIsNat, SlipAssumption
  <1>3. Cardinality(late) \in Nat BY FS_Subset, FS_CardinalityType, SlipAssumption
  <1>4. HourRate(p) \in Nat /\ HourRate(p) \div 60 \in Nat BY Rates
  <1>5. Delay(p) = IF p.late = "PER_MINUTE" THEN SumFunction(w) * (HourRate(p) \div 60)
                   ELSE Cardinality(late) * HourRate(p)
    BY DEF Delay
  <1> HIDE DEF w, late
  <1>6. SumFunction(w) * (HourRate(p) \div 60) \in Nat BY <1>2, <1>4
  <1>7. Cardinality(late) * HourRate(p) \in Nat BY <1>3, <1>4
  <1> QED BY <1>5, <1>6, <1>7

LEMMA GosiIsNat == ASSUME NEW p \in Pay PROVE Gosi(p) \in Nat
  <1>1. Earned(p) + Parts(p, "ALLOWANCE") \in Nat BY EarnedIsNat, PartsAreNat
  <1>2. p.gosiPercent \in Nat BY DEF Pay
  <1> QED BY <1>1, <1>2, PercentIsNat DEF Gosi

\* The overtime of the days of which hours are paid.
OvertimePay(p, hours) ==
    SumFunction([d \in Days |-> Halves(hours[d] * HourRate(p),
                                       IF d \in Weekend THEN p.holiday ELSE p.normal)])

LEMMA OvertimeMonotone ==
    ASSUME NEW p \in Pay, NEW h \in [Days -> Nat], NEW k \in [Days -> Nat], \A d \in Days : h[d] <= k[d]
    PROVE  OvertimePay(p, h) \in Nat /\ OvertimePay(p, k) \in Nat /\ OvertimePay(p, h) <= OvertimePay(p, k)
  <1> DEFINE rate(d) == IF d \in Weekend THEN p.holiday ELSE p.normal
             v == [d \in Days |-> Halves(h[d] * HourRate(p), rate(d))]
             w == [d \in Days |-> Halves(k[d] * HourRate(p), rate(d))]
  <1>1. HourRate(p) \in Nat BY Rates
  <1>2. ASSUME NEW d \in Days
        PROVE  v[d] \in Nat /\ w[d] \in Nat /\ v[d] <= w[d]
    <2>1. rate(d) \in Nat BY DEF Pay
    <2>2. h[d] \in Nat /\ k[d] \in Nat /\ h[d] <= k[d] OBVIOUS
    <2>3. h[d] * HourRate(p) \in Nat /\ k[d] * HourRate(p) \in Nat /\ h[d] * HourRate(p) <= k[d] * HourRate(p)
      BY <1>1, <2>2
    <2> HIDE DEF rate
    <2> QED BY <2>1, <2>3, HalvesIsNat, HalvesMonotone
  <1>3. v \in [Days -> Nat] /\ w \in [Days -> Nat] BY <1>2
  <1>4. OvertimePay(p, h) = SumFunction(v) /\ OvertimePay(p, k) = SumFunction(w) BY DEF OvertimePay
  <1>5. \A d \in Days : v[d] <= w[d] BY <1>2
  <1>6. IsFiniteSet(Days) BY SlipAssumption
  <1> HIDE DEF v, w
  <1>7. SumFunction(v) \in Nat /\ SumFunction(w) \in Nat /\ SumFunction(v) <= SumFunction(w)
    BY <1>3, <1>5, <1>6, SumMonotone
  <1> QED BY <1>4, <1>7

LEMMA OvertimeIs ==
    ASSUME NEW p \in Pay
    PROVE  /\ Overtime(p) = OvertimePay(p, [d \in Days |-> PaidHours(p, d)])
           /\ [d \in Days |-> PaidHours(p, d)] \in [Days -> Nat]
           /\ Overtime(p) \in Nat
  <1> DEFINE h == [d \in Days |-> PaidHours(p, d)]
  <1>1. h \in [Days -> Nat] BY PaidHoursAre
  <1>2. Overtime(p) = OvertimePay(p, h) BY DEF Overtime, OvertimePay
  <1>3. OvertimePay(p, h) \in Nat
    <2> HIDE DEF h
    <2>1. \A d \in Days : h[d] <= h[d] BY <1>1
    <2> QED BY <1>1, <2>1, OvertimeMonotone
  <1> QED BY <1>1, <1>2, <1>3

LEMMA TotalsAreWhole == ASSUME NEW p \in Pay PROVE WholeTotals(p)
  <1>1. p.loans \in Nat BY DEF Pay
  <1> QED BY <1>1, EarnedIsNat, PartsAreNat, AbsenceIsNat, DelayIsNat, GosiIsNat, OvertimeIs DEF WholeTotals

\* Rounding keeps the order.
LEMMA MoneyMonotone == ASSUME NEW x \in Nat, NEW y \in Nat, x <= y PROVE Money(x) <= Money(y)
  <1>1. PICK h \in Nat : h = Unit \div 2 BY HalfUnit
  <1>2. Unit \in Nat \ {0} BY HalfUnit
  <1>3. /\ Money(x) \in Nat /\ Money(x) * Unit <= x + h
        /\ Money(y) \in Nat /\ y + h < Money(y) * Unit + Unit
    BY <1>1, MoneyBounds
  <1>4. SUFFICES ASSUME Money(x) >= Money(y) + 1 PROVE FALSE BY <1>3
  <1>5. Money(x) * Unit >= (Money(y) + 1) * Unit BY <1>2, <1>3, <1>4
  <1>6. (Money(y) + 1) * Unit = Money(y) * Unit + Unit BY <1>2, <1>3
  <1>7. Money(x) * Unit \in Int /\ Money(y) * Unit \in Int BY <1>2, <1>3
  <1> QED BY <1>1, <1>2, <1>3, <1>5, <1>6, <1>7

LEMMA SlipIsPayslip == ASSUME NEW p \in Pay PROVE SlipOf(p) \in Payslip
  <1> DEFINE b == Earned(p)
             a == Parts(p, "ALLOWANCE")
             o == Overtime(p)
             c == Parts(p, "DEDUCTION")
             n == Absence(p)
             t == Delay(p)
             g == Gosi(p)
             d == Money(c + n + t + g)
             l == p.loans
             net == Net(b + a + o, d, l)
  <1>1. /\ b \in Nat /\ a \in Nat /\ o \in Nat /\ l \in Nat
        /\ c \in Nat /\ n \in Nat /\ t \in Nat /\ g \in Nat
    BY TotalsAreWhole DEF WholeTotals
  <1>2. SlipOf(p) = [basic |-> Money(b), allowances |-> Money(a), overtime |-> Money(o), deductions |-> d,
                     loans |-> l, net |-> net,
                     shown |-> [parts |-> Money(c), absence |-> Money(n), delay |-> Money(t), gosi |-> Money(g)]]
    BY DEF SlipOf, Deductions
  <1> HIDE DEF b, a, o, c, n, t, g, l, net
  <1>3. /\ Money(b) \in Nat /\ Money(a) \in Nat /\ Money(o) \in Nat
        /\ Money(c) \in Nat /\ Money(n) \in Nat /\ Money(t) \in Nat /\ Money(g) \in Nat
    BY <1>1, MoneyBounds
  <1>4. d \in Nat
    <2>1. c + n + t + g \in Nat BY <1>1
    <2> QED BY <2>1, MoneyBounds
  <1> HIDE DEF d
  <1>5. net \in Nat
    <2> DEFINE x == (b + a + o) - (d + l) * Unit
    <2>1. x \in Int BY <1>1, <1>4, HalfUnit
    <2>2. Money(x) \in Int
      <3> HIDE DEF x
      <3>1. CASE x >= 0 BY <2>1, <3>1, MoneyBounds
      <3>2. CASE x < 0
        <4>1. -x + Unit \div 2 \in Nat BY <2>1, <3>2, HalfUnit
        <4>2. (-x + Unit \div 2) \div Unit \in Nat BY <4>1, HalfUnit, Division
        <4> QED BY <2>1, <3>2, <4>2 DEF Money
      <3> QED BY <2>1, <3>1, <3>2
    <2>3. net = Bigger(Money(x), 0) BY NetFloor DEF net
    <2> HIDE DEF x
    <2> QED BY <2>2, <2>3 DEF Bigger
  <1> QED BY <1>1, <1>2, <1>3, <1>4, <1>5 DEF Payslip

\* What the calculation reads, and what it has written, if anything.
SlipInv == pay \in Pay /\ (slip = NoSlip \/ slip = SlipOf(pay))

LEMMA SlipInvAlways == SlipSpec => []SlipInv
  <1>1. SlipInit => SlipInv
    <2> SUFFICES ASSUME SlipInit PROVE pay \in Pay BY DEF SlipInit, SlipInv
    <2>1. PICK c \in Contracts, days \in [Days -> DayRows], g \in GrantLists, l \in PartLists,
               n \in LoanSums, y \in Policies :
            pay = [basis |-> c.basis, basic |-> c.basic, gosi |-> c.gosi, days |-> days, grants |-> g,
                   parts |-> l, loans |-> n, late |-> y.late, unexcused |-> y.unexcused,
                   excused |-> y.excused, normal |-> y.normal, holiday |-> y.holiday,
                   gosiPercent |-> y.gosiPercent]
      BY DEF SlipInit
    <2>2. c \in Contract /\ y \in Policy /\ n \in Nat /\ g \in Seq(Grant) /\ l \in Seq(Part)
          /\ days \in [Days -> DayRow]
      BY SlipAssumption
    <2> QED BY <2>1, <2>2 DEF Pay, Contract, Policy
  <1>2. SlipInv /\ [Calculate]_slipVars => SlipInv' BY DEF SlipInv, Calculate, slipVars
  <1> QED BY <1>1, <1>2, PTL DEF SlipSpec

\* For every contract, attendance, list of requests and components, and policy that is
\* not negative: no amount of a payslip is.
THEOREM SlipsTyped == SlipSpec => []SlipTypeOK
  <1>1. SlipInv => SlipTypeOK BY SlipIsPayslip DEF SlipInv, SlipTypeOK
  <1> QED BY <1>1, SlipInvAlways, PTL

\* For every contract, attendance, list of requests and components, and policy: the net
\* of a payslip adds up to within a cent, its details to within two.
THEOREM SlipsAddUp == SlipSpec => []SlipAddsUp
  <1>1. SlipInv => SlipAddsUp
    <2> SUFFICES ASSUME slip = SlipOf(pay), WholeTotals(pay) PROVE SlipAddsUp
      BY TotalsAreWhole DEF SlipInv, SlipAddsUp
    <2> DEFINE b == Earned(pay)
               a == Parts(pay, "ALLOWANCE")
               o == Overtime(pay)
               c == Parts(pay, "DEDUCTION")
               n == Absence(pay)
               t == Delay(pay)
               g == Gosi(pay)
               d == Money(c + n + t + g)
               l == pay.loans
    <2>1. /\ b \in Nat /\ a \in Nat /\ o \in Nat /\ l \in Nat
          /\ c \in Nat /\ n \in Nat /\ t \in Nat /\ g \in Nat
      BY DEF WholeTotals
    <2>2. /\ slip.basic = Money(b) /\ slip.allowances = Money(a) /\ slip.overtime = Money(o)
          /\ slip.deductions = d /\ slip.loans = l /\ slip.net = Net(b + a + o, d, l)
          /\ slip.shown.parts = Money(c) /\ slip.shown.absence = Money(n)
          /\ slip.shown.delay = Money(t) /\ slip.shown.gosi = Money(g)
      BY DEF SlipOf, Deductions
    <2> HIDE DEF b, a, o, c, n, t, g, l
    <2>3. Money(b) \in Nat /\ Money(a) \in Nat /\ Money(o) \in Nat /\ d \in Nat
      <3>1. c + n + t + g \in Nat BY <2>1
      <3> QED BY <2>1, <3>1, MoneyBounds
    <2>4. Details - slip.deductions \in -2 .. 2
      <3>1. (Money(c) + Money(n) + Money(t) + Money(g)) - d \in -2 .. 2 BY <2>1, DetailsApart
      <3>2. Details = Money(c) + Money(n) + Money(t) + Money(g) BY <2>2, Zenon DEF Details
      <3> QED BY <2>2, <3>1, <3>2, Zenon
    <2> HIDE DEF d
    <2>5. PICK rest \in Int : rest = (Money(b) + Money(a) + Money(o)) - d - l BY <2>1, <2>3
    <2>6. IF slip.net = 0 THEN rest <= 1 ELSE slip.net - rest \in -1 .. 1
      <3>1. IF Net(b + a + o, d, l) = 0 THEN rest <= 1 ELSE Net(b + a + o, d, l) - rest \in -1 .. 1
        BY <2>1, <2>3, <2>5, RoundedApart
      <3>2. slip.net = Net(b + a + o, d, l) BY <2>2
      <3> QED BY <3>1, <3>2, Zenon
    <2>7. Gross = Money(b) + Money(a) + Money(o) BY <2>2 DEF Gross
    <2>8. Gross - slip.deductions - slip.loans = rest
      <3>1. slip.deductions = d /\ slip.loans = l BY <2>2
      <3> QED BY <2>5, <2>7, <3>1, Zenon
    <2> QED BY <2>4, <2>6, <2>8 DEF SlipAddsUp
  <1> QED BY <1>1, SlipInvAlways, PTL

\* For every list of requests and every clock: the overtime of a day is paid once
\* (resolvePaidOvertime).
THEOREM SlipsPayOvertimeOnce == SlipSpec => []OvertimeOnce
  <1> DEFINE Own(d) == {i \in DOMAIN pay.grants : pay.grants[i].day = d}
             Hours(d) == {pay.grants[i].hours : i \in Own(d)}
             low == [d \in Days |-> ClockOver(pay, d)]
             paid == [d \in Days |-> PaidHours(pay, d)]
             high == [d \in Days |-> Max(Hours(d) \cup {ClockOver(pay, d)})]
             Once == IsInjective([i \in DOMAIN pay.grants |-> pay.grants[i].day])
  <1>1. ASSUME slip = SlipOf(pay), pay \in Pay PROVE OvertimeOnce
    <2>1. /\ low \in [Days -> Nat] /\ paid \in [Days -> Nat] /\ high \in [Days -> Nat]
          /\ \A d \in Days : low[d] <= paid[d] /\ paid[d] <= high[d]
      BY <1>1, PaidHoursAre, DayIs
    <2>2. Once => paid = high BY <1>1, PaidHoursAre
    <2>3. slip.overtime = Money(OvertimePay(pay, paid)) BY <1>1, OvertimeIs DEF SlipOf
    <2>4. OvertimeOnce = (slip # NoSlip =>
             /\ slip.overtime \in Money(OvertimePay(pay, low)) .. Money(OvertimePay(pay, high))
             /\ Once => slip.overtime = Money(OvertimePay(pay, high)))
      BY DEF OvertimeOnce, OvertimePay
    <2> HIDE DEF low, paid, high, Once
    <2>5. /\ OvertimePay(pay, low) \in Nat /\ OvertimePay(pay, paid) \in Nat /\ OvertimePay(pay, high) \in Nat
          /\ OvertimePay(pay, low) <= OvertimePay(pay, paid)
          /\ OvertimePay(pay, paid) <= OvertimePay(pay, high)
      BY <1>1, <2>1, OvertimeMonotone
    <2>6. /\ Money(OvertimePay(pay, low)) <= Money(OvertimePay(pay, paid))
          /\ Money(OvertimePay(pay, paid)) <= Money(OvertimePay(pay, high))
      BY <2>5, MoneyMonotone
    <2>7. /\ Money(OvertimePay(pay, low)) \in Nat /\ Money(OvertimePay(pay, paid)) \in Nat
          /\ Money(OvertimePay(pay, high)) \in Nat
      BY <2>5, MoneyBounds
    <2>8. slip.overtime \in Money(OvertimePay(pay, low)) .. Money(OvertimePay(pay, high))
      BY <2>3, <2>6, <2>7
    <2>9. Once => slip.overtime = Money(OvertimePay(pay, high)) BY <2>2, <2>3
    <2> QED BY <2>4, <2>8, <2>9, Zenon
  <1>2. SlipInv => OvertimeOnce BY <1>1 DEF SlipInv, OvertimeOnce
  <1> QED BY <1>2, SlipInvAlways, PTL

-----------------------------------------------------------------------------
(* What an absence costs *)

\* A sum in which one amount is replaced.
LEMMA SumChange ==
    ASSUME NEW D, IsFiniteSet(D), NEW v \in [D -> Nat], NEW w \in [D -> Nat], NEW d \in D,
           \A x \in D \ {d} : w[x] = v[x]
    PROVE  SumFunction(w) + v[d] = SumFunction(v) + w[d]
  <1>1. PICK a : Adds(a, v, D) /\ SumFunction(v) = a[D] BY SumIs
  <1>2. PICK b : Adds(b, w, D) /\ SumFunction(w) = b[D] BY SumIs
  <1> DEFINE Good(s) == /\ a[s] \in Nat /\ b[s] \in Nat
                        /\ IF d \in s THEN b[s] + v[d] = a[s] + w[d] ELSE b[s] = a[s]
             T == {s \in SUBSET D : ~Good(s)}
  <1>3. T = {}
    <2> SUFFICES ASSUME T # {} PROVE FALSE OBVIOUS
    <2>1. PICK s \in T : \A x \in s : s \ {x} \notin T
      <3>1. T \subseteq SUBSET D OBVIOUS
      <3> HIDE DEF T
      <3> QED BY <3>1, SmallestSubset
    <2>2. s \in SUBSET D /\ ~Good(s) OBVIOUS
    <2>3. s # {} BY <1>1, <1>2, <2>2 DEF Adds
    <2> DEFINE x == First(s)
               r == s \ {x}
    <2>4. x \in s /\ x \in D BY <2>2, <2>3 DEF First
    <2>5. Good(r) BY <2>1, <2>2, <2>4
    <2>6. a[s] = v[x] + a[r] /\ b[s] = w[x] + b[r] BY <1>1, <1>2, <2>2, <2>3 DEF Adds
    <2>7. v[x] \in Nat /\ w[x] \in Nat /\ v[d] \in Nat /\ w[d] \in Nat BY <2>4
    <2>8. x # d => w[x] = v[x] /\ (d \in r <=> d \in s) BY <2>4
    <2>9. x = d => d \in s /\ d \notin r BY <2>4
    <2> HIDE DEF x, r
    <2> QED BY <2>2, <2>5, <2>6, <2>7, <2>8, <2>9
  <1>4. Good(D)
    <2> HIDE DEF Good
    <2> QED BY <1>3
  <1> QED BY <1>1, <1>2, <1>4

LEMMA MoneyOfAny == ASSUME NEW x \in Int
                    PROVE  Money(x) \in Int /\ (x >= 0 => Money(x) >= 0) /\ (x < 0 => Money(x) <= 0)
  <1>1. CASE x >= 0
    <2>1. x \in Nat BY <1>1
    <2>2. Money(x) \in Nat BY <2>1, MoneyBounds
    <2> QED BY <1>1, <2>2
  <1>2. CASE x < 0
    <2>1. -x + Unit \div 2 \in Nat BY <1>2, HalfUnit
    <2>2. (-x + Unit \div 2) \div Unit \in Nat BY <2>1, HalfUnit, Division
    <2>3. Money(x) = -((-x + Unit \div 2) \div Unit) BY <1>2 DEF Money
    <2> QED BY <1>2, <2>2, <2>3
  <1> QED BY <1>1, <1>2

\* The net grows with the gain and falls with the deductions.
LEMMA NetMonotone ==
    ASSUME NEW g \in Nat, NEW h \in Nat, g <= h, NEW c \in Nat, NEW d \in Nat, c >= d, NEW l \in Nat
    PROVE  Net(g, c, l) <= Net(h, d, l)
  <1>1. Unit \in Nat \ {0} BY HalfUnit
  <1>2. PICK x \in Int : x = g - (c + l) * Unit BY <1>1
  <1>3. PICK y \in Int : y = h - (d + l) * Unit BY <1>1
  <1>4. (c + l) * Unit \in Nat /\ (d + l) * Unit \in Nat /\ (c + l) * Unit >= (d + l) * Unit BY <1>1
  <1>5. x <= y BY <1>2, <1>3, <1>4
  <1>6. Net(g, c, l) = Bigger(Money(x), 0) /\ Net(h, d, l) = Bigger(Money(y), 0)
    <2>1. Net(g, c, l) = Bigger(Money(g - (c + l) * Unit), 0) BY NetFloor
    <2>2. Net(h, d, l) = Bigger(Money(h - (d + l) * Unit), 0) BY NetFloor
    <2> QED BY <1>2, <1>3, <2>1, <2>2, Zenon
  <1>7. Money(x) \in Int /\ Money(y) \in Int /\ (x < 0 => Money(x) <= 0) BY MoneyOfAny
  <1>8. x >= 0 => Money(x) <= Money(y)
    <2> SUFFICES ASSUME x >= 0 PROVE Money(x) <= Money(y) OBVIOUS
    <2>1. x \in Nat /\ y \in Nat BY <1>5
    <2> QED BY <1>5, <2>1, MoneyMonotone
  <1> QED BY <1>6, <1>7, <1>8 DEF Bigger

\* The same month with a day on which the employee stayed away.
Away == [status |-> "ABSENT", worked |-> 0, late |-> 0, over |-> 0]
Without(p, d) == [p EXCEPT !.days[d] = Away]

LEMMA WithoutIs ==
    ASSUME NEW p \in Pay, NEW d \in Days
    PROVE  LET q == Without(p, d) IN
           /\ q \in Pay /\ q.days[d] = Away /\ \A x \in Days \ {d} : q.days[x] = p.days[x]
           /\ q.basis = p.basis /\ q.basic = p.basic /\ q.gosi = p.gosi /\ q.grants = p.grants
           /\ q.parts = p.parts /\ q.loans = p.loans /\ q.late = p.late /\ q.unexcused = p.unexcused
           /\ q.excused = p.excused /\ q.normal = p.normal /\ q.holiday = p.holiday
           /\ q.gosiPercent = p.gosiPercent
           /\ HourRate(q) = HourRate(p) /\ DayRate(q) = DayRate(p)
  <1> DEFINE q == Without(p, d)
             days == [p.days EXCEPT ![d] = Away]
  <1>1. p.days \in [Days -> DayRow] BY DEF Pay
  <1>2. days \in [Days -> DayRow] /\ days[d] = Away /\ \A x \in Days \ {d} : days[x] = p.days[x]
    BY <1>1 DEF Away, DayRow
  <1>3. q = [p EXCEPT !.days = days] BY DEF Without
  <1> HIDE DEF q, days
  <1>4. /\ q \in Pay /\ q.days = days
        /\ q.basis = p.basis /\ q.basic = p.basic /\ q.gosi = p.gosi /\ q.grants = p.grants
        /\ q.parts = p.parts /\ q.loans = p.loans /\ q.late = p.late /\ q.unexcused = p.unexcused
        /\ q.excused = p.excused /\ q.normal = p.normal /\ q.holiday = p.holiday
        /\ q.gosiPercent = p.gosiPercent
    BY <1>2, <1>3 DEF Pay
  <1>5. HourRate(q) = HourRate(p) BY <1>4 DEF HourRate
  <1>6. DayRate(q) = DayRate(p) BY <1>5 DEF DayRate
  <1> QED BY <1>2, <1>4, <1>5, <1>6 DEF q

\* Of a month's salary: its absences and delays together are no less.
LEMMA AbsenceCosts ==
    ASSUME NEW p \in Pay, p.basis = "MONTHLY", p.unexcused >= 2, NEW d \in Days,
           p.days[d].status = "PRESENT", p.days[d].late <= 480
    PROVE  Absence(p) + Delay(p) <= Absence(Without(p, d)) + Delay(Without(p, d))
  <1> DEFINE q == Without(p, d)
             Lost(x) == [e \in Days |->
                           CASE x.days[e].status = "ABSENT" -> Halves(DayRate(x), x.unexcused)
                             [] x.days[e].status = "LEAVE" -> Halves(DayRate(x), x.excused)
                             [] OTHER -> 0]
             Minutes(x) == [e \in Days |-> LateMinutes(x, e)]
             Late(x) == {e \in Days : LateMinutes(x, e) > 0}
             hour == HourRate(p)
             day == DayRate(p)
  <1>1. /\ q \in Pay /\ q.days[d] = Away /\ \A x \in Days \ {d} : q.days[x] = p.days[x]
        /\ q.basis = p.basis /\ q.late = p.late /\ q.unexcused = p.unexcused
        /\ q.excused = p.excused /\ HourRate(q) = hour /\ DayRate(q) = day
    BY WithoutIs
  <1>2. hour \in Nat /\ day = 8 * hour /\ day \in Nat /\ hour \div 60 \in Nat
    BY Rates DEF DayRate
  <1>3. IsFiniteSet(Days) BY SlipAssumption
  <1>4. p.unexcused \in Nat /\ p.excused \in Nat /\ p.late \in {"PER_MINUTE", "FIXED_AMOUNT"} BY DEF Pay
  <1> HIDE DEF q
  <1>5. Absence(p) \in Nat /\ Absence(q) \in Nat /\ Absence(q) >= Absence(p) + day
    <2>1. Absence(p) = SumFunction(Lost(p)) /\ Absence(q) = SumFunction(Lost(q))
      BY <1>1 DEF Absence
    <2>2. Halves(day, p.unexcused) \in Nat /\ Halves(day, p.excused) \in Nat
      BY <1>2, <1>4, HalvesIsNat
    <2>3. Lost(p) \in [Days -> Nat] /\ Lost(q) \in [Days -> Nat] BY <1>1, <2>2
    <2>4. Lost(p)[d] = 0 /\ Lost(q)[d] = Halves(day, p.unexcused) BY <1>1 DEF Away
    <2>5. \A x \in Days \ {d} : Lost(q)[x] = Lost(p)[x] BY <1>1
    <2> HIDE DEF Lost
    <2>6. SumFunction(Lost(q)) + Lost(p)[d] = SumFunction(Lost(p)) + Lost(q)[d]
      BY <1>3, <2>3, <2>5, SumChange
    <2>7. Halves(day, p.unexcused) >= day
      <3>1. Halves(day, 2) <= Halves(day, p.unexcused)
        <4>1. day * 2 \in Nat /\ day * p.unexcused \in Nat /\ day * 2 <= day * p.unexcused
          BY <1>2, <1>4
        <4> QED BY <4>1 DEF Halves
      <3>2. Halves(day, 2) = day BY <1>2 DEF Halves
      <3> QED BY <3>1, <3>2
    <2> QED BY <1>2, <2>1, <2>2, <2>4, <2>6, <2>7, AbsenceIsNat, <1>1
  <1>6. Delay(p) \in Nat /\ Delay(q) \in Nat /\ Delay(p) <= Delay(q) + day
    <2>1. Delay(p) \in Nat /\ Delay(q) \in Nat BY <1>1, DelayIsNat
    <2>2. CASE p.late = "PER_MINUTE"
      <3> DEFINE minute == hour \div 60
      <3>1. Delay(p) = SumFunction(Minutes(p)) * minute /\ Delay(q) = SumFunction(Minutes(q)) * minute
        BY <1>1, <2>2 DEF Delay
      <3>2. Minutes(p) \in [Days -> Nat] /\ Minutes(q) \in [Days -> Nat] BY <1>1, DayIs
      <3>3. \A x \in Days \ {d} : Minutes(q)[x] = Minutes(p)[x] BY <1>1 DEF LateMinutes
      <3>4. Minutes(q)[d] = 0 /\ Minutes(p)[d] = p.days[d].late BY <1>1 DEF LateMinutes, Away
      <3>5. p.days[d].late \in Nat BY DayIs DEF DayRow
      <3> HIDE DEF Minutes
      <3>6. SumFunction(Minutes(q)) + p.days[d].late = SumFunction(Minutes(p))
        <4>1. SumFunction(Minutes(q)) + Minutes(p)[d] = SumFunction(Minutes(p)) + Minutes(q)[d]
          BY <1>3, <3>2, <3>3, SumChange
        <4>2. SumFunction(Minutes(p)) \in Nat BY <1>3, <3>2, SumIsNat
        <4> QED BY <3>4, <4>1, <4>2
      <3>7. SumFunction(Minutes(q)) \in Nat BY <1>3, <3>2, SumIsNat
      <3>8. minute \in Nat /\ minute * 60 <= hour BY <1>2, Division
      <3> HIDE DEF minute
      <3>9. p.days[d].late * minute <= day
        <4>1. p.days[d].late * minute <= 480 * minute BY <3>5, <3>8
        <4> QED BY <1>2, <3>5, <3>8, <4>1
      <3>10. Delay(p) = Delay(q) + p.days[d].late * minute BY <3>1, <3>5, <3>6, <3>7, <3>8, Distribute
      <3>11. p.days[d].late * minute \in Nat BY <3>5, <3>8
      <3> QED BY <1>2, <2>1, <3>9, <3>10, <3>11
    <2>3. CASE p.late # "PER_MINUTE"
      <3>1. Delay(p) = Cardinality(Late(p)) * hour /\ Delay(q) = Cardinality(Late(q)) * hour
        BY <1>1, <2>3 DEF Delay
      <3>2. Late(q) = Late(p) \ {d} BY <1>1 DEF LateMinutes, Away
      <3>3. IsFiniteSet(Late(p)) BY <1>3, FS_Subset
      <3> HIDE DEF Late
      <3>4. Cardinality(Late(p)) \in Nat /\ Cardinality(Late(q)) \in Nat
            /\ Cardinality(Late(p)) <= Cardinality(Late(q)) + 1
        <4>1. Cardinality(Late(p)) \in Nat BY <3>3, FS_CardinalityType
        <4>2. CASE d \in Late(p)
          <5>1. Cardinality(Late(p) \ {d}) = Cardinality(Late(p)) - 1 /\ IsFiniteSet(Late(p) \ {d})
            BY <3>3, <4>2, FS_RemoveElement
          <5>2. Cardinality(Late(q)) \in Nat BY <3>2, <5>1, FS_CardinalityType
          <5>3. Cardinality(Late(q)) = Cardinality(Late(p)) - 1 BY <3>2, <5>1
          <5> QED BY <4>1, <5>2, <5>3
        <4>3. CASE d \notin Late(p)
          <5>1. Late(q) = Late(p) BY <3>2, <4>3
          <5> QED BY <4>1, <5>1
        <4> QED BY <4>2, <4>3
      <3>5. Cardinality(Late(p)) * hour <= (Cardinality(Late(q)) + 1) * hour BY <1>2, <3>4
      <3>6. (Cardinality(Late(q)) + 1) * hour = Cardinality(Late(q)) * hour + hour BY <1>2, <3>4
      <3> QED BY <1>2, <2>1, <3>1, <3>5, <3>6
    <2> QED BY <2>2, <2>3
  <1> QED BY <1>2, <1>5, <1>6 DEF q

LEMMA OvertimeLost ==
    ASSUME NEW p \in Pay, NEW d \in Days
    PROVE  Overtime(Without(p, d)) <= Overtime(p)
  <1> DEFINE q == Without(p, d)
             h == [x \in Days |-> PaidHours(p, x)]
             k == [x \in Days |-> PaidHours(q, x)]
  <1>1. /\ q \in Pay /\ q.days[d] = Away /\ \A x \in Days \ {d} : q.days[x] = p.days[x]
        /\ q.grants = p.grants /\ q.normal = p.normal /\ q.holiday = p.holiday /\ HourRate(q) = HourRate(p)
    BY WithoutIs
  <1> HIDE DEF q
  <1>2. Overtime(p) = OvertimePay(p, h) /\ h \in [Days -> Nat]
        /\ Overtime(q) = OvertimePay(q, k) /\ k \in [Days -> Nat]
    BY <1>1, OvertimeIs
  <1>3. OvertimePay(q, k) = OvertimePay(p, k) BY <1>1 DEF OvertimePay
  <1>4. ASSUME NEW x \in Days PROVE k[x] <= h[x]
    <2>1. LastGrant(q, x) = LastGrant(p, x) BY <1>1 DEF LastGrant
    <2>2. ClockOver(q, x) \in Nat /\ ClockOver(p, x) \in Nat BY <1>1, DayIs
    <2>3. ClockOver(q, x) <= ClockOver(p, x) BY <1>1, <2>2 DEF ClockOver, Away
    <2>4. LastGrant(p, x) \in Nat
      <3> DEFINE own == {i \in DOMAIN p.grants : p.grants[i].day = x}
      <3>1. LastGrant(p, x) = IF own = {} THEN 0 ELSE p.grants[Max(own)].hours BY LastGrantIs
      <3>2. PICK n \in Nat : DOMAIN p.grants = 1 .. n BY DEF Pay
      <3>3. ASSUME own # {} PROVE Max(own) \in own
        <4>1. own \subseteq Nat /\ \A y \in own : y <= n BY <3>2
        <4> HIDE DEF own
        <4> QED BY <3>3, <4>1, MaxIs
      <3>4. CASE own = {} BY <3>1, <3>4
      <3>5. CASE own # {}
        <4>1. Max(own) \in DOMAIN p.grants BY <3>3, <3>5
        <4>2. LastGrant(p, x) = p.grants[Max(own)].hours BY <3>1, <3>5
        <4> HIDE DEF own
        <4>3. p.grants[Max(own)] \in Grant BY <4>1, GrantIs
        <4> QED BY <4>2, <4>3 DEF Grant
      <3> QED BY <3>4, <3>5
    <2>5. PaidHours(q, x) <= PaidHours(p, x) BY <2>1, <2>2, <2>3, <2>4 DEF PaidHours, Bigger
    <2> QED BY <2>5
  <1> HIDE DEF h, k
  <1>5. OvertimePay(p, k) <= OvertimePay(p, h) BY <1>2, <1>4, OvertimeMonotone
  <1> QED BY <1>2, <1>3, <1>5 DEF q

\* For a month's salary, if nobody is later than the eight hours of a day: staying away
\* never pays more than the same day worked, for any rates, components, requests and
\* installments.  For the other two bases it depends on the rates: percentages of more
\* than the pay of the day would make a day worked cost.
THEOREM SlipsAbsenceNeverPays ==
    ASSUME \A c \in Contracts : c.basis = "MONTHLY", \A r \in DayRows : r.late <= 480
    PROVE  SlipSpec => []AbsenceNeverPays
  <1> DEFINE I == pay.basis = "MONTHLY" /\ \A d \in Days : pay.days[d].late <= 480
  <1>1. SlipInit => I BY DEF SlipInit
  <1>2. I /\ [Calculate]_slipVars => I' BY DEF Calculate, slipVars
  <1>3. I /\ SlipInv => AbsenceNeverPays
    <2> SUFFICES ASSUME I, SlipInv, slip = SlipOf(pay), pay.unexcused >= 2, NEW d \in Days,
                        pay.days[d].status = "PRESENT"
                 PROVE  SlipOf(Without(pay, d)).net <= slip.net
      BY DEF SlipInv, AbsenceNeverPays, Without, Away
    <2> DEFINE p == pay
               q == Without(p, d)
    <2>1. p \in Pay BY DEF SlipInv
    <2>2. /\ q \in Pay /\ q.basis = p.basis /\ q.basic = p.basic /\ q.gosi = p.gosi
          /\ q.parts = p.parts /\ q.loans = p.loans /\ q.gosiPercent = p.gosiPercent
      BY <2>1, WithoutIs
    <2>3. Absence(p) + Delay(p) <= Absence(q) + Delay(q) BY <2>1, AbsenceCosts
    <2>4. Overtime(q) <= Overtime(p) BY <2>1, OvertimeLost
    <2> HIDE DEF q
    <2>5. Earned(q) = Earned(p) BY <2>2 DEF Earned
    <2>6. Parts(q, "ALLOWANCE") = Parts(p, "ALLOWANCE") /\ Parts(q, "DEDUCTION") = Parts(p, "DEDUCTION")
      BY <2>2, <2>5 DEF Parts, PartPays
    <2>7. Gosi(q) = Gosi(p) BY <2>2, <2>5, <2>6 DEF Gosi
    <2>8. WholeTotals(p) /\ WholeTotals(q) BY <2>1, <2>2, TotalsAreWhole
    <2>9. Deductions(p) \in Nat /\ Deductions(q) \in Nat /\ Deductions(p) <= Deductions(q)
      BY <2>3, <2>6, <2>7, <2>8 DEF Deductions, WholeTotals
    <2>10. /\ Money(Deductions(p)) \in Nat /\ Money(Deductions(q)) \in Nat
           /\ Money(Deductions(p)) <= Money(Deductions(q))
      BY <2>9, MoneyBounds, MoneyMonotone
    <2>11. PICK g \in Nat, h \in Nat :
              /\ g = Earned(q) + Parts(q, "ALLOWANCE") + Overtime(q)
              /\ h = Earned(p) + Parts(p, "ALLOWANCE") + Overtime(p) /\ g <= h
      BY <2>4, <2>5, <2>6, <2>8 DEF WholeTotals
    <2>12. SlipOf(q).net = Net(g, Money(Deductions(q)), p.loans)
           /\ slip.net = Net(h, Money(Deductions(p)), p.loans)
      BY <2>2, <2>11 DEF SlipOf
    <2>13. p.loans \in Nat BY <2>1 DEF Pay
    <2>14. Net(g, Money(Deductions(q)), p.loans) <= Net(h, Money(Deductions(p)), p.loans)
      BY <2>10, <2>11, <2>13, NetMonotone
    <2> QED BY <2>12, <2>14 DEF q
  <1> QED BY <1>1, <1>2, <1>3, SlipInvAlways, PTL DEF SlipSpec

-----------------------------------------------------------------------------
(* The payroll page *)

Lists == [PageCycles -> Status]
HeaderRows == [cycle : PageCycles \cup {NoCycle}, status : Status]
TableRows == [cycle : PageCycles \cup {NoCycle}, page : 0 .. 2, ver : Nat]
HeaderFetches == [cycle : PageCycles, fetch : [pc : {"sent", "read"}, got : HeaderRows]]
TableFetches == [cycle : PageCycles, page : {1, 2}, fetch : [pc : {"sent", "read"}, got : TableRows]]

PageTyped ==
    /\ ledger \in [PageCycles -> [status : Status, ver : Nat]] /\ cycles \in Lists
    /\ selectedId \in PageCycles \cup {NoCycle} /\ page \in {1, 2} /\ loading \in BOOLEAN /\ astray \in BOOLEAN
    /\ lists \in [{"mount", "create"} -> [pc : {"idle", "sent", "read"}, got : Lists]]
    /\ headers \subseteq HeaderFetches /\ tables \subseteq TableFetches
    /\ acting \in [pc : {"idle", "call", "sent", "read"}, cycle : PageCycles \cup {NoCycle},
                   to : Status, got : HeaderRows]
    /\ creating \in [pc : {"idle", "call", "list"}, cycle : PageCycles \cup {NoCycle},
                     to : Status, got : HeaderRows]

\* Nothing is listed or selected that the server does not have.
Exists(c) == c \in PageCycles /\ ledger[c].status # "none"
Listed(list) == {c \in PageCycles : list[c] # "none"}
OnlyExisting ==
    /\ selectedId # NoCycle => Exists(selectedId)
    /\ \A c \in Listed(cycles) : Exists(c)
    /\ \A who \in {"mount", "create"} : \A c \in Listed(lists[who].got) : Exists(c)
    /\ creating.pc = "list" => Exists(creating.cycle)

\* A button acts on a cycle there is, and has read what the server has.
ActsOn ==
    /\ selected # NoHeader => selected.cycle \in PageCycles
    /\ acting.pc # "idle" => acting.cycle \in PageCycles
    /\ acting.pc \in {"sent", "read"} => Exists(acting.cycle)
    /\ acting.pc = "read" => acting.got = Header(acting.cycle)

\* What was fetched, or is shown once nothing is fetched, is of the selected cycle,
\* and is what the server has unless a button has just changed it.
UpToDate == selectedId \notin unheard /\ ~(acting.pc \in {"sent", "read"} /\ acting.cycle = selectedId)
GoodHeader(h) == h.cycle = selectedId /\ (UpToDate /\ ~astray => h = Header(selectedId))
GoodTable(t) == t.cycle = selectedId /\ t.page = page /\ (UpToDate => t = Table(selectedId, page))
HeaderKept ==
    /\ \A h \in headers : h.cycle = selectedId /\ (h.fetch.pc = "read" => GoodHeader(h.fetch.got))
    /\ headers = {} /\ ~astray => selected = NoHeader \/ GoodHeader(selected)
TableKept ==
    /\ \A w \in tables : /\ w.cycle = selectedId /\ w.page = page
                         /\ w.fetch.pc = "read" => GoodTable(w.fetch.got)
    /\ tables = {} => slipRows = EmptyTable \/ GoodTable(slipRows)
    /\ tables = {} /\ selectedId # NoCycle => ~loading
NothingShown ==
    selectedId = NoCycle => selected = NoHeader /\ slipRows = EmptyTable /\ headers = {} /\ tables = {}

Shows == HeaderKept /\ TableKept /\ NothingShown
PageInv == PageTyped /\ OnlyExisting /\ ActsOn /\ Shows

LEMMA PageNumbers ==
    /\ NoHeader \in HeaderRows /\ EmptyTable \in TableRows /\ NoList \in Lists
    /\ Listed(NoList) = {} /\ NoCycle \notin PageCycles
    /\ Rest \in [pc : {"idle"}, cycle : {NoCycle}, to : Status, got : HeaderRows]
  BY PageAssumption DEF NoHeader, HeaderRows, Status, EmptyTable, TableRows, NoList, Lists, Listed, Rest

\* A step that fetches nothing and shows nothing else.
LEMMA StillShows ==
    ASSUME PageInv, UNCHANGED <<shown, headers, tables>>,
           UpToDate' => UpToDate /\ (selectedId # NoCycle => ledger'[selectedId] = ledger[selectedId])
    PROVE  Shows'
  <1>1. selectedId' = selectedId /\ page' = page /\ selected' = selected /\ slipRows' = slipRows /\ loading' = loading /\ astray' = astray
    BY DEF shown
  <1>2. ASSUME selectedId # NoCycle, NEW h, GoodHeader(h) PROVE GoodHeader(h)'
    BY <1>1, <1>2 DEF GoodHeader, Header
  <1>3. ASSUME selectedId # NoCycle, NEW t, GoodTable(t) PROVE GoodTable(t)'
    BY <1>1, <1>3 DEF GoodTable, Table
  <1>4. CASE selectedId # NoCycle
    <2>1. HeaderKept' BY <1>1, <1>2, <1>4 DEF PageInv, Shows, HeaderKept
    <2>2. TableKept' BY <1>1, <1>3, <1>4 DEF PageInv, Shows, TableKept
    <2> QED BY <1>1, <1>4, <2>1, <2>2 DEF Shows, NothingShown
  <1>5. CASE selectedId = NoCycle
    BY <1>1, <1>5 DEF PageInv, Shows, NothingShown, HeaderKept, TableKept
  <1> QED BY <1>4, <1>5

\* The effects of a change of the selection, the page or the table.
LEMMA EffectsKeep ==
    ASSUME PageInv, NEW s \in PageCycles \cup {NoCycle}, NEW p \in {1, 2}, NEW h, NEW stale \in BOOLEAN,
           Effects(s, p, h, stale), UNCHANGED <<ledger, unheard>>,
           \/ ~stale /\ h = selected /\ acting' = acting
           \/ stale /\ h = acting.got /\ acting.pc = "read" /\ acting'.pc = "idle" /\ p = page
    PROVE  /\ Shows' /\ selectedId' = s /\ page' \in {1, 2} /\ loading' \in BOOLEAN
           /\ headers' \subseteq HeaderFetches /\ tables' \subseteq TableFetches
           /\ astray' \in BOOLEAN /\ selected' \in {NoHeader, h}
  <1> DEFINE moved == s # selectedId
             q == IF moved THEN 1 ELSE p
             again == moved \/ stale \/ q # page
  <1>1. /\ selectedId' = s /\ page' = q
        /\ selected' = IF s = NoCycle THEN NoHeader ELSE h
        /\ slipRows' = IF moved /\ s = NoCycle THEN EmptyTable ELSE slipRows
        /\ headers' = IF ~moved THEN headers
                      ELSE IF s = NoCycle THEN {} ELSE {[cycle |-> s, fetch |-> Sent(NoHeader)]}
        /\ tables' = IF ~again THEN tables
                     ELSE IF s = NoCycle THEN {} ELSE {[cycle |-> s, page |-> q, fetch |-> Sent(EmptyTable)]}
        /\ astray' = (~moved /\ IF stale THEN acting.cycle # selectedId \/ headers # {} ELSE astray)
        /\ loading' = (loading \/ (again /\ s # NoCycle) \/ (stale /\ selectedId # NoCycle))
    BY DEF Effects, Cancelled
  <1>2. headers' \subseteq HeaderFetches /\ tables' \subseteq TableFetches /\ q \in {1, 2} /\ loading' \in BOOLEAN
        /\ astray' \in BOOLEAN /\ selected' \in {NoHeader, h}
    BY <1>1, PageNumbers DEF PageInv, PageTyped, HeaderFetches, TableFetches, Sent
  <1>3. CASE s = NoCycle
    <2>1. headers' = {} /\ tables' = {} /\ selected' = NoHeader /\ slipRows' = EmptyTable
      BY <1>1, <1>3 DEF PageInv, Shows, NothingShown
    <2> QED BY <1>1, <1>2, <1>3, <2>1 DEF Shows, HeaderKept, TableKept, NothingShown
  <1>4. CASE s # NoCycle
    <2>1. ~moved => UNCHANGED <<headers, selectedId>> BY <1>1
    <2>2. HeaderKept'
      <3>1. CASE moved
        <4>1. headers' = {[cycle |-> s, fetch |-> [pc |-> "sent", got |-> NoHeader]]}
          BY <1>1, <1>4, <3>1 DEF Sent
        <4>2. headers' # {} /\ \A x \in headers' : x.cycle = s /\ x.fetch.pc = "sent" BY <4>1
        <4> HIDE DEF moved
        <4> QED BY <1>1, <4>2 DEF HeaderKept
      <3>2. CASE ~moved /\ ~stale
        <4>1. UNCHANGED <<headers, selectedId, selected, acting, astray>>
          BY <1>1, <1>4, <3>2 DEF PageInv, PageTyped
        <4>2. ASSUME NEW x PROVE GoodHeader(x)' = GoodHeader(x)
          BY <4>1 DEF GoodHeader, UpToDate, Header
        <4> QED BY <4>1, <4>2 DEF HeaderKept, PageInv, Shows
      <3>3. CASE ~moved /\ stale
        <4>1. /\ headers' = headers /\ selectedId' = selectedId /\ selected' = acting.got
              /\ astray' = (acting.cycle # selectedId \/ headers # {})
              /\ acting.got = Header(acting.cycle)
          BY <1>1, <1>4, <3>3 DEF PageInv, ActsOn
        <4>2. \A x \in headers : x.cycle = selectedId /\ (x.fetch.pc = "read" => x.fetch.got.cycle = selectedId)
          BY DEF PageInv, Shows, HeaderKept, GoodHeader
        <4>3. CASE headers # {} BY <4>1, <4>2, <4>3 DEF HeaderKept, GoodHeader
        <4>4. CASE headers = {}
          <5>1. ~astray' => acting.cycle = selectedId BY <4>1
          <5>2. Header(selectedId).cycle = selectedId /\ Header(selectedId)' = Header(selectedId)
            BY <4>1 DEF Header
          <5>3. ~astray' => selected' = Header(selectedId) BY <4>1, <5>1
          <5> QED BY <4>1, <4>4, <5>2, <5>3 DEF HeaderKept, GoodHeader
        <4> QED BY <4>3, <4>4
      <3> QED BY <3>1, <3>2, <3>3
    <2>3. TableKept'
      <3>1. CASE again
        <4>1. tables' = {[cycle |-> s, page |-> q, fetch |-> [pc |-> "sent", got |-> EmptyTable]]}
          BY <1>1, <1>4, <3>1 DEF Sent
        <4>2. tables' # {} /\ \A x \in tables' : x.cycle = s /\ x.page = q /\ x.fetch.pc = "sent" BY <4>1
        <4> HIDE DEF q, again
        <4> QED BY <1>1, <4>2 DEF TableKept
      <3>2. CASE ~again
        <4>1. UNCHANGED <<tables, selectedId, slipRows, page, loading, acting>>
          BY <1>1, <1>4, <3>2 DEF PageInv, PageTyped
        <4>2. ASSUME NEW x PROVE GoodTable(x)' = GoodTable(x)
          BY <4>1 DEF GoodTable, UpToDate, Table
        <4> QED BY <4>1, <4>2 DEF TableKept, PageInv, Shows
      <3> QED BY <3>1, <3>2
    <2>4. NothingShown' BY <1>1, <1>4 DEF NothingShown
    <2> QED BY <1>1, <1>2, <2>1, <2>2, <2>3, <2>4 DEF Shows
  <1> QED BY <1>3, <1>4

\* The selection stays within what is there.
LEMMA KeptExists ==
    ASSUME PageInv, NEW list \in Lists, NEW f, NEW x, NEW s \in Kept(x, list, f),
           \A c \in Listed(list) : Exists(c), x = NoCycle \/ Exists(x)
    PROVE  s = NoCycle \/ Exists(s)
  BY DEF Kept, FirstOf, Visible, Listed

\* A list that arrives, or does not.
LEMMA LoadedKeeps ==
    ASSUME PageInv, NEW who \in {"mount", "create"}, NEW list \in Lists, NEW choices, Loaded(who, list, choices),
           \A c \in Listed(list) : Exists(c),
           \A x \in choices : x = NoCycle \/ Exists(x),
           creating' = creating \/ creating' = Rest
    PROVE  PageInv'
  <1>1. PICK s : /\ s = NoCycle \/ Exists(s)
                 /\ Effects(s, page, selected, FALSE)
    BY KeptExists DEF Loaded
  <1>2. /\ cycles' = list /\ lists' = [lists EXCEPT ![who] = [pc |-> "idle", got |-> NoList]]
        /\ UNCHANGED <<ledger, filter, acting, unheard>>
    BY DEF Loaded, Resting
  <1>3. /\ Shows' /\ selectedId' = s /\ page' \in {1, 2} /\ loading' \in BOOLEAN
        /\ headers' \subseteq HeaderFetches /\ tables' \subseteq TableFetches
        /\ astray' \in BOOLEAN /\ selected' \in {NoHeader, selected}
    <2>1. s \in PageCycles \cup {NoCycle} /\ page \in {1, 2} BY <1>1 DEF Exists, PageInv, PageTyped
    <2> QED BY <1>1, <1>2, <2>1, EffectsKeep
  <1>4. \A c : Exists(c)' = Exists(c) BY <1>2 DEF Exists
  <1>5. OnlyExisting'
    BY <1>1, <1>2, <1>3, <1>4, PageNumbers DEF PageInv, PageTyped, OnlyExisting, Listed, Rest
  <1>6. PageTyped' BY <1>1, <1>2, <1>3, PageNumbers DEF PageInv, PageTyped, Exists, Rest
  <1>7. ActsOn' BY <1>2, <1>3, <1>4 DEF PageInv, ActsOn, Header
  <1> QED BY <1>3, <1>5, <1>6, <1>7 DEF PageInv

\* One step of the page.
LEMMA PageStep == ASSUME PageInv, [PageNext]_pageVars PROVE PageInv'
  <1>1. ASSUME NEW who \in {"mount", "create"}, ListRead(who) PROVE PageInv'
    <2>1. /\ lists[who].pc = "sent"
          /\ lists' = [lists EXCEPT ![who] = [pc |-> "read", got |-> [c \in PageCycles |-> ledger[c].status]]]
          /\ UNCHANGED <<ledger, cycles, shown, filter, headers, tables, acting, creating, unheard>>
      BY <1>1 DEF ListRead, AnswerOf
    <2>2. Shows' BY <2>1, StillShows DEF UpToDate, shown
    <2>3. PageTyped' BY <2>1 DEF PageInv, PageTyped, Lists, shown
    <2>4. OnlyExisting' BY <2>1 DEF PageInv, PageTyped, OnlyExisting, Listed, Exists, shown
    <2>5. ActsOn' BY <2>1 DEF PageInv, PageTyped, ActsOn, Header, Exists, shown
    <2> QED BY <2>2, <2>3, <2>4, <2>5 DEF PageInv
  <1>2. CASE Mounted
    <2>1. lists["mount"].pc # "idle" /\ lists["mount"].got \in Lists BY <1>2 DEF Mounted, PageInv, PageTyped
    <2>3. CASE Loaded("mount", lists["mount"].got, Default(lists["mount"].got))
      <3> DEFINE got == lists["mount"].got
      <3>1. \A c \in Listed(got) : Exists(c) BY DEF PageInv, OnlyExisting
      <3>2. \A x \in Default(got) : x = NoCycle \/ Exists(x)
        BY <3>1 DEF Default, FirstOf, Visible, Listed, PageInv, OnlyExisting
      <3> QED BY <1>2, <2>1, <2>3, <3>1, <3>2, LoadedKeeps DEF Mounted
    <2>4. CASE Loaded("mount", NoList, {selectedId})
      <3>1. \A x \in {selectedId} : x = NoCycle \/ Exists(x) BY DEF PageInv, OnlyExisting
      <3> QED BY <1>2, <2>4, <3>1, PageNumbers, LoadedKeeps DEF Mounted
    <2> QED BY <1>2, <2>3, <2>4 DEF Mounted
  <1>3. CASE OnCreate
    <2>1. /\ creating' = [creating EXCEPT !.pc = "call"]
          /\ UNCHANGED <<ledger, cycles, shown, filter, lists, headers, tables, acting, unheard>>
      BY <1>3 DEF OnCreate
    <2>2. Shows' BY <2>1, StillShows DEF UpToDate, shown
    <2>3. PageTyped' BY <2>1 DEF PageInv, PageTyped, shown
    <2>4. OnlyExisting' BY <2>1 DEF PageInv, PageTyped, OnlyExisting, Listed, Exists, shown
    <2>5. ActsOn' BY <2>1 DEF PageInv, ActsOn, Header, Exists, shown
    <2> QED BY <2>2, <2>3, <2>4, <2>5 DEF PageInv
  <1>4. ASSUME NEW c \in PageCycles, ledger[c].status = "none",
               ledger' = [ledger EXCEPT ![c] = [ledger[c] EXCEPT !.status = "DRAFT"]],
               UNCHANGED <<cycles, shown, filter, headers, tables, acting, unheard>>,
               creating.pc = "call", lists' \in [{"mount", "create"} -> [pc : {"idle", "sent", "read"}, got : Lists]],
               lists'["mount"] = lists["mount"], lists'["create"].got \in {lists["create"].got, NoList},
               creating' \in [pc : {"idle", "call", "list"}, cycle : PageCycles \cup {NoCycle},
                              to : Status, got : HeaderRows],
               creating'.pc = "list" => creating'.cycle = c
        PROVE  PageInv'
    <2>1. selectedId # c BY <1>4, PageNumbers DEF PageInv, OnlyExisting, Exists
    <2>2. /\ ledger' \in [PageCycles -> [status : Status, ver : Nat]]
          /\ \A x \in PageCycles : Exists(x) => Exists(x)'
          /\ Exists(c)'
      BY <1>4 DEF PageInv, PageTyped, Exists, Status
    <2>3. selectedId # NoCycle => ledger'[selectedId] = ledger[selectedId]
      BY <1>4, <2>1 DEF PageInv, PageTyped
    <2>4. Shows' BY <1>4, <2>3, StillShows DEF UpToDate, shown
    <2>5. PageTyped' BY <1>4, <2>2 DEF PageInv, PageTyped, shown
    <2>6. OnlyExisting'
      <3>1. /\ selectedId' = selectedId /\ cycles' = cycles
            /\ \A who \in {"mount", "create"} : lists'[who].got = lists[who].got \/ lists'[who].got = NoList
        BY <1>4 DEF shown
      <3>2. Listed(cycles) \subseteq PageCycles /\ \A who \in {"mount", "create"} : Listed(lists[who].got) \subseteq PageCycles
        BY DEF Listed
      <3>3. Exists(selectedId) => selectedId \in PageCycles BY DEF Exists
      <3>4. \A x \in Listed(cycles') : Exists(x)' BY <2>2, <3>1, <3>2 DEF PageInv, OnlyExisting
      <3>5. \A who \in {"mount", "create"} : \A x \in Listed(lists'[who].got) : Exists(x)'
        BY <2>2, <3>1, <3>2, PageNumbers DEF PageInv, OnlyExisting
      <3>6. selectedId' # NoCycle => Exists(selectedId)' BY <2>2, <3>1, <3>3 DEF PageInv, OnlyExisting, Exists
      <3>7. creating'.pc = "list" => Exists(creating.cycle)' BY <1>4, <2>2 DEF Exists
      <3> QED BY <3>1, <3>4, <3>5, <3>6, <3>7 DEF OnlyExisting, Listed
    <2>7. ActsOn'
      <3>1. UNCHANGED <<acting, selected>> BY <1>4 DEF shown
      <3>2. \A x : Exists(x) => Exists(x)' /\ ledger'[x] = ledger[x]
        BY <1>4, <2>2 DEF Exists, PageInv, PageTyped
      <3> QED BY <3>1, <3>2 DEF PageInv, ActsOn, Header
    <2> QED BY <2>4, <2>5, <2>6, <2>7 DEF PageInv
  <1>5. CASE OnCreateExecute
    <2>1. PICK c \in PageCycles :
            /\ ledger[c].status = "none" /\ ledger' = [ledger EXCEPT ![c] = [ledger[c] EXCEPT !.status = "DRAFT"]]
            /\ creating' = [creating EXCEPT !.pc = "list", !.cycle = c]
      BY <1>5 DEF OnCreateExecute
    <2>2. lists' = [lists EXCEPT !["create"] = [pc |-> "sent", got |-> NoList]] /\ creating.pc = "call"
          /\ UNCHANGED <<cycles, shown, filter, headers, tables, acting, unheard>>
      BY <1>5 DEF OnCreateExecute, Sent
    <2>3. /\ lists' \in [{"mount", "create"} -> [pc : {"idle", "sent", "read"}, got : Lists]]
          /\ lists'["mount"] = lists["mount"] /\ lists'["create"].got = NoList
      BY <2>2, PageNumbers DEF PageInv, PageTyped
    <2>4. creating' \in [pc : {"idle", "call", "list"}, cycle : PageCycles \cup {NoCycle}, to : Status, got : HeaderRows]
          /\ creating'.cycle = c
      BY <2>1 DEF PageInv, PageTyped
    <2> QED BY <1>4, <2>1, <2>2, <2>3, <2>4
  <1>6. CASE OnCreateFails
    <2>1. /\ creating.pc = "call" /\ creating' = Rest
          /\ UNCHANGED <<cycles, shown, filter, lists, headers, tables, acting, unheard>>
      BY <1>6 DEF OnCreateFails
    <2>2. creating' \in [pc : {"idle", "call", "list"}, cycle : PageCycles \cup {NoCycle}, to : Status, got : HeaderRows]
          /\ creating'.pc = "idle"
      BY <2>1, PageNumbers
    <2>3. CASE UNCHANGED ledger
      <3>1. Shows' BY <2>1, <2>3, StillShows DEF UpToDate, shown
      <3>2. PageTyped' BY <2>1, <2>2, <2>3 DEF PageInv, PageTyped, shown
      <3>3. OnlyExisting' BY <2>1, <2>2, <2>3 DEF PageInv, OnlyExisting, Listed, Exists, shown
      <3>4. ActsOn' BY <2>1, <2>3 DEF PageInv, ActsOn, Header, Exists, shown
      <3> QED BY <3>1, <3>2, <3>3, <3>4 DEF PageInv
    <2>4. CASE \E c \in PageCycles : /\ ledger[c].status = "none"
                                     /\ ledger' = [ledger EXCEPT ![c] = [ledger[c] EXCEPT !.status = "DRAFT"]]
      <3>1. PICK c \in PageCycles : /\ ledger[c].status = "none"
                                    /\ ledger' = [ledger EXCEPT ![c] = [ledger[c] EXCEPT !.status = "DRAFT"]]
        BY <2>4
      <3>2. lists' \in [{"mount", "create"} -> [pc : {"idle", "sent", "read"}, got : Lists]]
            /\ lists' = lists /\ lists["create"].got \in {lists["create"].got, NoList}
        BY <2>1 DEF PageInv, PageTyped
      <3> QED BY <1>4, <2>1, <2>2, <3>1, <3>2
    <2> QED BY <1>6, <2>3, <2>4 DEF OnCreateFails
  <1>7. CASE OnCreateListed
    <2>1. creating.pc = "list" /\ creating' = Rest BY <1>7 DEF OnCreateListed
    <2>2. Exists(creating.cycle) BY <2>1 DEF PageInv, OnlyExisting
    <2>3. \A x \in {creating.cycle} : x = NoCycle \/ Exists(x) BY <2>2
    <2>4. CASE Loaded("create", lists["create"].got, {creating.cycle})
      <3>1. lists["create"].got \in Lists /\ \A c \in Listed(lists["create"].got) : Exists(c)
        BY DEF PageInv, PageTyped, OnlyExisting
      <3> QED BY <2>1, <2>2, <2>3, <2>4, <3>1, LoadedKeeps
    <2>5. CASE Loaded("create", NoList, {creating.cycle})
      BY <2>1, <2>2, <2>3, <2>5, PageNumbers, LoadedKeeps
    <2> QED BY <1>7, <2>4, <2>5 DEF OnCreateListed
  <1>8. ASSUME NEW s \in PageCycles \cup {NoCycle}, NEW p \in {1, 2}, Effects(s, p, selected, FALSE),
               s = NoCycle \/ Exists(s), Settled
        PROVE  PageInv'
    <2>1. UNCHANGED <<ledger, cycles, lists, acting, creating, unheard>> BY <1>8 DEF Settled
    <2>2. /\ Shows' /\ selectedId' = s /\ page' \in {1, 2} /\ loading' \in BOOLEAN
          /\ headers' \subseteq HeaderFetches /\ tables' \subseteq TableFetches
          /\ astray' \in BOOLEAN /\ selected' \in {NoHeader, selected}
      BY <1>8, <2>1, EffectsKeep
    <2>3. PageTyped' BY <2>1, <2>2 DEF PageInv, PageTyped
    <2>4. OnlyExisting' BY <1>8, <2>1, <2>2 DEF PageInv, OnlyExisting, Listed, Exists
    <2>5. ActsOn' BY <2>1, <2>2 DEF PageInv, ActsOn, Header, Exists
    <2> QED BY <2>2, <2>3, <2>4, <2>5 DEF PageInv
  <1>9. ASSUME NEW c \in PageCycles, Select(c) PROVE PageInv'
    <2>1. Exists(c) BY <1>9 DEF Select, Visible, Listed, PageInv, OnlyExisting
    <2>2. page \in {1, 2} BY DEF PageInv, PageTyped
    <2> QED BY <1>8, <1>9, <2>1, <2>2 DEF Select
  <1>10. ASSUME NEW f \in Filters, SetFilter(f) PROVE PageInv'
    <2>1. PICK s \in Kept(selectedId, cycles, f) : Effects(s, page, selected, FALSE) BY <1>10 DEF SetFilter
    <2>2. s = NoCycle \/ Exists(s) BY <2>1, KeptExists DEF PageInv, PageTyped, OnlyExisting
    <2>3. page \in {1, 2} /\ s \in PageCycles \cup {NoCycle} BY <2>2 DEF PageInv, PageTyped, Exists
    <2> QED BY <1>8, <1>10, <2>1, <2>2, <2>3 DEF SetFilter
  <1>11. CASE Turn
    <2>1. selectedId \in PageCycles \cup {NoCycle} /\ 3 - page \in {1, 2} /\ Exists(selectedId)
      BY <1>11 DEF Turn, PageInv, PageTyped, OnlyExisting
    <2> QED BY <1>8, <1>11, <2>1 DEF Turn
  <1>12. ASSUME NEW h \in headers, HeaderRead(h) \/ HeaderArrives(h) PROVE PageInv'
    <2>1. /\ h \in HeaderFetches /\ h.cycle = selectedId /\ selectedId # NoCycle
          /\ h.fetch.pc = "read" => GoodHeader(h.fetch.got)
      BY DEF PageInv, PageTyped, Shows, HeaderKept, NothingShown
    <2>2. /\ UNCHANGED <<ledger, cycles, lists, acting, creating, unheard>>
          /\ UNCHANGED <<selectedId, slipRows, page, loading, astray, filter, tables>>
      BY <1>12 DEF HeaderRead, HeaderArrives, Settled, shown
    <2>3. /\ headers' \subseteq HeaderFetches
          /\ \A x \in headers' : x.cycle = selectedId /\ (x.fetch.pc = "read" => GoodHeader(x.fetch.got))
          /\ headers' = {} /\ ~astray => selected' = NoHeader \/ GoodHeader(selected')
          /\ selected' \in {NoHeader, selected} \/ selected'.cycle = selectedId
      <3>1. CASE HeaderRead(h)
        <4> DEFINE z == [h EXCEPT !.fetch = [pc |-> "read", got |-> Header(h.cycle)]]
        <4>1. headers' = (headers \ {h}) \cup {z} BY <3>1 DEF HeaderRead, AnswerOf
        <4>2. Header(h.cycle) \in HeaderRows /\ Header(h.cycle) = Header(selectedId)
              /\ Header(selectedId).cycle = selectedId
          BY <2>1 DEF Header, HeaderRows, HeaderFetches, PageInv, PageTyped
        <4>3. /\ z \in HeaderFetches /\ z.cycle = selectedId /\ z.fetch.got = Header(selectedId)
          BY <2>1, <4>2 DEF HeaderFetches
        <4>4. GoodHeader(z.fetch.got) BY <4>2, <4>3 DEF GoodHeader
        <4> HIDE DEF z
        <4>5. selected' = selected BY <3>1 DEF HeaderRead, shown
        <4> QED BY <4>1, <4>3, <4>4, <4>5 DEF PageInv, PageTyped, Shows, HeaderKept
      <3>2. CASE HeaderArrives(h)
        <4>1. headers' = headers \ {h} /\ (selected' = NoHeader \/ (h.fetch.pc = "read" /\ selected' = h.fetch.got))
          BY <3>2 DEF HeaderArrives
        <4> QED BY <2>1, <4>1 DEF PageInv, PageTyped, Shows, HeaderKept, GoodHeader
      <3> QED BY <1>12, <3>1, <3>2
    <2>4. ASSUME NEW x PROVE GoodHeader(x)' = GoodHeader(x) /\ GoodTable(x)' = GoodTable(x)
      BY <2>2 DEF GoodHeader, GoodTable, UpToDate, Header, Table
    <2>5. HeaderKept' BY <2>2, <2>3, <2>4 DEF HeaderKept, GoodHeader, UpToDate, Header
    <2>6. TableKept' /\ NothingShown' BY <2>1, <2>2, <2>4 DEF PageInv, Shows, TableKept, NothingShown
    <2>7. PageTyped' BY <2>2, <2>3 DEF PageInv, PageTyped
    <2>8. OnlyExisting' BY <2>1, <2>2 DEF PageInv, OnlyExisting, Listed, Exists
    <2>9. ActsOn'
      <3>1. selectedId \in PageCycles BY <2>1 DEF PageInv, PageTyped
      <3> QED BY <2>2, <2>3, <3>1 DEF PageInv, ActsOn, Header, Exists
    <2> QED BY <2>5, <2>6, <2>7, <2>8, <2>9 DEF PageInv, Shows
  <1>13. ASSUME NEW w \in tables, TableRead(w) \/ TableArrives(w) PROVE PageInv'
    <2>1. /\ w \in TableFetches /\ w.cycle = selectedId /\ w.page = page /\ selectedId # NoCycle
          /\ w.fetch.pc = "read" => GoodTable(w.fetch.got)
      BY DEF PageInv, PageTyped, Shows, TableKept, NothingShown
    <2>2. /\ UNCHANGED <<ledger, cycles, lists, acting, creating, unheard>>
          /\ UNCHANGED <<selectedId, selected, page, astray, filter, headers>> /\ loading' \in BOOLEAN
      BY <1>13 DEF TableRead, TableArrives, Settled, shown, PageInv, PageTyped
    <2>3. /\ tables' \subseteq TableFetches
          /\ \A x \in tables' : x.cycle = selectedId /\ x.page = page /\ (x.fetch.pc = "read" => GoodTable(x.fetch.got))
          /\ tables' = {} => (slipRows' = EmptyTable \/ GoodTable(slipRows')) /\ ~loading'
      <3>1. CASE TableRead(w)
        <4> DEFINE z == [w EXCEPT !.fetch = [pc |-> "read", got |-> Table(w.cycle, w.page)]]
        <4>1. tables' = (tables \ {w}) \cup {z} BY <3>1 DEF TableRead, AnswerOf
        <4>2. Table(selectedId, page) \in TableRows /\ Table(w.cycle, w.page) = Table(selectedId, page)
              /\ Table(selectedId, page).cycle = selectedId /\ Table(selectedId, page).page = page
          BY <2>1 DEF Table, TableRows, TableFetches, PageInv, PageTyped
        <4>3. /\ z \in TableFetches /\ z.cycle = selectedId /\ z.page = page /\ z.fetch.got = Table(selectedId, page)
          BY <2>1, <4>2 DEF TableFetches
        <4>4. GoodTable(z.fetch.got) BY <4>2, <4>3 DEF GoodTable
        <4> HIDE DEF z
        <4> QED BY <4>1, <4>3, <4>4 DEF PageInv, PageTyped, Shows, TableKept
      <3>2. CASE TableArrives(w)
        <4>1. /\ tables' = tables \ {w} /\ loading' = FALSE
              /\ slipRows' = EmptyTable \/ (w.fetch.pc = "read" /\ slipRows' = w.fetch.got)
          BY <3>2 DEF TableArrives
        <4> QED BY <2>1, <4>1 DEF PageInv, PageTyped, Shows, TableKept
      <3> QED BY <1>13, <3>1, <3>2
    <2>4. ASSUME NEW x PROVE GoodHeader(x)' = GoodHeader(x) /\ GoodTable(x)' = GoodTable(x)
      BY <2>2 DEF GoodHeader, GoodTable, UpToDate, Header, Table
    <2>5. TableKept' BY <2>2, <2>3, <2>4 DEF TableKept, GoodTable, UpToDate, Table
    <2>6. HeaderKept' /\ NothingShown' BY <2>1, <2>2, <2>4 DEF PageInv, Shows, HeaderKept, NothingShown
    <2>7. PageTyped' BY <2>2, <2>3 DEF PageInv, PageTyped
    <2>8. OnlyExisting' /\ ActsOn'
      BY <2>1, <2>2 DEF PageInv, OnlyExisting, ActsOn, Listed, Exists, Header
    <2> QED BY <2>5, <2>6, <2>7, <2>8 DEF PageInv, Shows
  <1>14. ASSUME NEW to \in Status, Press(to) PROVE PageInv'
    <2>1. /\ acting.pc = "idle" /\ <<selected.status, to>> \in Buttons
          /\ acting' = [Rest EXCEPT !.pc = "call", !.cycle = selected.cycle, !.to = to]
          /\ UNCHANGED <<ledger, cycles, shown, filter, lists, headers, tables, creating, unheard>>
      BY <1>14 DEF Press
    <2>2. selected # NoHeader BY <2>1 DEF NoHeader, Buttons
    <2>3. selected.cycle \in PageCycles BY <2>2 DEF PageInv, ActsOn
    <2>4. /\ acting' \in [pc : {"idle", "call", "sent", "read"}, cycle : PageCycles \cup {NoCycle}, to : Status, got : HeaderRows]
          /\ acting'.pc = "call" /\ acting'.cycle = selected.cycle
      BY <2>1, <2>3, PageNumbers DEF PageInv, PageTyped
    <2>5. Shows' BY <2>1, <2>4, StillShows DEF UpToDate, shown
    <2>6. PageTyped' BY <2>1, <2>4 DEF PageInv, PageTyped, shown
    <2>7. OnlyExisting' BY <2>1 DEF PageInv, OnlyExisting, Listed, Exists, shown
    <2>8. ActsOn' BY <2>1, <2>3, <2>4 DEF PageInv, ActsOn, shown
    <2> QED BY <2>5, <2>6, <2>7, <2>8 DEF PageInv
  <1>15. CASE ActExecute
    <2>1. /\ acting.pc = "call" /\ <<ledger[acting.cycle].status, acting.to>> \in Buttons
          /\ ledger' = [ledger EXCEPT ![acting.cycle] = [status |-> acting.to, ver |-> ledger[acting.cycle].ver + 1]]
          /\ acting' = [acting EXCEPT !.pc = "sent"]
          /\ UNCHANGED <<cycles, shown, filter, lists, headers, tables, creating, unheard>>
      BY <1>15 DEF ActExecute
    <2>2. acting.cycle \in PageCycles BY <2>1 DEF PageInv, ActsOn
    <2>3. acting.to \in Status \ {"none"} BY <2>1 DEF Buttons, Status
    <2>4. ledger' \in [PageCycles -> [status : Status, ver : Nat]] /\ \A x \in PageCycles : Exists(x) => Exists(x)'
      BY <2>1, <2>2, <2>3 DEF PageInv, PageTyped, Exists
    <2>5. acting' \in [pc : {"idle", "call", "sent", "read"}, cycle : PageCycles \cup {NoCycle}, to : Status, got : HeaderRows]
          /\ acting'.pc = "sent" /\ acting'.cycle = acting.cycle
      BY <2>1 DEF PageInv, PageTyped
    <2>6. Shows'
      <3>1. selectedId' = selectedId BY <2>1 DEF shown
      <3>2. UpToDate' => UpToDate /\ acting.cycle # selectedId BY <2>1, <2>5, <3>1 DEF UpToDate
      <3>3. acting.cycle # selectedId => ledger'[selectedId] = ledger[selectedId] \/ selectedId = NoCycle
        BY <2>1 DEF PageInv, PageTyped
      <3> QED BY <2>1, <3>2, <3>3, StillShows
    <2>7. PageTyped' BY <2>1, <2>4, <2>5 DEF PageInv, PageTyped, shown
    <2>8. OnlyExisting'
      <3>1. \A x : Exists(x) => Exists(x)' BY <2>4 DEF Exists
      <3>2. selectedId' = selectedId BY <2>1 DEF shown
      <3> QED BY <2>1, <3>1, <3>2 DEF PageInv, OnlyExisting, Listed, Exists
    <2>9. ActsOn'
      <3>1. ledger'[acting.cycle].status = acting.to BY <2>1, <2>2 DEF PageInv, PageTyped
      <3> QED BY <2>1, <2>2, <2>3, <2>5, <3>1 DEF PageInv, ActsOn, Exists, shown
    <2> QED BY <2>6, <2>7, <2>8, <2>9 DEF PageInv
  <1>16. CASE ActRead
    <2>1. /\ acting.pc = "sent"
          /\ acting' = [acting EXCEPT !.pc = "read", !.got = Header(acting.cycle)]
          /\ UNCHANGED <<ledger, cycles, shown, filter, lists, headers, tables, creating, unheard>>
      BY <1>16 DEF ActRead
    <2>2. acting.cycle \in PageCycles /\ Exists(acting.cycle) BY <2>1 DEF PageInv, ActsOn
    <2>3. Header(acting.cycle) \in HeaderRows BY <2>2 DEF Header, HeaderRows, PageInv, PageTyped
    <2>5. acting' \in [pc : {"idle", "call", "sent", "read"}, cycle : PageCycles \cup {NoCycle}, to : Status, got : HeaderRows]
          /\ acting'.pc = "read" /\ acting'.cycle = acting.cycle /\ acting'.got = Header(acting.cycle)
      BY <2>1, <2>2, <2>3 DEF PageInv, PageTyped
    <2>6. Shows' BY <2>1, <2>5, StillShows DEF UpToDate, shown
    <2>7. PageTyped' BY <2>1, <2>5 DEF PageInv, PageTyped, shown
    <2>8. OnlyExisting' BY <2>1 DEF PageInv, OnlyExisting, Listed, Exists, shown
    <2>9. ActsOn' BY <2>1, <2>2, <2>5 DEF PageInv, ActsOn, shown, Header, Exists
    <2> QED BY <2>6, <2>7, <2>8, <2>9 DEF PageInv
  <1>17. CASE ActArrives
    <2>1. /\ acting.pc = "read" /\ acting' = Rest /\ UNCHANGED <<ledger, filter, lists, creating, unheard>>
          /\ cycles' = [cycles EXCEPT ![acting.cycle] = IF cycles[acting.cycle] = "none" THEN "none" ELSE acting.got.status]
      BY <1>17 DEF ActArrives
    <2>2. /\ acting.cycle \in PageCycles /\ Exists(acting.cycle) /\ acting.got = Header(acting.cycle)
          /\ acting.got.status \in Status /\ acting.got.cycle \in PageCycles
      BY <2>1 DEF PageInv, PageTyped, ActsOn, HeaderRows, Header
    <2>3. cycles' \in Lists /\ \A c \in Listed(cycles') : Exists(c)
      BY <2>1, <2>2 DEF PageInv, PageTyped, Lists, Listed, OnlyExisting, Exists, Header
    <2>4. PICK s \in Kept(selectedId, cycles', filter) : Effects(s, page, acting.got, TRUE) BY <1>17 DEF ActArrives
    <2>5. selectedId = NoCycle \/ Exists(selectedId) BY DEF PageInv, OnlyExisting
    <2>6. s = NoCycle \/ Exists(s) BY <2>3, <2>4, <2>5 DEF Kept, FirstOf, Visible, Listed
    <2>7. s \in PageCycles \cup {NoCycle} /\ page \in {1, 2} /\ acting'.pc = "idle"
      BY <2>1, <2>6, PageNumbers DEF PageInv, PageTyped, Exists
    <2>8. /\ Shows' /\ selectedId' = s /\ page' \in {1, 2} /\ loading' \in BOOLEAN
          /\ headers' \subseteq HeaderFetches /\ tables' \subseteq TableFetches
          /\ astray' \in BOOLEAN /\ selected' \in {NoHeader, acting.got}
      BY <2>1, <2>4, <2>7, EffectsKeep
    <2>9. PageTyped' BY <2>1, <2>3, <2>7, <2>8, PageNumbers DEF PageInv, PageTyped
    <2>10. OnlyExisting' BY <2>1, <2>3, <2>6, <2>8 DEF PageInv, OnlyExisting, Listed, Exists
    <2>11. ActsOn' BY <2>2, <2>7, <2>8 DEF ActsOn
    <2> QED BY <2>8, <2>9, <2>10, <2>11 DEF PageInv
  <1>18. CASE ActFails
    <2>1. /\ acting.pc # "idle" /\ acting' = Rest
          /\ unheard' = IF acting.pc = "call" THEN unheard ELSE unheard \cup {acting.cycle}
          /\ UNCHANGED <<ledger, cycles, shown, filter, lists, headers, tables, creating>>
      BY <1>18 DEF ActFails
    <2>2. acting'.pc = "idle" /\ selectedId' = selectedId BY <2>1, PageNumbers DEF shown
    <2>3. UpToDate' => UpToDate BY <2>1, <2>2 DEF UpToDate, PageInv, PageTyped
    <2>4. Shows' BY <2>1, <2>3, StillShows
    <2>5. PageTyped' BY <2>1, PageNumbers DEF PageInv, PageTyped, shown
    <2>6. OnlyExisting' BY <2>1 DEF PageInv, OnlyExisting, Listed, Exists, shown
    <2>7. ActsOn' BY <2>1, <2>2 DEF PageInv, ActsOn, shown
    <2> QED BY <2>4, <2>5, <2>6, <2>7 DEF PageInv
  <1>19. CASE UNCHANGED pageVars
    <2>1. Shows' BY <1>19, StillShows DEF UpToDate, pageVars, shown
    <2>2. PageTyped' BY <1>19 DEF PageInv, PageTyped, pageVars, shown
    <2>3. OnlyExisting' BY <1>19 DEF PageInv, OnlyExisting, Listed, Exists, pageVars, shown
    <2>4. ActsOn' BY <1>19 DEF PageInv, ActsOn, Header, Exists, pageVars, shown
    <2> QED BY <2>1, <2>2, <2>3, <2>4 DEF PageInv
  <1> QED
    BY <1>1, <1>2, <1>3, <1>5, <1>6, <1>7, <1>9, <1>10, <1>11, <1>12, <1>13, <1>14, <1>15, <1>16, <1>17, <1>18,
       <1>19 DEF PageNext

\* For any number of cycles, whatever is selected, filtered, created or pressed while
\* answers come in any order or not at all: once nothing is under way the table is of
\* the selected cycle and page, and so is the header unless a button's late answer put
\* it there (the effects on selectedId and slipsTick, act).
THEOREM PageShowsSelected == PageSpec => []ShowsSelected
  <1>1. ASSUME PageInit PROVE PageInv
    <2>1. PageTyped
      <3>1. lists \in [{"mount", "create"} -> [pc : {"idle", "sent", "read"}, got : Lists]]
        <4>1. lists["mount"] = [pc |-> "sent", got |-> NoList] /\ lists["create"] = [pc |-> "idle", got |-> NoList]
          BY <1>1 DEF PageInit, Sent, Resting
        <4>2. lists = [x \in {"mount", "create"} |-> lists[x]]
          BY <1>1 DEF PageInit
        <4> QED BY <4>1, <4>2, PageNumbers
      <3>2. ledger \in [PageCycles -> [status : Status, ver : Nat]]
        <4>1. ledger \in [PageCycles -> [status : Opening, ver : {0}]] /\ Opening \subseteq Status
          BY <1>1, PageAssumption DEF PageInit, Status
        <4>2. [status : Opening, ver : {0}] \subseteq [status : Status, ver : Nat] BY <4>1
        <4> QED BY <4>1, <4>2
      <3> QED BY <1>1, <3>1, <3>2, PageNumbers DEF PageInit, PageTyped
    <2>2. OnlyExisting /\ ActsOn /\ Shows
      BY <1>1, PageNumbers DEF PageInit, OnlyExisting, ActsOn, Shows, HeaderKept, TableKept, NothingShown, Sent, Resting, Rest
    <2> QED BY <2>1, <2>2 DEF PageInv
  <1>2. PageInv /\ [PageNext]_pageVars => PageInv' BY PageStep
  <1>3. ASSUME PageInv PROVE ShowsSelected
    BY <1>3 DEF PageInv, Shows, HeaderKept, TableKept, NothingShown, GoodHeader, GoodTable, UpToDate,
                ShowsSelected, Quiet, Table
  <1> QED BY <1>1, <1>2, <1>3, PTL DEF PageSpec
=============================================================================
