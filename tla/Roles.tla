------------------------------- MODULE Roles --------------------------------
(***************************************************************************)
(* The roles of a company's users (backend/src/modules/role).              *)
(*                                                                         *)
(* A change of a role reads the user, the role and, when it takes the      *)
(* Company Owner role from somebody, the number of owners, and writes in a *)
(* later statement.  Whoever calls holds a permission in a token that may  *)
(* be older than the roles it finds.                                       *)
(***************************************************************************)
EXTENDS Naturals, FiniteSets

CONSTANTS
    Users,
    Custom,       \* roles a company may add; the system roles are the two below
    Actors        \* handlers that may be in flight together

ASSUME RolesAssumption == IsFiniteSet(Users) /\ {"owner", "employee"} \cap Custom = {}

VARIABLES
    roles,    \* the custom roles there are
    roleOf,   \* user -> role
    change,   \* handler -> the change it is at
    crossed   \* history: a handler took the Owner role after another had, since its first read

roleVars == <<roles, roleOf, change, crossed>>

\* late: the Owner role was taken from somebody since the handler began.
NoChange ==
    [pc |-> "idle", users |-> {}, from |-> "owner", to |-> "employee", own |-> FALSE, late |-> FALSE]
Owners == {u \in Users : roleOf[u] = "owner"}

\* A handler writes the roles of users and is done.
Write(h, r) ==
    LET taken == \E u \in Owners : r[u] # "owner" IN
    /\ roleOf' = r
    /\ change' = [g \in Actors |-> IF g = h \/ change[g] = NoChange THEN NoChange
                                   ELSE [change[g] EXCEPT !.late = @ \/ taken]]
    /\ crossed' = (crossed \/ (taken /\ change[h].late))
    /\ UNCHANGED roles

CreateRole(r) ==
    /\ r \in Custom \ roles /\ roles' = roles \cup {r}
    /\ UNCHANGED <<roleOf, change, crossed>>

\* remove: one transaction gives its users the Employee role and deletes it.
RemoveRole(r) ==
    /\ r \in roles /\ roles' = roles \ {r}
    /\ roleOf' = [u \in Users |-> IF roleOf[u] = r THEN "employee" ELSE roleOf[u]]
    /\ UNCHANGED <<change, crossed>>

\* assignUserRole: the user and the role, the count, the write.
Assign(h, by, u, r) ==
    /\ change[h] = NoChange /\ r \in roles \cup {"owner", "employee"}
    /\ change' = [change EXCEPT ![h] =
         [pc |-> "count", users |-> {u}, from |-> roleOf[u], to |-> r, own |-> u = by, late |-> FALSE]]
    /\ UNCHANGED <<roles, roleOf, crossed>>

AssignUncounted(h) ==    \* variant: the last owner is not counted
    LET x == change[h] IN
    /\ x.pc = "count"
    /\ change' = [change EXCEPT ![h] =
         IF x.from = "owner" /\ x.to # "owner" /\ x.own THEN NoChange
         ELSE [x EXCEPT !.pc = "write"]]
    /\ UNCHANGED <<roles, roleOf, crossed>>
AssignCount(h) ==
    LET x == change[h]
        demotes == x.from = "owner" /\ x.to # "owner"
    IN
    /\ x.pc = "count"
    /\ change' = [change EXCEPT ![h] =
         IF demotes /\ (Cardinality(Owners) <= 1 \/ x.own) THEN NoChange
         ELSE [x EXCEPT !.pc = "write"]]
    /\ UNCHANGED <<roles, roleOf, crossed>>

\* The foreign key refuses a role that is gone.
AssignUser(h) ==
    LET x == change[h] IN
    /\ x.pc = "write" /\ x.to \in roles \cup {"owner", "employee"}
    /\ Write(h, [u \in Users |-> IF u \in x.users THEN x.to ELSE roleOf[u]])

\* unassignUsers: the count is of the ids that were sent, whatever role they have, and
\* the write takes the role from those that still hold it.
Unassign(h, by, S, r) ==
    /\ change[h] = NoChange /\ r \in roles \cup {"owner"} /\ S # {}
    /\ r = "owner" => Cardinality(Owners) >= Cardinality(S) + 1 /\ by \notin S
    /\ change' = [change EXCEPT ![h] =
         [pc |-> "unassign", users |-> S, from |-> r, to |-> "employee", own |-> FALSE, late |-> FALSE]]
    /\ UNCHANGED <<roles, roleOf, crossed>>
UnassignWrite(h) ==
    LET x == change[h] IN
    /\ x.pc = "unassign"
    /\ Write(h, [u \in Users |-> IF u \in x.users /\ roleOf[u] = x.from THEN "employee"
                                 ELSE roleOf[u]])

ChangeStops(h) ==
    /\ change[h] # NoChange
    /\ change' = [change EXCEPT ![h] = NoChange]
    /\ UNCHANGED <<roles, roleOf, crossed>>

RolesInit ==
    /\ roles = {} /\ roleOf \in [Users -> {"owner", "employee"}] /\ Owners # {}
    /\ change = [h \in Actors |-> NoChange] /\ crossed = FALSE

RolesNext ==
    \/ \E r \in Custom : CreateRole(r) \/ RemoveRole(r)
    \/ \E h \in Actors, by \in Users, u \in Users, r \in Custom \cup {"owner", "employee"} :
         Assign(h, by, u, r)
    \/ \E h \in Actors, by \in Users, S \in SUBSET Users, r \in Custom \cup {"owner"} :
         Unassign(h, by, S, r)
    \/ \E h \in Actors : AssignCount(h) \/ AssignUser(h) \/ UnassignWrite(h) \/ ChangeStops(h)
RolesSpec == RolesInit /\ [][RolesNext]_roleVars

-----------------------------------------------------------------------------
SystemRoles == {"owner", "employee"}

RolesTypeOK ==
    /\ roles \subseteq Custom /\ roleOf \in [Users -> roles \cup SystemRoles]
    /\ change \in [Actors -> [pc : {"idle", "count", "write", "unassign"}, users : SUBSET Users,
                              from : Custom \cup SystemRoles, to : Custom \cup SystemRoles,
                              own : BOOLEAN, late : BOOLEAN]]
    /\ crossed \in BOOLEAN

\* A company keeps an owner, whoever calls, however its handlers overlap, stop or find
\* other roles than they read, unless one of them took the Owner role after another had
\* taken it from somebody since the first began (assignUserRole, unassignUsers).
AlwaysAnOwner == ~crossed => Owners # {}

\* "Cannot demote the last Company Owner".
OwnerRemains == Owners # {}
=============================================================================
