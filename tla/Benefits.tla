------------------------------ MODULE Benefits ------------------------------
(***************************************************************************)
(* The allowances of the company's policy, as salary components of its     *)
(* employees (backend/src/modules/company/benefits-sync.service.ts).       *)
(*                                                                         *)
(* The payroll pays salary components, not the policy.  A change of the    *)
(* policy and a new employee each start a sync, which reads the policy,    *)
(* lists the active employees and takes for each of them every name in     *)
(* turn: it looks for a component of that name and then updates, deletes   *)
(* or creates one.  There is no transaction and nothing makes a name       *)
(* unique, so that anything may happen between two statements.             *)
(***************************************************************************)
EXTENDS Seats, FiniteSetsExt

CONSTANTS
    Syncs,       \* the calls that sync: those of Callers, and changes of the policy
    Kinds,       \* the names are 1 .. Kinds, in the order of syncOne
    Amounts,     \* of an allowance; 0 stands for one that is off
    Slots,       \* bound: components of one name an employee may have at a time
    SyncAlone    \* TRUE: a sync, with its write before, does not overlap another

ASSUME BenefitsAssumption ==
    /\ IsFiniteSet(Syncs) /\ Callers \subseteq Syncs /\ Kinds \in Nat \ {0}
    /\ Amounts \subseteq Nat \ {0} /\ Slots \in Nat \ {0} /\ SyncAlone \in BOOLEAN

Names == 1 .. Kinds
None == 0    \* no component, no amount, no employee
Lost == Slots + 1    \* a component that was deleted since it was found

VARIABLES
    policy,   \* name -> amount, None when the benefit is off or not positive
    rows,     \* employee -> name -> slot -> amount of the component, None without one
    sync,     \* call -> where its sync is
    byHand,   \* history: employees with a component of such a name set by an administrator
    missed    \* history: employees that the syncs since the last change did not get to

benefitVars == <<policy, rows, sync, byHand, missed>>

NoSync == [pc |-> "idle", scope |-> {}, want |-> [n \in Names |-> None],
           todo |-> {}, emp |-> None, name |-> 1, found |-> None]
NoRows == [n \in Names |-> [k \in 1 .. Slots |-> None]]

Start(s, S) == [sync EXCEPT ![s] = [NoSync EXCEPT !.pc = "read", !.scope = S]]
Unused(e, n) == {k \in 1 .. Slots : rows[e][n][k] = None}
Components(e, n) == (1 .. Slots) \ Unused(e, n)
MayStart == SyncAlone => \A s \in Syncs : sync[s] = NoSync

\* A deleted component is lost for every sync that has found it.
Forget(y, gone(_, _, _)) ==
    [s \in Syncs |-> IF y[s].pc = "apply" /\ y[s].found \in 1 .. Slots
                        /\ gone(y[s].emp, y[s].name, y[s].found)
                     THEN [y[s] EXCEPT !.found = Lost] ELSE y[s]]

-----------------------------------------------------------------------------
\* create: the transaction, and then the sync of the new employee alone.
Hire(c, e) ==
    /\ MayStart /\ sync[c] = NoSync /\ Insert(c, e)
    /\ rows' = [rows EXCEPT ![e] = NoRows]
    /\ sync' = Start(c, {e})
    /\ UNCHANGED <<policy, byHand, missed>>

\* updatePolicy, when the patch touches a benefit.
UpdatePolicy(s, n, a) ==
    /\ MayStart /\ sync[s] = NoSync
    /\ policy' = [policy EXCEPT ![n] = a]
    /\ sync' = Start(s, Employees) /\ missed' = missed \cup (Employees \ active)
    /\ UNCHANGED <<seatVars, rows, byHand>>

\* The policy, and then the active employees; without any the sync is over.
SyncRead(s) ==
    /\ sync[s].pc = "read"
    /\ sync' = [sync EXCEPT ![s].pc = "list", ![s].want = policy]
    /\ UNCHANGED <<seatVars, policy, rows, byHand, missed>>
SyncList(s) ==
    /\ sync[s].pc = "list"
    /\ LET S == active \cap sync[s].scope
       IN  sync' = [sync EXCEPT ![s] = IF S = {} THEN NoSync
                                       ELSE [@ EXCEPT !.pc = "next", !.todo = S]]
    /\ missed' = missed \cup (sync[s].scope \ active)
    /\ UNCHANGED <<seatVars, policy, rows, byHand>>

SyncNext(s, e) ==
    /\ sync[s].pc = "next" /\ e \in sync[s].todo
    /\ sync' = [sync EXCEPT ![s].pc = "find", ![s].todo = @ \ {e}, ![s].emp = e, ![s].name = 1]
    /\ UNCHANGED <<seatVars, policy, rows, byHand, missed>>

\* upsertOrDelete: findFirst takes any component of that name.
FindNothing(s) ==    \* variant: every sync takes the name as new
    /\ sync[s].pc = "find"
    /\ sync' = [sync EXCEPT ![s].pc = "apply", ![s].found = None]
    /\ UNCHANGED <<seatVars, policy, rows, byHand, missed>>
Find(s) ==
    /\ sync[s].pc = "find"
    /\ LET here == Components(sync[s].emp, sync[s].name)
       IN  \E k \in IF here = {} THEN {None} ELSE here :
             sync' = [sync EXCEPT ![s].pc = "apply", ![s].found = k]
    /\ UNCHANGED <<seatVars, policy, rows, byHand, missed>>

\* After the last name comes the next employee, and after the last of these the end.
Further(y) ==
    IF y.name < Kinds THEN [y EXCEPT !.pc = "find", !.name = @ + 1, !.found = None]
    ELSE IF y.todo = {} THEN NoSync
    ELSE [y EXCEPT !.pc = "next", !.emp = None, !.name = 1, !.found = None]

Wrote(s, k, a) ==
    LET y == sync[s] IN
    /\ rows' = [rows EXCEPT ![y.emp][y.name][k] = a]
    /\ sync' = Forget([sync EXCEPT ![s] = Further(y)],
                      LAMBDA e, n, j : a = None /\ e = y.emp /\ n = y.name /\ j = k)
    /\ missed' = IF y.name = Kinds THEN missed \ {y.emp} ELSE missed
    /\ UNCHANGED <<seatVars, policy, byHand>>

\* One that is not wanted is deleted, one that is there is set, and one that is not
\* is created; a component or an employee that is gone fails the call.
ApplyKeeps(s) ==    \* variant: a benefit that is off leaves its component
    /\ sync[s].pc = "apply" /\ sync[s].found # Lost
    /\ LET y == sync[s]  a == y.want[y.name] IN
       \/ y.found # None /\ a # None /\ Wrote(s, y.found, a)
       \/ /\ y.found = None /\ a # None /\ y.emp \in active \cup retired
          /\ Unused(y.emp, y.name) # {} /\ Wrote(s, Min(Unused(y.emp, y.name)), a)
       \/ /\ a = None
          /\ sync' = [sync EXCEPT ![s] = Further(y)]
          /\ missed' = IF y.name = Kinds THEN missed \ {y.emp} ELSE missed
          /\ UNCHANGED <<seatVars, policy, rows, byHand>>
Apply(s) ==
    /\ sync[s].pc = "apply" /\ sync[s].found # Lost
    /\ LET y == sync[s]  a == y.want[y.name] IN
       \/ y.found # None /\ Wrote(s, y.found, a)
       \/ /\ y.found = None /\ a # None /\ y.emp \in active \cup retired
          /\ Unused(y.emp, y.name) # {} /\ Wrote(s, Min(Unused(y.emp, y.name)), a)
       \/ /\ y.found = None /\ a = None
          /\ sync' = [sync EXCEPT ![s] = Further(y)]
          /\ missed' = IF y.name = Kinds THEN missed \ {y.emp} ELSE missed
          /\ UNCHANGED <<seatVars, policy, rows, byHand>>

\* The call fails, or the process ends: the rest of the list is not synced.
SyncStops(s) ==
    /\ sync[s] # NoSync
    /\ sync' = [sync EXCEPT ![s] = NoSync]
    /\ missed' = missed \cup IF sync[s].pc \in {"read", "list"} THEN sync[s].scope
                            ELSE sync[s].todo \cup ({sync[s].emp} \cap Employees)
    /\ UNCHANGED <<seatVars, policy, rows, byHand>>

-----------------------------------------------------------------------------
\* An administrator adds, changes or removes a component with the name of a benefit.
SetComponent(e, n, k, a) ==
    /\ e \in active \cup retired /\ rows[e][n][k] # a
    /\ rows[e][n][k] = None => k = Min(Unused(e, n))
    /\ rows' = [rows EXCEPT ![e][n][k] = a] /\ byHand' = byHand \cup {e}
    /\ sync' = Forget(sync, LAMBDA x, m, j : a = None /\ x = e /\ m = n /\ j = k)
    /\ UNCHANGED <<seatVars, policy, missed>>

\* The steps of the seats, with what they do to the components.
Leaves(S) ==
    /\ RemoveEmployees(S)
    /\ rows' = [e \in Employees |-> IF e \in S THEN NoRows ELSE rows[e]]
    /\ sync' = Forget(sync, LAMBDA e, n, k : e \in S)
    /\ UNCHANGED <<policy, byHand, missed>>
SeatStep ==
    /\ \/ \E c \in Callers : ReadLimit(c) \/ CountActive(c) \/ CreateFails(c)
       \/ \E e \in Employees : Deactivate(e) \/ Activate(e)
       \/ ChangePlan
    /\ UNCHANGED benefitVars

BenefitsInit ==
    /\ SeatsInit
    /\ policy = [n \in Names |-> None] /\ rows = [e \in Employees |-> NoRows]
    /\ sync = [s \in Syncs |-> NoSync] /\ byHand = {} /\ missed = {}

BenefitsNext ==
    \/ \E c \in Callers, e \in Employees : Hire(c, e)
    \/ \E s \in Syncs \ Callers, n \in Names, a \in Amounts \cup {None} : UpdatePolicy(s, n, a)
    \/ \E s \in Syncs : SyncRead(s) \/ SyncList(s) \/ Find(s) \/ Apply(s) \/ SyncStops(s)
                        \/ \E e \in Employees : SyncNext(s, e)
    \/ \E e \in Employees, n \in Names, k \in 1 .. Slots, a \in Amounts \cup {None} :
         SetComponent(e, n, k, a)
    \/ \E S \in SUBSET Employees : S # {} /\ Leaves(S)
    \/ SeatStep
BenefitsSpec == BenefitsInit /\ [][BenefitsNext]_<<seatVars, benefitVars>>

-----------------------------------------------------------------------------
BenefitsTypeOK ==
    /\ policy \in [Names -> Amounts \cup {None}]
    /\ rows \in [Employees -> [Names -> [1 .. Slots -> Amounts \cup {None}]]]
    /\ \A s \in Syncs : sync[s].pc \in {"find", "apply"} => sync[s].emp \in Employees
    /\ \A e \in Employees \ (active \cup retired) : rows[e] = NoRows
    /\ byHand \subseteq Employees /\ missed \subseteq Employees

\* However syncs overlap, stop half-way and are repeated, an employee whose components
\* no administrator touched has no more components of a name than there are calls in
\* flight: those that looked before any had created one may each create it, and
\* whoever comes later finds one (upsertOrDelete).
AllowancesBounded ==
    \A e \in Employees \ byHand, n \in Names : Cardinality(Components(e, n)) <= Cardinality(Syncs)

\* Between syncs an active employee that the last one got to is paid what the policy
\* says, and nothing for a benefit that is off (syncEmployeeBenefits).
PolicyIsPaid ==
    (SyncAlone /\ \A s \in Syncs : sync[s] = NoSync) =>
        \A e \in active \ (byHand \cup missed), n \in Names :
            IF policy[n] = None THEN Components(e, n) = {}
            ELSE \E k \in 1 .. Slots : Components(e, n) = {k} /\ rows[e][n][k] = policy[n]
=============================================================================
