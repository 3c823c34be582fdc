------------------------------ MODULE Requests ------------------------------
(***************************************************************************)
(* Overtime and general requests and their two-level approval              *)
(* (backend/src/modules/request/request.service.ts).                       *)
(*                                                                         *)
(* A handler is broken at every await: it reads the row and checks it,     *)
(* reads the requester's manager, updates the row by its id, and then      *)
(* writes the notifications one by one.  The update repeats none of the    *)
(* checks.  Actors are the claims of an access token: who they are, whether*)
(* they are Company Owner and which permissions they hold.                 *)
(***************************************************************************)
EXTENDS Naturals

CONSTANTS
    Callers,     \* API calls that may be in flight at the same time
    RequestIds,  \* primary keys of employee_requests
    Employees,
    Users,
    EmployeeOf,  \* user -> the claim employeeId
    Owners,      \* users with the role Company Owner
    Approvers,   \* users whose role has APPROVE_REQUESTS
    Handlers,    \* users whose role has MANAGE_REQUESTS
    Portal,      \* users with the claim isPortalUser
    None         \* SQL NULL

ASSUME RequestsAssumption ==
    /\ EmployeeOf \in [Users -> Employees \cup {None}]
    /\ Owners \subseteq Users /\ Approvers \subseteq Users
    /\ Handlers \subseteq Users /\ Portal \subseteq Users
    /\ None \notin Employees /\ None \notin Users /\ None \notin RequestIds

VARIABLES
    manager,  \* employees: id -> managerId
    req,      \* employee_requests: id -> [emp, status, level, reviewer]
    steps,    \* request_approval_steps: set of rows [req, level, action, actor]
    sent,     \* notifications: set of rows [req, user, type]
    call,     \* caller -> the API call it executes, with its local values
    managed,  \* history: every pair <<manager, employee>> there has been
    cut       \* history: requests of which a call was telling a decision when it was cut short

vars == <<manager, req, steps, sent, call, managed, cut>>

Open == {"PENDING", "IN_REVIEW"}
Decisions == {"APPROVED", "REJECTED"}
Final == Decisions \cup {"CANCELLED"}
Unused == [emp |-> None, status |-> "UNUSED", level |-> 0, reviewer |-> None]
ReqRow == {Unused} \cup [emp: Employees, status: Open \cup Final, level: {1, 2},
                         reviewer: Users \cup {None}]
StepRow == [req: RequestIds, level: {1, 2}, action: Decisions, actor: Users]
NoteRow == [req: RequestIds, user: Users,
            type: {"SUBMITTED", "LEVEL2", "APPROVED", "REJECTED"}]

StepsOf(r) == {s \in steps : s.req = r}
Accounts(e) == {u \in Users : EmployeeOf[u] = e}
CanFinalize(u) == u \in Owners \cup Approvers    \* hasPerm(actor, APPROVE_REQUESTS)

(***************************************************************************)
(* Calls.  level is the approvalLevel of the row as it was read, action    *)
(* what the reviewer asks for, type and todo the notifications to write.   *)
(***************************************************************************)
Pcs == {"idle", "submit", "authorize", "advance", "finalize", "cancel", "notify"}
Call == [pc: Pcs, actor: Users \cup {None}, req: RequestIds \cup {None},
         emp: Employees \cup {None}, level: {0, 1, 2},
         action: Decisions,
         type: {"SUBMITTED", "LEVEL2", "APPROVED", "REJECTED"}, todo: SUBSET Users]
Idle == [pc |-> "idle", actor |-> None, req |-> None, emp |-> None, level |-> 0,
         action |-> "APPROVED", type |-> "SUBMITTED", todo |-> {}]

At(p, step) == call[p].pc = step
Become(p, c) == call' = [call EXCEPT ![p] = c]
Goto(p, step) == Become(p, [call[p] EXCEPT !.pc = step])
Return(p) == Become(p, Idle)

\* The tail of a handler: the notifications still to write.
Notify(p, type, users) ==
    IF users = {} THEN Return(p)
    ELSE Become(p, [call[p] EXCEPT !.pc = "notify", !.type = type, !.todo = users])

(***************************************************************************)
(* create.                                                                 *)
(***************************************************************************)
MayCreateFor(u, e) ==
    \/ EmployeeOf[u] = e
    \/ u \notin Portal /\ u \in Owners \cup Handlers

\* notifyManagersOnSubmit: the account of the direct manager, else the owners.
SubmitAudience(e) ==
    LET accounts == Accounts(manager[e])
    IN  IF manager[e] # None /\ accounts # {} THEN accounts ELSE Owners

\* Reads the employee with the manager's account; the id of the row is made
\* by the client.
SubmitBegin(p, u, r, e) ==
    /\ At(p, "idle")
    /\ req[r] = Unused /\ \A q \in Callers : call[q].req # r
    /\ MayCreateFor(u, e)
    /\ Become(p, [Idle EXCEPT !.pc = "submit", !.actor = u, !.req = r, !.emp = e,
                              !.todo = SubmitAudience(e)])
    /\ UNCHANGED <<manager, req, steps, sent, managed, cut>>

SubmitInsert(p) ==
    /\ At(p, "submit")
    /\ req' = [req EXCEPT ![call[p].req] =
                 [emp |-> call[p].emp, status |-> "PENDING", level |-> 1, reviewer |-> None]]
    /\ Notify(p, "SUBMITTED", call[p].todo)
    /\ UNCHANGED <<manager, steps, sent, managed, cut>>

(***************************************************************************)
(* approve and reject share their checks; a refused call changes nothing.  *)
(***************************************************************************)
ReviewBegin(p, u, r, action) ==
    /\ At(p, "idle")
    /\ req[r].status \in Open
    /\ EmployeeOf[u] # req[r].emp
    /\ IF req[r].level = 1 THEN EmployeeOf[u] # None \/ u \in Owners ELSE CanFinalize(u)
    /\ Become(p, [Idle EXCEPT !.pc = IF req[r].level = 1 /\ EmployeeOf[u] # None
                                     THEN "authorize" ELSE "finalize",
                              !.actor = u, !.req = r, !.emp = req[r].emp,
                              !.level = req[r].level, !.action = action])
    /\ UNCHANGED <<manager, req, steps, sent, managed, cut>>

\* isDirectManager, and the choice it decides.  The owner goes on to finalize
\* whoever the manager is.
AuthorizeApprover(p) ==    \* variant: APPROVE_REQUESTS is enough at level 1
    LET owner == CanFinalize(call[p].actor)
        isManager == manager[call[p].emp] = EmployeeOf[call[p].actor]
    IN  /\ At(p, "authorize")
        /\ \/ (owner \/ (isManager /\ call[p].action = "REJECTED")) /\ Goto(p, "finalize")
           \/ ~owner /\ isManager /\ call[p].action = "APPROVED" /\ Goto(p, "advance")
           \/ ~owner /\ ~isManager /\ Return(p)
        /\ UNCHANGED <<manager, req, steps, sent, managed, cut>>
Authorize(p) ==
    LET owner == call[p].actor \in Owners
        isManager == manager[call[p].emp] = EmployeeOf[call[p].actor]
    IN  /\ At(p, "authorize")
        /\ \/ (owner \/ (isManager /\ call[p].action = "REJECTED")) /\ Goto(p, "finalize")
           \/ ~owner /\ isManager /\ call[p].action = "APPROVED" /\ Goto(p, "advance")
           \/ ~owner /\ ~isManager /\ Return(p)
        /\ UNCHANGED <<manager, req, steps, sent, managed, cut>>

Record(p, action) ==
    steps' = steps \cup {[req |-> call[p].req, level |-> call[p].level,
                          action |-> action, actor |-> call[p].actor]}

\* The update of level 1, by id, then notifyHrOnLevel1.
Advance(p) ==
    /\ At(p, "advance")
    /\ req' = [req EXCEPT ![call[p].req].status = "IN_REVIEW", ![call[p].req].level = 2]
    /\ Record(p, "APPROVED")
    /\ Notify(p, "LEVEL2", Owners \cup Approvers)
    /\ UNCHANGED <<manager, sent, managed, cut>>

\* finalize: one update, by id, of the row with its new step, then the
\* notification of the employee, if the employee has an account.
FinalizeAsFirst(p) ==    \* variant: the reviewer of an earlier decision is kept
    LET r == call[p].req
    IN  /\ At(p, "finalize")
        /\ req' = [req EXCEPT ![r].status = call[p].action,
                              ![r].reviewer = IF @ = None THEN call[p].actor ELSE @]
        /\ Record(p, call[p].action)
        /\ Notify(p, call[p].action, Accounts(call[p].emp))
        /\ UNCHANGED <<manager, sent, managed, cut>>
FinalizeQuietly(p) ==    \* variant: only approvals are notified
    LET r == call[p].req
    IN  /\ At(p, "finalize")
        /\ req' = [req EXCEPT ![r].status = call[p].action, ![r].reviewer = call[p].actor]
        /\ Record(p, call[p].action)
        /\ Notify(p, call[p].action,
                  IF call[p].action = "APPROVED" THEN Accounts(call[p].emp) ELSE {})
        /\ UNCHANGED <<manager, sent, managed, cut>>
Finalize(p) ==
    LET r == call[p].req
    IN  /\ At(p, "finalize")
        /\ req' = [req EXCEPT ![r].status = call[p].action, ![r].reviewer = call[p].actor]
        /\ Record(p, call[p].action)
        /\ Notify(p, call[p].action, Accounts(call[p].emp))
        /\ UNCHANGED <<manager, sent, managed, cut>>

\* NotificationService.createMany: one row, and one await, after another.
NotifyOne(p) ==
    /\ At(p, "notify")
    /\ \E u \in call[p].todo :
         /\ sent' = sent \cup {[req |-> call[p].req, user |-> u, type |-> call[p].type]}
         /\ Notify(p, call[p].type, call[p].todo \ {u})
    /\ UNCHANGED <<manager, req, steps, managed, cut>>

(***************************************************************************)
(* cancel.                                                                 *)
(***************************************************************************)
CancelBegin(p, u, r) ==
    /\ At(p, "idle")
    /\ req[r].status = "PENDING"
    /\ u \in Owners \cup Handlers \/ EmployeeOf[u] = req[r].emp
    /\ Become(p, [Idle EXCEPT !.pc = "cancel", !.actor = u, !.req = r, !.emp = req[r].emp])
    /\ UNCHANGED <<manager, req, steps, sent, managed, cut>>

CancelUpdate(p) ==
    /\ At(p, "cancel")
    /\ req' = [req EXCEPT ![call[p].req].status = "CANCELLED"]
    /\ Return(p)
    /\ UNCHANGED <<manager, steps, sent, managed, cut>>

\* The server stops or a statement fails: the call ends where it is.
Abort(p) ==
    /\ ~At(p, "idle")
    /\ Return(p)
    /\ cut' = IF At(p, "notify") /\ call[p].type \in Decisions THEN cut \cup {call[p].req} ELSE cut
    /\ UNCHANGED <<manager, req, steps, sent, managed>>

\* EmployeeService.update: a manager is another employee, or none.
SetManager(e, m) ==
    /\ m # e
    /\ manager' = [manager EXCEPT ![e] = m]
    /\ managed' = managed \cup (({m} \cap Employees) \X {e})
    /\ UNCHANGED <<req, steps, sent, call, cut>>

-----------------------------------------------------------------------------
Init ==
    /\ manager = [e \in Employees |-> None]
    /\ req = [r \in RequestIds |-> Unused]
    /\ steps = {} /\ sent = {} /\ managed = {} /\ cut = {}
    /\ call = [p \in Callers |-> Idle]

Begin(p) ==
    \E u \in Users, r \in RequestIds :
        \/ \E e \in Employees : SubmitBegin(p, u, r, e)
        \/ \E action \in Decisions : ReviewBegin(p, u, r, action)
        \/ CancelBegin(p, u, r)

Proceed(p) ==
    \/ SubmitInsert(p) \/ Authorize(p) \/ Advance(p) \/ Finalize(p)
    \/ CancelUpdate(p) \/ NotifyOne(p)

Environment == \E e \in Employees, m \in Employees \cup {None} : SetManager(e, m)

Next == (\E p \in Callers : Begin(p) \/ Proceed(p) \/ Abort(p)) \/ Environment
Spec == Init /\ [][Next]_vars

-----------------------------------------------------------------------------
\* Rows and calls have the values the schema and the service give them.
TypeOK ==
    /\ manager \in [Employees -> Employees \cup {None}]
    /\ req \in [RequestIds -> ReqRow]
    /\ steps \subseteq StepRow
    /\ sent \subseteq NoteRow
    /\ call \in [Callers -> Call]
    /\ cut \subseteq RequestIds

\* A step that approves, recorded by somebody other than the requester.
ApprovedBy(r, s) ==
    /\ s \in StepsOf(r)
    /\ s.action = "APPROVED"
    /\ EmployeeOf[s.actor] # req[r].emp

\* "Two-level approval": a request is APPROVED only when an owner approved it,
\* or when somebody who was the requester's manager approved it at level 1 and
\* a holder of APPROVE_REQUESTS at level 2, none of them the requester
\* (approve, finalize), whatever calls were in flight together.
TwoLevelApproval ==
    \A r \in RequestIds : req[r].status = "APPROVED" =>
        \/ \E s \in StepsOf(r) : ApprovedBy(r, s) /\ s.actor \in Owners
        \/ \E s, t \in StepsOf(r) :
              /\ ApprovedBy(r, s) /\ s.level = 1
              /\ <<EmployeeOf[s.actor], req[r].emp>> \in managed
              /\ ApprovedBy(r, t) /\ t.level = 2 /\ CanFinalize(t.actor)

\* The reviewer a decided request names is one whose step took that decision,
\* also when two reviewers decide at the same time (finalize's single update).
ReviewerDecided ==
    \A r \in RequestIds : req[r].status \in Decisions =>
        \E s \in StepsOf(r) : s.action = req[r].status /\ s.actor = req[r].reviewer

\* "Events: ... final approve/reject -> employee": once no call about a decided
\* request is in flight, its employee has the notification of the decision that
\* stands, however reviews overlap, unless a call was cut short while it told one.
OutcomeNotified ==
    \A r \in RequestIds \ cut :
        /\ req[r].status \in Decisions
        /\ \A p \in Callers : call[p].req # r
        => \A u \in Accounts(req[r].emp) :
              [req |-> r, user |-> u, type |-> req[r].status] \in sent

\* "PENDING -> IN_REVIEW -> APPROVED | REJECTED | CANCELLED": a final status
\* does not change (the status checks of approve, reject and cancel).  Each
\* handler checks the row it has read and updates it by its id alone.
FinalIsFinal ==
    [][\A r \in RequestIds : req[r].status \in Final => req'[r].status = req[r].status]_vars
=============================================================================
