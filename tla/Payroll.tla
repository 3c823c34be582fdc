------------------------------ MODULE Payroll ------------------------------
(***************************************************************************)
(* The payroll engine of the HR system                                     *)
(* (backend/src/modules/payroll/payroll.service.ts) over the rows it reads *)
(* and writes: payroll cycles, payslips, loans and their installments.     *)
(*                                                                         *)
(* Each request runs in a caller of its own and is broken at every await:  *)
(* one step per SQL statement, or per transaction where nothing the        *)
(* transaction reads between its statements matters.  The database is      *)
(* PostgreSQL at READ COMMITTED: a statement sees the rows committed when  *)
(* it starts, a transaction's writes become visible at its commit, and the *)
(* rows it wrote stay locked until then.  The code takes no lock of its    *)
(* own, and the status it asserts at the start of a request is not         *)
(* repeated by the statements that follow.                                 *)
(***************************************************************************)
EXTENDS Naturals, FiniteSets

CONSTANTS
    Callers,        \* requests that may be in flight at the same time
    CycleIds,       \* primary keys of payroll_cycles, never used twice
    Months,         \* the (month, year) pairs payroll is run for
    Employees,
    Loans,
    Installments,
    Borrower,       \* loan -> the employee who owes it
    LoanOf,         \* installment -> its loan
    Due,            \* installment -> the month of its dueDate
    None            \* SQL NULL

ASSUME ConstantsAssumption ==
    /\ Borrower \in [Loans -> Employees]
    /\ LoanOf \in [Installments -> Loans]
    /\ Due \in [Installments -> Months]
    /\ None \notin CycleIds
    /\ None \notin Months

VARIABLES
    cycle,   \* payroll_cycles: id -> [month, status]
    slips,   \* payroll_slips: set of rows [cycle, emp, insts]
    inst,    \* loan_installments: id -> [status, link]
    loan,    \* loans: id -> status
    staff,   \* employees: isActive or not, or removed
    call,    \* caller -> the request it is executing, with its local values
    mixed    \* history: the months about which different requests have overlapped

rows == <<cycle, slips, inst, loan>>
vars == <<cycle, slips, inst, loan, staff, call, mixed>>

(***************************************************************************)
(* Rows.  A slip's loanDeductions column is kept as the set of             *)
(* installments it adds up; its other amounts do not interact with other   *)
(* rows and are left out.                                                  *)
(***************************************************************************)
CycleStatus == {"DRAFT", "REVIEW", "APPROVED", "CLOSED"}
Unused == [month |-> None, status |-> "UNUSED"]
CycleRow == {Unused} \cup [month: Months, status: CycleStatus \cup {"DELETED"}]
SlipRow == [cycle: CycleIds, emp: Employees, insts: SUBSET Installments]
NotScheduled == [status |-> "UNUSED", link |-> None]
InstRow == {NotScheduled} \cup [status: {"PENDING", "DEDUCTED"}, link: CycleIds \cup {None}]
LoanStatus == {"PENDING", "APPROVED", "PAID_OFF", "REMOVED"}
StaffStatus == {"ACTIVE", "INACTIVE", "REMOVED"}

Exists(c) == cycle[c].status \in CycleStatus
MonthTaken(m) == \E c \in CycleIds : Exists(c) /\ cycle[c].month = m
SlipsOf(c) == {s \in slips : s.cycle = c}
Linked(c) == {i \in Installments : inst[i].link = c}
Active == {e \in Employees : staff[e] = "ACTIVE"}
LoansOf(e) == {l \in Loans : Borrower[l] = e}
OwedBy(e) == {i \in Installments : LoanOf[i] \in LoansOf(e)}

\* Slips the employee can read and the bank file is made of.
Published(c) == cycle[c].status \in {"APPROVED", "CLOSED"}

(***************************************************************************)
(* Requests.  pc names the next statement, cycle and month what the        *)
(* request is about, create marks a calculation run by createCycle.        *)
(* computed is the slip rows runCalculation holds in memory between its    *)
(* reads and its transaction; locked, todo and paidOff are the uncommitted *)
(* work of approve's transaction: the installments it has updated, the     *)
(* loans still to count and the loans it has updated.                      *)
(***************************************************************************)
Steps == {"idle", "create.insert", "create.undo",
          "recalculate.clear", "recalculate.delete", "calc.read", "calc.commit",
          "revert.clear", "revert.update", "review.count", "review.update",
          "approve.find", "approve.mark", "approve.count", "close.update"}
Call == [pc: Steps, cycle: CycleIds \cup {None}, month: Months \cup {None},
         create: BOOLEAN, computed: SUBSET SlipRow,
         locked: SUBSET Installments, todo: SUBSET Loans, paidOff: SUBSET Loans]
Idle == [pc |-> "idle", cycle |-> None, month |-> None, create |-> FALSE,
         computed |-> {}, locked |-> {}, todo |-> {}, paidOff |-> {}]

At(p, step) == call[p].pc = step
Become(p, request) == call' = [call EXCEPT ![p] = request]
Goto(p, step) == Become(p, [call[p] EXCEPT !.pc = step])
Return(p) == Become(p, Idle)

\* The code lets any two requests overlap.  Requests of one kind about a month (the
\* button pressed twice) stay within what one of them may do; what the month is worth
\* after different ones have overlapped is another matter, so mixed remembers it.
OneKind == {{"create.insert"}, {"review.count", "review.update"},
            {"revert.clear", "revert.update"},
            {"approve.find", "approve.mark", "approve.count"}, {"close.update"}}
Together(s, t) == \E K \in OneKind : {s, t} \subseteq K

\* Caller p starts a request about month m at step first.
Starts(p, m, first) ==
    /\ At(p, "idle")
    /\ mixed' = IF \E q \in Callers : /\ ~At(q, "idle")
                                        /\ call[q].month = m
                                        /\ ~Together(call[q].pc, first)
                THEN mixed \cup {m} ELSE mixed

\* No other transaction holds a row lock on these installments or this loan.
Free(p, S) == \A q \in Callers \ {p} : call[q].locked \cap S = {}
LoanFree(p, l) == \A q \in Callers \ {p} : l \notin call[q].paidOff

\* getOwnedOrThrow and assertStatus: a refused request changes nothing, so
\* only an accepted one is a step.
Begin(p, c, allowed, first) ==
    /\ cycle[c].status \in allowed
    /\ Starts(p, cycle[c].month, first)
    /\ Become(p, [Idle EXCEPT !.pc = first, !.cycle = c, !.month = cycle[c].month])
    /\ UNCHANGED <<rows, staff>>

\* payrollCycle.update by id: it names no expected status, and fails (P2025)
\* when the row is gone.
SetStatus(c, status) ==
    cycle' = IF Exists(c) THEN [cycle EXCEPT ![c].status = status] ELSE cycle

(***************************************************************************)
(* runCalculation.                                                         *)
(***************************************************************************)
AnyDueDate(i, m) == TRUE    \* variant: no filter on dueDate
DueIn(i, m) == Due[i] = m

Collectible(i, e, m) ==
    /\ Borrower[LoanOf[i]] = e
    /\ loan[LoanOf[i]] = "APPROVED"
    /\ inst[i].status = "PENDING"
    /\ DueIn(i, m)

ComputedSlips(c) ==
    { [cycle |-> c, emp |-> e,
       insts |-> {i \in Installments : Collectible(i, e, cycle[c].month)}] :
      e \in Active }

\* An exception out of runCalculation: createCycle deletes the cycle it has
\* just inserted, recalculate lets the exception through.
CalcThrows(p) ==
    IF call[p].create
    THEN Become(p, [call[p] EXCEPT !.pc = "create.undo", !.computed = {}])
    ELSE Return(p)

\* Reads the cycle, the policy, the active employees with the PENDING
\* installments due in the month of their APPROVED loans, and the overtime.
CalcRead(p) ==
    /\ At(p, "calc.read")
    /\ IF Exists(call[p].cycle) /\ Active # {}
       THEN Become(p, [call[p] EXCEPT !.pc = "calc.commit",
                                      !.computed = ComputedSlips(call[p].cycle)])
       ELSE CalcThrows(p)
    /\ UNCHANGED <<rows, staff, mixed>>

\* The transaction: createMany of the slips (foreign keys to the cycle and to the
\* employee, unique cycle and employee), then the link of their installments.
CalcCommit(p) ==
    LET c == call[p].cycle
        linked == UNION {s.insts : s \in call[p].computed}
    IN  /\ At(p, "calc.commit")
        /\ Free(p, linked)
        /\ IF /\ Exists(c)
              /\ \A t \in call[p].computed : staff[t.emp] # "REMOVED"
              /\ \A s \in SlipsOf(c), t \in call[p].computed : s.emp # t.emp
           THEN /\ slips' = slips \cup call[p].computed
                /\ inst' = [i \in Installments |->
                              IF i \in linked THEN [inst[i] EXCEPT !.link = c] ELSE inst[i]]
                /\ Return(p)
           ELSE CalcThrows(p) /\ UNCHANGED <<slips, inst>>
        /\ UNCHANGED <<cycle, loan, staff, mixed>>

\* The policy row is missing, a read fails or the transaction times out.
CalcFails(p) ==
    /\ call[p].pc \in {"calc.read", "calc.commit"}
    /\ CalcThrows(p)
    /\ UNCHANGED <<rows, staff, mixed>>

(***************************************************************************)
(* createCycle.                                                            *)
(***************************************************************************)
\* Bound: a createCycle starts only while CycleIds holds an unused id for it.
IdLeft ==
    Cardinality({p \in Callers : At(p, "create.insert")})
        < Cardinality({c \in CycleIds : cycle[c] = Unused})

CreateFind(p, m) ==
    /\ IdLeft
    /\ ~MonthTaken(m)
    /\ Starts(p, m, "create.insert")
    /\ Become(p, [Idle EXCEPT !.pc = "create.insert", !.month = m])
    /\ UNCHANGED <<rows, staff>>

\* The unique key (company, month, year) refuses a second cycle of the month;
\* that exception is thrown before the try block.
CreateInsert(p) ==
    LET m == call[p].month
    IN  /\ At(p, "create.insert")
        /\ \/ /\ MonthTaken(m)
              /\ Return(p)
              /\ UNCHANGED cycle
           \/ \E c \in CycleIds :
                /\ ~MonthTaken(m)
                /\ cycle[c] = Unused
                /\ cycle' = [cycle EXCEPT ![c] = [month |-> m, status |-> "DRAFT"]]
                /\ Become(p, [call[p] EXCEPT !.pc = "calc.read", !.cycle = c, !.create = TRUE])
        /\ UNCHANGED <<slips, inst, loan, staff, mixed>>

\* delete(...).catch(() => undefined): slips cascade, links are set to NULL.
CreateUndo(p) ==
    LET c == call[p].cycle
    IN  /\ At(p, "create.undo")
        /\ Free(p, Linked(c))
        /\ SetStatus(c, "DELETED")
        /\ slips' = slips \ SlipsOf(c)
        /\ inst' = [i \in Installments |->
                      IF i \in Linked(c) THEN [inst[i] EXCEPT !.link = None] ELSE inst[i]]
        /\ Return(p)
        /\ UNCHANGED <<loan, staff, mixed>>

(***************************************************************************)
(* recalculate, while DRAFT: three separate commits, then runCalculation.  *)
(***************************************************************************)
RecalculateBegin(p, c) == Begin(p, c, {"DRAFT"}, "recalculate.clear")

RecalculateClear(p) ==
    LET linked == Linked(call[p].cycle)
    IN  /\ At(p, "recalculate.clear")
        /\ Free(p, linked)
        /\ inst' = [i \in Installments |->
                      IF i \in linked THEN [status |-> "PENDING", link |-> None] ELSE inst[i]]
        /\ Goto(p, "recalculate.delete")
        /\ UNCHANGED <<cycle, slips, loan, staff, mixed>>

RecalculateDelete(p) ==
    /\ At(p, "recalculate.delete")
    /\ slips' = slips \ SlipsOf(call[p].cycle)
    /\ Goto(p, "calc.read")
    /\ UNCHANGED <<cycle, inst, loan, staff, mixed>>

(***************************************************************************)
(* revertToDraft, from REVIEW: the links go, the slips stay.               *)
(***************************************************************************)
RevertBegin(p, c) == Begin(p, c, {"REVIEW"}, "revert.clear")

RevertClear(p) ==
    LET linked == {i \in Linked(call[p].cycle) : inst[i].status = "PENDING"}
    IN  /\ At(p, "revert.clear")
        /\ Free(p, linked)
        /\ inst' = [i \in Installments |->
                      IF i \in linked THEN [inst[i] EXCEPT !.link = None] ELSE inst[i]]
        /\ Goto(p, "revert.update")
        /\ UNCHANGED <<cycle, slips, loan, staff, mixed>>

RevertUpdate(p) ==
    /\ At(p, "revert.update")
    /\ SetStatus(call[p].cycle, "DRAFT")
    /\ Return(p)
    /\ UNCHANGED <<slips, inst, loan, staff, mixed>>

(***************************************************************************)
(* moveToReview, from DRAFT, for a cycle that has slips.                   *)
(***************************************************************************)
ReviewBegin(p, c) == Begin(p, c, {"DRAFT"}, "review.count")

ReviewCount(p) ==
    /\ At(p, "review.count")
    /\ IF SlipsOf(call[p].cycle) = {} THEN Return(p) ELSE Goto(p, "review.update")
    /\ UNCHANGED <<rows, staff, mixed>>

ReviewUpdate(p) ==
    /\ At(p, "review.update")
    /\ SetStatus(call[p].cycle, "REVIEW")
    /\ Return(p)
    /\ UNCHANGED <<slips, inst, loan, staff, mixed>>

(***************************************************************************)
(* approve, from REVIEW: one interactive transaction of several awaits.    *)
(***************************************************************************)
ApproveBegin(p, c) == Begin(p, c, {"REVIEW"}, "approve.find")

ApproveFind(p) ==
    LET linked == Linked(call[p].cycle)
    IN  /\ At(p, "approve.find")
        /\ Become(p, [call[p] EXCEPT
                        !.pc = IF linked = {} THEN "approve.count" ELSE "approve.mark",
                        !.todo = {LoanOf[i] : i \in linked}])
        /\ UNCHANGED <<rows, staff, mixed>>

\* updateMany to DEDUCTED: from here to the commit the rows are locked.
ApproveMarkAnyCycle(p) ==    \* variant: updateMany without the id of the cycle
    LET linked == {i \in Installments : inst[i].link # None /\ inst[i].status = "PENDING"}
    IN  /\ At(p, "approve.mark")
        /\ Free(p, linked)
        /\ Become(p, [call[p] EXCEPT !.pc = "approve.count", !.locked = linked])
        /\ UNCHANGED <<rows, staff, mixed>>
ApproveMark(p) ==
    LET linked == Linked(call[p].cycle)
    IN  /\ At(p, "approve.mark")
        /\ Free(p, linked)
        /\ Become(p, [call[p] EXCEPT !.pc = "approve.count", !.locked = linked])
        /\ UNCHANGED <<rows, staff, mixed>>

\* The count sees the rows other transactions have committed and the
\* transaction's own updates.
PendingInCycle(p, l) ==    \* variant: counts only installments linked to a cycle
    \E i \in Installments : /\ LoanOf[i] = l
                            /\ inst[i].status = "PENDING"
                            /\ inst[i].link # None
                            /\ i \notin call[p].locked
StillPending(p, l) ==
    \E i \in Installments : /\ LoanOf[i] = l
                            /\ inst[i].status = "PENDING"
                            /\ i \notin call[p].locked

\* The update of a loan that is gone throws: the transaction is rolled back.
ApproveCount(p) ==
    /\ At(p, "approve.count")
    /\ \E l \in call[p].todo :
         \/ /\ StillPending(p, l)
            /\ Become(p, [call[p] EXCEPT !.todo = @ \ {l}])
         \/ ~StillPending(p, l) /\ loan[l] = "REMOVED" /\ Return(p)
         \/ /\ ~StillPending(p, l)
            /\ loan[l] # "REMOVED"
            /\ LoanFree(p, l)
            /\ Become(p, [call[p] EXCEPT !.todo = @ \ {l}, !.paidOff = @ \cup {l}])
    /\ UNCHANGED <<rows, staff, mixed>>

\* The cycle's update and the commit; the update of a cycle that is gone
\* rolls the transaction back.
ApproveCommit(p) ==
    /\ At(p, "approve.count")
    /\ call[p].todo = {}
    /\ SetStatus(call[p].cycle, "APPROVED")
    /\ IF Exists(call[p].cycle)
       THEN /\ inst' = [i \in Installments |->
                          IF i \in call[p].locked THEN [inst[i] EXCEPT !.status = "DEDUCTED"]
                          ELSE inst[i]]
            /\ loan' = [l \in Loans |-> IF l \in call[p].paidOff THEN "PAID_OFF" ELSE loan[l]]
       ELSE UNCHANGED <<inst, loan>>
    /\ Return(p)
    /\ UNCHANGED <<slips, staff, mixed>>

(***************************************************************************)
(* close, from APPROVED.                                                   *)
(***************************************************************************)
CloseBegin(p, c) == Begin(p, c, {"APPROVED"}, "close.update")

CloseUpdate(p) ==
    /\ At(p, "close.update")
    /\ SetStatus(call[p].cycle, "CLOSED")
    /\ Return(p)
    /\ UNCHANGED <<slips, inst, loan, staff, mixed>>

\* The server stops, the connection drops or the database aborts the
\* transaction: what is committed stays, what is not is rolled back.
Abort(p) ==
    /\ ~At(p, "idle")
    /\ Return(p)
    /\ UNCHANGED <<rows, staff, mixed>>

(***************************************************************************)
(* The rest of the system: LoanService.approve gives a PENDING loan its    *)
(* installments, EmployeeService.update sets isActive, and its remove and  *)
(* bulkRemove delete an employee with no check: the payslips of every      *)
(* cycle, the loans and their installments go with the row (onDelete:      *)
(* Cascade), once no transaction holds a lock on one of them.              *)
(***************************************************************************)
ApproveLoan(l) ==
    /\ loan[l] = "PENDING"
    /\ loan' = [loan EXCEPT ![l] = "APPROVED"]
    /\ inst' = [i \in Installments |->
                  IF LoanOf[i] = l THEN [status |-> "PENDING", link |-> None] ELSE inst[i]]
    /\ UNCHANGED <<cycle, slips, staff, call, mixed>>

SetActive(e) ==
    /\ \/ staff[e] = "ACTIVE" /\ staff' = [staff EXCEPT ![e] = "INACTIVE"]
       \/ staff[e] = "INACTIVE" /\ staff' = [staff EXCEPT ![e] = "ACTIVE"]
    /\ UNCHANGED <<rows, call, mixed>>

RemoveKeepsSlips(e) ==    \* variant: the payslips stay when their employee goes
    /\ staff[e] # "REMOVED"
    /\ staff' = [staff EXCEPT ![e] = "REMOVED"]
    /\ loan' = [l \in Loans |-> IF l \in LoansOf(e) THEN "REMOVED" ELSE loan[l]]
    /\ inst' = [i \in Installments |-> IF i \in OwedBy(e) THEN NotScheduled ELSE inst[i]]
    /\ UNCHANGED <<cycle, slips, call, mixed>>
RemoveEmployee(e) ==
    /\ staff[e] # "REMOVED"
    /\ \A q \in Callers : call[q].locked \cap OwedBy(e) = {} /\ call[q].paidOff \cap LoansOf(e) = {}
    /\ staff' = [staff EXCEPT ![e] = "REMOVED"]
    /\ slips' = {s \in slips : s.emp # e}
    /\ loan' = [l \in Loans |-> IF l \in LoansOf(e) THEN "REMOVED" ELSE loan[l]]
    /\ inst' = [i \in Installments |-> IF i \in OwedBy(e) THEN NotScheduled ELSE inst[i]]
    /\ UNCHANGED <<cycle, call, mixed>>

-----------------------------------------------------------------------------
Init ==
    /\ cycle = [c \in CycleIds |-> Unused]
    /\ slips = {}
    /\ inst = [i \in Installments |-> NotScheduled]
    /\ loan = [l \in Loans |-> "PENDING"]
    /\ staff = [e \in Employees |-> "ACTIVE"]
    /\ call = [p \in Callers |-> Idle]
    /\ mixed = {}

Request(p) ==
    \/ \E m \in Months : CreateFind(p, m)
    \/ \E c \in CycleIds : \/ RecalculateBegin(p, c) \/ RevertBegin(p, c) \/ ReviewBegin(p, c)
                           \/ ApproveBegin(p, c) \/ CloseBegin(p, c)

\* The next statement of a request in flight.
Proceed(p) ==
    \/ CreateInsert(p) \/ CreateUndo(p)
    \/ CalcRead(p) \/ CalcCommit(p)
    \/ RecalculateClear(p) \/ RecalculateDelete(p)
    \/ RevertClear(p) \/ RevertUpdate(p)
    \/ ReviewCount(p) \/ ReviewUpdate(p)
    \/ ApproveFind(p) \/ ApproveMark(p) \/ ApproveCount(p) \/ ApproveCommit(p)
    \/ CloseUpdate(p)

Fault(p) == CalcFails(p) \/ Abort(p)

Environment ==
    \/ \E l \in Loans : ApproveLoan(l)
    \/ \E e \in Employees : SetActive(e) \/ RemoveEmployee(e)

Next == (\E p \in Callers : Request(p) \/ Proceed(p) \/ Fault(p)) \/ Environment

Spec == Init /\ [][Next]_vars

\* Behaviours in which nothing fails.
FaultFreeNext == (\E p \in Callers : Request(p) \/ Proceed(p)) \/ Environment
FaultFreeSpec == Init /\ [][FaultFreeNext]_vars

-----------------------------------------------------------------------------
\* The rows and the requests in flight have the values the schema and the
\* service give them.
TypeOK ==
    /\ cycle \in [CycleIds -> CycleRow]
    /\ slips \subseteq SlipRow
    /\ inst \in [Installments -> InstRow]
    /\ loan \in [Loans -> LoanStatus]
    /\ staff \in [Employees -> StaffStatus]
    /\ call \in [Callers -> Call]
    /\ mixed \subseteq Months

\* No installment is taken out of two payslips, whatever the cycles, the
\* retries and the requests in flight (runCalculation, createCycle).
NoDoubleDeduction ==
    \A s, t \in slips : s # t => s.insts \cap t.insts = {}

\* An installment linked to a cycle is linked to the cycle of the month it is
\* due in (runCalculation's due date filter and link).
LinkedInDueMonth ==
    \A i \in Installments : inst[i].link # None =>
        Exists(inst[i].link) /\ cycle[inst[i].link].month = Due[i]

\* An installment is DEDUCTED only if it is on a published payslip: what the
\* loan no longer asks for was taken out of the employee's pay (approve).
DeductedWasPaid ==
    \A i \in Installments : inst[i].status = "DEDUCTED" /\ Due[i] \notin mixed =>
        \E s \in slips : Published(s.cycle) /\ i \in s.insts

-----------------------------------------------------------------------------
(* What the repository says of the payroll and its code does not do.       *)

\* Every installment on a published payslip is DEDUCTED: what was taken out
\* of the pay is no longer owed (approve "locks loan installments as DEDUCTED").
PaidIsDeducted ==
    \A s \in slips : Published(s.cycle) =>
        \A i \in s.insts : inst[i].status = "DEDUCTED"

\* A loan with all its installments DEDUCTED is PAID_OFF (approve "marks loans
\* PAID_OFF when all installments are deducted").
DeductedIsPaidOff ==
    \A l \in Loans :
        (\A i \in Installments :
            LoanOf[i] = l => inst[i].status = "DEDUCTED" /\ Due[i] \notin mixed)
        => loan[l] = "PAID_OFF"

\* "Immutable calculation": the payslips of an APPROVED cycle stay (approve, and
\* EmployeeService.remove, which knows nothing of it).
PublishedStays ==
    [][\A c \in CycleIds : Published(c) => SlipsOf(c) \subseteq SlipsOf(c)']_vars

\* "Re-run calculation - only while DRAFT": a cycle gets payslips in DRAFT only
\* (recalculate, which asserts the status before its three statements).
CalculatedInDraft ==
    [][\A c \in CycleIds :
          ~(SlipsOf(c)' \subseteq SlipsOf(c)) => cycle[c].status = "DRAFT"]_vars
=============================================================================
