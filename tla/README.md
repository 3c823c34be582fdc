# A verification of the HR system

The HR system is a NestJS backend over PostgreSQL (`src/backend`) and a React
client (`src/frontend`). Companies keep employees, shifts, attendance, leave,
loans and requests in it, and run a monthly payroll. This directory holds TLA+
models of the parts whose state can go wrong, TLC configurations that check
them on small instances, and TLAPS proofs for all instances.

    tlc -config payroll.cfg MCPayroll.tla     # any run of the table below
    tlapm PayrollProofs.tla                   # any *Proofs.tla

## 1. The system

### How it runs

Every API call is an async handler of one Node process (several processes may
run). At each `await` other handlers go on. All state is in PostgreSQL, at its
default isolation READ COMMITTED; Prisma calls are statements of their own
unless they are inside `$transaction`. The code takes no explicit lock, keeps no
version column, and almost every update is by primary key alone. So the pattern
*read, check, await, update by id* is everywhere, and what it can do under
overlap, failure and retry is the main subject here. There are no background
jobs, queues or timers: what a handler leaves undone stays undone until
somebody calls again. The client keeps an access token in memory and a refresh
cookie, its pages fetch what they show, and guards redirect between them; a
browser may have several tabs, and any call or answer may be lost.

### Inventory

| Component | Code (`src/backend/src/`) | State | Operations | Correct when |
|---|---|---|---|---|
| Payroll engine | `modules/payroll/payroll.service.ts` | cycles, slips, links and status of installments, `PAID_OFF` of loans | createCycle, recalculate, revertToDraft, moveToReview, approve, close | payslips change in DRAFT only; each installment is taken once, in its month; what is deducted was paid |
| Slip calculator | `modules/payroll/payroll-calculator.ts` | none | a pure function to a payslip | amounts add up, no overtime is paid twice |
| Requests | `modules/request/request.service.ts` | requests, approval steps | create, approve, reject, cancel | two levels or an owner decide; a decision is final and is announced |
| Notifications | `modules/notification` | one row per message | createMany, markRead | whoever is affected is told |
| Attendance | `modules/attendance/attendance.service.ts` | one record per employee and day | checkIn, checkOut, upsert, bulkUpsert, update | no punch on an absence, order of punches, metrics that follow from the record |
| Time engine | `common/utils/attendance-time.util.ts` | none | days, shift windows, delay, overtime | overnight shifts and months' ends included |
| Leave | `modules/leave/leave.service.ts` | leave requests, records of their days | create, approve, reject, remove | a decision is final and marks exactly its days |
| Loans | `modules/loan/loan.service.ts`, `modules/ess/ess.service.ts` | loans, installments | create, requestLoan, approve, remove | installments come to the total to the cent, one per month |
| Self-service | `modules/ess` | none of its own | requestLoan; the rest reads | employees see their own published rows |
| Employees, seats | `modules/employee`, `modules/platform/limits.service.ts` | employees, users | create, import, update, remove | the seat cap; a removal takes payslips, loans and records with it |
| Roles | `modules/role` | roles, permissions | create, assign, remove | there is always an owner |
| Departments, shifts | `modules/department`, `modules/shift` | rows, a copied name | create, update, remove | copies agree |
| Company policy, benefits | `modules/company` | settings, salary components | update, sync | what is paid is what the policy says, once |
| Sessions | `modules/auth`, `frontend/src/lib/api-client.ts`, `providers/auth-provider.tsx` | refresh hash, reset code; cookie, access token | login, refresh, logout, reset, calls that retry | a revoked session stays revoked, no other ends by itself |
| Plans, onboarding | `modules/plans`, `modules/onboarding`, `frontend/src/app/(onboarding)`, `lib/onboarding` | subscription, step; draft, local step, page | startTrial, subscribe, updateState, complete; buttons, guards | paid time is not lost, no step back or ahead, the owner arrives |
| Salary components, documents, reports, platform | their modules | independent rows | single-row writes, reads | - |
| Guards, tenant, database | `common`, `database` | none | checks of one call | - |
| Web client, the rest | `src/frontend/src` | copies of the server's state | pages and forms | - |

How they interact: attendance reads shifts; the approval of a leave writes
attendance records; an approved request for overtime and the records of the
month are read by the calculator; the approval of a loan writes the
installments that the payroll links to a cycle, deducts and counts; the
decision about a request writes notifications; a change of the policy and the
creation of an employee each sync allowances, which the calculator reads; the
plan of a company sets the cap on its employees; the removal of an employee deletes,
by the schema's cascades, the employee's payslips, loans and installments, whatever
their status. On the server all of that is
shared rows: no component calls back another. The client meets the server only
in calls and their answers.

The behaviours that are hard to test are listed one by one, with their lines,
under `hazards` in `PROJECT.json`.


## 2. The models

Conventions in all modules:

- A *caller* is an API call in flight. `call[p]` holds its program counter and
  the local values it carries over an `await`. A handler is one action up to its
  first statement that matters and one action for each later statement; a
  transaction that reads nothing between its writes is one action, at its
  commit. A call that is refused (4xx) changes nothing and is no step.
- `Abort(p)` (`SyncStops`, `EditStops`, `ChangeStops`, `CreateFails` in the
  smaller modules) ends a call between any two statements: the process stops, the
  connection drops, PostgreSQL rolls back or Prisma's transaction times out.
- A primary key is never used twice; a row that is not there yet is a model
  value such as `Unused`, `NoRow`, `NoLeave`, `NoLoan`.
- No premise keeps calls apart. Where overlapping calls make a promise of the
  code false, the promise is stated and TLC refutes it (section 4). What still holds
  beside it is stated for all behaviours, with a *history* variable that no action reads
  and that remembers what was spoilt:

| History | Remembers |
|---|---|
| `mixed` (Payroll) | the months about which *different* requests have overlapped; the same button pressed twice is not different |
| `contested` (Loans) | the loans two approvals or removals of which overlapped |
| `overruled` (Leaves) | the days whose record an administrator wrote since leave was approved on them, or that a punch had already read when it was |
| `revoked`, and the phase `"overtaken"` of a refresh (Sessions) | the session was revoked, and neither a password nor a refresh already past its guard has opened it since |
| `crossed`, `late` (Roles) | a handler took the Owner role after another had, since the first began |
| `had` (Departments) | the names each department has had |
| `astray` (PayrollPage) | the header is the late answer of a button, for another cycle than the one selected |
| `cut` (Requests) | the requests of which a call was telling a decision when it was cut short |
| `managed`, `left`, `grants`, `byHand`, `missed`, `back`, `highest`, `unheard` | who managed whom; browsers logged out of; tokens for a code; components set by hand; employees a sync did not reach; employees brought back; the largest cap; lost answers |

- An operator marked *variant* is a plausible wrong version of the definition
  that follows it. No behaviour uses it; `PROJECT.json` pairs each with a
  property that notices it.

### Payroll

`Payroll.tla` is the whole of `payroll.service.ts` that writes:

| Action | Code |
|---|---|
| `CreateFind`, `CreateInsert`, `CreateUndo` | `createCycle`: find, insert under the unique key (company, month, year), delete after a failed calculation |
| `CalcRead`, `CalcCommit`, `CalcFails` | `runCalculation`: everything it reads, the slips it holds in memory (`computed`), its transaction |
| `RecalculateBegin`, `RecalculateClear`, `RecalculateDelete` | `recalculate`: assert DRAFT, unlink, delete the slips; then `runCalculation` |
| `RevertBegin`, `RevertClear`, `RevertUpdate` | `revertToDraft` |
| `ReviewBegin`, `ReviewCount`, `ReviewUpdate` | `moveToReview` |
| `ApproveBegin`, `ApproveFind`, `ApproveMark`, `ApproveCount`, `ApproveCommit` | `approve`, the one interactive transaction: its uncommitted work is in `locked` and `paidOff`, and the row locks it holds make others wait (`Free`, `LoanFree`) |
| `CloseBegin`, `CloseUpdate` | `close` |
| `ApproveLoan`, `SetActive`, `RemoveEmployee` | what the rest of the system changes meanwhile: `LoanService.approve`, and `update`, `remove` and `bulkRemove` of `EmployeeService`, with the cascades of the schema |

Any two requests may overlap, on any months. A slip keeps the set of installments
its `loanDeductions` adds up; its other amounts meet no other row.
`PayrollLifecycle.tla` states what the engine promises month by month, with atomic
handlers and without calls, keys or failures; `PayrollRefinement.tla` maps the one
to the other. A month in `mixed` is MIXED there and shows nothing more; the promise
about every other month is whole, whatever the requests about the mixed one do.
`Remove` is part of that promise because it is part of the code: the payslips of a
removed employee go even when published.

### Requests

`Requests.tla`: `SubmitBegin`/`SubmitInsert` (create), `ReviewBegin`,
`Authorize` (the read of the requester's manager), `Advance` (level 1),
`Finalize` (approve or reject), `CancelBegin`/`CancelUpdate`, and `NotifyOne`,
which writes one notification at a time. Actors carry the claims of their
token. `SetManager` changes managers at any moment: a level 1 approval is right if its
actor was the manager when that was read (`managed`).

### Attendance and leave

`AttendanceTime.tla` is the time engine with a day of `Ticks` ticks: instants
are numbers, wall clock, day, shift start and end are computed as the code
does, with the missing `day + 1` at a month's end (`MonthEnds`) as an invalid
date, with which no comparison is true. `Attendance.tla` has the records of one
employee (those of different employees never meet) and all five writers;
bodies of manual entries, imports and corrections come from small sets.
`Leaves.tla` adds leave requests on top: `Approve` is the transaction that
writes the leave and every one of its days; `WestOfUtc` says where
`DEFAULT_TZ` is.

### Loans

`LoanSchedule.tla` is the arithmetic: `SplitByCount`, `SplitByAmount` in cents,
and `AddUtcMonths` with the carry of `setUTCMonth`. `Loans.tla` has the
operations of the company and of self-service, statement by statement, the
removal of an employee, whose loans go with it whatever they owe, and the
payroll of a month as one action, `PayrollApproved`, that passes over loans
approved after the payslips were computed (`seen`).

### Two models of the installments, one promise

`Payroll` looks at installments one payroll statement at a time and takes their
existence for granted; `Loans` computes their amounts and dates and takes the
payroll as one step. They meet in the row (status, due month, loan), and
`Repayment.tla` says what the two services promise there together: `Approve`
gives a loan its plan of installments, once; `Collect` lets a month take, once,
some of what is due in it from APPROVED loans, and call a loan PAID_OFF when
all of its plan is taken; `Settle` is a payroll approved by two presses of one
button, which collects nothing more; `Forget` is the removal of an employee, and
`Doubt` gives up the installments of a month in `mixed`. Both models implement it, through the
mappings `LoansRefinement` and `PayrollRefinement` (`KeepsPromise` in each). So what one
takes for granted of the other (all installments appear at once, PENDING; a
month collects only what is due in it) is what the other does. `Collect` need
not take all that is due (a loan may be approved after the payslips were computed), nor
call a loan PAID_OFF at once. Amounts are no part of it: they are
`Reconciles` of `Loans`.

### Sessions

`Sessions.tla` has the row of one account (`hash`, `code`), the cookie of each
browser and the tabs. A refresh or any other call is a fetch that is sent,
checked by its guard, executed and settled, and any other may come between;
`FetchFails` loses it before or after the server saw it. Tokens are known by what
became of them: the latest signed, an earlier one, or one signed before the last
revocation (`Older`, `Dead`). `Matches` is bcrypt as the code uses it: it reads 72
bytes, which end inside a part that all refresh tokens of an account share, so every
token matches the hash of any other. `AwaitRefresh` and `Resume` are the shared
`refreshPromise` and what waits for it. `Desks` are calls of `verifyResetOtp`.

### Onboarding

`Onboarding.tla` joins the server's step, completion and billing with the
browser's draft and local step and with the wizard in each tab. A handler of a
page is a *script* of calls and local statements (`Forward`, `Button`); a call
that fails throws the rest away, as the page's `catch` does. `Effects` is what
React runs when a page is mounted or AuthProvider has another user: first the
page's own effects (`PageLocal`, `PageTarget`), then its guard (`GuardTarget`,
or `OtherEffects` outside the wizard). The owner may press any button shown,
go back, type an address or reload (`Detour`), up to a bound, and so may the
network lose calls.

### Staff

`Seats.tla` (creation under the cap, reactivation, removal, change of plan),
`Benefits.tla` (EXTENDS `Seats`: the sync of the policy's allowances, employee
by employee and name by name), `Departments.tla` (the name and its copies),
`Roles.tla` (assignment, removal, the last owner), `Slip.tla` (the payslip
of an employee as a function, in fractions of a cent that make every rate
exact, with the rounding of each total) and `PayrollPage.tla` (the page on which
a cycle is selected, recalculated and approved: `loadCycles`, `onCreate`, `act`,
the selector and the filter, and in `Effects` what React runs after each of
them, the fetches with their cancellation included; only the buttons are disabled while one of
them acts). `Staff.tla` composes them: they write
disjoint columns, so a behaviour picks one `area` and leaves the others alone;
`Benefits` composed with `Seats` is the area in which they do meet.

## 3. What the runs check

The passing runs:

| Run | Setting | Shows |
|---|---|---|
| `payroll` | two calls about any of two months, cut short and tried again; loans approved, the employee deactivated or removed meanwhile | `NoDoubleDeduction`, `LinkedInDueMonth`: an installment is on one payslip at most and linked to the cycle of its month; `DeductedWasPaid`: what a loan no longer asks for was taken out of a published payslip; `ImplementsLifecycle`, `KeepsPromise` (the refinements): the harm of different requests that overlap on one month stays with that month |
| `requests` | two overlapping calls that may be cut short, managers change | `TwoLevelApproval`, `ReviewerDecided`; `OutcomeNotified`: the employee hears of the decision that stands |
| `leaves` | two overlapping calls: punches, entries, imports, corrections, leave | `AbsenceHasNoPunch`; `LeaveIsKept`: a later punch does not undo an approved leave |
| `loans` | two overlapping calls about two loans, both kinds of split, removals | `Reconciles`, `SteadyDates`; `KeepsPromise` (the refinement): a loan is spoilt by its own calls only |
| `sessions` | one tab with a refresh beside its other call, a reset, lost calls and answers, fairness | `RevokedStaysRevoked`, `ExecutedOnce`, `EveryWaitEnds`, `RevocationReachesTabs` |
| `onboarding` | one tab, two lost calls, two detours, fairness | `NeverAhead`, `RedirectsSettle`, `OwnerArrives` |
| `onboarding_tabs` | two tabs whose calls interleave, one detour | `PastBilling`, `DashboardWhenCompleted`, `BillingFirst` |
| `staff` | creations under the cap; a policy with syncs that stop; payslips on three bases; the page with a creation | `SeatsBounded`, `PolicyIsPaid`, `SlipAddsUp` (the net and the lists shown with it), `OvertimeOnce`, `AbsenceNeverPays`, `ShowsSelected` |
| `staff_admin` | two overlapping handlers on departments, two on roles, a creation and changes of the policy whose syncs overlap, all cut short or not; a button of the payroll page beside selections and filters | `OwnNames`, `AlwaysAnOwner`, `AllowancesBounded`, `ShowsSelected` |

The runs `payroll_paid`, `sessions_logout` and `sessions_rotated` find a violation (section 4).

Each module that holds rows has one type invariant, `TypeOK` (in `Staff` made of those
of its parts: `SeatsTypeOK`, `DeptTypeOK`, ...). All of them are theorems, and hold in
the runs when they are added to an `INVARIANTS` line; so does `PaidOffIsRepaid` in `loans`.

**Bounds.** Two callers: a race in this code is between a read and a write of
one handler and the writes of others, and one other caller, started again and
again, makes them all; what needs three transactions at once is left to the
theorems, which bound nothing. One loan of two installments due in
different months: the least for which "the last installment" and "the other
month's" differ. Two cycle ids: both months at once, or one month created again after a
failed creation. Two wider instances take longer or see less and pass as well:
`CycleIds <- ThreeCycles` in `payroll.cfg` (both months and one created again, 2.0 million states),
and two employees whose loans are due in one month (`Months <- OneMonth`,
`Employees = {"emp1", "emp2"}`, `Loans = {"loan1", "loan2"}`, `TwoLoansBorrower`, `TwoLoansOf`,
`TwoLoansDue`: a cycle with two slips, one of which goes). One request, because requests do not share rows;
four users, one of each kind. Two days with four ticks each: a night shift ends
on the second, and a punch may come before, at, inside and after each bound of
a shift. Totals of 1 and 5 cents with up to three installments: zero-cent
installments, a rest, an amount above the total; first installments in the middle and at
the end of a month. In `sessions` the one tab has a refresh and another call in flight
together, which is the race of two holders of a token; several tabs that share a cookie are left to the
theorems.
Two detours and two lost calls in
`onboarding`: a call lost again while it is repeated, and going back twice to before billing.
Three employees, two names of allowances, two departments, three
users and two days of pay: a list with a next element, a name to
swap, an owner besides the two demoted, a weekend. Two cycles, a filter
that hides one of them when it is acted on, and one change by a button. The runs whose counters would
grow stop them by the supply of ids (`IdLeft`, `Slots`, `Hires`, `Edited`,
`MaxFaults`, `MaxDetours`, `MaxActs` are the guards that are bounds).

**Deadlock** is not checked where a bound or the end of the work makes the model stop: when all employees of the
`payroll` runs are removed and the cycle ids used, when the loans are used up, when the owner is at
the dashboard, when a payslip is calculated (`staff`), when the page's one action is done (`staff_admin`). All
other runs check it.
In `approve`, the one handler that holds locks over an `await`, a request waits for
rows of its own cycle and for loans; no run or theorem here says that PostgreSQL
never finds two of them waiting for each other. If it does it aborts one,
and `Abort` is that step.

**Premises.** Two properties are about some behaviours only, and say so:
`PolicyIsPaid` about syncs that do not overlap (`SyncAlone`; `AllowancesBounded` says what
overlap can do), and `NeverAhead` about one tab.

**Fairness.** In `Sessions` a tab reads its answers (weak), the server serves calls
(strong, because a lost answer starts a fetch over), and
tokens expire; nobody has to press anything. In `Onboarding` calls are served
and effects run (weak); for `OwnerArrives` alone the owner presses each button
that is shown again and again (strong): whoever leaves for good does not arrive,
and no code could change that.

## 4. Divergences

Each of these is what a comment, a document or a message of the repository says, and TLC
finds that the code does otherwise. Three have a run of their own; the quotations are under
`findings` in `PROJECT.json`:

| Run | Property | What happens | What holds anyway |
|---|---|---|---|
| `payroll_paid` | `PaidIsDeducted` | REVIEW, back to DRAFT, to REVIEW again, APPROVED, one call after the other: the slip takes the installment out of the pay, `approve` no longer finds it linked, and the employee owes it still | `DeductedWasPaid`, the converse |
| `sessions_logout` | `LoggedOutStaysOut` | a logout whose access token has expired is refused, the client shows the login page, and the cookie still opens the session | `RevokedStaysRevoked` |
| `sessions_rotated` | `RotatedIsRejected` | a refresh token that a rotation has replaced is accepted | `RevokedStaysRevoked`: none is once the hash is cleared |

The others are found in the instances of the passing runs: put the property on the cfg's
`INVARIANT` line (on its `PROPERTY` line where marked `[][.]`), change what the second column says, and TLC prints the
behaviour within seconds. Each property is a definition of its module.

| Property | Instance | What the repository says | What happens | What holds anyway |
|---|---|---|---|---|
| `PublishedStays` | `payroll`, `[][.]` | "Cycle → APPROVED (immutable calculation)." (`payroll.service.ts:475`) | removing an employee deletes payslips of APPROVED and CLOSED cycles | `ImplementsLifecycle`: nothing else does |
| `CalculatedInDraft` | `payroll`, `[][.]` | "Re-run calculation — only while DRAFT." (`payroll.service.ts:424`) | `recalculate` has asserted DRAFT and computes payslips in a cycle that was moved on since | `ImplementsLifecycle`, on all other months |
| `DeductedIsPaidOff` | `payroll` | "marks loans PAID_OFF when all installments are deducted" (`payroll.service.ts:474`) | two months approved together each leave the last installment to the other: the loan stays APPROVED for ever | `KeepsPromise`: PAID_OFF is never wrong |
| `FinalIsFinal` | `requests`, `[][.]` | "`PENDING` → `IN_REVIEW` → `APPROVED` or `REJECTED` or `CANCELLED`" (`docs/PHASE7_REQUESTS_RBAC.md:51`) | the later of two overlapping reviews replaces the earlier decision | `TwoLevelApproval`, `ReviewerDecided`, `OutcomeNotified` |
| `DecidedLeaveStays` | `leaves`, `[][.]` | "Only pending leave can be cancelled" (`leave.service.ts:279`) | an approved leave becomes rejected or is deleted, its days stay marked | `LeaveIsKept`, while it is approved |
| `LeaveOnItsDates` | `leaves` with `WestOfUtc = TRUE` | "Prisma round-trips it at UTC midnight, so we extract Y/M/D with getUTC*" (`attendance-time.util.ts:9`) | west of Greenwich leave is marked a day early | `LeaveIsKept`, on the days it is given |
| `PunchesInOrder` | `leaves` | "checkOut cannot precede checkIn" (`attendance.service.ts:124`) | a check-in completes a manual record that holds an earlier check-out | `AbsenceHasNoPunch` |
| `DerivedFromRecord` | `leaves` with NIGHT, `Instants = {8, 10}`, `BulkEntries <- BulkOwnShift` | "delay/overtime are derived purely from persisted state (idempotent)." (`attendance-time.util.ts:11`) | an import stores the employee's own shift with metrics computed without it | - |
| `OvertimeIsCounted` | `leaves` with NIGHT, `Instants = {7, 10}`, `BulkEntries <- NoBodies`, `MonthEnds = {1}` | "overtimeHours: hours worked past shiftEnd" (`attendance-time.util.ts:84`) | no overtime on the overnight shift of the last day of a month | `ShiftEndIsScheduled`, on all other days |
| `MonthByMonth` | `loans` | "each following one is +1 month" (`approve-loan.dto.ts:41`) | an installment due on the 31st has no successor in February and two in March | `SteadyDates`: a date is carried by a month at most |
| `AlwaysReconciles` | `loans` | "The schedule always reconciles to the exact total" (`loan.service.ts:89`) | two approvals store two schedules | `Reconciles`, on every loan not decided on twice at once |
| `OnlyPasswordOpens` | `sessions`, `[][.]` | "Revokes the session by clearing the stored refresh-token hash." (`auth.service.ts:304`) | a refresh that passed its guard before a logout opens the session after it | `RevokedStaysRevoked`: no later refresh does |
| `CodeConsumed` | `sessions` with `Desks = {1, 2}` | "Consumes the OTP so it cannot be replayed." (`auth.service.ts:170`) | two calls with one code both get a reset token | - |
| `HighWaterMark` | `onboarding_tabs`, `[][.]` | "Advance (or no-op) the high-water-mark step. Cannot move backward." (`onboarding.controller.ts:32`) | two tabs: a step read earlier is written over a later one | `PastBilling`: not back behind billing |
| `OwnerRemains` | `staff_admin` | "Cannot demote the last Company Owner" (`role.service.ts:261`) | two demotions leave no owner | `AlwaysAnOwner`: only two that cross do |
| `LabelsMatch` | `staff_admin` | "Keep denormalized Employee.department in sync for groupBy/reports." (`department.service.ts:102`) | an employee keeps the old name of a department | `OwnNames`: a name its own department has had |

NIGHT stands for `Shifts = {"day", "night"}`, `TimesOf <- Times2`, `EmpShift = "night"`,
`Entries <- NoBodies` and `Patches <- NoBodies`.

Seen in the code and left to the reader:

- The header and buttons of the cycle a button acted on, above the payslips of the one
  selected meanwhile (`payroll/page.tsx:436`): the page disables only its buttons. `ShowsSelected` sets
  that header aside (`astray`) and holds for the table and every other header.
- Two syncs that overlap create an allowance twice (`benefits-sync.service.ts:104`);
  `AllowancesBounded` is how often at most.
- `close` asserts APPROVED and updates by id, as all handlers do: an approval in flight twice
  puts a CLOSED cycle back to APPROVED.
- A check-in that read no record writes over the LEAVE day that was approved
  meanwhile (`attendance.service.ts:62`), two requests of one employee for a loan
  both pass the check that none waits (`ess.service.ts:267`), and a trial that was
  checked before a subscription was paid replaces it (`plans.service.ts:51`).
- After midnight a night shift refuses its own employee's check-in, because the
  day of the punch is the new day (`attendance.service.ts:54`), although the
  controller promises "from shift startTime through endTime".
- `findSlip` shows totals stored at the calculation with a breakdown of today's
  rows (`payroll.service.ts:281`).
- `startTrial` answers with `defaultTrialMaxEmployees`, while the plan it sets
  limits the company to its own cap.
- The check of jumping ahead before registration (`onboarding-guard.tsx:125`)
  never refuses a page: the guard has just set the local step to that page.
- On the pricing page, an owner who has paid and went back to it finds only
  buttons to pay again and one for a trial that is refused.
- The e-mail of a removed employee stays taken, because its user remains.
- An hourly employee who forgets to check out earns nothing for the day and
  still pays for being late (`AbsenceNeverPays` is about days with a check-out).
- On the payroll page, a button pressed under a status filter that no other cycle
  meets leaves the table loading. The dialog of a payslip (`openSlip`) and the
  lists of leave and requests show whichever answer comes last: their fetches
  are not cancelled (`leaves/page.tsx:148`).


## 5. What is proved

TLAPS checks these for all values of the constants: any number of callers, rows,
months, days and amounts, and every interleaving, failure and removal of the module. No
theorem about the server assumes that calls keep apart, but for `BenefitsPolicyPaid`; the months, loans, days and
sessions that a race did spoil are left out by the history variables of section 2, in
the property itself.

| Theorem | Under | Says |
|---|---|---|
| `PayrollIInv`, `PayrollTypeOK`, `PayrollNoDoubleDeduction`, `PayrollLinkedInDueMonth` | nothing | an installment is on one payslip at most, in its month |
| `PayrollDeductedWasPaid` | nothing | what a loan no longer asks for was taken out of a published payslip, in months not in `mixed` |
| `PayrollImplementsLifecycle` | nothing | the statements implement the atomic lifecycle of every month not in `mixed` |
| `PayrollKeepsPromise`, `LoansKeepPromise` | nothing | both services implement `Repayment` |
| `RequestsTypeOK`, `RequestsTwoLevelApproval`, `RequestsReviewerDecided` | nothing | who decided a request was entitled to |
| `RequestsOutcomeNotified` | nothing | the employee hears of the decision that stands, except of a request in `cut` |
| `ShiftEndsAfterStart`, `ShiftEndIsScheduled` | `Ticks > 0` | the shift window, with its one exception |
| `LeavesTypeOK`, `LeavesAbsenceHasNoPunch` | nothing | no punch on an absence |
| `LeavesLeaveIsKept` | nothing | an approved leave keeps its days, those in `overruled` aside |
| `SplitByCountReconciles`, `SplitByAmountReconciles` | nothing | installments come to the total |
| `DayOfMonthPreserved`, `DueDatesIncrease` | day at most 28; nothing | due dates |
| `LoansTypeOK` | nothing | rows and due dates are well formed |
| `LoansReconciles`, `LoansPaidOffIsRepaid`, `LoansSteadyDates` | nothing | the sum of a stored schedule, the meaning of PAID_OFF, the pace of the due dates, of every loan not in `contested` |
| `SessionsTypeOK`, `SessionsExecutedOnce` | nothing | no call is executed twice |
| `SessionsRevokedStaysRevoked` | nothing | a refresh that comes after a revocation opens nothing, whatever the tabs and the network do |
| `OnboardingTypeOK`, `OnboardingPastBilling`, `OnboardingDashboardWhenCompleted`, `OnboardingBillingFirst` | nothing: any number of tabs | paid or on trial is past billing; nobody passes the guards early |
| `OnboardingNeverAhead` | one tab | no page ahead of the server |
| `SeatsStayBounded` | nothing | how far the seat cap can be exceeded |
| `BenefitsTypedAlways`, `BenefitsBounded` | nothing | employees, components and syncs are well formed; an allowance is there once for each sync that may be in flight, at most |
| `BenefitsPolicyPaid` | `SyncAlone` | between syncs an allowance has the amount of the policy |
| `DepartmentsOwnNames` | nothing | an employee carries a name its own department has had |
| `RolesAlwaysAnOwner` | nothing | a company keeps an owner until a demotion crosses another (`crossed`) |
| `SlipsTyped`, `SlipsAddUp`, `SlipsPayOvertimeOnce` | inputs that are not negative (`SlipAssumption`, the DTOs' `@Min(0)`) | no amount of a payslip is negative; the net adds up to within a cent, its details to within two; overtime is paid once |
| `SlipsAbsenceNeverPays` | also: salaries by the month, delays of eight hours at most | staying away never pays more than the same day worked |
| `PageShowsSelected` | nothing | what the payroll page shows is the cycle selected, a header in `astray` aside |

The assumptions on constants are the named `ASSUME`s of the modules.

**Arguments.** Each safety theorem has an inductive invariant, checked step by
step, one lemma per action.

- *Payroll, any overlap.* `NoDoubleDeduction` is not inductive: two calculations hold slips
  in memory (`computed`) that are not rows yet. `IInv` says of rows and of
  computed slips alike that they belong to an existing cycle, list only
  installments of their own employee due in that cycle's month, one slip per
  employee; with one cycle per month (the unique key) two different slips cannot share an
  installment. No lock or status check is needed for it, and so it survives all
  the races of the findings and the removal of an employee between any two statements.
- *Payroll, month by month.* On a month that is not in `mixed`, the requests in flight are of one
  kind (`Apart`), and one of them can rely on what it has read: `AllRely` says, for each program counter,
  what of its cycle is still as it was found (DRAFT until the status is written, no slips after they were
  deleted, the rows that `approve` has locked). `RowsAgree` relates the rows:
  an installment linked to a cycle is on one of its payslips, and one that is
  DEDUCTED is linked to a published cycle. `AllPaid` and `PaidOffOnlyWhenDeducted` say what
  an approval in flight may call PAID_OFF: a loan whose installments
  are all deducted or locked by itself, those of months in `mixed` aside. The five
  (`SInv`) are inductive only together, with `IInv`.
- *Refinement.* The abstract month is a record of its status and its slips;
  `PayrollRefinement` computes it from the cycle of that month, and a statement
  touches only its own month. Of the statements of a handler at most one changes
  what is shown (the insertion, the deletion of the slips, the commit of
  the calculation, the update of the status, the commit of the approval); the
  others and all failures are stutters. A request that puts its month into `mixed` is the step
  that gives the month up. `RemoveEmployee` is the one step that changes all months at once (`Remove`).
  For `Repayment` the steps of `Payroll` that show are
  `ApproveLoan`, `RemoveEmployee`, a month's getting into `mixed` and the commit of an approval, where `AllRely` says that what was
  locked is PENDING and linked to the cycle, `IInv` that what is linked is due in its
  month, and `RowsAgree` that its loan is APPROVED. In `Loans` the
  commit of an approval finds the loan still PENDING, hence without installments,
  because two calls that decide on one loan at once put it into `contested`.
- *Requests.* `TwoLevelApproval` needs to know what a call in flight remembers:
  a call past `authorize` at level 1 has an actor who managed the requester
  (`managed` only grows), and a row at level 2 has its level 1 step
  (`LevelTwoApproved`). Steps are never deleted, so an overwritten
  decision keeps its evidence.
  `OutcomeNotified` holds under any overlap: the status a row has is announced
  already (`ToldOf`), or a call that is past its update still has the message to write
  (`Coming`), or such a call was cut short and the request is in `cut`; a later decision brings its own call with it.
- *Leave and attendance.* `Proper` (an ABSENT or LEAVE record has no punch) of
  the records and of the drafts that calls hold; a punch sets PRESENT in the
  same statement. For `LeaveIsKept`, `LInv` adds that no call in flight is about to write a punch on
  such a day: one that had read its record before the approval has put the
  day into `overruled`, and one that reads it afterwards is refused.
- *Loans.* The sum of a sequence is a recursive function, so the reconciliation
  of a split is proved by induction on the prefix, through the least
  counterexample (`Least`): a sequence whose first entries are all equal has the
  running total `n * share` (`RunningTotal`). `SInv` then carries "the schedule comes
  to the total and keeps its pace" from the call's memory (`CallSound`) to the rows (`LoanSound`) and through the collection
  by payroll, which changes no amount, for every loan that is not contested.
- *Sessions.* `ExecutedOnce` rests on `Once`: a call that was executed
  has an answer that `Retries` does not repeat. `RevokedInv` says of a revoked session that its row has no hash and that no refresh is
  between its guard and its update: one that was when the session was revoked is `"overtaken"`,
  and ends the claim when it writes.
- *Onboarding.* What a tab was told of the server never runs ahead of the rows
  (`OwnerInv`), so a guard that lets somebody pass does so for a row that is there,
  whichever tab wrote it; the rows only go forward where billing is concerned.
  `NeverAhead` also needs that the step a script is going to
  write is not below the one it was computed from (`Solo`), which another tab may have
  moved: it is proved for one tab.
- *Seats.* Each creation holds at most one seat it may fill without another
  count, so the active employees plus the creations past their count stay
  below the cap plus the number of callers. The lemma that two sets whose
  difference is bounded keep it under insertion is about cardinalities only.
- *Benefits.* The components of a name that an employee has and the syncs that have found none
  and are about to create one are together as many as there are syncs, at most (`Bound`):
  a sync that finds nothing joins the second and by creating goes over to the first.
  A sync that is alone (`AloneInv`) holds, between its `findFirst` and its write, an
  id that is still the only one of that name, or knows that there is none; the
  employees it got past are paid, the one it is at is paid for the names it
  got past.
- *Roles, departments.* Until a handler writes that began before another took the Owner role,
  the owners a change has counted are still there and not all of them are those it changes
  (`RolesInv`). A name that a handler holds over an `await` is one its
  department has had (`NamesKept`).
- *Payroll page.* A fetch in flight is for the cycle and the
  page selected, the others being cancelled; what it has read, and what is shown when nothing
  is in flight, is what the server has unless a button has just changed it (`PageInv`). The late answer
  of a button is the one thing that comes from another cycle, and it sets `astray` until the
  next header is shown.
- *Payslip.* A sum over the days of a month is the community modules'
  `SumFunction`, a recursive function on the subsets of its domain. That it exists, and
  that it is monotone, adds what one entry changes, and stays in Nat, is proved by
  the least subset for which it fails (`SmallestSubset`), and the last overtime request
  of a day by the same argument on sequences (`LastGrantIs`). The rest is arithmetic:
  rounding is monotone and moves an amount by at most half a cent; three of the
  four parts are rounded apart and once together (`RoundedApart`); a day of absence
  costs a month's salary the pay of eight hours at least, and being late for at
  most eight hours no more than that (`AbsenceCosts`).

**Only model-checked.** Liveness, which is out of the prover's reach
(`EveryWaitEnds`, `RevocationReachesTabs`, `RedirectsSettle`,
`OwnerArrives`). `AbsenceNeverPays` for salaries by the day and by the hour: there it
depends on the rates (deductions in percent and GOSI above what a day earns make a
day worked cost), so it is checked on the policies of the run, and later than
eight hours it fails on a salary by the month as well.

## 6. Not modelled

- The pages of the dashboard but for the payroll page: tables, forms, dialogs, charts
  and their styling, two thirds of the repository's lines. Each of their actions is one call of a
  handler; what they keep is a copy of the server's rows that the next fetch
  replaces. No property in this directory depends on it.
- Seeds, DTOs, controllers' routing, modules, translations, configuration: no
  state.
- Documents and uploads, reports, and platform administration but for its change of
  a company's plan (`ChangePlan` of `Seats`): single-row writes and reads.
- The removal of an employee takes payslips, loans, installments and components with it in
  `Payroll`, `Loans` and `Benefits`. That it takes requests, leave and attendance along as well is
  left out of their modules: the properties there are about one employee's rows while there are any.
- The editing of a shift while its records are stored: `Attendance` takes shifts
  as constants (see `hazards`).
- Deadlocks between two of PostgreSQL's transactions: the models let a statement wait for a row lock, and an
  aborted transaction is `Abort`, but no property is about who waits for whom.
- The claims inside an access token; days on which clocks change; who may see
  or review what (a refused call is no step; the two approval levels of
  requests are the exception).
- The onboarding pages' late answers: a handler of a page is over before the
  owner leaves the page.

The components and their status are listed in `PROJECT.json`.

## 7. Plan

Done: `Payroll` and its refinements, `Requests`, `Attendance` and `Leaves`,
`Loans`, `Sessions`, `Onboarding`, `Staff`, each with its runs, and the proofs of
section 5. Left:

1. Shifts as variables of `Attendance`, with the records computed under the old times.
2. The list pages of the client: answers that come late or after the selection
   has moved on, and rows replaced in place.
3. `AbsenceNeverPays` for salaries by the day and by the hour, under conditions
   on the rates; `PolicyIsPaid` for syncs that overlap and are run again.
