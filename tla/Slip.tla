-------------------------------- MODULE Slip --------------------------------
(***************************************************************************)
(* One employee's payslip (backend/src/modules/payroll/payroll-calculator).*)
(*                                                                         *)
(* calculateEmployeeSlip adds up the attendance of a month by the basis of *)
(* the salary, the overtime, the components, the deductions and the        *)
(* installments, and rounds each total by itself to cents.  Amounts are    *)
(* held in units of 1/Unit cent, fine enough for every rate and percentage *)
(* of the inputs to be exact, as they are in Decimal's 20 digits.          *)
(* Multipliers are halves of a day or an hour.                             *)
(***************************************************************************)
EXTENDS Integers, Sequences, FiniteSetsExt, SequencesExt

CONSTANTS
    Unit,          \* units of a cent
    Weekend,       \* days paid with the holiday multiplier
    Days,          \* of the month
    Contracts,     \* [basis, basic in cents, gosi: registered or not]
    DayRows,       \* [status, worked hours, late minutes, over hours]; "NONE" without a row
    GrantLists,    \* sequences of [day, hours]: approved overtime requests
    PartLists,     \* sequences of [type, amount, percent]: salary components
    LoanSums,      \* cents of the installments that are due
    Policies       \* [late, unexcused, excused, normal, holiday, gosiPercent]

\* None of them is negative: the DTOs have @Min(0), a record its minutes and hours.
Contract == [basis: {"HOURLY", "DAILY", "MONTHLY"}, basic: Nat, gosi: BOOLEAN]
DayRow == [status: {"PRESENT", "ABSENT", "LEAVE", "NONE"}, worked: Nat, late: Nat, over: Nat]
Grant == [day: Days, hours: Nat]
Part == [type: {"ALLOWANCE", "DEDUCTION"}, amount: Nat, percent: BOOLEAN]
Policy == [late: {"PER_MINUTE", "FIXED_AMOUNT"}, unexcused: Nat, excused: Nat, normal: Nat,
           holiday: Nat, gosiPercent: Nat]

ASSUME SlipAssumption ==
    /\ Unit \in Nat \ {0} /\ Unit % 2 = 0
    /\ IsFiniteSet(Days)
    /\ Contracts \subseteq Contract /\ DayRows \subseteq DayRow /\ Policies \subseteq Policy
    /\ GrantLists \subseteq Seq(Grant) /\ PartLists \subseteq Seq(Part) /\ LoanSums \subseteq Nat

VARIABLES
    pay,    \* what the calculation reads of the employee and the policy
    slip    \* the payslip

slipVars == <<pay, slip>>
NoSlip == [net |-> 0]

Bigger(a, b) == IF a >= b THEN a ELSE b
Percent(x, p) == (x \div 100) * p
Halves(x, n) == (x * n) \div 2

\* money: to cents, halves away from zero.
Money(x) == IF x >= 0 THEN (x + Unit \div 2) \div Unit ELSE -((-x + Unit \div 2) \div Unit)

HourRate(p) ==
    CASE p.basis = "HOURLY" -> p.basic * Unit
      [] p.basis = "DAILY" -> (p.basic * Unit) \div 8
      [] p.basis = "MONTHLY" -> (p.basic * Unit) \div 240
DayRate(p) == 8 * HourRate(p)

-----------------------------------------------------------------------------
\* resolvePaidOvertime: the clock of a day, or the last request of the list for it
\* when that is more.
LastGrant(p, d) ==
    FoldLeft(LAMBDA h, g : IF g.day = d THEN g.hours ELSE h, 0, p.grants)
ClockOver(p, d) == IF p.days[d].status = "NONE" THEN 0 ELSE p.days[d].over
PaidHoursBoth(p, d) == ClockOver(p, d) + LastGrant(p, d)    \* variant: the clock and the request
PaidHours(p, d) == Bigger(ClockOver(p, d), LastGrant(p, d))

Overtime(p) ==
    SumFunction([d \in Days |-> Halves(PaidHours(p, d) * HourRate(p),
                                       IF d \in Weekend THEN p.holiday ELSE p.normal)])

\* What a day earns; a month's salary is earned whole.
DayEarns(p, r) ==
    CASE p.basis = "DAILY" /\ r.status = "PRESENT" -> DayRate(p)
      [] p.basis = "DAILY" /\ r.status = "LEAVE" -> Bigger(Halves(DayRate(p), 2 - p.excused), 0)
      [] p.basis = "HOURLY" /\ r.status = "PRESENT" -> Bigger(r.worked - r.over, 0) * HourRate(p)
      [] OTHER -> 0
Earned(p) ==
    IF p.basis = "MONTHLY" THEN p.basic * Unit
    ELSE SumFunction([d \in Days |-> DayEarns(p, p.days[d])])

AbsenceExcused(p) ==    \* variant: only leaves are taken off
    IF p.basis # "MONTHLY" THEN 0
    ELSE Cardinality({d \in Days : p.days[d].status = "LEAVE"}) * Halves(DayRate(p), p.excused)
\* A month's salary loses its absences, the other two never had them.
Absence(p) ==
    IF p.basis # "MONTHLY" THEN 0
    ELSE SumFunction([d \in Days |->
           CASE p.days[d].status = "ABSENT" -> Halves(DayRate(p), p.unexcused)
             [] p.days[d].status = "LEAVE" -> Halves(DayRate(p), p.excused)
             [] OTHER -> 0])
LateMinutes(p, d) == IF p.days[d].status = "NONE" THEN 0 ELSE p.days[d].late
Delay(p) ==
    IF p.late = "PER_MINUTE"
    THEN SumFunction([d \in Days |-> LateMinutes(p, d)]) * (HourRate(p) \div 60)
    ELSE Cardinality({d \in Days : LateMinutes(p, d) > 0}) * HourRate(p)

PartPays(p, c) == IF c.percent THEN Percent(Earned(p), c.amount) ELSE c.amount * Unit
Parts(p, type) ==
    SumFunction([i \in DOMAIN p.parts |->
                   IF p.parts[i].type = type THEN PartPays(p, p.parts[i]) ELSE 0])
Gosi(p) == IF p.gosi THEN Percent(Earned(p) + Parts(p, "ALLOWANCE"), p.gosiPercent) ELSE 0

\* The totals, each rounded by itself, and the net of what is exact and what is rounded.
NetUnowed(gain, deductions, loans) == Bigger(Money(gain - deductions * Unit), 0)    \* variant: no installments
Net(gain, deductions, loans) == Bigger(Money(gain - (deductions + loans) * Unit), 0)
Deductions(p) == Parts(p, "DEDUCTION") + Absence(p) + Delay(p) + Gosi(p)

SlipOf(p) ==
    LET deductions == Money(Deductions(p)) IN
    [basic |-> Money(Earned(p)), allowances |-> Money(Parts(p, "ALLOWANCE")),
     overtime |-> Money(Overtime(p)), deductions |-> deductions, loans |-> p.loans,
     net |-> Net(Earned(p) + Parts(p, "ALLOWANCE") + Overtime(p), deductions, p.loans),
     shown |-> [parts |-> Money(Parts(p, "DEDUCTION")), absence |-> Money(Absence(p)),
                delay |-> Money(Delay(p)), gosi |-> Money(Gosi(p))]]

SlipInit ==
    /\ \E c \in Contracts, days \in [Days -> DayRows], g \in GrantLists, l \in PartLists,
          n \in LoanSums, y \in Policies :
         pay = [basis |-> c.basis, basic |-> c.basic, gosi |-> c.gosi, days |-> days, grants |-> g,
                parts |-> l, loans |-> n, late |-> y.late, unexcused |-> y.unexcused,
                excused |-> y.excused, normal |-> y.normal, holiday |-> y.holiday,
                gosiPercent |-> y.gosiPercent]
    /\ slip = NoSlip
Calculate ==
    /\ slip = NoSlip /\ slip' = SlipOf(pay)
    /\ UNCHANGED pay
SlipSpec == SlipInit /\ [][Calculate]_slipVars

-----------------------------------------------------------------------------
Pay == [basis: {"HOURLY", "DAILY", "MONTHLY"}, basic: Nat, gosi: BOOLEAN, days: [Days -> DayRow],
        grants: Seq(Grant), parts: Seq(Part), loans: Nat, late: {"PER_MINUTE", "FIXED_AMOUNT"},
        unexcused: Nat, excused: Nat, normal: Nat, holiday: Nat, gosiPercent: Nat]
Payslip == [basic: Nat, allowances: Nat, overtime: Nat, deductions: Nat, loans: Nat, net: Nat,
            shown: [parts: Nat, absence: Nat, delay: Nat, gosi: Nat]]

\* What is read is as the DTOs and the schema leave it, and no amount of a payslip is
\* negative ("Never pay negative").
SlipTypeOK == pay \in Pay /\ slip \in Payslip \cup {NoSlip}

Gross == slip.basic + slip.allowances + slip.overtime

Details == slip.shown.parts + slip.shown.absence + slip.shown.delay + slip.shown.gosi

\* The payslip an employee is shown adds up: its net to within a cent, although the
\* totals are rounded apart, and the deductions in its details to within two of their
\* total; a net of 0 hides no pay that was left (calculateEmployeeSlip,
\* listPayrollSlips, findSlip).
SlipAddsUp ==
    slip # NoSlip =>
        LET rest == Gross - slip.deductions - slip.loans IN
        /\ IF slip.net = 0 THEN rest <= 1 ELSE slip.net - rest \in -1 .. 1
        /\ Details - slip.deductions \in -2 .. 2

\* The overtime of a day is paid once: at least what the clock has, at most the larger
\* of the clock and the requests, and exactly this when no two requests are for one
\* day (resolvePaidOvertime).
OvertimeOnce ==
    slip # NoSlip =>
        LET Hours(d) == {pay.grants[i].hours : i \in {j \in DOMAIN pay.grants : pay.grants[j].day = d}}
            PaidFor(hours) == Money(SumFunction([d \in Days |->
                Halves(hours[d] * HourRate(pay), IF d \in Weekend THEN pay.holiday ELSE pay.normal)]))
            most == PaidFor([d \in Days |-> Max(Hours(d) \cup {ClockOver(pay, d)})])
        IN  /\ slip.overtime \in PaidFor([d \in Days |-> ClockOver(pay, d)]) .. most
            /\ IsInjective([i \in DOMAIN pay.grants |-> pay.grants[i].day]) => slip.overtime = most

\* When an absence costs a day at least, staying away never pays more than the same day
\* worked, however late it began (the three bases, Absence, Delay).
AbsenceNeverPays ==
    (slip # NoSlip /\ pay.unexcused >= 2) =>
        \A d \in Days : (pay.days[d].status = "PRESENT" /\ pay.days[d].worked > 0) =>
            SlipOf([pay EXCEPT !.days[d] = [status |-> "ABSENT", worked |-> 0, late |-> 0, over |-> 0]]).net
              <= slip.net
=============================================================================
