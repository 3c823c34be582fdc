---------------------------- MODULE LoanSchedule ----------------------------
(***************************************************************************)
(* The installment schedule of a loan                                      *)
(* (backend/src/modules/loan/loan.service.ts): how a total is split and    *)
(* when its parts fall due.  Amounts are whole cents, as in the code.      *)
(***************************************************************************)
EXTENDS Integers, Sequences

CONSTANT DaysIn   \* month of the year, counted from 0, -> its length

\* Leap years are left out.
ASSUME ScheduleAssumption == DaysIn \in [0 .. 11 -> 28 .. 31]

(***************************************************************************)
(* buildInstallmentCents                                                   *)
(***************************************************************************)
SplitByCount(total, count) ==
    LET base == total \div count
    IN  [i \in 1 .. count |-> IF i = count THEN base + (total - base * count) ELSE base]

SplitDropsRest(total, amount) ==    \* variant: the remainder gets no installment
    IF amount >= total THEN <<total>> ELSE [i \in 1 .. total \div amount |-> amount]
SplitByAmount(total, amount) ==
    LET full == total \div amount
        rest == total - full * amount
    IN  IF amount >= total THEN <<total>>
        ELSE [i \in 1 .. full + (IF rest > 0 THEN 1 ELSE 0) |-> IF i <= full THEN amount ELSE rest]

\* dto holds exactly one of numberOfInstallments and installmentAmount.
Split(total, dto) ==
    IF dto.by = "count" THEN SplitByCount(total, dto.value) ELSE SplitByAmount(total, dto.value)

(***************************************************************************)
(* addUtcMonths.  A date is [month, day], months counted from some January;*)
(* setUTCMonth carries a day the month does not have into the next month.  *)
(***************************************************************************)
MonthLength(month) == DaysIn[month % 12]
IsDate(date) == date.month \in Nat /\ date.day \in 1 .. MonthLength(date.month)

AddNoMonths(date, months) == date    \* variant: every installment is due at the start
AddUtcMonths(date, months) ==
    LET month == date.month + months
    IN  IF date.day <= MonthLength(month)
        THEN [month |-> month, day |-> date.day]
        ELSE [month |-> month + 1, day |-> date.day - MonthLength(month)]

(***************************************************************************)
(* What the installments of a schedule come to.                            *)
(***************************************************************************)
Total(amounts) ==
    LET paid[i \in 0 .. Len(amounts)] == IF i = 0 THEN 0 ELSE paid[i - 1] + amounts[i]
    IN  paid[Len(amounts)]
=============================================================================
