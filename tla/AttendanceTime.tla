--------------------------- MODULE AttendanceTime ---------------------------
(***************************************************************************)
(* The time engine of attendance                                           *)
(* (backend/src/common/utils/attendance-time.util.ts).                     *)
(*                                                                         *)
(* Instants are numbers of ticks in the tenant's time zone, Ticks of them  *)
(* to a day; a calendar day is its number.  A shift is a pair of wall-clock*)
(* times and a grace period, in ticks.  Rounding to whole minutes and to   *)
(* hundredths of an hour, and the ceiling of Decimal(6,2), are left out.   *)
(***************************************************************************)
EXTENDS Naturals

CONSTANTS
    Ticks,      \* ticks in a day
    Days,       \* the calendar days there are records for
    MonthEnds,  \* the days that are the last of their month
    None,       \* null
    Invalid     \* the time value of an Invalid Date: it compares with nothing

ASSUME TimeAssumption ==
    /\ Ticks \in Nat \ {0}
    /\ Days \subseteq Nat
    /\ MonthEnds \subseteq Nat
    /\ None \notin Nat /\ Invalid \notin Nat

WallClock == 0 .. Ticks - 1
ShiftTimes == [start: WallClock, end: WallClock, grace: Nat]

\* luxon's DateTime.fromObject has no day after the last of a month: adding
\* the offset to the day of the month gives no valid date there.
WallClockToInstant(day, time, offset) ==
    IF offset = 1 /\ day \in MonthEnds THEN Invalid ELSE (day + offset) * Ticks + time

TenantDay(instant) == instant \div Ticks    \* normalizeToTenantDay

CrossesMidnight(shift) == shift.end <= shift.start
ShiftStart(day, shift) == WallClockToInstant(day, shift.start, 0)
ShiftEnd(day, shift) ==
    WallClockToInstant(day, shift.end, IF CrossesMidnight(shift) THEN 1 ELSE 0)

\* checkInOutsideShiftReason returns null.
InsideShift(at, day, shift) ==
    /\ at >= ShiftStart(day, shift)
    /\ ShiftEnd(day, shift) # Invalid => at <= ShiftEnd(day, shift)

\* computeAttendanceMetrics; shift is None for a record without one.
Delay(day, checkIn, shift) ==
    LET due == ShiftStart(day, shift) + shift.grace
    IN  IF shift # None /\ checkIn # None /\ checkIn > due THEN checkIn - due ELSE 0

Overtime(day, checkIn, checkOut, shift) ==
    LET end == ShiftEnd(day, shift)
    IN  IF shift # None /\ checkIn # None /\ checkOut # None /\ end # Invalid /\ checkOut > end
        THEN checkOut - end ELSE 0

Metrics(day, checkIn, checkOut, shift) ==
    [delay |-> Delay(day, checkIn, shift),
     overtime |-> Overtime(day, checkIn, checkOut, shift),
     given |-> FALSE]
Zero == [delay |-> 0, overtime |-> 0, given |-> FALSE]

\* When the shift really ends, on whatever day of the month.
ScheduledEnd(day, shift) ==
    (IF CrossesMidnight(shift) THEN day + 1 ELSE day) * Ticks + shift.end
=============================================================================
