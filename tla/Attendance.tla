----------------------------- MODULE Attendance -----------------------------
(***************************************************************************)
(* The attendance records of one employee: live punches, manual entries,   *)
(* corrections and imports                                                 *)
(* (backend/src/modules/attendance/attendance.service.ts).                 *)
(*                                                                         *)
(* Records of different employees never meet, so one employee, active all  *)
(* along, is enough.                                                       *)
(* A punch reads the record and writes it in one transaction, which at     *)
(* READ COMMITTED keeps nobody from writing it in between; a correction    *)
(* reads and writes outside any transaction.                               *)
(***************************************************************************)
EXTENDS AttendanceTime

CONSTANTS
    Callers,      \* API calls that may be in flight at the same time
    Instants,     \* the instants at which somebody punches
    Shifts,       \* shift ids
    TimesOf,      \* shift id -> its ShiftTimes
    EmpShift,     \* the employee's own shift, or None
    Entries,      \* bodies of POST /attendance
    BulkEntries,  \* rows of POST /attendance/bulk
    Patches,      \* bodies of PATCH /attendance/:id
    Keep          \* a field that a PATCH does not mention

\* A body may bring its own delay and overtime (given).
EntryBody == [status: {"PRESENT", "ABSENT", "LEAVE"}, in: Instants \cup {None},
              out: Instants \cup {None}, shift: Shifts \cup {None}, given: BOOLEAN]
PatchBody == [status: {"PRESENT", "ABSENT", "LEAVE", Keep}, in: Instants \cup {None, Keep},
              out: Instants \cup {None, Keep}, shift: Shifts \cup {None, Keep}, given: BOOLEAN]

ASSUME AttendanceAssumption ==
    /\ Instants \subseteq Nat
    /\ TimesOf \in [Shifts -> ShiftTimes] /\ \A s \in Shifts : TimesOf[s] # None
    /\ EmpShift \in Shifts \cup {None}
    /\ None \notin Shifts /\ None \notin Days
    /\ Entries \subseteq EntryBody /\ BulkEntries \subseteq EntryBody
    /\ Patches \subseteq PatchBody

VARIABLES
    row,   \* attendance_records: day -> the record, or NoRow
    call   \* caller -> the API call it executes

attendanceVars == <<row, call>>

\* delayMinutes and overtimeHours, computed, or taken from the request, whose
\* values do not matter.
Given == [Zero EXCEPT !.given = TRUE]
MetricsValue == [delay: Nat, overtime: Nat, given: BOOLEAN]

Status == {"PRESENT", "ABSENT", "LEAVE"}
NoRow == [status |-> "NONE", in |-> None, out |-> None, shift |-> None, metrics |-> Zero]
Record == [status: Status, in: Instants \cup {None}, out: Instants \cup {None},
           shift: Shifts \cup {None}, metrics: MetricsValue]

Times(shift) == IF shift = None THEN None ELSE TimesOf[shift]
Computed(day, in, out, shift, given) ==
    IF given THEN Given ELSE Metrics(day, in, out, Times(shift))

\* assertStatusConsistency
Consistent(status, in, out) == status \in {"ABSENT", "LEAVE"} => in = None /\ out = None
Ordered(in, out) == in # None /\ out # None => in <= out

(***************************************************************************)
(* Calls.  new is the record a call is about to write, as far as it knows  *)
(* it; a check-out knows no more than its own columns.                     *)
(***************************************************************************)
Draft == [status: Status \cup {"NONE"}, in: Instants \cup {None}, out: Instants \cup {None},
          shift: Shifts \cup {None}, metrics: MetricsValue]
Call == [pc: {"idle", "in.find", "in.write", "out.find", "out.write", "patch.write"},
         day: Days \cup {None}, new: Draft]
Idle == [pc |-> "idle", day |-> None, new |-> NoRow]

At(p, step) == call[p].pc = step
Become(p, c) == call' = [call EXCEPT ![p] = c]
Return(p) == Become(p, Idle)
Write(day, record) == row' = [row EXCEPT ![day] = record]

(***************************************************************************)
(* checkIn.  The record is written with upsert on (employee, date).        *)
(***************************************************************************)
CheckInBegin(p, at, s) ==
    /\ At(p, "idle")
    /\ s # None /\ TenantDay(at) \in Days
    /\ InsideShift(at, TenantDay(at), TimesOf[s])
    /\ Become(p, [pc |-> "in.find", day |-> TenantDay(at),
                  new |-> [NoRow EXCEPT !.status = "PRESENT", !.in = at, !.shift = s]])
    /\ UNCHANGED row

CheckInFindAnyDay(p) ==    \* variant: the status of the day is not looked at
    LET d == call[p].day
        found == row[d]
        new == call[p].new
    IN  /\ At(p, "in.find")
        /\ IF found.in # None
           THEN Return(p)
           ELSE Become(p, [call[p] EXCEPT !.pc = "in.write",
                             !.new.metrics = Metrics(d, new.in, found.out, TimesOf[new.shift])])
        /\ UNCHANGED row
CheckInFind(p) ==
    LET d == call[p].day
        found == row[d]
        new == call[p].new
    IN  /\ At(p, "in.find")
        /\ IF found.in # None \/ found.status \in {"ABSENT", "LEAVE"}
           THEN Return(p)
           ELSE Become(p, [call[p] EXCEPT !.pc = "in.write",
                             !.new.metrics = Metrics(d, new.in, found.out, TimesOf[new.shift])])
        /\ UNCHANGED row

CheckInWrite(p) ==
    /\ At(p, "in.write")
    /\ Write(call[p].day, [call[p].new EXCEPT !.out = row[call[p].day].out])
    /\ Return(p)

(***************************************************************************)
(* checkOut closes the most recent open record.                            *)
(***************************************************************************)
Open(d) == row[d].in # None /\ row[d].out = None

CheckOutBegin(p, at) ==
    /\ At(p, "idle")
    /\ Become(p, [pc |-> "out.find", day |-> None, new |-> [NoRow EXCEPT !.out = at]])
    /\ UNCHANGED row

CheckOutFind(p) ==
    LET at == call[p].new.out
    IN  /\ At(p, "out.find")
        /\ \/ \E d \in Days :
                /\ Open(d) /\ \A e \in Days : Open(e) => row[e].in <= row[d].in
                /\ IF at < row[d].in
                   THEN Return(p)
                   ELSE Become(p, [call[p] EXCEPT !.pc = "out.write", !.day = d,
                                !.new.metrics = Metrics(d, row[d].in, at, Times(row[d].shift))])
           \/ /\ \A d \in Days : ~Open(d)
              /\ Return(p)
        /\ UNCHANGED row

CheckOutWrite(p) ==
    /\ At(p, "out.write")
    /\ Write(call[p].day, [row[call[p].day] EXCEPT !.out = call[p].new.out,
                                                   !.status = "PRESENT",
                                                   !.metrics = call[p].new.metrics])
    /\ Return(p)

(***************************************************************************)
(* upsert (manual entry) and one row of bulkUpsert, each a single write of *)
(* the whole record.  A bulk import writes its rows one by one; a row that *)
(* is refused leaves the others as they are.                               *)
(***************************************************************************)
OwnShift(e) == IF e.shift = None THEN EmpShift ELSE e.shift

Upsert(p, d, e) ==
    /\ At(p, "idle")
    /\ Consistent(e.status, e.in, e.out)
    /\ e.in # None \/ e.out # None => OwnShift(e) # None
    /\ Ordered(e.in, e.out)
    /\ Write(d, [status |-> e.status, in |-> e.in, out |-> e.out, shift |-> OwnShift(e),
                 metrics |-> Computed(d, e.in, e.out, OwnShift(e), e.given)])
    /\ UNCHANGED call

\* The shifts of an import are loaded by the ids its rows name: the
\* employee's own shift has its times only if some row names it.
BulkUpsertRow(p, d, e) ==
    /\ At(p, "idle")
    /\ Consistent(e.status, e.in, e.out)
    /\ \E loaded \in IF e.shift = None THEN {EmpShift, None} ELSE {e.shift} :
         Write(d, [status |-> e.status, in |-> e.in, out |-> e.out, shift |-> OwnShift(e),
                   metrics |-> Computed(d, e.in, e.out, loaded, e.given)])
    /\ UNCHANGED call

(***************************************************************************)
(* update (PATCH): reads the record, writes all of it back.                *)
(***************************************************************************)
Patched(old, new) == IF new = Keep THEN old ELSE new

PatchBegin(p, d, b) ==
    LET status == Patched(row[d].status, b.status)
        in == Patched(row[d].in, b.in)
        out == Patched(row[d].out, b.out)
        shift == Patched(row[d].shift, b.shift)
    IN  /\ At(p, "idle")
        /\ row[d] # NoRow
        /\ Consistent(status, in, out) /\ Ordered(in, out)
        /\ Become(p, [pc |-> "patch.write", day |-> d,
                      new |-> [status |-> status, in |-> in, out |-> out, shift |-> shift,
                               metrics |-> Computed(d, in, out, shift, b.given)]])
        /\ UNCHANGED row

PatchWrite(p) ==
    /\ At(p, "patch.write")
    /\ Write(call[p].day, call[p].new)
    /\ Return(p)

\* The server stops, or a statement fails: the transaction is rolled back.
Abort(p) ==
    /\ ~At(p, "idle")
    /\ Return(p)
    /\ UNCHANGED row

-----------------------------------------------------------------------------
AttendanceInit ==
    /\ row = [d \in Days |-> NoRow]
    /\ call = [p \in Callers |-> Idle]

BeginCall(p) ==
    \/ \E at \in Instants : \/ \E s \in Shifts \cup {EmpShift} : CheckInBegin(p, at, s)
                            \/ CheckOutBegin(p, at)
    \/ \E d \in Days : \/ \E e \in Entries : Upsert(p, d, e)
                       \/ \E e \in BulkEntries : BulkUpsertRow(p, d, e)
                       \/ \E b \in Patches : PatchBegin(p, d, b)

Proceed(p) ==
    \/ CheckInFind(p) \/ CheckInWrite(p) \/ CheckOutFind(p) \/ CheckOutWrite(p)
    \/ PatchWrite(p) \/ Abort(p)

AttendanceNext == \E p \in Callers : BeginCall(p) \/ Proceed(p)
AttendanceSpec == AttendanceInit /\ [][AttendanceNext]_attendanceVars

-----------------------------------------------------------------------------
\* Records and calls have the values the schema and the service give them.
AttendanceTypeOK ==
    /\ row \in [Days -> Record \cup {NoRow}]
    /\ call \in [Callers -> Call]

\* "ABSENT/LEAVE records cannot have check-in/check-out times": no order of punches, entries,
\* corrections and leave approvals, overlapping or not, leaves such a record.
AbsenceHasNoPunch ==
    \A d \in Days : row[d].status \in {"ABSENT", "LEAVE"} => row[d].in = None /\ row[d].out = None

-----------------------------------------------------------------------------
(* What the repository says of attendance and its code does not do.        *)

\* "checkOut cannot precede checkIn" (checkOut, upsert, update): but a check-in does not
\* look at the check-out that an entry may have brought alone.
PunchesInOrder == \A d \in Days : Ordered(row[d].in, row[d].out)

\* "delay/overtime are derived purely from persisted state": those that are not given by
\* hand are the ones of the record's own punches and shift.
DerivedFromRecord ==
    \A d \in Days : row[d] # NoRow =>
        row[d].metrics \in {Given, Metrics(d, row[d].in, row[d].out, Times(row[d].shift))}

\* "overtimeHours: hours worked past shiftEnd", before midnight or after it, on whatever day.
OvertimeIsCounted ==
    \A d \in Days :
        LET r == row[d]
            end == ScheduledEnd(d, TimesOf[r.shift])
        IN  (r.in # None /\ r.out # None /\ r.shift # None /\ ~r.metrics.given)
            => r.metrics.overtime = IF r.out > end THEN r.out - end ELSE 0
=============================================================================
