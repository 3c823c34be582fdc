---------------------------- MODULE LeavesProofs ----------------------------
(***************************************************************************)
(* Proofs about AttendanceTime, Attendance and Leaves, for any calendar,   *)
(* shifts, requests and number of calls in flight.                         *)
(***************************************************************************)
EXTENDS Leaves, TLAPS

-----------------------------------------------------------------------------
(* The time engine.                                                        *)
LEMMA Products ==
  ASSUME NEW a \in Nat, NEW b \in Nat
  PROVE  a * b \in Nat /\ (a + 1) * b = a * b + b
  OBVIOUS

LEMMA WallClockInstant ==
  ASSUME NEW d \in Days, NEW t \in WallClock, NEW k \in {0, 1}
  PROVE  WallClockToInstant(d, t, k) \in Nat \cup {Invalid}
         /\ (k = 0 => WallClockToInstant(d, t, k) \in Nat)
  <1>1. d \in Nat /\ Ticks \in Nat /\ t \in Nat
    BY TimeAssumption DEF WallClock
  <1>2. (d + k) * Ticks \in Nat
    BY <1>1, Products
  <1> QED
    BY <1>1, <1>2 DEF WallClockToInstant

\* A shift ends after it starts, overnight shifts included, wherever its end is
\* a date at all (the unit test's "builds overnight window across midnight").
THEOREM ShiftEndsAfterStart ==
  ASSUME NEW d \in Days, NEW s \in ShiftTimes, ShiftEnd(d, s) # Invalid
  PROVE  ShiftStart(d, s) \in Nat /\ ShiftEnd(d, s) \in Nat /\ ShiftStart(d, s) < ShiftEnd(d, s)
  <1>1. d \in Nat /\ Ticks \in Nat /\ s.start \in 0 .. Ticks - 1 /\ s.end \in 0 .. Ticks - 1
    BY TimeAssumption DEF ShiftTimes, WallClock
  <1>2. d * Ticks \in Nat /\ (d + 1) * Ticks = d * Ticks + Ticks
    BY <1>1, Products
  <1>3. ShiftStart(d, s) = d * Ticks + s.start
    BY <1>1 DEF ShiftStart, WallClockToInstant
  <1>4. ShiftEnd(d, s) = IF s.end <= s.start THEN (d + 1) * Ticks + s.end ELSE d * Ticks + s.end
    BY <1>1 DEF ShiftEnd, WallClockToInstant, CrossesMidnight
  <1> QED
    BY <1>1, <1>2, <1>3, <1>4

\* The end the engine computes is the scheduled one, except for the overnight
\* shift of the last day of a month, whose end is no date.
THEOREM ShiftEndIsScheduled ==
  ASSUME NEW d \in Days, NEW s \in ShiftTimes
  PROVE  ShiftEnd(d, s) = IF CrossesMidnight(s) /\ d \in MonthEnds THEN Invalid
                          ELSE ScheduledEnd(d, s)
  <1>1. d \in Nat /\ Ticks \in Nat
    BY TimeAssumption
  <1> QED
    BY <1>1 DEF ShiftEnd, WallClockToInstant, ScheduledEnd

LEMMA MetricsType ==
  ASSUME NEW d \in Days, NEW in \in Instants \cup {None}, NEW out \in Instants \cup {None},
         NEW shift \in Shifts \cup {None}
  PROVE  Metrics(d, in, out, Times(shift)) \in MetricsValue
  <1> DEFINE s == Times(shift)
  <1>1. s = None \/ s \in ShiftTimes
    BY AttendanceAssumption DEF Times
  <1>2. Delay(d, in, s) \in Nat
    <2>1. CASE s # None /\ in # None
      <3>1. in \in Nat /\ s.grace \in Nat /\ ShiftStart(d, s) \in Nat
        BY <1>1, <2>1, WallClockInstant, AttendanceAssumption DEF ShiftTimes, ShiftStart
      <3> HIDE DEF s
      <3> QED
        BY <3>1 DEF Delay
    <2>2. CASE ~(s # None /\ in # None)
      <3> HIDE DEF s
      <3> QED
        BY <2>2 DEF Delay
    <2> QED
      BY <2>1, <2>2
  <1>3. Overtime(d, in, out, s) \in Nat
    <2>1. CASE s # None /\ out # None
      <3>1. out \in Nat /\ ShiftEnd(d, s) \in Nat \cup {Invalid}
        BY <1>1, <2>1, WallClockInstant, AttendanceAssumption DEF ShiftTimes, ShiftEnd
      <3> HIDE DEF s
      <3> QED
        BY <3>1 DEF Overtime
    <2>2. CASE ~(s # None /\ out # None)
      <3> HIDE DEF s
      <3> QED
        BY <2>2 DEF Overtime
    <2> QED
      BY <2>1, <2>2
  <1> HIDE DEF s
  <1> QED
    BY <1>2, <1>3 DEF Metrics, MetricsValue, s

LEMMA ComputedType ==
  ASSUME NEW d \in Days, NEW in \in Instants \cup {None}, NEW out \in Instants \cup {None},
         NEW shift \in Shifts \cup {None}, NEW given
  PROVE  Computed(d, in, out, shift, given) \in MetricsValue
  BY MetricsType DEF Computed, Given, Zero, MetricsValue

-----------------------------------------------------------------------------
(* Absences have no punches.                                               *)

\* A record, in memory or in the table, of an absence without punches.
Proper(r) == r \in Record /\ (r.status \in {"ABSENT", "LEAVE"} => r.in = None /\ r.out = None)

CallSound(c) ==
    /\ c.pc \in {"in.find", "in.write"} =>
          /\ c.day \in Days /\ c.new.status = "PRESENT"
          /\ c.new.in \in Instants /\ c.new.shift \in Shifts
    /\ c.pc = "out.find" => c.new.out \in Instants
    /\ c.pc = "out.write" => c.day \in Days /\ c.new.out \in Instants
    /\ c.pc = "patch.write" => c.day \in Days /\ Proper(c.new)

\* A review under way is of some leave.
NamesItsLeave == \A p \in Callers : review[p].pc # "idle" => review[p].leave \in LeaveIds

IInv ==
    /\ TypeOK
    /\ \A d \in Days : row[d] = NoRow \/ Proper(row[d])
    /\ \A p \in Callers : CallSound(call[p])
    /\ NamesItsLeave

LEMMA IdleSound == Idle \in Call /\ CallSound(Idle)
  BY DEF Idle, Call, Draft, NoRow, Zero, MetricsValue, CallSound

LEMMA InitIInv == Init => IInv
  BY IdleSound DEF Init, AttendanceInit, IInv, TypeOK, AttendanceTypeOK, LeaveRow, NoLeave,
                   Review, NoReview, NamesItsLeave

\* What a call about attendance does to leave requests: nothing, but that an administrator
\* may overrule an approved one on some days.
LeavesUntouched == UNCHANGED <<leave, review>> /\ overruled' \subseteq Days

\* A step of caller p: it writes at most one proper record and goes on as c.
LEMMA CallStep ==
  ASSUME IInv, NEW p \in Callers, NEW c \in Call, Become(p, c), CallSound(c), LeavesUntouched,
         \/ UNCHANGED row
         \/ \E d \in Days, r \in Record : Proper(r) /\ Write(d, r)
  PROVE  IInv'
  <1>1. row' \in [Days -> Record \cup {NoRow}] /\ \A d \in Days : row'[d] = NoRow \/ Proper(row'[d])
    BY DEF IInv, TypeOK, AttendanceTypeOK, Write
  <1>2. call' \in [Callers -> Call] /\ \A q \in Callers : CallSound(call'[q])
    BY DEF IInv, TypeOK, AttendanceTypeOK, Become
  <1> QED
    BY <1>1, <1>2 DEF IInv, TypeOK, AttendanceTypeOK, LeavesUntouched, NamesItsLeave

LEMMA RowWritten ==
  ASSUME IInv, NEW d \in Days, NEW r \in Record, Proper(r), Write(d, r), UNCHANGED call, LeavesUntouched
  PROVE  IInv'
  <1>1. row' \in [Days -> Record \cup {NoRow}] /\ \A e \in Days : row'[e] = NoRow \/ Proper(row'[e])
    BY DEF IInv, TypeOK, AttendanceTypeOK, Write
  <1> QED
    BY <1>1 DEF IInv, TypeOK, AttendanceTypeOK, LeavesUntouched, NamesItsLeave

\* What IInv says of the record of a day, also when there is none.
LEMMA Found ==
  ASSUME IInv, NEW d \in Days
  PROVE  /\ row[d].in \in Instants \cup {None} /\ row[d].out \in Instants \cup {None}
         /\ row[d].shift \in Shifts \cup {None} /\ row[d].metrics \in MetricsValue
         /\ row[d].status \in Status \cup {"NONE"}
         /\ row[d] = NoRow \/ Proper(row[d])
  <1>1. row[d] \in Record \cup {NoRow}
    BY DEF IInv, TypeOK, AttendanceTypeOK
  <1>2. Zero \in MetricsValue
    BY DEF Zero, MetricsValue
  <1> QED
    BY <1>1, <1>2 DEF IInv, Record, NoRow

LEMMA KeepCheckInBegin ==
  ASSUME IInv, NEW p \in Callers, NEW at \in Instants, NEW s \in Shifts \cup {EmpShift},
         CheckInBegin(p, at, s), LeavesUntouched
  PROVE  IInv'
  <1> DEFINE new == [NoRow EXCEPT !.status = "PRESENT", !.in = at, !.shift = s]
             c == [pc |-> "in.find", day |-> TenantDay(at), new |-> new]
  <1>1. s \in Shifts /\ TenantDay(at) \in Days /\ Become(p, c) /\ UNCHANGED row
    BY AttendanceAssumption DEF CheckInBegin
  <1>2. new \in Draft /\ new.status = "PRESENT" /\ new.in = at /\ new.shift = s
    BY <1>1 DEF Draft, NoRow, Zero, MetricsValue, Status
  <1> HIDE DEF new
  <1>3. c \in Call /\ CallSound(c)
    BY <1>1, <1>2 DEF Call, CallSound
  <1> HIDE DEF c
  <1> QED
    BY <1>1, <1>3, CallStep

LEMMA KeepCheckInFind ==
  ASSUME IInv, NEW p \in Callers, CheckInFind(p), LeavesUntouched
  PROVE  IInv'
  <1> DEFINE d == call[p].day
             mt == Metrics(d, call[p].new.in, row[d].out, TimesOf[call[p].new.shift])
             c == [call[p] EXCEPT !.pc = "in.write", !.new.metrics = mt]
  <1>1. UNCHANGED row /\ (Become(p, Idle) \/ Become(p, c))
    BY DEF CheckInFind, Return
  <1>2. call[p] \in Call /\ call[p].pc = "in.find" /\ CallSound(call[p])
    BY DEF IInv, TypeOK, AttendanceTypeOK, CheckInFind, At
  <1>3. d \in Days /\ call[p].new.in \in Instants /\ call[p].new.shift \in Shifts
        /\ call[p].new.status = "PRESENT"
    BY <1>2 DEF CallSound
  <1>4. Times(call[p].new.shift) = TimesOf[call[p].new.shift]
    BY <1>3, AttendanceAssumption DEF Times
  <1>5. mt \in MetricsValue
    <2>1. row[d].out \in Instants \cup {None}
      BY <1>3, Found
    <2> QED
      BY <1>3, <1>4, <2>1, MetricsType
  <1> HIDE DEF mt
  <1>6. c \in Call /\ CallSound(c)
    <2>1. call[p].new \in Draft
      BY <1>2 DEF Call
    <2>2. [call[p].new EXCEPT !.metrics = mt] \in Draft
      BY <2>1, <1>5 DEF Draft
    <2> QED
      BY <1>2, <1>3, <2>1, <2>2 DEF Call, CallSound, Draft
  <1> HIDE DEF c
  <1> QED
    BY <1>1, <1>6, IdleSound, CallStep

LEMMA KeepCheckInWrite ==
  ASSUME IInv, NEW p \in Callers, CheckInWrite(p), LeavesUntouched
  PROVE  IInv'
  <1> DEFINE d == call[p].day
             r == [call[p].new EXCEPT !.out = row[d].out]
  <1>1. call[p] \in Call /\ call[p].pc = "in.write" /\ CallSound(call[p])
    BY DEF IInv, TypeOK, AttendanceTypeOK, CheckInWrite, At
  <1>2. d \in Days /\ call[p].new.status = "PRESENT"
    BY <1>1 DEF CallSound
  <1>3. call[p].new \in Draft /\ row[d].out \in Instants \cup {None}
    BY <1>1, <1>2, Found DEF Call
  <1>4. r \in Record /\ Proper(r)
    BY <1>2, <1>3 DEF Draft, Record, Proper, Status
  <1>5. Write(d, r) /\ Become(p, Idle)
    BY DEF CheckInWrite, Return
  <1> HIDE DEF r, d
  <1> QED
    BY <1>2, <1>4, <1>5, IdleSound, CallStep

LEMMA KeepCheckOutBegin ==
  ASSUME IInv, NEW p \in Callers, NEW at \in Instants, CheckOutBegin(p, at), LeavesUntouched
  PROVE  IInv'
  <1> DEFINE c == [pc |-> "out.find", day |-> None, new |-> [NoRow EXCEPT !.out = at]]
  <1>1. c \in Call /\ CallSound(c)
    BY DEF Call, CallSound, Draft, NoRow, Zero, MetricsValue
  <1>2. Become(p, c) /\ UNCHANGED row
    BY DEF CheckOutBegin
  <1> HIDE DEF c
  <1> QED
    BY <1>1, <1>2, CallStep

LEMMA KeepCheckOutFind ==
  ASSUME IInv, NEW p \in Callers, CheckOutFind(p), LeavesUntouched
  PROVE  IInv'
  <1>1. call[p] \in Call /\ call[p].pc = "out.find" /\ CallSound(call[p]) /\ UNCHANGED row
    BY DEF IInv, TypeOK, AttendanceTypeOK, CheckOutFind, At
  <1>2. CASE Become(p, Idle)
    BY <1>1, <1>2, IdleSound, CallStep
  <1>3. CASE ~Become(p, Idle)
    <2>1. PICK d \in Days : Open(d) /\ Become(p, [call[p] EXCEPT !.pc = "out.write", !.day = d,
               !.new.metrics = Metrics(d, row[d].in, call[p].new.out, Times(row[d].shift))])
      BY <1>3 DEF CheckOutFind, Return
    <2> DEFINE mt == Metrics(d, row[d].in, call[p].new.out, Times(row[d].shift))
               c == [call[p] EXCEPT !.pc = "out.write", !.day = d, !.new.metrics = mt]
    <2>2. call[p].new.out \in Instants /\ call[p].new \in Draft
      BY <1>1 DEF CallSound, Call
    <2>3. mt \in MetricsValue
      BY <2>2, Found, MetricsType
    <2>4. Become(p, c)
      BY <2>1
    <2> HIDE DEF mt
    <2>5. [call[p].new EXCEPT !.metrics = mt] \in Draft
      BY <2>2, <2>3 DEF Draft
    <2>6. c \in Call /\ CallSound(c)
      BY <1>1, <2>2, <2>5 DEF Call, CallSound, Draft
    <2> HIDE DEF c
    <2> QED
      BY <1>1, <2>4, <2>6, CallStep
  <1> QED
    BY <1>2, <1>3

\* What a check-out makes of the record it closes.
LEMMA ClosedRecord ==
  ASSUME NEW r \in Record \cup {NoRow}, NEW out \in Instants, NEW mt \in MetricsValue
  PROVE  [r EXCEPT !.out = out, !.status = "PRESENT", !.metrics = mt] \in Record
  <1>1. CASE r \in Record
    BY <1>1 DEF Record, Status
  <1>2. CASE r = NoRow
    BY <1>2 DEF Record, NoRow, Status
  <1> QED
    BY <1>1, <1>2

LEMMA KeepCheckOutWrite ==
  ASSUME IInv, NEW p \in Callers, CheckOutWrite(p), LeavesUntouched
  PROVE  IInv'
  <1> DEFINE d == call[p].day
             r == [row[d] EXCEPT !.out = call[p].new.out, !.status = "PRESENT",
                                 !.metrics = call[p].new.metrics]
  <1>1. call[p] \in Call /\ call[p].pc = "out.write" /\ CallSound(call[p])
    BY DEF IInv, TypeOK, AttendanceTypeOK, CheckOutWrite, At
  <1>2. d \in Days /\ call[p].new.out \in Instants /\ call[p].new.metrics \in MetricsValue
    BY <1>1 DEF CallSound, Call, Draft
  <1>3. r \in Record /\ Proper(r)
    <2>1. row[d] \in Record \/ row[d] = NoRow
      BY <1>2, Found DEF Proper
    <2>2. r \in Record
      BY <1>2, <2>1, ClosedRecord
    <2>3. r.status = "PRESENT"
      BY <2>1 DEF Record, NoRow
    <2> HIDE DEF r
    <2> QED
      BY <2>2, <2>3 DEF Proper
  <1>4. Write(d, r) /\ Become(p, Idle)
    BY DEF CheckOutWrite, Return
  <1> HIDE DEF r, d
  <1> QED
    BY <1>2, <1>3, <1>4, IdleSound, CallStep

LEMMA OwnShiftType == \A e \in EntryBody : OwnShift(e) \in Shifts \cup {None}
  BY AttendanceAssumption DEF OwnShift, EntryBody

LEMMA KeepUpsert ==
  ASSUME IInv, NEW p \in Callers, NEW d \in Days, NEW e \in Entries, Upsert(p, d, e),
         LeavesUntouched
  PROVE  IInv'
  <1> DEFINE mt == Computed(d, e.in, e.out, OwnShift(e), e.given)
             r == [status |-> e.status, in |-> e.in, out |-> e.out, shift |-> OwnShift(e),
                   metrics |-> mt]
  <1>1. e \in EntryBody
    BY AttendanceAssumption
  <1>2. e.in \in Instants \cup {None} /\ e.out \in Instants \cup {None} /\ e.status \in Status
    BY <1>1 DEF EntryBody, Status
  <1>3. OwnShift(e) \in Shifts \cup {None} /\ mt \in MetricsValue
    BY <1>1, <1>2, OwnShiftType, ComputedType
  <1>4. Consistent(e.status, e.in, e.out) /\ Write(d, r) /\ UNCHANGED call
    BY DEF Upsert
  <1> HIDE DEF mt
  <1>5. r \in Record /\ Proper(r)
    BY <1>2, <1>3, <1>4 DEF Record, Proper, Consistent
  <1> HIDE DEF r
  <1> QED
    BY <1>4, <1>5, RowWritten

LEMMA KeepBulkUpsertRow ==
  ASSUME IInv, NEW p \in Callers, NEW d \in Days, NEW e \in BulkEntries, BulkUpsertRow(p, d, e),
         LeavesUntouched
  PROVE  IInv'
  <1>1. e \in EntryBody
    BY AttendanceAssumption
  <1>2. e.in \in Instants \cup {None} /\ e.out \in Instants \cup {None} /\ e.status \in Status
        /\ e.shift \in Shifts \cup {None}
    BY <1>1 DEF EntryBody, Status
  <1>3. PICK loaded \in IF e.shift = None THEN {EmpShift, None} ELSE {e.shift} :
          Write(d, [status |-> e.status, in |-> e.in, out |-> e.out, shift |-> OwnShift(e),
                    metrics |-> Computed(d, e.in, e.out, loaded, e.given)])
    BY DEF BulkUpsertRow
  <1> DEFINE mt == Computed(d, e.in, e.out, loaded, e.given)
             r == [status |-> e.status, in |-> e.in, out |-> e.out, shift |-> OwnShift(e),
                   metrics |-> mt]
  <1>4. loaded \in Shifts \cup {None}
    BY <1>2, AttendanceAssumption
  <1>5. OwnShift(e) \in Shifts \cup {None} /\ mt \in MetricsValue
    BY <1>1, <1>2, <1>4, OwnShiftType, ComputedType
  <1>6. Consistent(e.status, e.in, e.out) /\ Write(d, r) /\ UNCHANGED call
    BY <1>3 DEF BulkUpsertRow
  <1> HIDE DEF mt
  <1>7. r \in Record /\ Proper(r)
    BY <1>2, <1>5, <1>6 DEF Record, Proper, Consistent
  <1> HIDE DEF r
  <1> QED
    BY <1>6, <1>7, RowWritten

LEMMA KeepPatchBegin ==
  ASSUME IInv, NEW p \in Callers, NEW d \in Days, NEW b \in Patches, PatchBegin(p, d, b),
         LeavesUntouched
  PROVE  IInv'
  <1> DEFINE st == Patched(row[d].status, b.status)
             in == Patched(row[d].in, b.in)
             out == Patched(row[d].out, b.out)
             sh == Patched(row[d].shift, b.shift)
             mt == Computed(d, in, out, sh, b.given)
             new == [status |-> st, in |-> in, out |-> out, shift |-> sh, metrics |-> mt]
             c == [pc |-> "patch.write", day |-> d, new |-> new]
  <1>1. b \in PatchBody
    BY AttendanceAssumption
  <1>2. row[d] # NoRow /\ Consistent(st, in, out) /\ Become(p, c) /\ UNCHANGED row
    BY DEF PatchBegin
  <1>3. row[d] \in Record
    BY <1>2, Found DEF Proper
  <1>4. st \in Status /\ in \in Instants \cup {None} /\ out \in Instants \cup {None}
        /\ sh \in Shifts \cup {None}
    BY <1>1, <1>3 DEF PatchBody, Record, Patched, Status
  <1> HIDE DEF st, in, out, sh
  <1>5. mt \in MetricsValue
    BY <1>4, ComputedType
  <1> HIDE DEF mt
  <1>6. new \in Record /\ Proper(new)
    BY <1>2, <1>4, <1>5 DEF Record, Proper, Consistent
  <1>7. new \in Draft
    BY <1>4, <1>5 DEF Draft, Status
  <1> HIDE DEF new
  <1>8. c \in Call /\ CallSound(c)
    BY <1>6, <1>7 DEF Call, CallSound
  <1> HIDE DEF c
  <1> QED
    BY <1>2, <1>8, CallStep

LEMMA KeepPatchWrite ==
  ASSUME IInv, NEW p \in Callers, PatchWrite(p), LeavesUntouched
  PROVE  IInv'
  <1>1. call[p] \in Call /\ call[p].pc = "patch.write" /\ CallSound(call[p])
    BY DEF IInv, TypeOK, AttendanceTypeOK, PatchWrite, At
  <1>2. call[p].day \in Days /\ Proper(call[p].new) /\ call[p].new \in Record
    BY <1>1 DEF CallSound, Proper
  <1>3. Write(call[p].day, call[p].new) /\ Become(p, Idle)
    BY DEF PatchWrite, Return
  <1> QED
    BY <1>2, <1>3, IdleSound, CallStep

LEMMA KeepAbort ==
  ASSUME IInv, NEW p \in Callers, Abort(p), LeavesUntouched
  PROVE  IInv'
  BY IdleSound, CallStep DEF Abort, Return

LEMMA AttendanceKeepsIInv ==
  ASSUME IInv, NEW p \in Callers, AttendanceCall(p)
  PROVE  IInv'
  <1>1. LeavesUntouched
    BY DEF AttendanceCall, LeavesUntouched, IInv, TypeOK
  <1>2. BeginCall(p) \/ Proceed(p)
    BY DEF AttendanceCall
  <1> QED
    BY <1>1, <1>2, KeepCheckInBegin, KeepCheckInFind, KeepCheckInWrite, KeepCheckOutBegin,
       KeepCheckOutFind, KeepCheckOutWrite, KeepUpsert, KeepBulkUpsertRow, KeepPatchBegin,
       KeepPatchWrite, KeepAbort
    DEF BeginCall, Proceed

\* The steps of leave requests change records only by marking days.
LEMMA OnLeaveProper ==
  ASSUME IInv, NEW d \in Days
  PROVE  OnLeave(d) \in Record /\ Proper(OnLeave(d))
  <1> DEFINE sh == IF row[d] = NoRow THEN EmpShift ELSE row[d].shift
  <1>1. sh \in Shifts \cup {None}
    BY Found, AttendanceAssumption
  <1>2. OnLeave(d) = [NoRow EXCEPT !.status = "LEAVE", !.shift = sh]
    BY DEF OnLeave
  <1> HIDE DEF sh
  <1>3. OnLeave(d) = [status |-> "LEAVE", in |-> None, out |-> None, shift |-> sh, metrics |-> Zero]
    BY <1>2 DEF NoRow
  <1>4. Zero \in MetricsValue
    BY DEF Zero, MetricsValue
  <1>5. OnLeave(d) \in Record
    BY <1>1, <1>3, <1>4 DEF Record, Status
  <1>6. OnLeave(d).in = None /\ OnLeave(d).out = None
    BY <1>3
  <1> QED
    BY <1>5, <1>6 DEF Proper

LEMMA LeaveStep ==
  ASSUME IInv, UNCHANGED call, NamesItsLeave',
         leave' \in [LeaveIds -> LeaveRow], review' \in [Callers -> Review],
         overruled' \subseteq Days,
         \/ UNCHANGED row
         \/ \E l \in LeaveIds :
               row' = [d \in Days |-> IF d \in LeaveDays(l) THEN OnLeave(d) ELSE row[d]]
  PROVE  IInv'
  <1>1. row' \in [Days -> Record \cup {NoRow}] /\ \A d \in Days : row'[d] = NoRow \/ Proper(row'[d])
    <2>1. CASE UNCHANGED row
      BY <2>1 DEF IInv, TypeOK, AttendanceTypeOK
    <2>2. ASSUME NEW l \in LeaveIds,
                 row' = [d \in Days |-> IF d \in LeaveDays(l) THEN OnLeave(d) ELSE row[d]]
          PROVE  /\ row' \in [Days -> Record \cup {NoRow}]
                 /\ \A d \in Days : row'[d] = NoRow \/ Proper(row'[d])
      <3>1. \A d \in Days : OnLeave(d) \in Record /\ Proper(OnLeave(d))
        BY OnLeaveProper
      <3> QED
        BY <2>2, <3>1 DEF IInv, TypeOK, AttendanceTypeOK
    <2> QED
      BY <2>1, <2>2
  <1> QED
    BY <1>1 DEF IInv, TypeOK, AttendanceTypeOK

LEMMA SetLeaveType ==
  ASSUME IInv, NEW l \in LeaveIds, NEW status \in {"PENDING", "APPROVED", "REJECTED", "DELETED"},
         IsRow(l), SetLeave(l, status)
  PROVE  leave' \in [LeaveIds -> LeaveRow]
  <1>1. leave[l] \in LeaveRow /\ leave[l] # NoLeave
    BY DEF IInv, TypeOK, IsRow, NoLeave
  <1>2. [leave[l] EXCEPT !.status = status] \in LeaveRow
    BY <1>1 DEF LeaveRow
  <1> QED
    BY <1>2 DEF IInv, TypeOK, SetLeave

\* A review under way names a row, which may be gone by now.
LEMMA ReviewedLeave ==
  ASSUME IInv, NEW p \in Callers
  PROVE  review[p] \in Review /\ NoReview \in Review
  BY DEF IInv, TypeOK, Review, NoReview

LEMMA LeavesKeepIInv ==
  ASSUME IInv, NEW p \in Callers, LeaveCall(p)
  PROVE  IInv'
  <1>0. NamesItsLeave'
    <2>1. \/ UNCHANGED review \/ EndReview(p)
          \/ \E l \in LeaveIds, step \in {"approve", "reject", "remove"} :
                review' = [review EXCEPT ![p] = [pc |-> step, leave |-> l]]
      BY DEF LeaveCall, CreateLeave, ReviewBegin, Approve, Reject, Remove, AbortReview
    <2> QED
      BY <2>1 DEF IInv, TypeOK, NamesItsLeave, EndReview, NoReview
  <1>1. ASSUME NEW l \in LeaveIds, NEW from \in Days, NEW to \in Days, CreateLeave(p, l, from, to)
        PROVE  IInv'
    <2>1. [from |-> from, to |-> to, status |-> "PENDING"] \in LeaveRow
      BY DEF LeaveRow
    <2> QED
      BY <1>0, <1>1, <2>1, LeaveStep DEF CreateLeave, attendanceVars, IInv, TypeOK
  <1>2. ASSUME NEW l \in LeaveIds, NEW step \in {"approve", "reject", "remove"}, ReviewBegin(p, l, step)
        PROVE  IInv'
    <2>1. [pc |-> step, leave |-> l] \in Review
      BY DEF Review
    <2> QED
      BY <1>0, <1>2, <2>1, LeaveStep DEF ReviewBegin, attendanceVars, IInv, TypeOK
  <1> DEFINE l == review[p].leave
  <1>3. l \in LeaveIds \/ Reviewing(p, "idle")
    BY DEF IInv, NamesItsLeave, Reviewing
  <1>4. EndReview(p) => review' \in [Callers -> Review]
    BY ReviewedLeave DEF EndReview, IInv, TypeOK
  <1>5. CASE Approve(p)
    <2>1. l \in LeaveIds /\ EndReview(p) /\ UNCHANGED call
      BY <1>3, <1>5 DEF Approve, Reviewing
    <2>2. CASE IsRow(l)
      <3>1. /\ SetLeave(l, "APPROVED")
            /\ row' = [d \in Days |-> IF d \in LeaveDays(l) THEN OnLeave(d) ELSE row[d]]
            /\ Overrule(l)
        BY <1>5, <2>2 DEF Approve
      <3>2. LeaveDays(l) \subseteq Days
        BY DEF LeaveDays
      <3>3. overruled' \subseteq Days
        BY <3>1, <3>2 DEF IInv, TypeOK, Overrule
      <3> HIDE DEF l
      <3>4. leave' \in [LeaveIds -> LeaveRow]
        BY <2>1, <2>2, <3>1, SetLeaveType
      <3> QED
        BY <1>0, <1>4, <2>1, <3>1, <3>3, <3>4, LeaveStep
    <2>3. CASE ~IsRow(l)
      BY <1>0, <1>4, <1>5, <2>1, <2>3, LeaveStep DEF Approve, IInv, TypeOK
    <2> QED
      BY <2>2, <2>3
  <1>6. CASE Reject(p) \/ Remove(p)
    <2>1. l \in LeaveIds /\ EndReview(p) /\ UNCHANGED <<call, row, overruled>>
      BY <1>3, <1>6 DEF Reject, Remove, Reviewing, attendanceVars
    <2>2. CASE IsRow(l)
      <3>1. SetLeave(l, "REJECTED") \/ SetLeave(l, "DELETED")
        BY <1>6, <2>2 DEF Reject, Remove
      <3> HIDE DEF l
      <3>2. leave' \in [LeaveIds -> LeaveRow]
        BY <2>1, <2>2, <3>1, SetLeaveType
      <3> QED
        BY <1>0, <1>4, <2>1, <3>2, LeaveStep DEF IInv, TypeOK
    <2>3. CASE ~IsRow(l)
      BY <1>0, <1>4, <1>6, <2>1, <2>3, LeaveStep DEF Reject, Remove, IInv, TypeOK
    <2> QED
      BY <2>2, <2>3
  <1>7. CASE AbortReview(p)
    BY <1>0, <1>4, <1>7, LeaveStep DEF AbortReview, attendanceVars, IInv, TypeOK
  <1> QED
    BY <1>1, <1>2, <1>5, <1>6, <1>7 DEF LeaveCall

LEMMA NextKeepsIInv == IInv /\ [Next]_vars => IInv'
  <1> SUFFICES ASSUME IInv, [Next]_vars PROVE IInv'
    OBVIOUS
  <1>1. CASE Next
    <2>1. PICK p \in Callers : AttendanceCall(p) \/ LeaveCall(p)
      BY <1>1 DEF Next
    <2> QED
      BY <2>1, AttendanceKeepsIInv, LeavesKeepIInv
  <1>2. CASE UNCHANGED vars
    BY <1>2 DEF vars, attendanceVars, leaveVars, IInv, TypeOK, AttendanceTypeOK, NamesItsLeave
  <1> QED
    BY <1>1, <1>2

\* IInv is an invariant of the specification, for any number of calls in flight.
THEOREM LeavesIInv == Spec => []IInv
  BY InitIInv, NextKeepsIInv, PTL DEF Spec

\* Records, leave requests and calls are always well formed.
THEOREM LeavesTypeOK == Spec => []TypeOK
  <1>1. IInv => TypeOK
    BY DEF IInv
  <1> QED
    BY <1>1, LeavesIInv, PTL

\* assertStatusConsistency survives every interleaving: no order of punches,
\* entries, corrections and approvals, however many are in flight, leaves an
\* absence with punches.
THEOREM LeavesAbsenceHasNoPunch == Spec => []AbsenceHasNoPunch
  <1>1. IInv => AbsenceHasNoPunch
    BY DEF IInv, AbsenceHasNoPunch, Proper, NoRow
  <1> QED
    BY <1>1, LeavesIInv, PTL

-----------------------------------------------------------------------------
(* The days of approved leave.                                             *)

OnLeaveRecord(r) == r = [NoRow EXCEPT !.status = "LEAVE", !.shift = r.shift]

\* A day of an approved leave that nobody overruled is recorded, and no punch that has read
\* an earlier record of it is under way.
LInv ==
    \A l \in LeaveIds : leave[l].status = "APPROVED" =>
        \A d \in LeaveDays(l) \ overruled : OnLeaveRecord(row[d]) /\ ~PunchUnderWay(d)

LEMMA InitLInv == Init => LInv
  BY DEF Init, LInv, NoLeave

\* A punch goes on to its write on a day that it found worked, or to be closed.
LEMMA NewPunch ==
  ASSUME IInv, NEW p \in Callers, AttendanceCall(p), NEW q \in Callers,
         call'[q].pc \in {"in.write", "out.write"}, call'[q] # call[q]
  PROVE  ~OnLeaveRecord(row[call'[q].day])
  <1>t. call \in [Callers -> Call]
    BY DEF IInv, TypeOK, AttendanceTypeOK
  <1>1. ASSUME NEW c, Become(p, c) PROVE q = p /\ call'[q] = c
    BY <1>t, <1>1 DEF Become
  <1>2. ASSUME NEW c, Become(p, c), c.pc \notin {"in.write", "out.write"} PROVE FALSE
    BY <1>1, <1>2
  <1>3. ~Become(p, Idle)
    BY <1>2 DEF Idle
  <1>4. CASE CheckInFind(p)
    <2> DEFINE d == call[p].day
               mt == Metrics(d, call[p].new.in, row[d].out, TimesOf[call[p].new.shift])
               c == [call[p] EXCEPT !.pc = "in.write", !.new.metrics = mt]
    <2>1. Become(p, c) /\ row[d].status \notin {"ABSENT", "LEAVE"}
      BY <1>3, <1>4 DEF CheckInFind, Return
    <2>2. call[p] \in Call /\ call[p].pc = "in.find" /\ d \in Days
      BY <1>t, <1>4 DEF CheckInFind, At, IInv, CallSound
    <2> HIDE DEF mt
    <2>3. c.day = d
      BY <2>2 DEF Call
    <2> HIDE DEF c
    <2>4. call'[q].day = d
      BY <1>1, <2>1, <2>3
    <2>5. row[d] \in Record \cup {NoRow}
      BY <2>2 DEF IInv, TypeOK, AttendanceTypeOK
    <2> HIDE DEF d
    <2>6. ~OnLeaveRecord(row[d])
      BY <2>1, <2>5 DEF OnLeaveRecord, NoRow
    <2> QED
      BY <2>4, <2>6
  <1>5. CASE CheckOutFind(p)
    <2>1. PICK d \in Days : Open(d) /\ Become(p, [call[p] EXCEPT !.pc = "out.write", !.day = d,
               !.new.metrics = Metrics(d, row[d].in, call[p].new.out, Times(row[d].shift))])
      BY <1>3, <1>5 DEF CheckOutFind, Return
    <2> DEFINE mt == Metrics(d, row[d].in, call[p].new.out, Times(row[d].shift))
               c == [call[p] EXCEPT !.pc = "out.write", !.day = d, !.new.metrics = mt]
    <2>2. Become(p, c)
      BY <2>1
    <2> HIDE DEF mt
    <2>3. call[p] \in Call
      BY <1>t
    <2>4. c.day = d
      BY <2>3 DEF Call
    <2> HIDE DEF c
    <2>5. call'[q].day = d
      BY <1>1, <2>2, <2>4
    <2>6. ~OnLeaveRecord(row[d])
      BY <2>1 DEF Open, OnLeaveRecord, NoRow
    <2> QED
      BY <2>5, <2>6
  <1>6. ASSUME NEW at \in Instants, NEW s \in Shifts \cup {EmpShift}, CheckInBegin(p, at, s)
        PROVE  FALSE
    BY <1>2, <1>6 DEF CheckInBegin
  <1>7. ASSUME NEW at \in Instants, CheckOutBegin(p, at) PROVE FALSE
    BY <1>2, <1>7 DEF CheckOutBegin
  <1>8. ASSUME NEW d \in Days, NEW b \in Patches, PatchBegin(p, d, b) PROVE FALSE
    BY <1>2, <1>8 DEF PatchBegin
  <1>9. ASSUME UNCHANGED call PROVE FALSE
    BY <1>9
  <1> QED
    BY <1>3, <1>4, <1>5, <1>6, <1>7, <1>8, <1>9
    DEF AttendanceCall, BeginCall, Proceed, Upsert, BulkUpsertRow, CheckInWrite, CheckOutWrite,
        PatchWrite, Abort, Return

\* A call about attendance leaves the record of a day alone, unless it is an administrator's
\* or a punch that was under way on the day.
LEMMA DayUntouched ==
  ASSUME IInv, NEW p \in Callers, AttendanceCall(p), NEW d \in Days,
         d \notin overruled', ~PunchUnderWay(d)
  PROVE  row'[d] = row[d]
  <1>1. CASE ~(At(p, "in.write") \/ At(p, "out.write"))
    BY <1>1 DEF AttendanceCall
  <1>2. CASE At(p, "in.write") \/ At(p, "out.write")
    <2>1. call[p].day # d
      BY <1>2 DEF PunchUnderWay, At
    <2>2. row \in [Days -> Record \cup {NoRow}]
      BY DEF IInv, TypeOK, AttendanceTypeOK
    <2>3. \A r : Write(call[p].day, r) => row'[d] = row[d]
      BY <2>1, <2>2 DEF Write
    <2>4. CheckInWrite(p) \/ CheckOutWrite(p) \/ Abort(p)
      BY <1>2 DEF AttendanceCall, BeginCall, Proceed, CheckInBegin, CheckOutBegin, Upsert,
                  BulkUpsertRow, PatchBegin, CheckInFind, CheckOutFind, PatchWrite, At
    <2> QED
      BY <2>3, <2>4 DEF CheckInWrite, CheckOutWrite, Abort
  <1> QED
    BY <1>1, <1>2

LEMMA AttendanceKeepsLInv ==
  ASSUME IInv, LInv, NEW p \in Callers, AttendanceCall(p)
  PROVE  LInv'
  <1>0. UNCHANGED leave /\ overruled \subseteq overruled'
    BY DEF AttendanceCall
  <1> SUFFICES ASSUME NEW l \in LeaveIds, leave[l].status = "APPROVED",
                      NEW d \in LeaveDays(l), d \notin overruled'
               PROVE  OnLeaveRecord(row'[d]) /\ ~PunchUnderWay(d)'
    BY <1>0 DEF LInv, LeaveDays, OnLeaveRecord
  <1>1. d \in Days /\ OnLeaveRecord(row[d]) /\ ~PunchUnderWay(d)
    BY <1>0 DEF LInv, LeaveDays
  <1>2. row'[d] = row[d]
    BY <1>1, DayUntouched
  <1>3. ASSUME NEW q \in Callers, call'[q].pc \in {"in.write", "out.write"}, call'[q].day = d
        PROVE  FALSE
    <2>1. CASE call'[q] = call[q]
      BY <1>1, <1>3, <2>1 DEF PunchUnderWay
    <2>2. CASE call'[q] # call[q]
      BY <1>1, <1>3, <2>2, NewPunch
    <2> QED
      BY <2>1, <2>2
  <1> QED
    BY <1>1, <1>2, <1>3 DEF PunchUnderWay

LEMMA LeavesKeepLInv ==
  ASSUME IInv, LInv, NEW p \in Callers, LeaveCall(p)
  PROVE  LInv'
  <1>0. UNCHANGED call
    BY DEF LeaveCall, CreateLeave, ReviewBegin, Approve, Reject, Remove, AbortReview, attendanceVars
  <1>t. leave \in [LeaveIds -> LeaveRow] /\ (review[p].pc # "idle" => review[p].leave \in LeaveIds)
    BY DEF IInv, TypeOK, NamesItsLeave
  \* Leaves may come and go as long as none is approved.
  <1>1. ASSUME UNCHANGED <<row, overruled>>,
               \A k \in LeaveIds : leave'[k] = leave[k] \/ leave'[k].status # "APPROVED"
        PROVE  LInv'
    <2> SUFFICES ASSUME NEW k \in LeaveIds, leave'[k].status = "APPROVED"
                 PROVE  \A d \in LeaveDays(k)' \ overruled : OnLeaveRecord(row[d]) /\ ~PunchUnderWay(d)
      BY <1>0, <1>1 DEF LInv, PunchUnderWay
    <2>1. leave'[k] = leave[k] /\ LeaveDays(k)' = LeaveDays(k)
      BY <1>1 DEF LeaveDays
    <2> QED
      BY <2>1 DEF LInv
  <1>2. CASE UNCHANGED <<row, leave, overruled>>
    BY <1>1, <1>2
  <1>3. ASSUME NEW l \in LeaveIds, NEW from \in Days, NEW to \in Days, CreateLeave(p, l, from, to)
        PROVE  LInv'
    <2>1. UNCHANGED <<row, overruled>>
          /\ leave' = [leave EXCEPT ![l] = [from |-> from, to |-> to, status |-> "PENDING"]]
      BY <1>3 DEF CreateLeave, attendanceVars
    <2>2. \A k \in LeaveIds : leave'[k] = leave[k] \/ leave'[k].status # "APPROVED"
      BY <1>t, <2>1
    <2> QED
      BY <1>1, <2>1, <2>2
  <1>4. CASE Reject(p) \/ Remove(p)
    <2>a. PICK l : l = review[p].leave
      OBVIOUS
    <2>1. /\ UNCHANGED <<row, overruled>>
          /\ UNCHANGED leave \/ (IsRow(l) /\ \E st \in {"REJECTED", "DELETED"} : SetLeave(l, st))
      BY <1>4, <2>a DEF Reject, Remove, attendanceVars
    <2>2. ASSUME NEW st \in {"REJECTED", "DELETED"}, SetLeave(l, st), NEW k \in LeaveIds
          PROVE  leave'[k] = leave[k] \/ leave'[k].status # "APPROVED"
      BY <1>t, <2>2 DEF SetLeave, LeaveRow, NoLeave
    <2> QED
      BY <1>1, <2>1, <2>2
  <1>5. CASE Approve(p) /\ IsRow(review[p].leave)
    <2>a. PICK l : l = review[p].leave
      OBVIOUS
    <2>1. /\ l \in LeaveIds /\ IsRow(l) /\ SetLeave(l, "APPROVED") /\ Overrule(l)
          /\ row' = [d \in Days |-> IF d \in LeaveDays(l) THEN OnLeave(d) ELSE row[d]]
      BY <1>t, <1>5, <2>a DEF Approve, Reviewing
    <2>2. /\ leave'[l].from = leave[l].from /\ leave'[l].to = leave[l].to
          /\ \A k \in LeaveIds : k # l => leave'[k] = leave[k]
      <3>1. leave[l] \in LeaveRow /\ leave[l] # NoLeave
        BY <1>t, <2>1 DEF IsRow, NoLeave
      <3> QED
        BY <1>t, <2>1, <3>1 DEF SetLeave, LeaveRow
    <2>3. \A k \in LeaveIds : LeaveDays(k)' = LeaveDays(k)
      BY <2>2 DEF LeaveDays
    <2> SUFFICES ASSUME NEW k \in LeaveIds, leave'[k].status = "APPROVED",
                        NEW d \in LeaveDays(k), d \notin overruled'
                 PROVE  OnLeaveRecord(row'[d]) /\ ~PunchUnderWay(d)
      BY <1>0, <2>3 DEF LInv, PunchUnderWay
    <2>4. d \in Days
      BY DEF LeaveDays
    <2>5. CASE d \in LeaveDays(l)
      <3>1. ~PunchUnderWay(d)
        BY <2>1, <2>5 DEF Overrule
      <3>2. row'[d] = OnLeave(d)
        BY <2>1, <2>4, <2>5
      <3>3. OnLeaveRecord(OnLeave(d))
        <4> DEFINE sh == IF row[d] = NoRow THEN EmpShift ELSE row[d].shift
        <4>1. OnLeave(d) = [NoRow EXCEPT !.status = "LEAVE", !.shift = sh]
          BY DEF OnLeave
        <4> HIDE DEF sh
        <4> QED
          BY <4>1 DEF OnLeaveRecord, NoRow
      <3> QED
        BY <3>1, <3>2, <3>3
    <2>6. CASE d \notin LeaveDays(l)
      <3>1. k # l /\ leave[k].status = "APPROVED"
        BY <2>2, <2>6
      <3>2. d \notin overruled /\ row'[d] = row[d]
        BY <2>1, <2>4, <2>6 DEF Overrule
      <3> QED
        BY <3>1, <3>2 DEF LInv
    <2> QED
      BY <2>5, <2>6
  <1>6. CASE Approve(p) /\ ~IsRow(review[p].leave)
    BY <1>2, <1>6 DEF Approve
  <1> QED
    BY <1>2, <1>3, <1>4, <1>5, <1>6
    DEF LeaveCall, ReviewBegin, AbortReview, attendanceVars

LEMMA NextKeepsLInv == IInv /\ LInv /\ [Next]_vars => LInv'
  <1>1. ASSUME IInv, LInv, UNCHANGED vars PROVE LInv'
    <2>1. UNCHANGED <<leave, row, call, overruled>>
      BY <1>1 DEF vars, attendanceVars, leaveVars
    <2>2. \A l \in LeaveIds : LeaveDays(l)' = LeaveDays(l)
      BY <2>1 DEF LeaveDays
    <2> QED
      BY <1>1, <2>1, <2>2 DEF LInv, PunchUnderWay
  <1> QED
    BY <1>1, AttendanceKeepsLInv, LeavesKeepLInv DEF Next

\* However reviews, punches, entries, corrections and imports overlap or fail, the days of an
\* approved leave stay recorded as leave, until an administrator writes another record or a
\* punch that had read the old one does; for any calendar, shifts and time zone.
THEOREM LeavesLeaveIsKept == Spec => []LeaveIsKept
  <1>1. IInv /\ LInv => LeaveIsKept
    <2> SUFFICES ASSUME IInv, LInv, NEW l \in LeaveIds, leave[l].status = "APPROVED",
                        NEW d \in leave[l].from .. leave[l].to,
                        TenantDayOfDate(d) \in Days \ overruled
                 PROVE  OnLeaveRecord(row[TenantDayOfDate(d)])
      BY DEF LeaveIsKept, OnLeaveRecord
    <2>1. leave[l].from \in Nat /\ leave[l].to \in Nat
      <3>1. leave[l] \in LeaveRow /\ leave[l] # NoLeave
        BY DEF IInv, TypeOK, NoLeave
      <3> QED
        BY <3>1, TimeAssumption DEF LeaveRow
    <2>2. TenantDayOfDate(leave[l].from) <= TenantDayOfDate(d)
          /\ TenantDayOfDate(d) <= TenantDayOfDate(leave[l].to)
      BY <2>1 DEF TenantDayOfDate
    <2>3. TenantDayOfDate(d) \in LeaveDays(l)
      BY <2>2 DEF LeaveDays
    <2> QED
      BY <2>3 DEF LInv
  <1> QED
    BY <1>1, InitLInv, NextKeepsLInv, LeavesIInv, PTL DEF Spec
=============================================================================
