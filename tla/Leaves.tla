------------------------------- MODULE Leaves -------------------------------
(***************************************************************************)
(* Leave requests (backend/src/modules/leave/leave.service.ts) over the    *)
(* attendance records their approval writes.                               *)
(*                                                                         *)
(* A review reads the request, checks that it is PENDING and that the actor*)
(* may review it, and then updates it by id.  Approving is one transaction *)
(* that writes the request and every day of the leave without reading, so  *)
(* it takes effect at its commit.  Who may review is a check on values that*)
(* never change here; a call that is refused is no step.                   *)
(***************************************************************************)
EXTENDS Attendance

CONSTANTS
    LeaveIds,   \* primary keys of leave_requests
    WestOfUtc   \* DEFAULT_TZ lies west of Greenwich

ASSUME LeavesAssumption ==
    /\ None \notin LeaveIds
    /\ WestOfUtc \in BOOLEAN

VARIABLES
    leave,     \* leave_requests: id -> [from, to, status]
    review,    \* caller -> the leave call it executes
    overruled  \* history: the days whose record an administrator wrote since leave was last
               \* approved on them, or that a punch had already read when it was approved

leaveVars == <<leave, review, overruled>>
vars == <<attendanceVars, leaveVars>>

NoLeave == [from |-> None, to |-> None, status |-> "UNUSED"]
LeaveRow == {NoLeave} \cup
    [from: Days, to: Days, status: {"PENDING", "APPROVED", "REJECTED", "DELETED"}]
Review == [pc: {"idle", "approve", "reject", "remove"}, leave: LeaveIds \cup {None}]
NoReview == [pc |-> "idle", leave |-> None]

Reviewing(p, step) == review[p].pc = step
EndReview(p) == review' = [review EXCEPT ![p] = NoReview]
SetLeave(l, status) == leave' = [leave EXCEPT ![l].status = status]
IsRow(l) == leave[l].status \in {"PENDING", "APPROVED", "REJECTED"}

\* normalizeToTenantDay of a date that Prisma returns as midnight UTC.
TenantDayOfDate(d) == IF WestOfUtc THEN d - 1 ELSE d

\* eachUtcDay(from, to); days outside Days have records that are not modelled.
LeaveDays(l) ==
    {d \in Days : TenantDayOfDate(leave[l].from) <= d /\ d <= TenantDayOfDate(leave[l].to)}

\* create
CreateLeave(p, l, from, to) ==
    /\ At(p, "idle") /\ Reviewing(p, "idle")
    /\ leave[l] = NoLeave
    /\ from <= to
    /\ leave' = [leave EXCEPT ![l] = [from |-> from, to |-> to, status |-> "PENDING"]]
    /\ UNCHANGED <<attendanceVars, review, overruled>>

\* requirePending and assertCanReview; remove makes the same check of status.
ReviewBegin(p, l, step) ==
    /\ At(p, "idle") /\ Reviewing(p, "idle")
    /\ leave[l].status = "PENDING"
    /\ review' = [review EXCEPT ![p] = [pc |-> step, leave |-> l]]
    /\ UNCHANGED <<attendanceVars, leave, overruled>>

\* The row an approved leave leaves behind on a day; a record that is there
\* keeps its shift.
OnLeave(d) ==
    [NoRow EXCEPT !.status = "LEAVE", !.shift = IF row[d] = NoRow THEN EmpShift ELSE row[d].shift]

\* A punch that has read the record of the day and will write it without another look.
PunchUnderWay(d) == \E q \in Callers : call[q].pc \in {"in.write", "out.write"} /\ call[q].day = d
Overrule(l) ==
    overruled' = (overruled \ LeaveDays(l)) \cup {d \in LeaveDays(l) : PunchUnderWay(d)}

ApproveKeepsPunches(p) ==    \* variant: the punches of the day stay
    LET l == review[p].leave
    IN  /\ Reviewing(p, "approve")
        /\ SetLeave(l, "APPROVED")
        /\ row' = [d \in Days |-> IF d \in LeaveDays(l) /\ row[d] # NoRow
                                  THEN [row[d] EXCEPT !.status = "LEAVE"] ELSE row[d]]
        /\ Overrule(l)
        /\ EndReview(p)
        /\ UNCHANGED call
Approve(p) ==
    LET l == review[p].leave
    IN  /\ Reviewing(p, "approve")
        /\ IF IsRow(l)
           THEN /\ SetLeave(l, "APPROVED")
                /\ row' = [d \in Days |-> IF d \in LeaveDays(l) THEN OnLeave(d) ELSE row[d]]
                /\ Overrule(l)
           ELSE UNCHANGED <<leave, row, overruled>>    \* P2025: the transaction rolls back
        /\ EndReview(p)
        /\ UNCHANGED call

Reject(p) ==
    LET l == review[p].leave
    IN  /\ Reviewing(p, "reject")
        /\ IF IsRow(l) THEN SetLeave(l, "REJECTED") ELSE UNCHANGED leave
        /\ EndReview(p)
        /\ UNCHANGED <<attendanceVars, overruled>>

Remove(p) ==
    LET l == review[p].leave
    IN  /\ Reviewing(p, "remove")
        /\ IF IsRow(l) THEN SetLeave(l, "DELETED") ELSE UNCHANGED leave
        /\ EndReview(p)
        /\ UNCHANGED <<attendanceVars, overruled>>

AbortReview(p) ==
    /\ ~Reviewing(p, "idle")
    /\ EndReview(p)
    /\ UNCHANGED <<attendanceVars, leave, overruled>>

-----------------------------------------------------------------------------
Init ==
    /\ AttendanceInit
    /\ leave = [l \in LeaveIds |-> NoLeave]
    /\ review = [p \in Callers |-> NoReview]
    /\ overruled = {}

LeaveCall(p) ==
    \/ \E l \in LeaveIds : \/ \E from, to \in Days : CreateLeave(p, l, from, to)
                           \/ \E step \in {"approve", "reject", "remove"} : ReviewBegin(p, l, step)
    \/ Approve(p) \/ Reject(p) \/ Remove(p) \/ AbortReview(p)

AttendanceCall(p) ==
    /\ Reviewing(p, "idle")
    /\ BeginCall(p) \/ Proceed(p)
    /\ overruled' = IF At(p, "in.write") \/ At(p, "out.write") THEN overruled
                    ELSE overruled \cup {d \in Days : row'[d] # row[d]}
    /\ UNCHANGED <<leave, review>>

Next == \E p \in Callers : AttendanceCall(p) \/ LeaveCall(p)
Spec == Init /\ [][Next]_vars

-----------------------------------------------------------------------------
\* Leave requests and the calls about them have the values the schema and the
\* service give them.
TypeOK ==
    /\ AttendanceTypeOK
    /\ leave \in [LeaveIds -> LeaveRow]
    /\ review \in [Callers -> Review]
    /\ overruled \subseteq Days

\* The record of each day of an approved leave says so, without punches, delay or overtime
\* (approve), however reviews, punches and entries overlap: a punch that begins afterwards
\* cannot undo it, only an administrator, or a punch that had read the record before.  The
\* day is the one that normalizeToTenantDay gives (LeaveOnItsDates).
LeaveIsKept ==
    \A l \in LeaveIds : leave[l].status = "APPROVED" =>
        \A d \in leave[l].from .. leave[l].to :
            TenantDayOfDate(d) \in Days \ overruled =>
                row[TenantDayOfDate(d)] = [NoRow EXCEPT !.status = "LEAVE", !.shift = row[TenantDayOfDate(d)].shift]

-----------------------------------------------------------------------------
(* What the repository says of leave and its code does not do.             *)

\* "Leave request is not pending", "Only pending leave can be cancelled": a decided leave
\* keeps its decision.
DecidedLeaveStays ==
    [][\A l \in LeaveIds : leave[l].status \in {"APPROVED", "REJECTED"} =>
          leave'[l].status = leave[l].status]_vars

\* A date is what its row says ("we extract Y/M/D with getUTC*, never local getters"): the
\* leave is recorded on its own dates, wherever the company is.
LeaveOnItsDates ==
    \A l \in LeaveIds : leave[l].status = "APPROVED" =>
        \A d \in (leave[l].from .. leave[l].to) \cap (Days \ overruled) : row[d].status = "LEAVE"
=============================================================================
