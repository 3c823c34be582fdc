--------------------------- MODULE PayrollProofs ---------------------------
(***************************************************************************)
(* Proofs about Payroll, for any sets of callers, cycles, months,          *)
(* employees and loans, whatever overlaps and fails: first what holds of   *)
(* every row, then what holds of the months about which no two different   *)
(* requests have overlapped - deductions are backed by published payslips, *)
(* and the statements implement the lifecycle and the loan's promise.      *)
(***************************************************************************)
EXTENDS PayrollRefinement, TLAPS

\* S is a set of slip rows that runCalculation computes for cycle c of month m.
RowsFor(c, m, S) ==
    /\ \A s \in S : s.cycle = c
    /\ \A s \in S : \A i \in s.insts : Due[i] = m /\ Borrower[LoanOf[i]] = s.emp
    /\ \A s, t \in S : s.emp = t.emp => s = t

\* One cycle per month, by the unique key.
OneCyclePerMonth ==
    \A c, d \in CycleIds : Exists(c) /\ Exists(d) /\ cycle[c].month = cycle[d].month => c = d

\* The committed slips hang on an existing cycle and hold the installments of
\* their own employee, due in the cycle's month.
SlipsSound ==
    /\ \A s \in slips : Exists(s.cycle)
    /\ \A c \in CycleIds : RowsFor(c, cycle[c].month, SlipsOf(c))

\* The installments of a loan are there from its approval to its removal.
Open == {"APPROVED", "PAID_OFF"}
ScheduledOnApproval ==
    \A i \in Installments : inst[i] # NotScheduled <=> loan[LoanOf[i]] \in Open

\* A request past its insert is about the month of its cycle.  The slips it holds in memory
\* are sound too, and only the removal of their employee takes their installments away.
\* What its transaction has updated is locked: it stays linked, and the loans stay.
Sound(cycles, insts, loans, emps, r) ==
    /\ r.pc = "create.insert" => r.month \in Months
    /\ r.pc \notin {"idle", "create.insert"} =>
         r.cycle \in CycleIds /\ cycles[r.cycle] # Unused /\ cycles[r.cycle].month = r.month
    /\ r.pc = "calc.commit" =>
         /\ RowsFor(r.cycle, r.month, r.computed)
         /\ \A s \in r.computed : \A i \in s.insts :
              insts[i] = NotScheduled => emps[s.emp] = "REMOVED"
    /\ \A i \in r.locked : insts[i].link = r.cycle
    /\ \A l \in r.paidOff : loans[l] \in Open
    /\ r.pc \in {"approve.mark", "approve.count"} => \A l \in r.todo : loans[l] # "PENDING"
    /\ r.pc # "approve.count" => r.locked = {} /\ r.paidOff = {}

SoundNow(r) == Sound(cycle, inst, loan, staff, r)
RequestsSound == \A p \in Callers : SoundNow(call[p])

IInv ==
    /\ TypeOK
    /\ OneCyclePerMonth
    /\ SlipsSound
    /\ RequestsSound
    /\ LinkedInDueMonth
    /\ ScheduledOnApproval

LEMMA InitIInv == Init => IInv
  BY ConstantsAssumption
  DEF Init, IInv, TypeOK, OneCyclePerMonth, SlipsSound, RequestsSound, SoundNow, Sound,
      LinkedInDueMonth, RowsFor, CycleRow, SlipRow, InstRow, LoanStatus, StaffStatus, Call, Idle,
      Steps, Unused, NotScheduled, Exists, SlipsOf, CycleStatus, ScheduledOnApproval, Open

LEMMA IInvNoDoubleDeduction == IInv => NoDoubleDeduction
  <1> SUFFICES ASSUME IInv, NEW s \in slips, NEW t \in slips, NEW i \in s.insts \cap t.insts
               PROVE  s = t
    BY DEF NoDoubleDeduction
  <1>1. s.cycle \in CycleIds /\ t.cycle \in CycleIds
    BY DEF IInv, TypeOK, SlipRow
  <1>2. cycle[s.cycle].month = cycle[t.cycle].month /\ s.emp = t.emp
    BY <1>1 DEF IInv, SlipsSound, RowsFor, SlipsOf
  <1>3. s.cycle = t.cycle
    BY <1>1, <1>2 DEF IInv, SlipsSound, OneCyclePerMonth
  <1> QED
    BY <1>1, <1>2, <1>3 DEF IInv, SlipsSound, RowsFor, SlipsOf

-----------------------------------------------------------------------------
(* What a step of a request does to the rows, seen from the other ones.    *)

\* No cycle appears or disappears; a status may change.
CyclesKept ==
    /\ cycle' \in [CycleIds -> CycleRow]
    /\ \A c \in CycleIds : /\ Exists(c)' <=> Exists(c)
                           /\ cycle'[c].month = cycle[c].month
                           /\ cycle'[c] = Unused <=> cycle[c] = Unused

\* No installment is scheduled or unscheduled, no loan approved or removed.
RowsKept ==
    /\ inst' \in [Installments -> InstRow]
    /\ loan' \in [Loans -> LoanStatus]
    /\ \A i \in Installments : inst'[i] = NotScheduled <=> inst[i] = NotScheduled
    /\ \A l \in Loans : loan'[l] = loan[l] \/ (loan[l] \in Open /\ loan'[l] \in Open)
    /\ UNCHANGED staff

\* The rows that other transactions have locked keep their link.
LocksKept(p) ==
    \A q \in Callers \ {p} : \A i \in call[q].locked : inst'[i].link = inst[i].link

LEMMA UnchangedKept ==
  ASSUME IInv
  PROVE  /\ UNCHANGED cycle => CyclesKept
         /\ UNCHANGED <<inst, loan, staff>> => RowsKept
         /\ \A p \in Callers : UNCHANGED inst => LocksKept(p)
         /\ UNCHANGED inst => \A i \in Installments : inst'[i].link \in {inst[i].link, None}
         /\ UNCHANGED mixed => mixed' \subseteq Months
  BY DEF IInv, TypeOK, CyclesKept, Exists, RowsKept, LocksKept

LEMMA SetStatusCyclesKept ==
  ASSUME TypeOK, NEW c \in CycleIds, NEW status \in CycleStatus, SetStatus(c, status)
  PROVE  CyclesKept
  BY DEF TypeOK, SetStatus, CyclesKept, CycleRow, CycleStatus, Unused, Exists

\* A request is as sound after the step of another as it was before.
LEMMA OthersSound ==
  ASSUME IInv, NEW p \in Callers, RowsKept, LocksKept(p),
         \A c \in CycleIds : cycle[c] # Unused =>
           cycle'[c] # Unused /\ cycle'[c].month = cycle[c].month
  PROVE  \A q \in Callers \ {p} : Sound(cycle', inst', loan', staff', call[q])
  <1> SUFFICES ASSUME NEW q \in Callers \ {p}
               PROVE  Sound(cycle', inst', loan', staff', call[q])
    OBVIOUS
  <1>1. call[q] \in Call /\ Sound(cycle, inst, loan, staff, call[q])
    BY DEF IInv, TypeOK, RequestsSound, SoundNow
  <1>2. /\ call[q].paidOff \subseteq Loans /\ call[q].todo \subseteq Loans
        /\ \A s \in call[q].computed : s.insts \subseteq Installments
    BY <1>1 DEF Call, SlipRow
  <1> QED
    BY <1>1, <1>2 DEF Sound, RowsKept, LocksKept, Open

\* A step of caller p is judged by the request it leaves p with.
LEMMA RequestStep ==
  ASSUME IInv, NEW p \in Callers, NEW r \in Call, Become(p, r),
         Sound(cycle', inst', loan', staff', r),
         \A q \in Callers \ {p} : Sound(cycle', inst', loan', staff', call[q])
  PROVE  call' \in [Callers -> Call] /\ RequestsSound'
  BY DEF IInv, TypeOK, Become, RequestsSound, SoundNow

LEMMA ScheduledKept == IInv /\ RowsKept => ScheduledOnApproval'
  BY ConstantsAssumption DEF IInv, ScheduledOnApproval, RowsKept

LEMMA CyclesKeptFacts ==
  ASSUME IInv, CyclesKept
  PROVE  /\ OneCyclePerMonth'
         /\ slips' \subseteq slips => slips' \subseteq SlipRow /\ SlipsSound'
         /\ (\A i \in Installments : inst'[i].link \in {inst[i].link, None}) => LinkedInDueMonth'
  <1> USE DEF IInv, CyclesKept
  <1>1. OneCyclePerMonth'
    BY DEF OneCyclePerMonth
  <1>2. ASSUME slips' \subseteq slips
        PROVE  slips' \subseteq SlipRow /\ SlipsSound'
    <2>1. \A s \in slips : s.cycle \in CycleIds
      BY DEF TypeOK, SlipRow
    <2> QED
      BY <1>2, <2>1 DEF TypeOK, SlipsSound, SlipsOf, RowsFor
  <1>3. ASSUME \A i \in Installments : inst'[i].link \in {inst[i].link, None}
        PROVE  LinkedInDueMonth'
    <2>1. \A i \in Installments : inst[i].link \in CycleIds \cup {None}
      BY DEF TypeOK, InstRow, NotScheduled
    <2> QED
      BY <1>3, <2>1 DEF LinkedInDueMonth
  <1> QED
    BY <1>1, <1>2, <1>3

\* The steps that leave the cycles alone or only move a status, take nothing
\* but rows and links away, and leave the caller with request r.
LEMMA QuietStep ==
  ASSUME IInv, NEW p \in Callers, NEW r \in Call, Become(p, r), CyclesKept, RowsKept, LocksKept(p),
         SoundNow(r), UNCHANGED inst \/ r.locked = {},
         slips' \subseteq slips,
         \A i \in Installments : inst'[i].link \in {inst[i].link, None},
         mixed' \subseteq Months
  PROVE  IInv'
  <1>1. /\ OneCyclePerMonth' /\ SlipsSound' /\ LinkedInDueMonth' /\ slips' \subseteq SlipRow
        /\ ScheduledOnApproval'
    BY CyclesKeptFacts, ScheduledKept
  <1>2. Sound(cycle', inst', loan', staff', r)
    <2>1. r.paidOff \subseteq Loans /\ r.todo \subseteq Loans /\ \A s \in r.computed : s.insts \subseteq Installments
      BY DEF Call, SlipRow
    <2> QED
      BY <2>1 DEF SoundNow, Sound, CyclesKept, RowsKept, Open
  <1>3. \A q \in Callers \ {p} : Sound(cycle', inst', loan', staff', call[q])
    BY OthersSound DEF CyclesKept
  <1>4. call' \in [Callers -> Call] /\ RequestsSound'
    BY <1>2, <1>3, RequestStep
  <1> QED
    BY <1>1, <1>4 DEF IInv, TypeOK, CyclesKept, RowsKept

\* A step that only reads.
LEMMA ReadStep ==
  ASSUME IInv, NEW p \in Callers, NEW r \in Call, Become(p, r), SoundNow(r),
         UNCHANGED <<cycle, slips, inst, loan, staff>>, mixed' \subseteq Months
  PROVE  IInv'
  BY UnchangedKept, QuietStep

LEMMA IdleSound == Idle \in Call /\ SoundNow(Idle) /\ Idle.pc = "idle" /\ Idle.locked = {}
  BY ConstantsAssumption DEF Idle, Call, Steps, SoundNow, Sound

\* A request past its insert that moves on to a step that needs nothing more.
LEMMA MovedRequest ==
  ASSUME IInv, NEW p \in Callers, NEW step \in Steps,
         call[p].pc \notin {"idle", "create.insert", "approve.count"},
         step \notin {"calc.commit", "create.insert", "approve.mark", "approve.count"}
  PROVE  /\ [call[p] EXCEPT !.pc = step] \in Call
         /\ SoundNow([call[p] EXCEPT !.pc = step])
         /\ [call[p] EXCEPT !.pc = step].locked = {}
         /\ call[p].cycle \in CycleIds
  BY DEF IInv, TypeOK, RequestsSound, SoundNow, Call, Sound

LEMMA ThrowKeepsIInv ==
  ASSUME IInv, NEW p \in Callers, call[p].pc \in {"calc.read", "calc.commit"},
         CalcThrows(p), UNCHANGED <<cycle, slips, inst, loan, staff, mixed>>
  PROVE  IInv'
  <1> DEFINE r == [call[p] EXCEPT !.pc = "create.undo", !.computed = {}]
  <1>1. r \in Call /\ SoundNow(r)
    BY DEF IInv, TypeOK, RequestsSound, SoundNow, Call, Sound, Steps
  <1>2. CASE Become(p, r)
    BY <1>1, <1>2, ReadStep, UnchangedKept
  <1>3. CASE Become(p, Idle)
    BY <1>3, IdleSound, ReadStep, UnchangedKept
  <1> QED
    BY <1>2, <1>3 DEF CalcThrows, Return

LEMMA CalcReadKeepsIInv ==
  ASSUME IInv, NEW p \in Callers, CalcRead(p)
  PROVE  IInv'
  <1> DEFINE c == call[p].cycle
             r == [call[p] EXCEPT !.pc = "calc.commit", !.computed = ComputedSlips(c)]
             share(e) == {i \in Installments : Collectible(i, e, cycle[c].month)}
  <1>1. /\ call[p] \in Call /\ c \in CycleIds /\ cycle[c] # Unused /\ cycle[c].month = call[p].month
        /\ call[p].locked = {} /\ call[p].paidOff = {}
    BY DEF IInv, TypeOK, CalcRead, At, RequestsSound, SoundNow, Sound
  <1>2. /\ ComputedSlips(c) \subseteq SlipRow
        /\ RowsFor(c, cycle[c].month, ComputedSlips(c))
        /\ \A s \in ComputedSlips(c) : \A i \in s.insts : inst[i] # NotScheduled
    <2>1. ASSUME NEW s \in ComputedSlips(c)
          PROVE  s \in SlipRow /\ s.cycle = c /\ s.insts = share(s.emp)
      <3>1. PICK e \in Active : s = [cycle |-> c, emp |-> e, insts |-> share(e)]
        BY <2>1 DEF ComputedSlips
      <3>2. e \in Employees
        BY DEF Active
      <3> QED
        BY <1>1, <3>1, <3>2 DEF SlipRow
    <2>2. \A s \in ComputedSlips(c) : \A i \in s.insts :
            /\ Due[i] = cycle[c].month
            /\ Borrower[LoanOf[i]] = s.emp
            /\ inst[i] # NotScheduled
      BY <2>1 DEF Collectible, DueIn, NotScheduled
    <2>3. \A s, t \in ComputedSlips(c) : s.emp = t.emp => s = t
      <3> HIDE DEF share
      <3> QED
        BY <2>1 DEF SlipRow
    <2> QED
      BY <2>1, <2>2, <2>3 DEF RowsFor
  <1>3. r \in Call /\ SoundNow(r)
    BY <1>1, <1>2 DEF Call, SoundNow, Sound, Steps
  <1>4. CASE Become(p, r)
    BY <1>3, <1>4, ReadStep, UnchangedKept DEF CalcRead, rows
  <1>5. CASE CalcThrows(p)
    BY <1>5, ThrowKeepsIInv DEF CalcRead, At, rows
  <1> QED
    BY <1>4, <1>5 DEF CalcRead

LEMMA CalcCommitKeepsIInv ==
  ASSUME IInv, NEW p \in Callers, CalcCommit(p)
  PROVE  IInv'
  <1> DEFINE c == call[p].cycle
             new == call[p].computed
             linked == UNION {s.insts : s \in new}
  <1>1. /\ c \in CycleIds /\ new \subseteq SlipRow /\ RowsFor(c, cycle[c].month, new)
        /\ \A s \in new : \A i \in s.insts : inst[i] = NotScheduled => staff[s.emp] = "REMOVED"
    BY DEF IInv, TypeOK, Call, RequestsSound, SoundNow, Sound, CalcCommit, At
  <1>2. CASE CalcThrows(p) /\ UNCHANGED <<slips, inst>>
    BY <1>2, ThrowKeepsIInv DEF CalcCommit, At
  <1>3. CASE /\ Exists(c)
             /\ \A t \in new : staff[t.emp] # "REMOVED"
             /\ \A s \in SlipsOf(c), t \in new : s.emp # t.emp
             /\ slips' = slips \cup new
             /\ inst' = [i \in Installments |->
                           IF i \in linked THEN [inst[i] EXCEPT !.link = c] ELSE inst[i]]
             /\ Become(p, Idle)
    <2>1. UNCHANGED <<cycle, loan, staff, mixed>> /\ Free(p, linked)
      BY DEF CalcCommit
    <2>2. CyclesKept
      BY <2>1, UnchangedKept
    <2>3. SlipsSound' /\ slips' \subseteq SlipRow
      <3>1. slips' \subseteq SlipRow
        BY <1>1, <1>3 DEF IInv, TypeOK
      <3>2. \A s \in slips' : Exists(s.cycle)'
        BY <1>1, <1>3, <2>1 DEF IInv, SlipsSound, RowsFor, Exists
      <3>3. ASSUME NEW d \in CycleIds
            PROVE  RowsFor(d, cycle[d].month, SlipsOf(d)')
        <4>1. CASE d = c
          BY <1>1, <1>3, <4>1 DEF IInv, SlipsSound, RowsFor, SlipsOf
        <4>2. CASE d # c
          BY <1>1, <1>3, <4>2 DEF IInv, SlipsSound, RowsFor, SlipsOf
        <4> QED
          BY <4>1, <4>2
      <3> QED
        BY <2>1, <3>1, <3>2, <3>3 DEF SlipsSound
    <2>4. \A i \in linked : i \in Installments /\ inst[i] # NotScheduled /\ Due[i] = cycle[c].month
      BY <1>1, <1>3 DEF SlipRow, RowsFor
    <2>5. RowsKept
      BY <1>1, <1>3, <2>1, <2>4, ConstantsAssumption
      DEF IInv, TypeOK, InstRow, NotScheduled, RowsKept
    <2>6. LocksKept(p)
      <3> SUFFICES ASSUME NEW q \in Callers \ {p}, NEW i \in call[q].locked
                   PROVE  inst'[i] = inst[i]
        BY DEF LocksKept
      <3>1. i \in Installments /\ i \notin linked
        BY <2>1 DEF IInv, TypeOK, Call, Free
      <3> QED
        BY <1>3, <3>1
    <2>7. LinkedInDueMonth'
      BY <1>1, <1>3, <2>1, <2>4 DEF IInv, TypeOK, InstRow, NotScheduled, LinkedInDueMonth, Exists
    <2>8. OneCyclePerMonth' /\ ScheduledOnApproval'
      BY <2>2, <2>5, CyclesKeptFacts, ScheduledKept
    <2>9. \A q \in Callers \ {p} : Sound(cycle', inst', loan', staff', call[q])
      BY <2>2, <2>5, <2>6, OthersSound DEF CyclesKept
    <2>10. Sound(cycle', inst', loan', staff', Idle)
      BY DEF Idle, Sound
    <2>11. call' \in [Callers -> Call] /\ RequestsSound'
      BY <1>3, <2>9, <2>10, IdleSound, RequestStep
    <2> QED
      BY <2>1, <2>2, <2>3, <2>5, <2>7, <2>8, <2>11 DEF IInv, TypeOK, CyclesKept, RowsKept
  <1> QED
    BY <1>2, <1>3 DEF CalcCommit, Return

LEMMA CreateInsertKeepsIInv ==
  ASSUME IInv, NEW p \in Callers, CreateInsert(p)
  PROVE  IInv'
  <1> DEFINE m == call[p].month
  <1>1. call[p] \in Call /\ m \in Months /\ call[p].locked = {} /\ call[p].paidOff = {}
    BY DEF IInv, TypeOK, RequestsSound, SoundNow, Sound, CreateInsert, At
  <1>2. CASE Return(p) /\ UNCHANGED cycle
    BY <1>2, IdleSound, ReadStep, UnchangedKept DEF CreateInsert, Return
  <1>3. ASSUME NEW c \in CycleIds, ~MonthTaken(m), cycle[c] = Unused,
               cycle' = [cycle EXCEPT ![c] = [month |-> m, status |-> "DRAFT"]],
               Become(p, [call[p] EXCEPT !.pc = "calc.read", !.cycle = c, !.create = TRUE])
        PROVE  IInv'
    <2> DEFINE r == [call[p] EXCEPT !.pc = "calc.read", !.cycle = c, !.create = TRUE]
    <2>2. UNCHANGED <<slips, inst, loan, staff, mixed>>
      BY DEF CreateInsert
    <2>3. /\ cycle' \in [CycleIds -> CycleRow]
          /\ \A d \in CycleIds : Exists(d)' <=> (Exists(d) \/ d = c)
          /\ \A d \in CycleIds \ {c} : cycle'[d] = cycle[d]
          /\ cycle'[c].month = m /\ cycle'[c] # Unused /\ ~Exists(c)
      BY <1>1, <1>3 DEF IInv, TypeOK, CycleRow, CycleStatus, Exists, Unused
    <2>4. OneCyclePerMonth'
      BY <1>3, <2>3 DEF IInv, OneCyclePerMonth, MonthTaken
    <2>5. SlipsSound'
      <3>1. \A s \in slips : s.cycle \in CycleIds /\ s.cycle # c
        BY <2>3 DEF IInv, TypeOK, SlipRow, SlipsSound
      <3> QED
        BY <2>2, <2>3, <3>1 DEF IInv, SlipsSound, SlipsOf, RowsFor
    <2>6. LinkedInDueMonth'
      BY <2>2, <2>3 DEF IInv, TypeOK, InstRow, NotScheduled, LinkedInDueMonth
    <2>7. r \in Call /\ Sound(cycle', inst', loan', staff', r)
      BY <1>1, <2>3 DEF Call, Steps, Sound
    <2>8. RowsKept /\ LocksKept(p)
      BY <2>2, UnchangedKept
    <2>9. \A q \in Callers \ {p} : Sound(cycle', inst', loan', staff', call[q])
      <3>1. \A d \in CycleIds : cycle[d] # Unused => cycle'[d] = cycle[d]
        BY <1>3, <2>3
      <3> QED
        BY <2>8, <3>1, OthersSound
    <2>10. call' \in [Callers -> Call] /\ RequestsSound'
      BY <1>3, <2>7, <2>9, RequestStep
    <2>11. ScheduledOnApproval'
      BY <2>8, ScheduledKept
    <2> QED
      BY <2>2, <2>3, <2>4, <2>5, <2>6, <2>10, <2>11 DEF IInv, TypeOK
  <1> QED
    BY <1>2, <1>3 DEF CreateInsert

LEMMA CreateUndoKeepsIInv ==
  ASSUME IInv, NEW p \in Callers, CreateUndo(p)
  PROVE  IInv'
  <1> DEFINE c == call[p].cycle
  <1>1. c \in CycleIds /\ cycle[c] # Unused /\ c # None
    BY ConstantsAssumption DEF IInv, RequestsSound, SoundNow, Sound, CreateUndo, At
  <1>2. /\ slips' = slips \ SlipsOf(c)
        /\ inst' = [i \in Installments |->
                      IF i \in Linked(c) THEN [inst[i] EXCEPT !.link = None] ELSE inst[i]]
        /\ Become(p, Idle) /\ Free(p, Linked(c))
        /\ UNCHANGED <<loan, staff, mixed>>
    BY DEF CreateUndo, Return
  <1>3. /\ cycle' \in [CycleIds -> CycleRow]
        /\ \A d \in CycleIds : Exists(d)' <=> (Exists(d) /\ d # c)
        /\ \A d \in CycleIds : cycle'[d].month = cycle[d].month
        /\ \A d \in CycleIds : cycle'[d] = Unused <=> cycle[d] = Unused
    BY <1>1 DEF IInv, TypeOK, CreateUndo, SetStatus, CycleRow, CycleStatus, Exists, Unused
  <1>4. OneCyclePerMonth'
    BY <1>3 DEF IInv, OneCyclePerMonth
  <1>5. SlipsSound' /\ slips' \subseteq SlipRow
    <2>1. \A s \in slips : s \in SlipRow /\ s.cycle \in CycleIds
      BY DEF IInv, TypeOK, SlipRow
    <2> QED
      BY <1>2, <1>3, <2>1 DEF IInv, SlipsSound, SlipsOf, RowsFor
  <1>6. RowsKept
    BY <1>1, <1>2 DEF IInv, TypeOK, RowsKept, InstRow, NotScheduled, Linked
  <1>7. LinkedInDueMonth'
    BY <1>2, <1>3 DEF IInv, TypeOK, InstRow, NotScheduled, LinkedInDueMonth, Linked
  <1>8. LocksKept(p)
    BY <1>2 DEF LocksKept, Free, IInv, TypeOK, Call
  <1>9. \A q \in Callers \ {p} : Sound(cycle', inst', loan', staff', call[q])
    BY <1>3, <1>6, <1>8, OthersSound
  <1>10. Sound(cycle', inst', loan', staff', Idle)
    BY DEF Idle, Sound
  <1>11. call' \in [Callers -> Call] /\ RequestsSound'
    BY <1>2, <1>9, <1>10, IdleSound, RequestStep
  <1>12. ScheduledOnApproval'
    BY <1>6, ScheduledKept
  <1> QED
    BY <1>2, <1>3, <1>4, <1>5, <1>6, <1>7, <1>11, <1>12 DEF IInv, TypeOK, RowsKept

LEMMA BeginKeepsIInv ==
  ASSUME IInv, NEW p \in Callers, NEW c \in CycleIds, NEW allowed \in SUBSET CycleStatus,
         NEW first \in Steps \ {"calc.commit", "create.insert", "approve.count"},
         Begin(p, c, allowed, first)
  PROVE  IInv'
  <1> DEFINE r == [Idle EXCEPT !.pc = first, !.cycle = c, !.month = cycle[c].month]
  <1>1. cycle[c] # Unused /\ cycle[c].month \in Months
    BY DEF IInv, TypeOK, Begin, CycleRow, CycleStatus, Unused
  <1>2. r \in Call /\ SoundNow(r)
    BY <1>1 DEF Idle, Call, Steps, SoundNow, Sound
  <1>3. mixed' \subseteq Months
    BY <1>1 DEF Begin, Starts, IInv, TypeOK
  <1> QED
    BY <1>2, <1>3, ReadStep DEF Begin, rows

LEMMA RequestKeepsIInv ==
  ASSUME IInv, NEW p \in Callers, Request(p)
  PROVE  IInv'
  <1>1. CASE \E m \in Months : CreateFind(p, m)
    <2> PICK m \in Months : CreateFind(p, m)
      BY <1>1
    <2> DEFINE r == [Idle EXCEPT !.pc = "create.insert", !.month = m]
    <2>1. r \in Call /\ SoundNow(r)
      BY DEF Idle, Call, Steps, SoundNow, Sound
    <2>2. mixed' \subseteq Months
      BY DEF CreateFind, Starts, IInv, TypeOK
    <2> QED
      BY <2>1, <2>2, ReadStep DEF CreateFind, rows
  <1>2. CASE \E c \in CycleIds : \/ RecalculateBegin(p, c) \/ RevertBegin(p, c)
                                 \/ ReviewBegin(p, c) \/ ApproveBegin(p, c) \/ CloseBegin(p, c)
    <2> PICK c \in CycleIds : \/ RecalculateBegin(p, c) \/ RevertBegin(p, c)
                              \/ ReviewBegin(p, c) \/ ApproveBegin(p, c) \/ CloseBegin(p, c)
      BY <1>2
    <2>1. /\ {"DRAFT"} \in SUBSET CycleStatus
          /\ {"REVIEW"} \in SUBSET CycleStatus
          /\ {"APPROVED"} \in SUBSET CycleStatus
      BY DEF CycleStatus
    <2>2. {"recalculate.clear", "revert.clear", "review.count", "approve.find", "close.update"}
            \subseteq Steps \ {"calc.commit", "create.insert", "approve.count"}
      BY DEF Steps
    <2> QED
      BY <2>1, <2>2, BeginKeepsIInv
      DEF RecalculateBegin, RevertBegin, ReviewBegin, ApproveBegin, CloseBegin
  <1> QED
    BY <1>1, <1>2 DEF Request

\* The steps that set a status and return: revert, review, close.
LEMMA UpdateKeepsIInv ==
  ASSUME IInv, NEW p \in Callers, NEW status \in CycleStatus,
         call[p].pc \notin {"idle", "create.insert"},
         SetStatus(call[p].cycle, status), Become(p, Idle),
         UNCHANGED <<slips, inst, loan, staff, mixed>>
  PROVE  IInv'
  <1>1. call[p].cycle \in CycleIds
    BY DEF IInv, RequestsSound, SoundNow, Sound
  <1>2. CyclesKept
    BY <1>1, SetStatusCyclesKept DEF IInv
  <1> QED
    BY <1>2, IdleSound, QuietStep, UnchangedKept

LEMMA RecalculateKeepsIInv ==
  ASSUME IInv, NEW p \in Callers, RecalculateClear(p) \/ RecalculateDelete(p)
  PROVE  IInv'
  <1>1. call[p].pc \in {"recalculate.clear", "recalculate.delete"} /\ UNCHANGED <<cycle, staff, mixed>>
    BY DEF RecalculateClear, RecalculateDelete, At
  <1>2. CASE RecalculateClear(p)
    <2>1. call[p].cycle \in CycleIds /\ call[p].cycle # None
      BY <1>1, ConstantsAssumption DEF IInv, RequestsSound, SoundNow, Sound
    <2>2. RowsKept /\ \A i \in Installments : inst'[i].link \in {inst[i].link, None}
      BY <1>2, <2>1 DEF RecalculateClear, IInv, TypeOK, RowsKept, InstRow, NotScheduled, Linked
    <2>3. LocksKept(p)
      BY <1>2 DEF RecalculateClear, LocksKept, Free, IInv, TypeOK, Call
    <2>4. "recalculate.delete" \in Steps
      BY DEF Steps
    <2> QED
      BY <1>1, <1>2, <2>2, <2>3, <2>4, MovedRequest, QuietStep, UnchangedKept
      DEF RecalculateClear, Goto
  <1>3. CASE RecalculateDelete(p)
    <2>1. slips' \subseteq slips
      BY <1>3 DEF RecalculateDelete
    <2>2. "calc.read" \in Steps
      BY DEF Steps
    <2> QED
      BY <1>1, <1>3, <2>1, <2>2, MovedRequest, QuietStep, UnchangedKept
      DEF RecalculateDelete, Goto
  <1> QED
    BY <1>2, <1>3

LEMMA RevertClearKeepsIInv ==
  ASSUME IInv, NEW p \in Callers, RevertClear(p)
  PROVE  IInv'
  <1>1. RowsKept /\ \A i \in Installments : inst'[i].link \in {inst[i].link, None}
    BY ConstantsAssumption DEF RevertClear, IInv, TypeOK, RowsKept, InstRow, NotScheduled
  <1>2. LocksKept(p)
    BY DEF RevertClear, LocksKept, Free, IInv, TypeOK, Call
  <1>3. call[p].pc = "revert.clear" /\ "revert.update" \in Steps
    BY DEF RevertClear, At, Steps
  <1> QED
    BY <1>1, <1>2, <1>3, MovedRequest, QuietStep, UnchangedKept DEF RevertClear, Goto

LEMMA ReviewCountKeepsIInv ==
  ASSUME IInv, NEW p \in Callers, ReviewCount(p)
  PROVE  IInv'
  <1>1. call[p].pc = "review.count" /\ "review.update" \in Steps
    BY DEF ReviewCount, At, Steps
  <1>2. UNCHANGED <<cycle, slips, inst, loan, staff, mixed>>
    BY DEF ReviewCount, rows
  <1>3. CASE Become(p, Idle)
    BY <1>2, <1>3, IdleSound, ReadStep, UnchangedKept
  <1>4. CASE Become(p, [call[p] EXCEPT !.pc = "review.update"])
    BY <1>1, <1>2, <1>4, MovedRequest, ReadStep, UnchangedKept
  <1> QED
    BY <1>3, <1>4 DEF ReviewCount, Return, Goto

LEMMA ApproveReadsKeepIInv ==
  ASSUME IInv, NEW p \in Callers, ApproveFind(p) \/ ApproveMark(p) \/ ApproveCount(p)
  PROVE  IInv'
  <1>1. call[p] \in Call /\ SoundNow(call[p])
    BY DEF IInv, TypeOK, RequestsSound
  <1>2. UNCHANGED <<cycle, slips, inst, loan, staff, mixed>>
    BY DEF ApproveFind, ApproveMark, ApproveCount, rows
  <1>3. ASSUME NEW r \in Call, Become(p, r), SoundNow(r)
        PROVE  IInv'
    BY <1>2, <1>3, ReadStep, UnchangedKept
  <1>4. CASE ApproveFind(p)
    <2> DEFINE linked == Linked(call[p].cycle)
               step == IF linked = {} THEN "approve.count" ELSE "approve.mark"
               r == [call[p] EXCEPT !.pc = step, !.todo = {LoanOf[i] : i \in linked}]
    <2>1. {LoanOf[i] : i \in linked} \subseteq Loans
      BY ConstantsAssumption DEF Linked
    <2>2. r \in Call /\ r.pc \in {"approve.mark", "approve.count"}
      BY <1>1, <2>1 DEF Call, Steps
    <2>3. /\ r.cycle = call[p].cycle /\ r.month = call[p].month
          /\ r.locked = call[p].locked /\ r.paidOff = call[p].paidOff
          /\ r.todo = {LoanOf[i] : i \in linked}
      BY <1>1 DEF Call
    <2>4. Become(p, r) /\ call[p].pc = "approve.find" /\ call[p].cycle # None
      BY <1>1, <1>4, ConstantsAssumption DEF ApproveFind, At, SoundNow, Sound
    <2>5. \A l \in r.todo : loan[l] # "PENDING"
      BY <2>3, <2>4 DEF Linked, IInv, ScheduledOnApproval, Open, NotScheduled
    <2>6. SoundNow(r)
      BY <1>1, <2>2, <2>3, <2>4, <2>5 DEF SoundNow, Sound
    <2> QED
      BY <1>3, <2>2, <2>4, <2>6
  <1>5. CASE ApproveMark(p)
    <2> DEFINE r == [call[p] EXCEPT !.pc = "approve.count", !.locked = Linked(call[p].cycle)]
    <2>1. r \in Call /\ r.pc = "approve.count"
      BY <1>1 DEF Call, Steps, Linked
    <2>2. /\ r.cycle = call[p].cycle /\ r.month = call[p].month
          /\ r.locked = Linked(call[p].cycle) /\ r.paidOff = call[p].paidOff
          /\ r.todo = call[p].todo
      BY <1>1 DEF Call
    <2>3. Become(p, r) /\ call[p].pc = "approve.mark"
      BY <1>5 DEF ApproveMark, At
    <2>4. SoundNow(r)
      BY <1>1, <2>1, <2>2, <2>3 DEF SoundNow, Sound, Linked
    <2> QED
      BY <1>3, <2>1, <2>3, <2>4
  <1>6. CASE ApproveCount(p)
    <2> PICK l \in call[p].todo :
          \/ Become(p, [call[p] EXCEPT !.todo = @ \ {l}])
          \/ Return(p)
          \/ loan[l] # "REMOVED" /\ ~StillPending(p, l)
             /\ Become(p, [call[p] EXCEPT !.todo = @ \ {l}, !.paidOff = @ \cup {l}])
      BY <1>6 DEF ApproveCount
    <2> DEFINE r == [call[p] EXCEPT !.todo = @ \ {l}]
               t == [call[p] EXCEPT !.todo = @ \ {l}, !.paidOff = @ \cup {l}]
    <2>0. call[p].pc = "approve.count" /\ l \in Loans
      BY <1>1, <1>6 DEF Call, ApproveCount, At
    <2>1. CASE Become(p, r)
      <3>1. r \in Call /\ r.pc = "approve.count" /\ r.cycle = call[p].cycle /\ r.month = call[p].month
            /\ r.locked = call[p].locked /\ r.paidOff = call[p].paidOff
            /\ r.todo = call[p].todo \ {l}
        BY <1>1, <2>0 DEF Call
      <3>2. SoundNow(r)
        BY <1>1, <2>0, <3>1 DEF SoundNow, Sound
      <3> QED
        BY <1>3, <2>1, <3>1, <3>2
    <2>2. CASE Return(p)
      BY <1>3, <2>2, IdleSound DEF Return
    <2>3. CASE Become(p, t) /\ loan[l] # "REMOVED"
      <3>1. t \in Call /\ t.pc = "approve.count" /\ t.cycle = call[p].cycle /\ t.month = call[p].month
            /\ t.locked = call[p].locked /\ t.paidOff = call[p].paidOff \cup {l}
            /\ t.todo = call[p].todo \ {l}
        BY <1>1, <2>0 DEF Call
      <3>2. loan[l] \in Open
        BY <1>1, <2>0, <2>3 DEF SoundNow, Sound, IInv, TypeOK, LoanStatus, Open
      <3>3. SoundNow(t)
        BY <1>1, <2>0, <3>1, <3>2 DEF SoundNow, Sound
      <3> QED
        BY <1>3, <2>3, <3>1, <3>3
    <2> QED
      BY <2>1, <2>2, <2>3
  <1> QED
    BY <1>4, <1>5, <1>6

LEMMA ApproveCommitKeepsIInv ==
  ASSUME IInv, NEW p \in Callers, ApproveCommit(p)
  PROVE  IInv'
  <1>1. /\ call[p] \in Call /\ call[p].cycle \in CycleIds /\ "APPROVED" \in CycleStatus
        /\ call[p].cycle # None
        /\ \A i \in call[p].locked : inst[i].link = call[p].cycle
        /\ \A l \in call[p].paidOff : loan[l] \in Open
    BY ConstantsAssumption
    DEF IInv, TypeOK, RequestsSound, SoundNow, Sound, ApproveCommit, At, CycleStatus
  <1>2. CyclesKept
    BY <1>1, SetStatusCyclesKept DEF IInv, ApproveCommit
  <1>3. /\ \A i \in Installments : inst'[i].link = inst[i].link
        /\ inst' \in [Installments -> InstRow]
        /\ \A i \in Installments : inst'[i] = NotScheduled <=> inst[i] = NotScheduled
    BY <1>1 DEF ApproveCommit, IInv, TypeOK, InstRow, NotScheduled
  <1>4. RowsKept
    BY <1>1, <1>3 DEF ApproveCommit, IInv, TypeOK, LoanStatus, RowsKept, Open
  <1>5. LocksKept(p)
    BY <1>3 DEF LocksKept, IInv, TypeOK, Call
  <1> QED
    BY <1>2, <1>3, <1>4, <1>5, IdleSound, QuietStep, UnchangedKept DEF ApproveCommit, Return

LEMMA ProceedKeepsIInv ==
  ASSUME IInv, NEW p \in Callers, Proceed(p)
  PROVE  IInv'
  <1>1. CASE RevertUpdate(p) \/ ReviewUpdate(p) \/ CloseUpdate(p)
    BY <1>1, UpdateKeepsIInv
    DEF RevertUpdate, ReviewUpdate, CloseUpdate, At, Return, CycleStatus
  <1> QED
    BY <1>1, CreateInsertKeepsIInv, CreateUndoKeepsIInv, CalcReadKeepsIInv, CalcCommitKeepsIInv,
       RecalculateKeepsIInv, RevertClearKeepsIInv, ReviewCountKeepsIInv, ApproveReadsKeepIInv,
       ApproveCommitKeepsIInv
    DEF Proceed

LEMMA FaultKeepsIInv ==
  ASSUME IInv, NEW p \in Callers, Fault(p)
  PROVE  IInv'
  <1>1. CASE CalcFails(p)
    BY <1>1, ThrowKeepsIInv DEF CalcFails, rows
  <1>2. CASE Abort(p)
    BY <1>2, IdleSound, ReadStep, UnchangedKept DEF Abort, Return, rows
  <1> QED
    BY <1>1, <1>2 DEF Fault

\* A loan's approval schedules its installments, linked to nothing and locked by nobody.
LEMMA ApproveLoanKeepsIInv ==
  ASSUME IInv, NEW l \in Loans, ApproveLoan(l)
  PROVE  IInv'
  <1>1. /\ UNCHANGED <<cycle, slips, staff, call, mixed>>
        /\ loan[l] = "PENDING" /\ loan' = [loan EXCEPT ![l] = "APPROVED"]
        /\ \A i \in Installments :
             inst'[i] = IF LoanOf[i] = l THEN [status |-> "PENDING", link |-> None] ELSE inst[i]
        /\ inst' \in [Installments -> InstRow] /\ loan' \in [Loans -> LoanStatus]
    BY DEF ApproveLoan, IInv, TypeOK, InstRow, LoanStatus
  <1>2. \A i \in Installments : LoanOf[i] = l => inst[i] = NotScheduled /\ inst[i].link = None
    BY <1>1 DEF IInv, ScheduledOnApproval, Open, NotScheduled
  <1>3. \A i \in Installments : inst'[i].link = inst[i].link
    BY <1>1, <1>2
  <1>4. CyclesKept /\ OneCyclePerMonth' /\ SlipsSound' /\ LinkedInDueMonth'
    BY <1>1, <1>3, UnchangedKept, CyclesKeptFacts
  <1>5. ScheduledOnApproval'
    BY <1>1 DEF IInv, TypeOK, ScheduledOnApproval, Open, NotScheduled
  <1>6. RequestsSound'
    <2> SUFFICES ASSUME NEW q \in Callers PROVE Sound(cycle', inst', loan', staff', call'[q])
      BY DEF RequestsSound, SoundNow
    <2>1. call'[q] = call[q] /\ call[q] \in Call /\ Sound(cycle, inst, loan, staff, call[q])
      BY <1>1 DEF IInv, TypeOK, RequestsSound, SoundNow
    <2>2. /\ call[q].paidOff \subseteq Loans /\ call[q].locked \subseteq Installments
          /\ call[q].todo \subseteq Loans
          /\ \A s \in call[q].computed : s.insts \subseteq Installments
      BY <2>1 DEF Call, SlipRow
    <2>3. /\ \A k \in Loans : loan[k] # "PENDING" => loan'[k] # "PENDING"
          /\ \A k \in Loans : loan[k] \in Open => loan'[k] \in Open
          /\ \A i \in Installments : inst'[i] = NotScheduled => inst[i] = NotScheduled
      BY <1>1 DEF Open, IInv, TypeOK, NotScheduled
    <2> QED
      BY <1>1, <1>3, <2>1, <2>2, <2>3 DEF Sound
  <1> QED
    BY <1>1, <1>4, <1>5, <1>6 DEF IInv, TypeOK

\* The removal of an employee takes no row that a transaction has locked.
LEMMA RemoveEmployeeKeepsIInv ==
  ASSUME IInv, NEW e \in Employees, RemoveEmployee(e)
  PROVE  IInv'
  <1>1. /\ UNCHANGED <<cycle, call, mixed>>
        /\ slips' = {s \in slips : s.emp # e}
        /\ staff' = [staff EXCEPT ![e] = "REMOVED"]
        /\ loan' = [l \in Loans |-> IF l \in LoansOf(e) THEN "REMOVED" ELSE loan[l]]
        /\ inst' = [i \in Installments |-> IF i \in OwedBy(e) THEN NotScheduled ELSE inst[i]]
        /\ \A q \in Callers : call[q].locked \cap OwedBy(e) = {}
        /\ \A q \in Callers : call[q].paidOff \cap LoansOf(e) = {}
    BY DEF RemoveEmployee
  <1>2. /\ inst' \in [Installments -> InstRow] /\ loan' \in [Loans -> LoanStatus]
        /\ staff' \in [Employees -> StaffStatus]
    BY <1>1 DEF IInv, TypeOK, InstRow, LoanStatus, StaffStatus
  <1>3. \A i \in Installments : inst'[i].link \in {inst[i].link, None}
    BY <1>1 DEF NotScheduled
  <1>4. CyclesKept
    BY <1>1, UnchangedKept
  <1>5. OneCyclePerMonth' /\ SlipsSound' /\ LinkedInDueMonth' /\ slips' \subseteq SlipRow
    BY <1>1, <1>3, <1>4, CyclesKeptFacts
  <1>6. ScheduledOnApproval'
    BY <1>1, ConstantsAssumption DEF IInv, ScheduledOnApproval, OwedBy, Open
  <1>7. RequestsSound'
    <2> SUFFICES ASSUME NEW q \in Callers PROVE Sound(cycle', inst', loan', staff', call'[q])
      BY DEF RequestsSound, SoundNow
    <2>1. call'[q] = call[q] /\ call[q] \in Call /\ Sound(cycle, inst, loan, staff, call[q])
      BY <1>1 DEF IInv, TypeOK, RequestsSound, SoundNow
    <2>2. /\ call[q].paidOff \subseteq Loans /\ call[q].locked \subseteq Installments
          /\ call[q].todo \subseteq Loans
          /\ \A s \in call[q].computed : s.insts \subseteq Installments /\ s.emp \in Employees
      BY <2>1 DEF Call, SlipRow
    <2>3. /\ \A i \in call[q].locked : inst'[i] = inst[i]
          /\ \A l \in call[q].paidOff : loan'[l] = loan[l]
          /\ \A l \in call[q].todo : loan[l] # "PENDING" => loan'[l] # "PENDING"
      BY <1>1, <2>2
    <2>4. call[q].pc = "calc.commit" =>
            \A s \in call[q].computed : \A i \in s.insts :
              inst'[i] = NotScheduled => staff'[s.emp] = "REMOVED"
      <3> SUFFICES ASSUME call[q].pc = "calc.commit", NEW s \in call[q].computed, NEW i \in s.insts,
                          inst'[i] = NotScheduled
                   PROVE  staff'[s.emp] = "REMOVED"
        OBVIOUS
      <3>1. Borrower[LoanOf[i]] = s.emp /\ i \in Installments /\ s.emp \in Employees
        BY <2>1, <2>2 DEF Sound, RowsFor
      <3>2. CASE i \in OwedBy(e)
        BY <1>1, <3>1, <3>2 DEF OwedBy, LoansOf, IInv, TypeOK
      <3>3. CASE i \notin OwedBy(e)
        BY <1>1, <2>1, <3>1, <3>3 DEF Sound, IInv, TypeOK
      <3> QED
        BY <3>2, <3>3
    <2> QED
      BY <1>1, <2>1, <2>3, <2>4 DEF Sound
  <1> QED
    BY <1>1, <1>2, <1>5, <1>6, <1>7 DEF IInv, TypeOK

LEMMA SetActiveKeepsIInv ==
  ASSUME IInv, NEW e \in Employees, SetActive(e)
  PROVE  IInv'
  <1>1. UNCHANGED <<cycle, slips, inst, loan, call, mixed>>
    BY DEF SetActive, rows
  <1>2. /\ staff' \in [Employees -> StaffStatus]
        /\ \A f \in Employees : staff[f] = "REMOVED" => staff'[f] = "REMOVED"
    BY DEF SetActive, IInv, TypeOK, StaffStatus
  <1>3. RequestsSound'
    <2> SUFFICES ASSUME NEW q \in Callers PROVE Sound(cycle', inst', loan', staff', call'[q])
      BY DEF RequestsSound, SoundNow
    <2>1. call'[q] = call[q] /\ call[q] \in Call /\ Sound(cycle, inst, loan, staff, call[q])
      BY <1>1 DEF IInv, TypeOK, RequestsSound, SoundNow
    <2>2. \A s \in call[q].computed : s.emp \in Employees
      BY <2>1 DEF Call, SlipRow
    <2> QED
      BY <1>1, <1>2, <2>1, <2>2 DEF Sound
  <1> QED
    BY <1>1, <1>2, <1>3
    DEF IInv, TypeOK, OneCyclePerMonth, SlipsSound, LinkedInDueMonth, ScheduledOnApproval, Exists,
        SlipsOf

LEMMA EnvironmentKeepsIInv ==
  ASSUME IInv, Environment
  PROVE  IInv'
  BY ApproveLoanKeepsIInv, RemoveEmployeeKeepsIInv, SetActiveKeepsIInv DEF Environment

LEMMA NextKeepsIInv == IInv /\ [Next]_vars => IInv'
  <1> SUFFICES ASSUME IInv, [Next]_vars
               PROVE  IInv'
    OBVIOUS
  <1>1. CASE Next
    BY <1>1, RequestKeepsIInv, ProceedKeepsIInv, FaultKeepsIInv, EnvironmentKeepsIInv DEF Next
  <1>2. CASE UNCHANGED vars
    BY <1>2 DEF vars, IInv, TypeOK, OneCyclePerMonth, SlipsSound, RequestsSound, SoundNow,
                LinkedInDueMonth, ScheduledOnApproval, Exists, SlipsOf
  <1> QED
    BY <1>1, <1>2

\* The inductive invariant behind the theorems below.
THEOREM PayrollIInv == Spec => []IInv
  BY InitIInv, NextKeepsIInv, PTL DEF Spec

\* Rows and requests are always well formed.
THEOREM PayrollTypeOK == Spec => []TypeOK
  <1>1. IInv => TypeOK
    BY DEF IInv
  <1> QED
    BY <1>1, PayrollIInv, PTL

\* However the handlers of createCycle, recalculate, revertToDraft,
\* moveToReview and approve interleave, fail or are retried, no installment is
\* on two payslips.
THEOREM PayrollNoDoubleDeduction == Spec => []NoDoubleDeduction
  BY PayrollIInv, IInvNoDoubleDeduction, PTL

\* Nor is an installment ever linked to the cycle of another month.
THEOREM PayrollLinkedInDueMonth == Spec => []LinkedInDueMonth
  <1>1. IInv => LinkedInDueMonth
    BY DEF IInv
  <1> QED
    BY <1>1, PayrollIInv, PTL


-----------------------------------------------------------------------------
(* The months about which no two different requests have overlapped.  Two  *)
(* submits of one request may be in flight there, and a second createCycle *)
(* whose insert is still to be refused while the first one calculates.     *)

Running(p) == call[p].pc \notin {"idle", "create.insert"}
Steady(p) == Running(p) /\ call[p].month \notin mixed

Calculating == {"calc.read", "calc.commit", "create.undo"}
Pair(s, t) ==
    \/ Together(s, t)
    \/ s = "create.insert" /\ t \in Calculating
    \/ t = "create.insert" /\ s \in Calculating

Apart ==
    \A p, q \in Callers :
       /\ p # q /\ ~At(p, "idle") /\ ~At(q, "idle")
       /\ call[p].month = call[q].month /\ call[p].month \notin mixed
       => Pair(call[p].pc, call[q].pc)

\* The status the request found, or the one its twin has already set.
Began(step) ==
    CASE step \in {"review.count", "review.update", "revert.clear", "revert.update"} -> {"DRAFT", "REVIEW"}
      [] step \in {"approve.find", "approve.mark", "approve.count"} -> {"REVIEW", "APPROVED"}
      [] step = "close.update" -> {"APPROVED", "CLOSED"}
      [] OTHER -> {"DRAFT"}

\* What request r may rely on: its cycle as it found it, and what it did or read.
Backs(cycles, sheet, insts, r) ==
    /\ cycles[r.cycle].status \in Began(r.pc)
    /\ r.pc \in Calculating => \A s \in sheet : s.cycle # r.cycle
    /\ r.pc = "recalculate.delete" => \A i \in Installments : insts[i].link # r.cycle
    /\ r.pc = "calc.commit" =>
         /\ r.computed # {}
         /\ \A s \in r.computed : \A i \in s.insts : insts[i].status # "DEDUCTED"
    /\ r.pc = "approve.count" => \A i \in Installments : insts[i].link = r.cycle => i \in r.locked
BacksNow(r) == Backs(cycle, slips, inst, r)
AllRely == \A p \in Callers : Steady(p) => BacksNow(call[p])

\* A loan that a transaction has set PAID_OFF has nothing else to take.
Paid(insts, spoilt, r) ==
    \A l \in r.paidOff : \A i \in Installments :
       LoanOf[i] = l /\ Due[i] \notin spoilt => i \in r.locked \/ insts[i].status = "DEDUCTED"
AllPaid == \A p \in Callers : Paid(inst, mixed, call[p])

\* An installment is linked to the cycle whose payslips take it, and DEDUCTED from its approval on.
Agrees(i) ==
    /\ inst[i].link # None =>
         /\ \E s \in slips : s.cycle = inst[i].link /\ i \in s.insts
         /\ inst[i].status = "DEDUCTED" <=> Published(inst[i].link)
    /\ inst[i].status = "DEDUCTED" => inst[i].link # None
RowsAgree == \A i \in Installments : Due[i] \notin mixed => Agrees(i)

PaidOffOnlyWhenDeducted ==
    \A i \in Installments :
       Due[i] \notin mixed /\ loan[LoanOf[i]] = "PAID_OFF" => inst[i].status = "DEDUCTED"

SInv == Apart /\ AllRely /\ AllPaid /\ RowsAgree /\ PaidOffOnlyWhenDeducted

-----------------------------------------------------------------------------
(* What a step of a request about month m does to the rows of the others.  *)

Touches(m) ==
    /\ \A d \in CycleIds :
         \/ cycle'[d] = cycle[d] /\ SlipsOf(d)' = SlipsOf(d)
         \/ cycle'[d].month = m /\ (cycle[d] = Unused \/ cycle[d].month = m)
    /\ \A i \in Installments : Due[i] # m => inst'[i] = inst[i]

DeductedKept ==
    \A i \in Installments :
       Due[i] \notin mixed /\ inst[i].status = "DEDUCTED" => inst'[i].status = "DEDUCTED"

\* What a running request is about, by the invariant of the rows.
LEMMA RunningFacts ==
  ASSUME IInv, NEW p \in Callers, Running(p)
  PROVE  /\ call[p] \in Call /\ call[p].cycle \in CycleIds /\ call[p].cycle # None
         /\ cycle[call[p].cycle] # Unused /\ cycle[call[p].cycle].month = call[p].month
         /\ ~At(p, "idle")
         /\ \A i \in Linked(call[p].cycle) :
              i \in Installments /\ Due[i] = call[p].month /\ inst[i] # NotScheduled
  <1>1. /\ call[p] \in Call /\ call[p].cycle \in CycleIds /\ call[p].cycle # None
        /\ cycle[call[p].cycle] # Unused /\ cycle[call[p].cycle].month = call[p].month
    BY ConstantsAssumption DEF IInv, TypeOK, RequestsSound, SoundNow, Sound, Running
  <1>2. ~At(p, "idle")
    BY DEF Running, At
  <1>3. \A i \in Linked(call[p].cycle) :
          i \in Installments /\ Due[i] = call[p].month /\ inst[i] # NotScheduled
    BY <1>1 DEF Linked, IInv, LinkedInDueMonth, NotScheduled
  <1> QED
    BY <1>1, <1>2, <1>3

\* A status set by id, or a cycle deleted by id.
LEMMA StatusTouches ==
  ASSUME IInv, NEW p \in Callers, Running(p), NEW status \in CycleStatus \cup {"DELETED"},
         SetStatus(call[p].cycle, status)
  PROVE  /\ \A d \in CycleIds : d # call[p].cycle => cycle'[d] = cycle[d]
         /\ cycle'[call[p].cycle].month = call[p].month
         /\ Exists(call[p].cycle) => cycle'[call[p].cycle].status = status
         /\ ~Exists(call[p].cycle) => cycle'[call[p].cycle] = cycle[call[p].cycle]
  <1> DEFINE c == call[p].cycle
  <1>1. c \in CycleIds /\ cycle[c] # Unused /\ cycle[c].month = call[p].month
    BY RunningFacts
  <1>2. cycle[c] \in [month: Months, status: CycleStatus \cup {"DELETED"}]
    BY <1>1 DEF IInv, TypeOK, CycleRow
  <1> QED
    BY <1>1, <1>2 DEF SetStatus, IInv, TypeOK

\* A step that leaves the slips of other cycles alone, and changes no other cycle.
LEMMA OwnRowsTouch ==
  ASSUME IInv, NEW p \in Callers, Running(p),
         \A d \in CycleIds : d # call[p].cycle => cycle'[d] = cycle[d] /\ SlipsOf(d)' = SlipsOf(d),
         cycle'[call[p].cycle].month = call[p].month,
         \A i \in Installments : Due[i] # call[p].month => inst'[i] = inst[i]
  PROVE  Touches(call[p].month)
  BY RunningFacts DEF Touches

LEMMA ProceedTouches ==
  ASSUME IInv, NEW p \in Callers, Proceed(p)
  PROVE  Touches(call[p].month) /\ ~At(p, "idle") /\ UNCHANGED <<staff, mixed>>
  <1> DEFINE m == call[p].month
             c == call[p].cycle
  <1>0. /\ call[p].pc \notin {"idle", "create.insert"} => Running(p)
        /\ ~At(p, "idle") /\ UNCHANGED <<staff, mixed>>
    BY DEF Running, Proceed, At, CreateInsert, CreateUndo, CalcRead, CalcCommit, RecalculateClear,
           RecalculateDelete, RevertClear, RevertUpdate, ReviewCount, ReviewUpdate, ApproveFind,
           ApproveMark, ApproveCount, ApproveCommit, CloseUpdate
  <1>1. ASSUME UNCHANGED <<cycle, slips, inst>> PROVE Touches(m)
    BY <1>1 DEF Touches, SlipsOf
  <1>2. CASE CalcRead(p) \/ ReviewCount(p) \/ ApproveFind(p) \/ ApproveMark(p) \/ ApproveCount(p)
    BY <1>0, <1>1, <1>2 DEF CalcRead, ReviewCount, ApproveFind, ApproveMark, ApproveCount, rows
  <1>3. CASE RevertUpdate(p) \/ ReviewUpdate(p) \/ CloseUpdate(p)
    <2>1. Running(p) /\ UNCHANGED <<slips, inst>>
      BY <1>0, <1>3 DEF RevertUpdate, ReviewUpdate, CloseUpdate, At
    <2>2. \E status \in CycleStatus \cup {"DELETED"} : SetStatus(c, status)
      BY <1>3 DEF RevertUpdate, ReviewUpdate, CloseUpdate, CycleStatus
    <2> QED
      BY <1>0, <2>1, <2>2, StatusTouches, OwnRowsTouch DEF SlipsOf
  <1>4. CASE ApproveCommit(p)
    <2>1. Running(p) /\ UNCHANGED slips /\ SetStatus(c, "APPROVED")
      BY <1>0, <1>4 DEF ApproveCommit, At
    <2>2. \A i \in call[p].locked : i \in Linked(c)
      BY <2>1, RunningFacts DEF IInv, RequestsSound, SoundNow, Sound, Linked, Call
    <2>3. \A i \in Installments : Due[i] # m => inst'[i] = inst[i]
      BY <1>4, <2>1, <2>2, RunningFacts DEF ApproveCommit
    <2>4. "APPROVED" \in CycleStatus \cup {"DELETED"}
      BY DEF CycleStatus
    <2> QED
      BY <1>0, <2>1, <2>3, <2>4, StatusTouches, OwnRowsTouch DEF SlipsOf
  <1>5. CASE CreateUndo(p)
    <2>1. Running(p) /\ SetStatus(c, "DELETED") /\ slips' = slips \ SlipsOf(c)
      BY <1>0, <1>5 DEF CreateUndo, At
    <2>2. \A i \in Installments : Due[i] # m => inst'[i] = inst[i]
      BY <1>5, <2>1, RunningFacts DEF CreateUndo
    <2>3. \A d \in CycleIds : d # c => SlipsOf(d)' = SlipsOf(d)
      BY <2>1 DEF SlipsOf
    <2> QED
      BY <1>0, <2>1, <2>2, <2>3, StatusTouches, OwnRowsTouch
  <1>6. CASE RecalculateClear(p) \/ RevertClear(p)
    <2>1. Running(p) /\ UNCHANGED <<cycle, slips>>
      BY <1>0, <1>6 DEF RecalculateClear, RevertClear, At
    <2>2. \A i \in Installments : Due[i] # m => inst'[i] = inst[i]
      BY <1>6, <2>1, RunningFacts DEF RecalculateClear, RevertClear
    <2> QED
      BY <1>0, <2>1, <2>2 DEF Touches, SlipsOf
  <1>7. CASE RecalculateDelete(p)
    <2>1. Running(p) /\ UNCHANGED <<cycle, inst>> /\ slips' = slips \ SlipsOf(c)
      BY <1>0, <1>7 DEF RecalculateDelete, At
    <2>2. \A d \in CycleIds : d # c => SlipsOf(d)' = SlipsOf(d)
      BY <2>1 DEF SlipsOf
    <2> QED
      BY <1>0, <2>1, <2>2, RunningFacts, OwnRowsTouch
  <1>8. CASE CalcCommit(p)
    <2>1. Running(p) /\ UNCHANGED cycle /\ call[p].pc = "calc.commit"
      BY <1>0, <1>8 DEF CalcCommit, At
    <2>2. /\ \A s \in call[p].computed : s.cycle = c
          /\ \A s \in call[p].computed : \A i \in s.insts : Due[i] = m
      BY <2>1 DEF IInv, RequestsSound, SoundNow, Sound, RowsFor
    <2>3. \A d \in CycleIds : d # c => SlipsOf(d)' = SlipsOf(d)
      BY <1>8, <2>2 DEF CalcCommit, SlipsOf
    <2>4. \A i \in Installments : Due[i] # m => inst'[i] = inst[i]
      BY <1>8, <2>2 DEF CalcCommit
    <2> QED
      BY <1>0, <2>1, <2>3, <2>4, RunningFacts, OwnRowsTouch
  <1>9. CASE CreateInsert(p)
    <2>1. UNCHANGED <<slips, inst>>
      BY <1>9 DEF CreateInsert
    <2>2. \A d \in CycleIds : cycle'[d] = cycle[d] \/ (cycle[d] = Unused /\ cycle'[d].month = m)
      <3>1. ASSUME NEW e \in CycleIds, cycle[e] = Unused,
                   cycle' = [cycle EXCEPT ![e] = [month |-> m, status |-> "DRAFT"]]
            PROVE  \A d \in CycleIds : cycle'[d] = cycle[d] \/ (cycle[d] = Unused /\ cycle'[d].month = m)
        BY <3>1 DEF IInv, TypeOK
      <3>2. UNCHANGED cycle \/ \E e \in CycleIds :
              cycle[e] = Unused /\ cycle' = [cycle EXCEPT ![e] = [month |-> m, status |-> "DRAFT"]]
        BY <1>9 DEF CreateInsert
      <3> QED
        BY <3>1, <3>2
    <2> QED
      BY <1>0, <2>1, <2>2 DEF Touches, SlipsOf
  <1> QED
    BY <1>0, <1>2, <1>3, <1>4, <1>5, <1>6, <1>7, <1>8, <1>9 DEF Proceed

-----------------------------------------------------------------------------
(* A step of one request, and what is left to show of it.                  *)

\* The requests that Together lets into one month are the submits of one button.
LEMMA TogetherIs ==
  ASSUME NEW s \in Steps, NEW t \in Steps
  PROVE  Together(s, t) <=>
           \/ s = "create.insert" /\ t = "create.insert"
           \/ s \in {"review.count", "review.update"} /\ t \in {"review.count", "review.update"}
           \/ s \in {"revert.clear", "revert.update"} /\ t \in {"revert.clear", "revert.update"}
           \/ /\ s \in {"approve.find", "approve.mark", "approve.count"}
              /\ t \in {"approve.find", "approve.mark", "approve.count"}
           \/ s = "close.update" /\ t = "close.update"
  <1>1. ASSUME NEW K \in OneKind
        PROVE  {s, t} \subseteq K <=> s \in K /\ t \in K
    OBVIOUS
  <1>2. Together(s, t) <=> \E K \in OneKind : s \in K /\ t \in K
    BY <1>1 DEF Together
  <1> QED
    BY <1>2 DEF OneKind

\* A request that moves on stays a twin of the ones it was a twin of.
Follows(s, t) == \A u \in Steps : Pair(s, u) => Pair(t, u)

LEMMA FollowingSteps ==
  /\ Follows("calc.read", "calc.commit") /\ Follows("calc.read", "create.undo")
  /\ Follows("calc.commit", "create.undo")
  /\ Follows("recalculate.clear", "recalculate.delete") /\ Follows("recalculate.delete", "calc.read")
  /\ Follows("review.count", "review.update") /\ Follows("revert.clear", "revert.update")
  /\ Follows("approve.find", "approve.mark") /\ Follows("approve.find", "approve.count")
  /\ Follows("approve.mark", "approve.count") /\ Follows("approve.count", "approve.count")
  BY TogetherIs DEF Follows, Pair, Calculating, Steps

\* The requests that run alone in their month.
LEMMA Alone ==
  ASSUME IInv, SInv, NEW p \in Callers, NEW q \in Callers, p # q, Steady(p), Running(q),
         call[q].month = call[p].month,
         call[p].pc \in Calculating \cup {"recalculate.clear", "recalculate.delete"}
  PROVE  FALSE
  <1>1. Pair(call[p].pc, call[q].pc)
    BY DEF SInv, Apart, Steady, Running, At
  <1>2. call[p].pc \in Steps /\ call[q].pc \in Steps
    BY DEF IInv, TypeOK, Call
  <1> QED
    BY <1>1, <1>2, TogetherIs DEF Pair, Calculating, Running

\* Another month's request is backed as it was.
LEMMA OtherBacked ==
  ASSUME IInv, IInv', NEW p \in Callers, Touches(call[p].month),
         NEW q \in Callers, Running(q), BacksNow(call[q]), call[q].month # call[p].month,
         call'[q] = call[q]
  PROVE  Backs(cycle', slips', inst', call[q])
  <1> DEFINE r == call[q]
             c == r.cycle
             m == call[p].month
  <1>1. r \in Call /\ c \in CycleIds /\ c # None /\ cycle[c] # Unused /\ cycle[c].month = r.month
    BY RunningFacts
  <1>2. cycle'[c] = cycle[c] /\ SlipsOf(c)' = SlipsOf(c)
    BY <1>1 DEF Touches
  <1>3. ASSUME NEW i \in Installments, inst[i].link = c \/ inst'[i].link = c
        PROVE  inst'[i] = inst[i]
    <2>1. Due[i] = r.month
      BY <1>1, <1>2, <1>3 DEF IInv, LinkedInDueMonth
    <2> QED
      BY <2>1 DEF Touches
  <1>4. r.pc = "calc.commit" =>
          \A s \in r.computed : \A i \in s.insts : i \in Installments /\ Due[i] = r.month
    BY <1>1 DEF IInv, RequestsSound, SoundNow, Sound, RowsFor, Call, SlipRow
  <1>5. r.pc = "calc.commit" => \A s \in r.computed : \A i \in s.insts : inst'[i] = inst[i]
    BY <1>4 DEF Touches
  <1>6. (\A s \in slips : s.cycle # c) => (\A s \in slips' : s.cycle # c)
    BY <1>2 DEF SlipsOf
  <1> QED
    BY <1>2, <1>3, <1>5, <1>6 DEF Backs, BacksNow

\* The installments of the other months agree with their cycles as before.
LEMMA OthersAgree ==
  ASSUME IInv, RowsAgree, NEW m, Touches(m), NEW i \in Installments,
         Due[i] # m, Due[i] \notin mixed
  PROVE  Agrees(i)'
  <1>1. inst'[i] = inst[i] /\ Agrees(i)
    BY DEF Touches, RowsAgree
  <1>2. CASE inst[i].link = None
    BY <1>1, <1>2 DEF Agrees
  <1>3. CASE inst[i].link # None
    <2> DEFINE c == inst[i].link
    <2>1. c \in CycleIds /\ cycle[c].month = Due[i] /\ Exists(c)
      BY <1>3 DEF IInv, TypeOK, InstRow, NotScheduled, LinkedInDueMonth
    <2>2. cycle[c] # Unused
      BY <2>1 DEF Exists, Unused, CycleStatus
    <2>3. cycle'[c] = cycle[c] /\ SlipsOf(c)' = SlipsOf(c)
      BY <2>1, <2>2 DEF Touches
    <2>4. PICK s \in slips : s.cycle = c /\ i \in s.insts
      BY <1>1, <1>3 DEF Agrees
    <2>5. s \in slips'
      BY <2>3, <2>4 DEF SlipsOf
    <2> QED
      BY <1>1, <1>3, <2>3, <2>4, <2>5 DEF Agrees, Published
  <1> QED
    BY <1>2, <1>3

LEMMA StepOfOne ==
  ASSUME IInv, IInv', SInv, NEW p \in Callers, NEW r \in Call, Become(p, r),
         Touches(call[p].month), ~At(p, "idle"), UNCHANGED mixed,
         DeductedKept, PaidOffOnlyWhenDeducted', Paid(inst', mixed, r),
         r.pc = "idle" \/ (r.month = call[p].month /\
            (call[p].month \notin mixed =>
                \A q \in Callers \ {p} : ~At(q, "idle") /\ call[q].month = call[p].month =>
                    Pair(r.pc, call[q].pc))),
         call[p].month \notin mixed =>
            /\ \A i \in Installments : Due[i] = call[p].month => Agrees(i)'
            /\ r.pc \notin {"idle", "create.insert"} => Backs(cycle', slips', inst', r)
            /\ \A q \in Callers \ {p} : Steady(q) /\ call[q].month = call[p].month =>
                 Backs(cycle', slips', inst', call[q])
  PROVE  SInv'
  <1> DEFINE m == call[p].month
  <1>1. call'[p] = r /\ \A q \in Callers : q # p => call'[q] = call[q]
    BY DEF Become, IInv, TypeOK
  <1>2. Apart'
    <2> SUFFICES ASSUME NEW a \in Callers, NEW b \in Callers, a # b,
                        call'[a].pc # "idle", call'[b].pc # "idle",
                        call'[a].month = call'[b].month, call'[a].month \notin mixed
                 PROVE  Pair(call'[a].pc, call'[b].pc)
      BY DEF Apart, At
    <2>1. CASE a # p /\ b # p
      BY <1>1, <2>1 DEF SInv, Apart, At
    <2>2. CASE a = p
      BY <1>1, <2>2 DEF At
    <2>3. CASE b = p
      <3>1. Pair(call'[b].pc, call'[a].pc)
        BY <1>1, <2>3 DEF At
      <3>2. \A s, t : Pair(s, t) => Pair(t, s)
        <4>1. \A s, t : {s, t} = {t, s}
          OBVIOUS
        <4> QED
          BY <4>1 DEF Pair, Together
      <3> QED
        BY <3>1, <3>2
    <2> QED
      BY <2>1, <2>2, <2>3
  <1>3. AllRely'
    <2> SUFFICES ASSUME NEW q \in Callers, call'[q].pc \notin {"idle", "create.insert"},
                        call'[q].month \notin mixed
                 PROVE  Backs(cycle', slips', inst', call'[q])
      BY DEF AllRely, Steady, Running, BacksNow
    <2>1. CASE q = p
      BY <1>1, <2>1
    <2>2. CASE q # p
      <3>1. call'[q] = call[q] /\ Steady(q) /\ Running(q) /\ BacksNow(call[q])
        BY <1>1, <2>2 DEF SInv, AllRely, Steady, Running
      <3>2. CASE call[q].month = m
        BY <2>2, <3>1, <3>2 DEF Steady
      <3>3. CASE call[q].month # m
        BY <3>1, <3>3, OtherBacked
      <3> QED
        BY <3>2, <3>3
    <2> QED
      BY <2>1, <2>2
  <1>4. AllPaid'
    <2> SUFFICES ASSUME NEW q \in Callers
                 PROVE  Paid(inst', mixed, call'[q])
      BY DEF AllPaid
    <2>1. CASE q = p
      BY <1>1, <2>1
    <2>2. CASE q # p
      BY <1>1, <2>2 DEF SInv, AllPaid, Paid, DeductedKept
    <2> QED
      BY <2>1, <2>2
  <1>5. RowsAgree'
    <2> SUFFICES ASSUME NEW i \in Installments, Due[i] \notin mixed
                 PROVE  Agrees(i)'
      BY DEF RowsAgree
    <2>1. CASE Due[i] = m
      BY <2>1
    <2>2. CASE Due[i] # m
      BY <2>2, OthersAgree DEF SInv
    <2> QED
      BY <2>1, <2>2
  <1> QED
    BY <1>2, <1>3, <1>4, <1>5 DEF SInv

\* What p knows of a month of its own.
LEMMA Known ==
  ASSUME IInv, SInv, NEW p \in Callers, Steady(p)
  PROVE  /\ Running(p) /\ BacksNow(call[p])
         /\ cycle[call[p].cycle].status \in Began(call[p].pc) /\ Exists(call[p].cycle)
         /\ \A i \in Linked(call[p].cycle) :
              inst[i].status = "DEDUCTED" <=> Published(call[p].cycle)
  <1>1. Running(p) /\ BacksNow(call[p]) /\ cycle[call[p].cycle].status \in Began(call[p].pc)
    BY DEF SInv, AllRely, Steady, BacksNow, Backs
  <1>2. Exists(call[p].cycle)
    BY <1>1 DEF Began, Exists, CycleStatus
  <1>3. \A i \in Linked(call[p].cycle) : inst[i].status = "DEDUCTED" <=> Published(call[p].cycle)
    BY <1>1, RunningFacts DEF SInv, RowsAgree, Agrees, Steady, Linked
  <1> QED
    BY <1>1, <1>2, <1>3

\* A step that changes no row, and leaves the request the twin of the ones it was a twin of.
LEMMA ReadingStep ==
  ASSUME IInv, IInv', SInv, NEW p \in Callers, NEW r \in Call, Become(p, r),
         ~At(p, "idle"), UNCHANGED <<rows, mixed>>, Paid(inst, mixed, r),
         \/ r.pc = "idle"
         \/ /\ r.month = call[p].month
            /\ Follows(call[p].pc, r.pc)
            /\ Steady(p) => Backs(cycle, slips, inst, r)
            /\ Running(p)
  PROVE  SInv'
  <1>1. Touches(call[p].month) /\ DeductedKept /\ UNCHANGED <<cycle, slips, inst, loan>>
    BY DEF rows, Touches, DeductedKept, SlipsOf
  <1>2. /\ PaidOffOnlyWhenDeducted'
        /\ \A i \in Installments : Due[i] \notin mixed => Agrees(i)'
    BY <1>1 DEF SInv, PaidOffOnlyWhenDeducted, RowsAgree, Agrees, Published
  <1>3. Paid(inst', mixed, r)
    BY <1>1
  <1>4. r.pc = "idle" \/ (r.month = call[p].month /\
            (call[p].month \notin mixed =>
                \A q \in Callers \ {p} : ~At(q, "idle") /\ call[q].month = call[p].month =>
                    Pair(r.pc, call[q].pc)))
    <2>1. \A q \in Callers : call[q].pc \in Steps
      BY DEF IInv, TypeOK, Call
    <2> QED
      BY <2>1 DEF SInv, Apart, Follows
  <1>5. call[p].month \notin mixed =>
          /\ \A i \in Installments : Due[i] = call[p].month => Agrees(i)'
          /\ r.pc \notin {"idle", "create.insert"} => Backs(cycle', slips', inst', r)
          /\ \A q \in Callers \ {p} : Steady(q) /\ call[q].month = call[p].month =>
               Backs(cycle', slips', inst', call[q])
    BY <1>1, <1>2 DEF SInv, AllRely, BacksNow, Steady
  <1> QED
    BY <1>1, <1>2, <1>3, <1>4, <1>5, StepOfOne

\* A request that locks no loan claims nothing of it.
LEMMA NothingPaid ==
  ASSUME NEW insts, NEW r, r.paidOff = {}
  PROVE  Paid(insts, mixed, r)
  BY DEF Paid

LEMMA IdlePaid == Idle \in Call /\ Idle.pc = "idle" /\ Idle.paidOff = {}
  BY IdleSound DEF Idle

\* A request that a twin of p is at the same time.
LEMMA Twin ==
  ASSUME IInv, SInv, NEW p \in Callers, NEW q \in Callers, p # q, Steady(p), Steady(q),
         call[q].month = call[p].month
  PROVE  /\ call[q].cycle = call[p].cycle /\ Began(call[q].pc) = Began(call[p].pc)
         /\ call[q].pc \notin Calculating \cup {"recalculate.clear", "recalculate.delete"}
         /\ call[q].pc = "approve.count" =>
              call[p].pc \in {"approve.find", "approve.mark", "approve.count"}
  <1>1. call[q].cycle = call[p].cycle
    BY Known, RunningFacts DEF IInv, OneCyclePerMonth
  <1>2. call[q].pc \notin Calculating \cup {"recalculate.clear", "recalculate.delete"}
    BY Alone DEF Steady
  <1>3. call[p].pc \notin Calculating
    BY Alone DEF Steady
  <1>4. Together(call[p].pc, call[q].pc) /\ call[p].pc \in Steps /\ call[q].pc \in Steps
    BY <1>2, <1>3 DEF SInv, Apart, Steady, Running, At, Pair, IInv, TypeOK, Call
  <1> QED
    BY <1>1, <1>2, <1>4, TogetherIs DEF Began, Steady, Running

\* The steps that set a status and return.
LEMMA UpdateSInv ==
  ASSUME IInv, IInv', SInv, NEW p \in Callers, RevertUpdate(p) \/ ReviewUpdate(p) \/ CloseUpdate(p)
  PROVE  SInv'
  <1> DEFINE c == call[p].cycle
  <1>0. PICK status \in {"DRAFT", "REVIEW", "CLOSED"} :
          /\ SetStatus(c, status) /\ Become(p, Idle) /\ UNCHANGED <<slips, inst, loan, staff, mixed>>
          /\ call[p].pc \in {"revert.update", "review.update", "close.update"}
          /\ status \in Began(call[p].pc)
          /\ status = "CLOSED" <=> call[p].pc = "close.update"
    BY DEF RevertUpdate, ReviewUpdate, CloseUpdate, At, Return, Began
  <1>1. Running(p) /\ status \in CycleStatus \cup {"DELETED"} /\ Proceed(p)
    BY <1>0 DEF Running, CycleStatus, Proceed
  <1>2. Touches(call[p].month) /\ ~At(p, "idle")
    BY <1>1, ProceedTouches
  <1>3. DeductedKept /\ PaidOffOnlyWhenDeducted' /\ Paid(inst', mixed, Idle)
    BY <1>0, IdlePaid, NothingPaid DEF DeductedKept, PaidOffOnlyWhenDeducted, SInv
  <1>4. ASSUME call[p].month \notin mixed
        PROVE  /\ \A i \in Installments : Due[i] = call[p].month => Agrees(i)'
               /\ \A q \in Callers \ {p} : Steady(q) /\ call[q].month = call[p].month =>
                    Backs(cycle', slips', inst', call[q])
    <2>1. Steady(p)
      BY <1>1, <1>4 DEF Steady
    <2>2. /\ \A d \in CycleIds : d # c => cycle'[d] = cycle[d]
          /\ cycle'[c].status = status /\ c \in CycleIds /\ cycle[c].status \in Began(call[p].pc)
      BY <1>0, <1>1, <2>1, StatusTouches, RunningFacts, Known
    <2>3. \A d \in CycleIds : Published(d)' <=> Published(d)
      BY <1>0, <2>2 DEF Published, Began
    <2>4. \A i \in Installments : inst[i].link \in CycleIds \cup {None}
      BY DEF IInv, TypeOK, InstRow, NotScheduled
    <2>5. \A i \in Installments : Due[i] = call[p].month => Agrees(i)'
      BY <1>0, <1>4, <2>3, <2>4 DEF SInv, RowsAgree, Agrees
    <2>6. ASSUME NEW q \in Callers \ {p}, Steady(q), call[q].month = call[p].month
          PROVE  Backs(cycle', slips', inst', call[q])
      <3>1. /\ call[q].cycle = c /\ Began(call[q].pc) = Began(call[p].pc)
            /\ call[q].pc \notin Calculating \cup {"recalculate.clear", "recalculate.delete"}
            /\ call[q].pc # "approve.count"
        BY <1>0, <2>1, <2>6, Twin
      <3> QED
        BY <1>0, <2>2, <3>1 DEF Backs, Calculating
    <2> QED
      BY <2>5, <2>6
  <1> QED
    BY <1>0, <1>2, <1>3, <1>4, IdlePaid, StepOfOne

LEMMA ReturnSInv ==
  ASSUME IInv, IInv', SInv, NEW p \in Callers, Become(p, Idle), ~At(p, "idle"),
         UNCHANGED <<rows, mixed>>
  PROVE  SInv'
  BY IdlePaid, NothingPaid, ReadingStep

LEMMA ThrowSInv ==
  ASSUME IInv, IInv', SInv, NEW p \in Callers, call[p].pc \in {"calc.read", "calc.commit"},
         CalcThrows(p), UNCHANGED <<rows, mixed>>
  PROVE  SInv'
  <1> DEFINE r == [call[p] EXCEPT !.pc = "create.undo", !.computed = {}]
  <1>0. Running(p)
    BY DEF Running
  <1>1. CASE Become(p, r)
    <2>1. /\ r \in Call /\ r.pc = "create.undo" /\ r.month = call[p].month
          /\ r.cycle = call[p].cycle /\ r.paidOff = {}
      BY <1>0, RunningFacts DEF Call, Steps, IInv, RequestsSound, SoundNow, Sound
    <2>2. Follows(call[p].pc, r.pc)
      BY <2>1, FollowingSteps
    <2>3. Steady(p) => Backs(cycle, slips, inst, r)
      BY <2>1, Known DEF BacksNow, Backs, Began, Calculating
    <2> HIDE DEF r
    <2> QED
      BY <1>0, <1>1, <2>1, <2>2, <2>3, RunningFacts, NothingPaid, ReadingStep
  <1>2. CASE Become(p, Idle)
    BY <1>0, <1>2, RunningFacts, ReturnSInv
  <1> QED
    BY <1>1, <1>2 DEF CalcThrows, Return

LEMMA CalcReadSInv ==
  ASSUME IInv, IInv', SInv, NEW p \in Callers, CalcRead(p)
  PROVE  SInv'
  <1> DEFINE c == call[p].cycle
             r == [call[p] EXCEPT !.pc = "calc.commit", !.computed = ComputedSlips(c)]
  <1>0. Running(p) /\ call[p].pc = "calc.read" /\ UNCHANGED <<rows, mixed>>
    BY DEF CalcRead, At, Running
  <1>1. CASE Active # {} /\ Become(p, r)
    <2>1. /\ r.pc = "calc.commit" /\ r.month = call[p].month /\ r.cycle = c
          /\ r.computed = ComputedSlips(c) /\ r.paidOff = {}
      BY <1>0, RunningFacts DEF Call, IInv, RequestsSound, SoundNow, Sound
    <2>2. r \in Call
      BY <1>1 DEF IInv, TypeOK, Become
    <2>3. Follows(call[p].pc, r.pc)
      BY <1>0, <2>1, FollowingSteps
    <2>4. ComputedSlips(c) # {}
      BY <1>1 DEF ComputedSlips
    <2>5. \A s \in ComputedSlips(c) : \A i \in s.insts : inst[i].status # "DEDUCTED"
      BY DEF ComputedSlips, Collectible
    <2>6. Steady(p) => Backs(cycle, slips, inst, r)
      BY <1>0, <2>1, <2>4, <2>5, Known DEF BacksNow, Backs, Began, Calculating
    <2> HIDE DEF r
    <2> QED
      BY <1>0, <1>1, <2>1, <2>2, <2>3, <2>6, RunningFacts, NothingPaid, ReadingStep
  <1> QED
    BY <1>0, <1>1, ThrowSInv DEF CalcRead

LEMMA CreateInsertSInv ==
  ASSUME IInv, IInv', SInv, NEW p \in Callers, CreateInsert(p)
  PROVE  SInv'
  <1> DEFINE m == call[p].month
  <1>0. /\ ~At(p, "idle") /\ call[p] \in Call /\ m \in Months /\ call[p].pc = "create.insert"
        /\ call[p].paidOff = {}
    BY DEF CreateInsert, At, IInv, TypeOK, RequestsSound, SoundNow, Sound
  <1>1. CASE Return(p) /\ UNCHANGED cycle
    <2>1. UNCHANGED <<rows, mixed>>
      BY <1>1 DEF CreateInsert, rows
    <2> QED
      BY <1>0, <1>1, <2>1, ReturnSInv DEF Return
  <1>2. ASSUME NEW c \in CycleIds, cycle[c] = Unused, ~MonthTaken(m),
               cycle' = [cycle EXCEPT ![c] = [month |-> m, status |-> "DRAFT"]],
               Become(p, [call[p] EXCEPT !.pc = "calc.read", !.cycle = c, !.create = TRUE])
        PROVE  SInv'
    <2> DEFINE r == [call[p] EXCEPT !.pc = "calc.read", !.cycle = c, !.create = TRUE]
    <2>1. r \in Call /\ r.pc = "calc.read" /\ r.month = m /\ r.cycle = c /\ r.paidOff = {}
      BY <1>0 DEF Call, Steps
    <2>2. UNCHANGED <<slips, inst, loan, mixed>> /\ Proceed(p)
      BY DEF CreateInsert, Proceed
    <2>3. /\ cycle'[c] = [month |-> m, status |-> "DRAFT"]
          /\ \A d \in CycleIds \ {c} : cycle'[d] = cycle[d]
      BY <1>2 DEF IInv, TypeOK
    <2>4. \A s \in slips : s.cycle # c
      BY <1>2 DEF IInv, SlipsSound, Exists, Unused, CycleStatus
    <2>5. DeductedKept /\ PaidOffOnlyWhenDeducted' /\ Paid(inst', mixed, r)
      BY <2>1, <2>2, NothingPaid DEF DeductedKept, PaidOffOnlyWhenDeducted, SInv
    <2>6. \A d \in CycleIds : Published(d)' <=> Published(d)
      BY <1>2, <2>3 DEF Published, Unused
    <2>7. \A i \in Installments : Due[i] \notin mixed => Agrees(i)'
      <3>1. \A i \in Installments : inst[i].link \in CycleIds \cup {None}
        BY DEF IInv, TypeOK, InstRow, NotScheduled
      <3> QED
        BY <2>2, <2>6, <3>1 DEF SInv, RowsAgree, Agrees
    <2>8. Backs(cycle', slips', inst', r)
      BY <2>1, <2>2, <2>3, <2>4 DEF Backs, Began, Calculating
    <2>9. ASSUME NEW q \in Callers, Steady(q) PROVE call[q].month # m
      BY <1>2, <2>9, Known, RunningFacts DEF MonthTaken
    <2>10. m \notin mixed => \A q \in Callers \ {p} : ~At(q, "idle") /\ call[q].month = m =>
             Pair(r.pc, call[q].pc)
      <3> SUFFICES ASSUME m \notin mixed, NEW q \in Callers \ {p}, ~At(q, "idle"), call[q].month = m
                   PROVE  Pair(r.pc, call[q].pc)
        OBVIOUS
      <3>1. call[q].pc = "create.insert"
        BY <2>9 DEF Steady, Running, At
      <3> QED
        BY <2>1, <3>1 DEF Pair, Calculating
    <2> HIDE DEF r
    <2> QED
      BY <1>0, <1>2, <2>1, <2>2, <2>5, <2>7, <2>8, <2>9, <2>10, ProceedTouches, StepOfOne DEF r
  <1> QED
    BY <1>1, <1>2 DEF CreateInsert

\* Outside the month of p nothing is collected or given back.
LEMMA DeductedStays ==
  ASSUME SInv, NEW m, Touches(m), UNCHANGED <<loan, mixed>>,
         m \notin mixed => \A i \in Installments :
           Due[i] = m /\ inst[i].status = "DEDUCTED" => inst'[i].status = "DEDUCTED"
  PROVE  DeductedKept /\ PaidOffOnlyWhenDeducted'
  BY DEF Touches, DeductedKept, SInv, PaidOffOnlyWhenDeducted

LEMMA CreateUndoSInv ==
  ASSUME IInv, IInv', SInv, NEW p \in Callers, CreateUndo(p)
  PROVE  SInv'
  <1> DEFINE c == call[p].cycle
             m == call[p].month
  <1>0. Running(p) /\ call[p].pc = "create.undo" /\ Proceed(p)
    BY DEF CreateUndo, At, Running, Proceed
  <1>1. /\ slips' = slips \ SlipsOf(c) /\ SetStatus(c, "DELETED")
        /\ \A i \in Installments : i \in Linked(c) => inst'[i] = [inst[i] EXCEPT !.link = None]
        /\ \A i \in Installments : i \notin Linked(c) => inst'[i] = inst[i]
        /\ Become(p, Idle) /\ UNCHANGED <<loan, mixed>>
    BY DEF CreateUndo, Return
  <1>2. Touches(m) /\ ~At(p, "idle")
    BY <1>0, ProceedTouches
  <1>3. ASSUME NEW i \in Installments, i \in Linked(c)
        PROVE  inst'[i].status = inst[i].status /\ inst'[i].link = None
    BY <1>1, <1>3 DEF IInv, TypeOK, InstRow, NotScheduled
  <1>4. ASSUME m \notin mixed
        PROVE  /\ \A i \in Installments : Due[i] = m => Agrees(i)'
               /\ \A i \in Installments : inst'[i].status = inst[i].status
               /\ \A q \in Callers \ {p} : Steady(q) => call[q].month # m
    <2>1. Steady(p) /\ SlipsOf(c) = {} /\ ~Published(c) /\ c \in CycleIds
      BY <1>0, <1>4, Known, RunningFacts DEF Steady, BacksNow, Backs, Calculating, SlipsOf, Began, Published
    <2>2. \A q \in Callers \ {p} : Steady(q) => call[q].month # m
      BY <1>0, <2>1, Alone DEF Calculating, Steady
    <2>3. \A d \in CycleIds : d # c => cycle'[d] = cycle[d]
      BY <1>0, <1>1, StatusTouches
    <2>4. ASSUME NEW i \in Installments, Due[i] = m
          PROVE  Agrees(i)'
      <3>1. Agrees(i) /\ inst[i].link \in CycleIds \cup {None}
        BY <1>4, <2>4 DEF SInv, RowsAgree, IInv, TypeOK, InstRow, NotScheduled
      <3>2. CASE i \in Linked(c)
        BY <1>3, <2>1, <3>1, <3>2, RunningFacts, <1>0 DEF Agrees, Linked
      <3>3. CASE i \notin Linked(c)
        BY <1>1, <2>1, <2>3, <3>1, <3>3 DEF Agrees, Linked, Published, SlipsOf
      <3> QED
        BY <3>2, <3>3
    <2> QED
      BY <1>1, <1>3, <2>2, <2>4
  <1>5. DeductedKept /\ PaidOffOnlyWhenDeducted' /\ Paid(inst', mixed, Idle)
    BY <1>1, <1>2, <1>4, DeductedStays, IdlePaid, NothingPaid
  <1> QED
    BY <1>1, <1>2, <1>4, <1>5, IdlePaid, StepOfOne

LEMMA CalcCommitSInv ==
  ASSUME IInv, IInv', SInv, NEW p \in Callers, CalcCommit(p)
  PROVE  SInv'
  <1> DEFINE c == call[p].cycle
             m == call[p].month
             new == call[p].computed
             linked == UNION {s.insts : s \in new}
  <1>0. Running(p) /\ call[p].pc = "calc.commit" /\ Proceed(p) /\ UNCHANGED <<cycle, loan, mixed>>
    BY DEF CalcCommit, At, Running, Proceed
  <1>1. CASE CalcThrows(p) /\ UNCHANGED <<slips, inst>>
    BY <1>0, <1>1, ThrowSInv DEF rows
  <1>2. CASE /\ slips' = slips \cup new
             /\ inst' = [i \in Installments |->
                           IF i \in linked THEN [inst[i] EXCEPT !.link = c] ELSE inst[i]]
             /\ Become(p, Idle)
    <2>1. Touches(m) /\ ~At(p, "idle")
      BY <1>0, ProceedTouches
    <2>2. \A i \in Installments : inst'[i].status = inst[i].status
      BY <1>2 DEF IInv, TypeOK, InstRow, NotScheduled
    <2>3. DeductedKept /\ PaidOffOnlyWhenDeducted' /\ Paid(inst', mixed, Idle)
      BY <1>0, <2>1, <2>2, DeductedStays, IdlePaid, NothingPaid
    <2>4. ASSUME m \notin mixed
          PROVE  /\ \A i \in Installments : Due[i] = m => Agrees(i)'
                 /\ \A q \in Callers \ {p} : Steady(q) => call[q].month # m
      <3>1. /\ Steady(p) /\ ~Published(c) /\ c \in CycleIds /\ c # None
            /\ \A s \in new : \A i \in s.insts : inst[i].status # "DEDUCTED"
        BY <1>0, <2>4, Known, RunningFacts DEF Steady, BacksNow, Backs, Began, Published
      <3>2. \A q \in Callers \ {p} : Steady(q) => call[q].month # m
        BY <1>0, <3>1, Alone DEF Calculating, Steady
      <3>3. \A s \in new : s.cycle = c
        BY <1>0 DEF IInv, RequestsSound, SoundNow, Sound, RowsFor
      <3>4. ASSUME NEW i \in Installments, Due[i] = m
            PROVE  Agrees(i)'
        <4>1. Agrees(i)
          BY <2>4, <3>4 DEF SInv, RowsAgree
        <4>2. CASE i \in linked
          <5>1. PICK s \in new : i \in s.insts
            BY <4>2
          <5>2. inst'[i].link \in {c, inst[i].link} /\ inst'[i].status # "DEDUCTED"
            BY <1>2, <2>2, <3>1, <5>1 DEF IInv, TypeOK, InstRow, NotScheduled
          <5>3. inst'[i].link = c
            BY <1>0, <1>2, <4>2 DEF IInv, TypeOK, InstRow, NotScheduled
          <5> QED
            BY <1>0, <1>2, <3>1, <3>3, <5>1, <5>2, <5>3 DEF Agrees, Published
        <4>3. CASE i \notin linked
          BY <1>0, <1>2, <4>1, <4>3 DEF Agrees, Published
        <4> QED
          BY <4>2, <4>3
      <3> QED
        BY <3>2, <3>4
    <2> QED
      BY <1>0, <1>2, <2>1, <2>3, <2>4, IdlePaid, StepOfOne
  <1> QED
    BY <1>1, <1>2 DEF CalcCommit, Return

LEMMA RecalculateClearSInv ==
  ASSUME IInv, IInv', SInv, NEW p \in Callers, RecalculateClear(p)
  PROVE  SInv'
  <1> DEFINE c == call[p].cycle
             m == call[p].month
             r == [call[p] EXCEPT !.pc = "recalculate.delete"]
  <1>0. Running(p) /\ call[p].pc = "recalculate.clear" /\ Proceed(p)
    BY DEF RecalculateClear, At, Running, Proceed
  <1>1. /\ Become(p, r) /\ UNCHANGED <<cycle, slips, loan, mixed>>
        /\ \A i \in Installments : i \in Linked(c) => inst'[i] = [status |-> "PENDING", link |-> None]
        /\ \A i \in Installments : i \notin Linked(c) => inst'[i] = inst[i]
    BY DEF RecalculateClear, Goto
  <1>2. Touches(m) /\ ~At(p, "idle")
    BY <1>0, ProceedTouches
  <1>3. r \in Call /\ r.pc = "recalculate.delete" /\ r.month = m /\ r.cycle = c /\ r.paidOff = {}
    BY <1>0, RunningFacts DEF Call, Steps, IInv, RequestsSound, SoundNow, Sound
  <1>4. ASSUME m \notin mixed
        PROVE  /\ \A i \in Installments : Due[i] = m => Agrees(i)'
               /\ \A i \in Installments : inst[i].status = "DEDUCTED" => inst'[i].status = "DEDUCTED"
               /\ \A q \in Callers \ {p} : Steady(q) => call[q].month # m
               /\ Backs(cycle', slips', inst', r)
    <2>1. Steady(p) /\ ~Published(c) /\ c # None /\ cycle[c].status = "DRAFT"
      BY <1>0, <1>4, Known, RunningFacts DEF Steady, Began, Published
    <2>2. \A q \in Callers \ {p} : Steady(q) => call[q].month # m
      BY <1>0, <2>1, Alone DEF Calculating, Steady
    <2>3. \A i \in Linked(c) : inst[i].status # "DEDUCTED"
      BY <2>1, Known
    <2>4. \A i \in Installments : Due[i] = m => Agrees(i)'
      BY <1>1, <1>4, <2>3 DEF SInv, RowsAgree, Agrees, Published
    <2>5. \A i \in Installments : inst'[i].link # c
      BY <1>1, <2>1 DEF Linked
    <2>6. Backs(cycle', slips', inst', r)
      BY <1>1, <1>3, <2>1, <2>5 DEF Backs, Began, Calculating
    <2> QED
      BY <1>1, <2>2, <2>3, <2>4, <2>6
  <1>5. DeductedKept /\ PaidOffOnlyWhenDeducted' /\ Paid(inst', mixed, r)
    BY <1>1, <1>2, <1>3, <1>4, DeductedStays, NothingPaid
  <1>6. \A q \in Callers \ {p} : m \notin mixed /\ ~At(q, "idle") /\ call[q].month = m =>
           Pair(r.pc, call[q].pc)
    <2>1. Follows(call[p].pc, r.pc) /\ \A q \in Callers : call[q].pc \in Steps
      BY <1>0, <1>3, FollowingSteps DEF IInv, TypeOK, Call
    <2> QED
      BY <1>2, <2>1 DEF SInv, Apart, Follows
  <1> HIDE DEF r
  <1> QED
    BY <1>1, <1>2, <1>3, <1>4, <1>5, <1>6, StepOfOne

LEMMA RecalculateDeleteSInv ==
  ASSUME IInv, IInv', SInv, NEW p \in Callers, RecalculateDelete(p)
  PROVE  SInv'
  <1> DEFINE c == call[p].cycle
             m == call[p].month
             r == [call[p] EXCEPT !.pc = "calc.read"]
  <1>0. Running(p) /\ call[p].pc = "recalculate.delete" /\ Proceed(p)
    BY DEF RecalculateDelete, At, Running, Proceed
  <1>1. Become(p, r) /\ UNCHANGED <<cycle, inst, loan, mixed>> /\ slips' = slips \ SlipsOf(c)
    BY DEF RecalculateDelete, Goto
  <1>2. Touches(m) /\ ~At(p, "idle")
    BY <1>0, ProceedTouches
  <1>3. r \in Call /\ r.pc = "calc.read" /\ r.month = m /\ r.cycle = c /\ r.paidOff = {}
    BY <1>0, RunningFacts DEF Call, Steps, IInv, RequestsSound, SoundNow, Sound
  <1>4. ASSUME m \notin mixed
        PROVE  /\ \A i \in Installments : Due[i] = m => Agrees(i)'
               /\ \A q \in Callers \ {p} : Steady(q) => call[q].month # m
               /\ Backs(cycle', slips', inst', r)
    <2>1. Steady(p) /\ cycle[c].status = "DRAFT" /\ \A i \in Installments : inst[i].link # c
      BY <1>0, <1>4, Known DEF Steady, Began, BacksNow, Backs
    <2>2. \A q \in Callers \ {p} : Steady(q) => call[q].month # m
      BY <1>0, <2>1, Alone DEF Calculating, Steady
    <2>3. \A i \in Installments : Due[i] = m => Agrees(i)'
      BY <1>1, <1>4, <2>1 DEF SInv, RowsAgree, Agrees, Published, SlipsOf
    <2>4. \A s \in slips' : s.cycle # c
      BY <1>1 DEF SlipsOf
    <2>5. Backs(cycle', slips', inst', r)
      BY <1>1, <1>3, <2>1, <2>4 DEF Backs, Began, Calculating
    <2> QED
      BY <2>2, <2>3, <2>5
  <1>5. DeductedKept /\ PaidOffOnlyWhenDeducted' /\ Paid(inst', mixed, r)
    BY <1>1, <1>2, <1>3, DeductedStays, NothingPaid
  <1>6. \A q \in Callers \ {p} : m \notin mixed /\ ~At(q, "idle") /\ call[q].month = m =>
           Pair(r.pc, call[q].pc)
    <2>1. Follows(call[p].pc, r.pc) /\ \A q \in Callers : call[q].pc \in Steps
      BY <1>0, <1>3, FollowingSteps DEF IInv, TypeOK, Call
    <2> QED
      BY <1>2, <2>1 DEF SInv, Apart, Follows
  <1> HIDE DEF r
  <1> QED
    BY <1>1, <1>2, <1>3, <1>4, <1>5, <1>6, StepOfOne

LEMMA RevertClearSInv ==
  ASSUME IInv, IInv', SInv, NEW p \in Callers, RevertClear(p)
  PROVE  SInv'
  <1> DEFINE c == call[p].cycle
             m == call[p].month
             r == [call[p] EXCEPT !.pc = "revert.update"]
             linked == {i \in Linked(c) : inst[i].status = "PENDING"}
  <1>0. Running(p) /\ call[p].pc = "revert.clear" /\ Proceed(p)
    BY DEF RevertClear, At, Running, Proceed
  <1>1. /\ Become(p, r) /\ UNCHANGED <<cycle, slips, loan, mixed>>
        /\ inst' = [i \in Installments |->
                      IF i \in linked THEN [inst[i] EXCEPT !.link = None] ELSE inst[i]]
    BY DEF RevertClear, Goto
  <1>2. Touches(m) /\ ~At(p, "idle")
    BY <1>0, ProceedTouches
  <1>3. r \in Call /\ r.pc = "revert.update" /\ r.month = m /\ r.cycle = c /\ r.paidOff = {}
    BY <1>0, RunningFacts DEF Call, Steps, IInv, RequestsSound, SoundNow, Sound
  <1>4. /\ \A i \in Installments : inst'[i].status = inst[i].status
        /\ \A i \in Installments : i \in linked => inst'[i].link = None /\ inst[i].status = "PENDING"
        /\ \A i \in Installments : i \notin linked => inst'[i] = inst[i]
    BY <1>1 DEF IInv, TypeOK, InstRow, NotScheduled
  <1> HIDE DEF linked
  <1>5. ASSUME m \notin mixed
        PROVE  /\ \A i \in Installments : Due[i] = m => Agrees(i)'
               /\ Backs(cycle', slips', inst', r)
               /\ \A q \in Callers \ {p} : Steady(q) /\ call[q].month = m =>
                    Backs(cycle', slips', inst', call[q])
    <2>1. Steady(p) /\ cycle[c].status \in {"DRAFT", "REVIEW"}
      BY <1>0, <1>5, Known DEF Steady, Began
    <2>2. \A i \in Installments : Due[i] = m => Agrees(i)'
      BY <1>1, <1>4, <1>5 DEF SInv, RowsAgree, Agrees, Published
    <2>3. Backs(cycle', slips', inst', r)
      BY <1>1, <1>3, <2>1 DEF Backs, Began, Calculating
    <2>4. ASSUME NEW q \in Callers \ {p}, Steady(q), call[q].month = m
          PROVE  Backs(cycle', slips', inst', call[q])
      <3>1. /\ call[q].cycle = c /\ Began(call[q].pc) = Began(call[p].pc)
            /\ call[q].pc \notin Calculating \cup {"recalculate.clear", "recalculate.delete"}
            /\ call[q].pc # "approve.count"
        BY <1>0, <2>1, <2>4, Twin
      <3>2. Began(call[p].pc) = {"DRAFT", "REVIEW"}
        BY <1>0 DEF Began
      <3> QED
        BY <1>1, <2>1, <3>1, <3>2 DEF Backs, Calculating
    <2> QED
      BY <2>2, <2>3, <2>4
  <1>6. DeductedKept /\ PaidOffOnlyWhenDeducted' /\ Paid(inst', mixed, r)
    BY <1>1, <1>2, <1>3, <1>4, DeductedStays, NothingPaid
  <1>7. \A q \in Callers \ {p} : m \notin mixed /\ ~At(q, "idle") /\ call[q].month = m =>
           Pair(r.pc, call[q].pc)
    <2>1. Follows(call[p].pc, r.pc) /\ \A q \in Callers : call[q].pc \in Steps
      BY <1>0, <1>3, FollowingSteps DEF IInv, TypeOK, Call
    <2> QED
      BY <1>2, <2>1 DEF SInv, Apart, Follows
  <1> HIDE DEF r
  <1> QED
    BY <1>1, <1>2, <1>3, <1>5, <1>6, <1>7, StepOfOne

LEMMA ReviewCountSInv ==
  ASSUME IInv, IInv', SInv, NEW p \in Callers, ReviewCount(p)
  PROVE  SInv'
  <1> DEFINE r == [call[p] EXCEPT !.pc = "review.update"]
  <1>0. Running(p) /\ call[p].pc = "review.count" /\ UNCHANGED <<rows, mixed>>
    BY DEF ReviewCount, At, Running
  <1>1. CASE Become(p, Idle)
    BY <1>0, <1>1, RunningFacts, ReturnSInv
  <1>2. CASE Become(p, r)
    <2>1. /\ r \in Call /\ r.pc = "review.update" /\ r.month = call[p].month
          /\ r.cycle = call[p].cycle /\ r.paidOff = {}
      BY <1>0, RunningFacts DEF Call, Steps, IInv, RequestsSound, SoundNow, Sound
    <2>2. Follows(call[p].pc, r.pc)
      BY <1>0, <2>1, FollowingSteps
    <2>3. Steady(p) => Backs(cycle, slips, inst, r)
      BY <1>0, <2>1, Known DEF Backs, Began, Calculating
    <2> HIDE DEF r
    <2> QED
      BY <1>0, <1>2, <2>1, <2>2, <2>3, RunningFacts, NothingPaid, ReadingStep
  <1> QED
    BY <1>1, <1>2 DEF ReviewCount, Return, Goto

LEMMA ApproveReadSInv ==
  ASSUME IInv, IInv', SInv, NEW p \in Callers, ApproveFind(p) \/ ApproveMark(p)
  PROVE  SInv'
  <1> DEFINE linked == Linked(call[p].cycle)
  <1>0. /\ Running(p) /\ UNCHANGED <<rows, mixed>> /\ call[p] \in Call /\ ~At(p, "idle")
        /\ call[p].pc # "approve.count" /\ call[p].paidOff = {}
    BY RunningFacts
    DEF ApproveFind, ApproveMark, At, Running, IInv, TypeOK, RequestsSound, SoundNow, Sound
  <1>1. ASSUME NEW r \in Call, Become(p, r), Follows(call[p].pc, r.pc), r.month = call[p].month,
               r.paidOff = {}, Steady(p) => Backs(cycle, slips, inst, r)
        PROVE  SInv'
    BY <1>0, <1>1, NothingPaid, ReadingStep
  <1>2. CASE ApproveFind(p)
    <2> DEFINE r == [call[p] EXCEPT !.pc = IF linked = {} THEN "approve.count" ELSE "approve.mark",
                                    !.todo = {LoanOf[i] : i \in linked}]
    <2>1. Become(p, r) /\ call[p].pc = "approve.find" /\ r \in Call
      <3>1. Become(p, r) /\ call[p].pc = "approve.find"
        BY <1>2 DEF ApproveFind, At
      <3>2. {LoanOf[i] : i \in linked} \subseteq Loans
        BY ConstantsAssumption DEF Linked
      <3> QED
        BY <1>0, <3>1, <3>2 DEF Call, Steps
    <2>2. /\ r.pc \in {"approve.count", "approve.mark"} /\ r.pc = "approve.count" => linked = {}
          /\ r.month = call[p].month /\ r.cycle = call[p].cycle /\ r.paidOff = {}
      BY <1>0 DEF Call
    <2>3. Follows(call[p].pc, r.pc)
      BY <2>1, <2>2, FollowingSteps
    <2>4. Steady(p) => Backs(cycle, slips, inst, r)
      BY <2>1, <2>2, Known DEF Backs, Began, Calculating, Linked
    <2> HIDE DEF r
    <2> QED
      BY <1>1, <2>1, <2>2, <2>3, <2>4
  <1>3. CASE ApproveMark(p)
    <2> DEFINE r == [call[p] EXCEPT !.pc = "approve.count", !.locked = linked]
    <2>1. Become(p, r) /\ call[p].pc = "approve.mark"
      BY <1>3 DEF ApproveMark, At
    <2>2. /\ r \in Call /\ r.pc = "approve.count" /\ r.locked = linked
          /\ r.month = call[p].month /\ r.cycle = call[p].cycle /\ r.paidOff = {}
      BY <1>0 DEF Call, Steps, Linked
    <2>3. Follows(call[p].pc, r.pc)
      BY <2>1, <2>2, FollowingSteps
    <2>4. Steady(p) => Backs(cycle, slips, inst, r)
      BY <2>1, <2>2, Known DEF Backs, Began, Calculating, Linked
    <2> HIDE DEF r
    <2> QED
      BY <1>1, <2>1, <2>2, <2>3, <2>4
  <1> QED
    BY <1>2, <1>3

LEMMA ApproveCountSInv ==
  ASSUME IInv, IInv', SInv, NEW p \in Callers, ApproveCount(p)
  PROVE  SInv'
  <1>0. /\ Running(p) /\ UNCHANGED <<rows, mixed>> /\ call[p] \in Call /\ ~At(p, "idle")
        /\ call[p].pc = "approve.count"
        /\ \A l \in call[p].todo : l \in Loans /\ loan[l] # "PENDING"
    BY RunningFacts
    DEF ApproveCount, At, Running, IInv, TypeOK, RequestsSound, SoundNow, Sound, Call
  <1>1. ASSUME NEW r \in Call, Become(p, r), Paid(inst, mixed, r),
               r.pc = "approve.count", r.month = call[p].month, r.cycle = call[p].cycle,
               r.locked = call[p].locked
        PROVE  SInv'
    <2>1. Follows(call[p].pc, r.pc)
      BY <1>0, <1>1, FollowingSteps
    <2>2. Steady(p) => Backs(cycle, slips, inst, r)
      BY <1>0, <1>1, Known DEF BacksNow, Backs, Calculating
    <2> QED
      BY <1>0, <1>1, <2>1, <2>2, ReadingStep
  <1>2. PICK l \in call[p].todo :
          \/ Become(p, [call[p] EXCEPT !.todo = @ \ {l}])
          \/ Become(p, Idle)
          \/ /\ ~StillPending(p, l)
             /\ loan[l] # "REMOVED"
             /\ Become(p, [call[p] EXCEPT !.todo = @ \ {l}, !.paidOff = @ \cup {l}])
    BY DEF ApproveCount, Return
  <1> DEFINE r == [call[p] EXCEPT !.todo = @ \ {l}]
             t == [call[p] EXCEPT !.todo = @ \ {l}, !.paidOff = @ \cup {l}]
  <1>3. Paid(inst, mixed, call[p])
    BY DEF SInv, AllPaid
  <1>4. CASE Become(p, r)
    <2>1. /\ r \in Call /\ r.pc = "approve.count" /\ r.month = call[p].month
          /\ r.cycle = call[p].cycle /\ r.locked = call[p].locked /\ r.paidOff = call[p].paidOff
      BY <1>0 DEF Call
    <2>2. Paid(inst, mixed, r)
      BY <1>3, <2>1 DEF Paid
    <2> HIDE DEF r
    <2> QED
      BY <1>1, <1>4, <2>1, <2>2
  <1>5. CASE Become(p, Idle)
    BY <1>0, <1>5, ReturnSInv
  <1>6. CASE ~StillPending(p, l) /\ loan[l] # "REMOVED" /\ Become(p, t)
    <2>1. /\ t \in Call /\ t.pc = "approve.count" /\ t.month = call[p].month
          /\ t.cycle = call[p].cycle /\ t.locked = call[p].locked /\ t.paidOff = call[p].paidOff \cup {l}
      BY <1>0 DEF Call
    <2>2. loan[l] \in Open
      BY <1>0, <1>6 DEF IInv, TypeOK, LoanStatus, Open
    <2>3. \A i \in Installments : LoanOf[i] = l => inst[i].status \in {"PENDING", "DEDUCTED"}
      BY <2>2 DEF IInv, TypeOK, InstRow, ScheduledOnApproval
    <2>4. \A i \in Installments : LoanOf[i] = l => i \in t.locked \/ inst[i].status = "DEDUCTED"
      BY <1>6, <2>1, <2>3 DEF StillPending
    <2>5. Paid(inst, mixed, t)
      BY <1>3, <2>1, <2>4 DEF Paid
    <2> HIDE DEF t
    <2> QED
      BY <1>1, <1>6, <2>1, <2>5
  <1> QED
    BY <1>2, <1>4, <1>5, <1>6

LEMMA ApproveCommitSInv ==
  ASSUME IInv, IInv', SInv, NEW p \in Callers, ApproveCommit(p)
  PROVE  SInv'
  <1> DEFINE c == call[p].cycle
             m == call[p].month
             locked == call[p].locked
             paidOff == call[p].paidOff
  <1>0. /\ Running(p) /\ call[p].pc = "approve.count" /\ Proceed(p) /\ SetStatus(c, "APPROVED")
        /\ Become(p, Idle) /\ UNCHANGED <<slips, mixed>>
    BY DEF ApproveCommit, At, Running, Proceed, Return
  <1>1. Touches(m) /\ ~At(p, "idle")
    BY <1>0, ProceedTouches
  <1>2. \A i \in locked : i \in Installments /\ inst[i].link = c /\ Due[i] = m
    BY <1>0, RunningFacts DEF IInv, RequestsSound, SoundNow, Sound, Linked, Call
  <1>3. \A i \in Installments :
          /\ inst'[i].link = inst[i].link
          /\ inst'[i].status = IF i \in locked /\ Exists(c) THEN "DEDUCTED" ELSE inst[i].status
    BY DEF ApproveCommit, IInv, TypeOK, InstRow, NotScheduled
  <1>4. DeductedKept
    BY <1>3 DEF DeductedKept
  <1>5. PaidOffOnlyWhenDeducted'
    <2> SUFFICES ASSUME NEW i \in Installments, Due[i] \notin mixed, loan'[LoanOf[i]] = "PAID_OFF"
                 PROVE  inst'[i].status = "DEDUCTED"
      BY <1>0 DEF PaidOffOnlyWhenDeducted
    <2>1. CASE loan[LoanOf[i]] = "PAID_OFF"
      BY <1>4, <2>1 DEF SInv, PaidOffOnlyWhenDeducted, DeductedKept
    <2>2. CASE loan[LoanOf[i]] # "PAID_OFF"
      <3>1. LoanOf[i] \in paidOff /\ Exists(c)
        BY <2>2, ConstantsAssumption DEF ApproveCommit
      <3>2. i \in locked \/ inst[i].status = "DEDUCTED"
        BY <3>1 DEF SInv, AllPaid, Paid
      <3> QED
        BY <1>3, <3>1, <3>2
    <2> QED
      BY <2>1, <2>2
  <1>6. Paid(inst', mixed, Idle)
    BY IdlePaid, NothingPaid
  <1>7. ASSUME m \notin mixed
        PROVE  /\ \A i \in Installments : Due[i] = m => Agrees(i)'
               /\ \A q \in Callers \ {p} : Steady(q) /\ call[q].month = m =>
                    Backs(cycle', slips', inst', call[q])
    <2>1. /\ Steady(p) /\ Exists(c) /\ c \in CycleIds /\ c # None
          /\ \A i \in Installments : inst[i].link = c => i \in locked
      BY <1>0, <1>7, Known, RunningFacts DEF Steady, BacksNow, Backs
    <2>2. /\ \A d \in CycleIds : d # c => cycle'[d] = cycle[d]
          /\ cycle'[c].status = "APPROVED"
      BY <1>0, <2>1, StatusTouches DEF CycleStatus
    <2>3. ASSUME NEW i \in Installments, Due[i] = m
          PROVE  Agrees(i)'
      <3>1. Agrees(i) /\ inst[i].link \in CycleIds \cup {None}
        BY <1>7, <2>3 DEF SInv, RowsAgree, IInv, TypeOK, InstRow, NotScheduled
      <3>2. CASE inst[i].link = c
        BY <1>0, <1>3, <2>1, <2>2, <3>1, <3>2 DEF Agrees, Published
      <3>3. CASE inst[i].link # c
        <4>1. i \notin locked /\ inst'[i].status = inst[i].status /\ inst'[i].link = inst[i].link
          BY <1>2, <1>3, <3>3
        <4> QED
          BY <1>0, <2>2, <3>1, <3>3, <4>1 DEF Agrees, Published
      <3> QED
        BY <3>2, <3>3
    <2>4. ASSUME NEW q \in Callers \ {p}, Steady(q), call[q].month = m
          PROVE  Backs(cycle', slips', inst', call[q])
      <3>1. /\ call[q].cycle = c /\ Began(call[q].pc) = Began(call[p].pc)
            /\ call[q].pc \notin Calculating \cup {"recalculate.clear", "recalculate.delete"}
        BY <2>1, <2>4, Twin
      <3>2. Began(call[p].pc) = {"REVIEW", "APPROVED"}
        BY <1>0 DEF Began
      <3>3. BacksNow(call[q])
        BY <2>4, Known
      <3> QED
        BY <1>3, <2>2, <3>1, <3>2, <3>3 DEF BacksNow, Backs, Calculating
    <2> QED
      BY <2>3, <2>4
  <1> QED
    BY <1>0, <1>1, <1>4, <1>5, <1>6, <1>7, IdlePaid, StepOfOne

LEMMA ProceedSInv ==
  ASSUME IInv, IInv', SInv, NEW p \in Callers, Proceed(p)
  PROVE  SInv'
  BY CreateInsertSInv, CreateUndoSInv, CalcReadSInv, CalcCommitSInv, RecalculateClearSInv,
     RecalculateDeleteSInv, RevertClearSInv, ReviewCountSInv, UpdateSInv, ApproveReadSInv,
     ApproveCountSInv, ApproveCommitSInv
  DEF Proceed

LEMMA FaultSInv ==
  ASSUME IInv, IInv', SInv, NEW p \in Callers, Fault(p)
  PROVE  SInv'
  <1>1. CASE CalcFails(p)
    BY <1>1, ThrowSInv DEF CalcFails
  <1>2. CASE Abort(p)
    BY <1>2, ReturnSInv DEF Abort, Return
  <1> QED
    BY <1>1, <1>2 DEF Fault

\* The start of a request: either it has the month for itself and its twins, or the month
\* is mixed from here on.
LEMMA StartSInv ==
  ASSUME IInv, IInv', SInv, NEW p \in Callers, NEW m, NEW r, Starts(p, m, r.pc), Become(p, r),
         UNCHANGED rows, r.month = m, r.pc \in Steps, r.paidOff = {},
         r.pc \notin {"idle", "create.insert"} => Backs(cycle, slips, inst, r)
  PROVE  SInv'
  <1>1. call'[p] = r /\ call[p].pc = "idle" /\ \A q \in Callers : q # p => call'[q] = call[q]
    BY DEF Become, IInv, TypeOK, Starts, At
  <1>2. mixed \subseteq mixed' /\ UNCHANGED <<cycle, slips, inst, loan>>
    BY DEF Starts, rows
  <1>3. m \notin mixed' => \A q \in Callers : ~At(q, "idle") /\ call[q].month = m =>
          Together(call[q].pc, r.pc)
    BY DEF Starts
  <1>4. \A s, t : Together(s, t) => Together(t, s)
    <2>1. \A s, t : {s, t} = {t, s}
      OBVIOUS
    <2> QED
      BY <2>1 DEF Together
  <1>5. Apart'
    <2> SUFFICES ASSUME NEW a \in Callers, NEW b \in Callers, a # b,
                        call'[a].pc # "idle", call'[b].pc # "idle",
                        call'[a].month = call'[b].month, call'[a].month \notin mixed'
                 PROVE  Pair(call'[a].pc, call'[b].pc)
      BY DEF Apart, At
    <2>1. CASE a # p /\ b # p
      BY <1>1, <1>2, <2>1 DEF SInv, Apart, At
    <2>2. CASE a = p
      BY <1>1, <1>3, <1>4, <2>2 DEF At, Pair
    <2>3. CASE b = p
      BY <1>1, <1>3, <1>4, <2>3 DEF At, Pair
    <2> QED
      BY <2>1, <2>2, <2>3
  <1>6. AllRely'
    <2> SUFFICES ASSUME NEW q \in Callers, call'[q].pc \notin {"idle", "create.insert"},
                        call'[q].month \notin mixed'
                 PROVE  Backs(cycle', slips', inst', call'[q])
      BY DEF AllRely, Steady, Running, BacksNow
    <2> QED
      BY <1>1, <1>2 DEF SInv, AllRely, Steady, Running, BacksNow
  <1>7. AllPaid'
    BY <1>1, <1>2 DEF SInv, AllPaid, Paid
  <1>8. RowsAgree' /\ PaidOffOnlyWhenDeducted'
    BY <1>2 DEF SInv, RowsAgree, Agrees, Published, PaidOffOnlyWhenDeducted
  <1> QED
    BY <1>5, <1>6, <1>7, <1>8 DEF SInv

LEMMA RequestSInv ==
  ASSUME IInv, IInv', SInv, NEW p \in Callers, Request(p)
  PROVE  SInv'
  <1>1. ASSUME NEW m \in Months, CreateFind(p, m)
        PROVE  SInv'
    <2> DEFINE r == [Idle EXCEPT !.pc = "create.insert", !.month = m]
    <2>1. r.pc = "create.insert" /\ r.month = m /\ r.paidOff = {} /\ r.pc \in Steps
      BY DEF Idle, Steps
    <2>2. Starts(p, m, "create.insert") /\ Become(p, r) /\ UNCHANGED rows
      BY <1>1 DEF CreateFind
    <2> HIDE DEF r
    <2> QED
      BY <2>1, <2>2, StartSInv
  <1>2. ASSUME NEW c \in CycleIds, NEW status, NEW step \in Steps, Begin(p, c, {status}, step),
               status \in Began(step),
               step \in {"recalculate.clear", "revert.clear", "review.count", "approve.find",
                         "close.update"}
        PROVE  SInv'
    <2> DEFINE r == [Idle EXCEPT !.pc = step, !.cycle = c, !.month = cycle[c].month]
    <2>1. /\ cycle[c].status = status /\ Become(p, r) /\ UNCHANGED rows
          /\ Starts(p, cycle[c].month, step)
      BY <1>2 DEF Begin
    <2>2. r.pc = step /\ r.cycle = c /\ r.month = cycle[c].month /\ r.paidOff = {}
      BY DEF Idle
    <2>3. Backs(cycle, slips, inst, r)
      BY <1>2, <2>1, <2>2 DEF Backs, Calculating
    <2> HIDE DEF r
    <2> QED
      BY <2>1, <2>2, <2>3, StartSInv
  <1>3. /\ "DRAFT" \in Began("recalculate.clear") /\ "DRAFT" \in Began("review.count")
        /\ "REVIEW" \in Began("revert.clear") /\ "REVIEW" \in Began("approve.find")
        /\ "APPROVED" \in Began("close.update")
        /\ {"recalculate.clear", "revert.clear", "review.count", "approve.find", "close.update"}
             \subseteq Steps
    BY DEF Began, Steps
  <1> QED
    BY <1>1, <1>2, <1>3
    DEF Request, RecalculateBegin, RevertBegin, ReviewBegin, ApproveBegin, CloseBegin

-----------------------------------------------------------------------------
(* The rest of the system.                                                 *)

LEMMA ApproveLoanSInv ==
  ASSUME IInv, IInv', SInv, NEW l \in Loans, ApproveLoan(l)
  PROVE  SInv'
  <1>1. UNCHANGED <<cycle, slips, call, mixed>>
    BY DEF ApproveLoan
  <1>2. /\ loan[l] = "PENDING" /\ loan'[l] = "APPROVED"
        /\ \A k \in Loans : k # l => loan'[k] = loan[k]
    BY DEF ApproveLoan, IInv, TypeOK
  <1>3. \A i \in Installments :
          /\ LoanOf[i] \in Loans
          /\ LoanOf[i] = l => /\ inst[i].link = None /\ inst[i].status = "UNUSED"
                              /\ inst'[i].link = None /\ inst'[i].status = "PENDING"
          /\ LoanOf[i] # l => inst'[i] = inst[i]
    BY <1>2, ConstantsAssumption DEF ApproveLoan, IInv, ScheduledOnApproval, NotScheduled, Open
  <1>4. \A i \in Installments :
          /\ inst'[i].link = inst[i].link
          /\ inst'[i].status = "DEDUCTED" <=> inst[i].status = "DEDUCTED"
    BY <1>3
  <1>5. RowsAgree' /\ PaidOffOnlyWhenDeducted'
    BY <1>1, <1>2, <1>3, <1>4 DEF SInv, RowsAgree, Agrees, Published, PaidOffOnlyWhenDeducted
  <1>6. AllPaid'
    BY <1>1, <1>4 DEF SInv, AllPaid, Paid
  <1>7. AllRely'
    <2> SUFFICES ASSUME NEW q \in Callers, Steady(q)
                 PROVE  Backs(cycle', slips', inst', call[q])
      BY <1>1 DEF AllRely, Steady, Running, BacksNow
    <2>1. BacksNow(call[q]) /\ \A s \in call[q].computed : s.insts \subseteq Installments
      BY Known, RunningFacts DEF Call, SlipRow
    <2> QED
      BY <1>1, <1>4, <2>1 DEF BacksNow, Backs
  <1>8. Apart'
    BY <1>1 DEF SInv, Apart, At
  <1> QED
    BY <1>5, <1>6, <1>7, <1>8 DEF SInv

\* What goes with an employee is not locked, and leaves the payslips of the others alone.
LEMMA RemoveEmployeeSInv ==
  ASSUME IInv, IInv', SInv, NEW e \in Employees, RemoveEmployee(e)
  PROVE  SInv'
  <1>1. /\ UNCHANGED <<cycle, call, mixed>> /\ slips' = {s \in slips : s.emp # e}
        /\ \A i \in Installments : inst'[i] = IF i \in OwedBy(e) THEN NotScheduled ELSE inst[i]
        /\ \A l \in Loans : loan'[l] = IF l \in LoansOf(e) THEN "REMOVED" ELSE loan[l]
        /\ \A q \in Callers : call[q].locked \cap OwedBy(e) = {}
        /\ \A q \in Callers : call[q].paidOff \cap LoansOf(e) = {}
    BY DEF RemoveEmployee
  <1>2. ASSUME NEW i \in Installments, Due[i] \notin mixed
        PROVE  Agrees(i)'
    <2>1. CASE i \in OwedBy(e)
      BY <1>1, <2>1 DEF Agrees, NotScheduled
    <2>2. CASE i \notin OwedBy(e)
      <3>1. inst'[i] = inst[i] /\ Agrees(i)
        BY <1>1, <1>2, <2>2 DEF SInv, RowsAgree
      <3>2. CASE inst[i].link = None
        BY <3>1, <3>2 DEF Agrees
      <3>3. CASE inst[i].link # None
        <4>1. PICK s \in slips : s.cycle = inst[i].link /\ i \in s.insts
          BY <3>1, <3>3 DEF Agrees
        <4>2. s.emp = Borrower[LoanOf[i]] /\ s.cycle \in CycleIds
          BY <4>1 DEF IInv, TypeOK, SlipRow, SlipsSound, RowsFor, SlipsOf
        <4>3. s \in slips'
          BY <1>1, <2>2, <4>1, <4>2, ConstantsAssumption DEF OwedBy, LoansOf
        <4> QED
          BY <1>1, <3>1, <3>3, <4>1, <4>3 DEF Agrees, Published
      <3> QED
        BY <3>2, <3>3
    <2> QED
      BY <2>1, <2>2
  <1>3. PaidOffOnlyWhenDeducted'
    BY <1>1, ConstantsAssumption DEF SInv, PaidOffOnlyWhenDeducted, OwedBy
  <1>4. AllPaid'
    <2> SUFFICES ASSUME NEW q \in Callers, NEW l \in call[q].paidOff, NEW i \in Installments,
                        LoanOf[i] = l, Due[i] \notin mixed
                 PROVE  i \in call[q].locked \/ inst'[i].status = "DEDUCTED"
      BY <1>1 DEF AllPaid, Paid
    <2>1. i \notin OwedBy(e)
      BY <1>1 DEF OwedBy
    <2> QED
      BY <1>1, <2>1 DEF SInv, AllPaid, Paid
  <1>5. AllRely'
    <2> SUFFICES ASSUME NEW q \in Callers, Steady(q)
                 PROVE  Backs(cycle', slips', inst', call[q])
      BY <1>1 DEF AllRely, Steady, Running, BacksNow
    <2>1. /\ BacksNow(call[q]) /\ call[q].cycle # None
          /\ \A s \in call[q].computed : s.insts \subseteq Installments
      BY Known, RunningFacts DEF Call, SlipRow
    <2>2. \A i \in Installments : inst'[i] = NotScheduled \/ inst'[i] = inst[i]
      BY <1>1
    <2> QED
      BY <1>1, <2>1, <2>2 DEF BacksNow, Backs, NotScheduled
  <1>6. Apart'
    BY <1>1 DEF SInv, Apart, At
  <1>7. RowsAgree'
    BY <1>1, <1>2 DEF RowsAgree
  <1> QED
    BY <1>3, <1>4, <1>5, <1>6, <1>7 DEF SInv

LEMMA SameSInv ==
  ASSUME SInv, UNCHANGED <<cycle, slips, inst, loan, call, mixed>>
  PROVE  SInv'
  BY DEF SInv, Apart, At, AllRely, Steady, Running, BacksNow, AllPaid, RowsAgree, Agrees, Published,
         PaidOffOnlyWhenDeducted

LEMMA NextSInv == IInv /\ SInv /\ IInv' /\ [Next]_vars => SInv'
  <1> SUFFICES ASSUME IInv, SInv, IInv', [Next]_vars
               PROVE  SInv'
    OBVIOUS
  <1>1. CASE Environment
    BY <1>1, ApproveLoanSInv, RemoveEmployeeSInv, SameSInv DEF Environment, SetActive, rows
  <1>2. CASE UNCHANGED vars
    BY <1>2, SameSInv DEF vars
  <1> QED
    BY <1>1, <1>2, RequestSInv, ProceedSInv, FaultSInv DEF Next

LEMMA InitSInv == Init => SInv
  BY ConstantsAssumption
  DEF Init, SInv, Apart, AllRely, Steady, Running, AllPaid, Paid, RowsAgree, Agrees,
      PaidOffOnlyWhenDeducted, Idle, At, NotScheduled

\* What the requests about a month rely on and leave behind, while no different ones overlap there.
THEOREM PayrollSInv == Spec => []SInv
  BY PayrollIInv, InitSInv, NextSInv, PTL DEF Spec

\* What a loan no longer asks for was taken out of a published payslip, unless different
\* requests about the month have overlapped: by approve, whatever the submits, the other
\* months, the removals and the failures around it.
THEOREM PayrollDeductedWasPaid == Spec => []DeductedWasPaid
  <1>1. SInv => DeductedWasPaid
    <2> SUFFICES ASSUME SInv, NEW i \in Installments, inst[i].status = "DEDUCTED", Due[i] \notin mixed
                 PROVE  \E s \in slips : Published(s.cycle) /\ i \in s.insts
      BY DEF DeductedWasPaid
    <2> QED
      BY DEF SInv, RowsAgree, Agrees
  <1> QED
    BY <1>1, PayrollSInv, PTL

-----------------------------------------------------------------------------
(* The statements implement the lifecycle.                                 *)

LEMMA MappedCycle ==
  ASSUME IInv, NEW c \in CycleIds, Exists(c)
  PROVE  /\ cycle[c].month \in Months
         /\ cycle[c].month \notin mixed =>
              /\ stage[cycle[c].month] = cycle[c].status
              /\ payslips[cycle[c].month] = Shown(SlipsOf(c))
  <1> DEFINE m == cycle[c].month
  <1>1. m \in Months
    BY DEF IInv, TypeOK, CycleRow, Exists, CycleStatus, Unused
  <1>2. CycleOf(m) = {c}
    BY DEF CycleOf, IInv, OneCyclePerMonth
  <1>3. TheOne({c}) = c
    BY DEF TheOne
  <1>4. {s \in slips : s.cycle \in {c}} = SlipsOf(c)
    BY DEF SlipsOf
  <1> QED
    BY <1>1, <1>2, <1>3, <1>4 DEF stage, payslips

LEMMA MappedCycleNext ==
  ASSUME IInv', NEW c \in CycleIds, Exists(c)', NEW m, cycle'[c].month = m, m \notin mixed'
  PROVE  /\ m \in Months /\ stage'[m] = cycle'[c].status
         /\ payslips'[m] = Shown(SlipsOf(c)')
  <1>1. m \in Months
    BY DEF IInv, TypeOK, CycleRow, Exists, CycleStatus, Unused
  <1>2. CycleOf(m)' = {c}
    BY DEF CycleOf, IInv, OneCyclePerMonth
  <1>3. TheOne({c}) = c
    BY DEF TheOne
  <1>4. {s \in slips' : s.cycle \in {c}} = SlipsOf(c)'
    BY DEF SlipsOf
  <1> QED
    BY <1>1, <1>2, <1>3, <1>4 DEF stage, payslips

LEMMA NoCycle ==
  ASSUME NEW m \in Months, m \notin mixed, CycleOf(m) = {}
  PROVE  stage[m] = "NONE" /\ payslips[m] = {}
  BY DEF stage, payslips, Shown

\* A step about month m shows in that month only, and not even there when m is mixed.
LEMMA StepShows ==
  ASSUME IInv, NEW m, Touches(m), UNCHANGED <<mixed, staff>>
  PROVE  /\ stage' = [stage EXCEPT ![m] = stage'[m]]
         /\ payslips' = [payslips EXCEPT ![m] = payslips'[m]]
         /\ deducted' = [deducted EXCEPT ![m] = deducted'[m]]
         /\ gone' = gone
         /\ m \in mixed \/ m \notin Months => UNCHANGED Lifecycle!vars
  <1>1. ASSUME NEW n \in Months, n # m
        PROVE  stage'[n] = stage[n] /\ payslips'[n] = payslips[n] /\ deducted'[n] = deducted[n]
    <2>1. \A d \in CycleIds : cycle'[d] = cycle[d] \/
            (cycle'[d].month # n /\ (cycle[d].month # n \/ ~Exists(d)))
      BY <1>1 DEF Touches, Exists, Unused, CycleStatus
    <2>2. CycleOf(n)' = CycleOf(n) /\ \A d \in CycleOf(n) : cycle'[d] = cycle[d]
      BY <2>1 DEF CycleOf, Exists
    <2>3. CycleOf(n) # {} => TheOne(CycleOf(n)) \in CycleOf(n)
      BY DEF TheOne
    <2>4. \A d \in CycleOf(n) : SlipsOf(d)' = SlipsOf(d)
      BY <1>1 DEF Touches, CycleOf, Exists, Unused, CycleStatus
    <2>5. {s \in slips' : s.cycle \in CycleOf(n)} = {s \in slips : s.cycle \in CycleOf(n)}
      BY <2>4 DEF SlipsOf
    <2>6. {i \in Installments : inst'[i].status = "DEDUCTED" /\ Due[i] = n}
            = {i \in Installments : inst[i].status = "DEDUCTED" /\ Due[i] = n}
      BY <1>1 DEF Touches
    <2> QED
      BY <2>2, <2>3, <2>5, <2>6 DEF stage, payslips, deducted
  <1>2. /\ stage' = [stage EXCEPT ![m] = stage'[m]]
        /\ payslips' = [payslips EXCEPT ![m] = payslips'[m]]
        /\ deducted' = [deducted EXCEPT ![m] = deducted'[m]]
    <2>1. /\ stage = [n \in Months |-> stage[n]] /\ payslips = [n \in Months |-> payslips[n]]
          /\ deducted = [n \in Months |-> deducted[n]]
      BY DEF stage, payslips, deducted
    <2>2. stage' = [n \in Months |-> stage'[n]]
      BY DEF stage
    <2>3. payslips' = [n \in Months |-> payslips'[n]]
      BY DEF payslips
    <2>4. deducted' = [n \in Months |-> deducted'[n]]
      BY DEF deducted
    <2>5. stage' = [stage EXCEPT ![m] = stage'[m]]
      BY <1>1, <2>1, <2>2
    <2>6. payslips' = [payslips EXCEPT ![m] = payslips'[m]]
      BY <1>1, <2>1, <2>3
    <2>7. deducted' = [deducted EXCEPT ![m] = deducted'[m]]
      BY <1>1, <2>1, <2>4
    <2> QED
      BY <2>5, <2>6, <2>7
  <1>3. gone' = gone
    BY DEF gone
  <1>4. ASSUME m \in mixed \/ m \notin Months
        PROVE  UNCHANGED Lifecycle!vars
    <2>1. CASE m \in mixed
      <3>1. m \in Months /\ stage'[m] = stage[m] /\ payslips'[m] = payslips[m] /\ deducted'[m] = deducted[m]
        BY <2>1 DEF stage, payslips, deducted, IInv, TypeOK
      <3>2. stage' = stage /\ payslips' = payslips /\ deducted' = deducted
        BY <1>1, <3>1 DEF stage, payslips, deducted
      <3> QED
        BY <1>3, <3>2 DEF Lifecycle!vars
    <2>2. CASE m \notin Months
      <3>1. stage' = stage /\ payslips' = payslips /\ deducted' = deducted
        BY <1>1, <2>2 DEF stage, payslips, deducted
      <3> QED
        BY <1>3, <3>1 DEF Lifecycle!vars
    <2> QED
      BY <1>4, <2>1, <2>2
  <1> QED
    BY <1>2, <1>3, <1>4

\* What is left to show of a step: what happens in its month, when it is not mixed.
LEMMA MonthShows ==
  ASSUME IInv, NEW m, Touches(m), UNCHANGED <<mixed, staff>>,
         m \in Months /\ m \notin mixed =>
            stage'[m] = stage[m] /\ payslips'[m] = payslips[m] /\ deducted'[m] = deducted[m]
  PROVE  UNCHANGED Lifecycle!vars
  <1>1. CASE m \in mixed \/ m \notin Months
    BY <1>1, StepShows
  <1>2. CASE m \in Months /\ m \notin mixed
    <2>1. /\ stage = [stage EXCEPT ![m] = stage[m]] /\ payslips = [payslips EXCEPT ![m] = payslips[m]]
          /\ deducted = [deducted EXCEPT ![m] = deducted[m]]
      BY DEF stage, payslips, deducted
    <2>2. stage' = stage /\ payslips' = payslips /\ deducted' = deducted /\ gone' = gone
      BY <1>2, <2>1, StepShows
    <2> QED
      BY <2>2 DEF Lifecycle!vars
  <1> QED
    BY <1>1, <1>2

LEMMA SameDeducted ==
  ASSUME NEW m \in Months, UNCHANGED mixed,
         \A i \in Installments : Due[i] = m =>
            (inst'[i].status = "DEDUCTED" <=> inst[i].status = "DEDUCTED")
  PROVE  deducted'[m] = deducted[m]
  <1>1. {i \in Installments : inst'[i].status = "DEDUCTED" /\ Due[i] = m}
          = {i \in Installments : inst[i].status = "DEDUCTED" /\ Due[i] = m}
    OBVIOUS
  <1> QED
    BY <1>1 DEF deducted

\* A step that changes neither a cycle nor a payslip nor what is deducted shows nothing.
LEMMA Unseen ==
  ASSUME UNCHANGED <<cycle, slips, mixed>>, gone' = gone,
         \A i \in Installments : Due[i] \notin mixed =>
            (inst'[i].status = "DEDUCTED" <=> inst[i].status = "DEDUCTED")
  PROVE  UNCHANGED Lifecycle!vars
  <1>1. \A m : CycleOf(m)' = CycleOf(m)
    BY DEF CycleOf, Exists
  <1>2. stage' = stage /\ payslips' = payslips
    BY <1>1 DEF stage, payslips
  <1>3. \A m \in Months : deducted'[m] = deducted[m]
    <2>1. \A m \in Months : m \notin mixed => deducted'[m] = deducted[m]
      BY SameDeducted
    <2> QED
      BY <2>1 DEF deducted
  <1>4. deducted' = deducted
    BY <1>3 DEF deducted
  <1> QED
    BY <1>2, <1>4 DEF Lifecycle!vars

LEMMA InitMaps == Init => Lifecycle!Init
  <1> SUFFICES ASSUME Init PROVE Lifecycle!Init
    OBVIOUS
  <1>1. \A m \in Months : CycleOf(m) = {} /\ m \notin mixed
    BY DEF Init, CycleOf, Exists, Unused, CycleStatus
  <1>2. \A m \in Months : stage[m] = "NONE" /\ payslips[m] = {}
    BY <1>1, NoCycle
  <1>3. \A m \in Months : deducted[m] = {}
    BY DEF Init, deducted, NotScheduled
  <1>4. gone = {}
    BY DEF Init, gone
  <1> QED
    BY <1>2, <1>3, <1>4 DEF Lifecycle!Init, stage, payslips, deducted

\* A status set by id in a month that is not mixed.
LEMMA StatusMaps ==
  ASSUME IInv, IInv', SInv, NEW p \in Callers, Steady(p), NEW status \in CycleStatus,
         SetStatus(call[p].cycle, status), UNCHANGED <<slips, mixed>>
  PROVE  LET m == call[p].month
             c == call[p].cycle
         IN  /\ m \in Months /\ m \notin mixed
             /\ stage[m] \in Began(call[p].pc) /\ stage[m] = cycle[c].status
             /\ payslips[m] = Shown(SlipsOf(c)) /\ payslips'[m] = payslips[m]
             /\ stage'[m] = status
  <1>a. PICK c, m : c = call[p].cycle /\ m = call[p].month
    OBVIOUS
  <1>1. /\ c \in CycleIds /\ Exists(c) /\ cycle[c].month = m /\ m \notin mixed
        /\ cycle[c].status \in Began(call[p].pc) /\ Running(p)
    BY <1>a, Known, RunningFacts DEF Steady
  <1>2. cycle'[c].month = m /\ cycle'[c].status = status
    BY <1>a, <1>1, StatusTouches
  <1>3. Exists(c)' /\ SlipsOf(c)' = SlipsOf(c)
    BY <1>2 DEF Exists, SlipsOf
  <1>4. stage'[m] = status /\ payslips'[m] = Shown(SlipsOf(c))
    BY <1>1, <1>2, <1>3, MappedCycleNext
  <1>5. m \in Months /\ stage[m] = cycle[c].status /\ payslips[m] = Shown(SlipsOf(c))
    BY <1>1, MappedCycle
  <1> QED
    BY <1>a, <1>1, <1>4, <1>5

LEMMA UpdateMaps ==
  ASSUME IInv, IInv', SInv, NEW p \in Callers, RevertUpdate(p) \/ ReviewUpdate(p) \/ CloseUpdate(p)
  PROVE  Lifecycle!Next \/ UNCHANGED Lifecycle!vars
  <1>a. PICK m : m = call[p].month
    OBVIOUS
  <1>0. Running(p) /\ Proceed(p) /\ UNCHANGED <<slips, inst, mixed, staff>>
    BY DEF RevertUpdate, ReviewUpdate, CloseUpdate, At, Running, Proceed
  <1>1. Touches(m)
    BY <1>a, <1>0, ProceedTouches
  <1>2. CASE m \in mixed
    BY <1>0, <1>1, <1>2, StepShows
  <1>3. CASE m \notin mixed
    <2>1. Steady(p)
      BY <1>a, <1>0, <1>3 DEF Steady
    <2>2. deducted'[m] = deducted[m] /\ m \in Months
      <3>1. m \in Months
        BY <1>a, <2>1, Known, RunningFacts, MappedCycle
      <3> QED
        BY <1>0, <3>1, SameDeducted
    <2>3. deducted' = deducted
      <3>1. deducted = [deducted EXCEPT ![m] = deducted[m]]
        BY DEF deducted
      <3> QED
        BY <1>0, <1>1, <2>2, <3>1, StepShows
    <2>4. payslips'[m] = payslips[m] => payslips' = payslips
      <3>1. payslips = [payslips EXCEPT ![m] = payslips[m]]
        BY DEF payslips
      <3> QED
        BY <1>0, <1>1, <3>1, StepShows
    <2>5. /\ stage' = [stage EXCEPT ![m] = stage'[m]] /\ gone' = gone
          /\ stage'[m] = stage[m] => stage' = stage
      <3>1. stage = [stage EXCEPT ![m] = stage[m]]
        BY DEF stage
      <3> QED
        BY <1>0, <1>1, <3>1, StepShows
    <2>6. CASE RevertUpdate(p)
      <3>1. stage[m] \in {"DRAFT", "REVIEW"} /\ payslips'[m] = payslips[m] /\ stage'[m] = "DRAFT"
        BY <1>a, <1>0, <2>1, <2>6, StatusMaps DEF RevertUpdate, At, Began, CycleStatus
      <3> QED
        BY <2>2, <2>3, <2>4, <2>5, <3>1 DEF Lifecycle!Next, Lifecycle!Revert, Lifecycle!vars
    <2>7. CASE ReviewUpdate(p)
      <3>1. stage[m] \in {"DRAFT", "REVIEW"} /\ payslips'[m] = payslips[m] /\ stage'[m] = "REVIEW"
        BY <1>a, <1>0, <2>1, <2>7, StatusMaps DEF ReviewUpdate, At, Began, CycleStatus
      <3> QED
        BY <2>2, <2>3, <2>4, <2>5, <3>1 DEF Lifecycle!Next, Lifecycle!Submit, Lifecycle!vars
    <2>8. CASE CloseUpdate(p)
      <3>1. stage[m] \in {"APPROVED", "CLOSED"} /\ payslips'[m] = payslips[m] /\ stage'[m] = "CLOSED"
        BY <1>a, <1>0, <2>1, <2>8, StatusMaps DEF CloseUpdate, At, Began, CycleStatus
      <3> QED
        BY <2>2, <2>3, <2>4, <2>5, <3>1 DEF Lifecycle!Next, Lifecycle!Close, Lifecycle!vars
    <2> QED
      BY <2>6, <2>7, <2>8
  <1> QED
    BY <1>2, <1>3

\* A second approval of a month finds everything it would deduct deducted.
LEMMA ApproveMaps ==
  ASSUME IInv, IInv', SInv, SInv', NEW p \in Callers, ApproveCommit(p)
  PROVE  Lifecycle!Next \/ UNCHANGED Lifecycle!vars
  <1>a. PICK c, m : c = call[p].cycle /\ m = call[p].month
    OBVIOUS
  <1>0. /\ Running(p) /\ Proceed(p) /\ UNCHANGED <<slips, mixed, staff>> /\ call[p].pc = "approve.count"
        /\ SetStatus(c, "APPROVED")
    BY <1>a DEF ApproveCommit, At, Running, Proceed
  <1>1. Touches(m)
    BY <1>a, <1>0, ProceedTouches
  <1>2. CASE m \in mixed
    BY <1>0, <1>1, <1>2, StepShows
  <1>3. CASE m \notin mixed
    <2>1. Steady(p)
      BY <1>a, <1>0, <1>3 DEF Steady
    <2>2. /\ m \in Months /\ stage[m] \in {"REVIEW", "APPROVED"} /\ stage[m] = cycle[c].status
          /\ payslips[m] = Shown(SlipsOf(c)) /\ payslips'[m] = payslips[m] /\ stage'[m] = "APPROVED"
      BY <1>a, <1>0, <2>1, StatusMaps DEF Began, CycleStatus
    <2>3. /\ stage' = [stage EXCEPT ![m] = "APPROVED"] /\ gone' = gone
          /\ payslips' = payslips /\ deducted' = [deducted EXCEPT ![m] = deducted'[m]]
      <3>1. payslips = [payslips EXCEPT ![m] = payslips[m]]
        BY DEF payslips
      <3> QED
        BY <1>0, <1>1, <2>2, <3>1, StepShows
    <2>4. CASE stage[m] = "REVIEW"
      <3>1. deducted'[m] \subseteq UNION {s.insts : s \in payslips[m]}
        <4> SUFFICES ASSUME NEW i \in deducted'[m] PROVE \E t \in payslips[m] : i \in t.insts
          OBVIOUS
        <4>1. i \in Installments /\ inst'[i].status = "DEDUCTED" /\ Due[i] = m
          BY <1>0, <1>3, <2>2 DEF deducted
        <4>2. Agrees(i)'
          BY <1>0, <1>3, <4>1 DEF SInv, RowsAgree
        <4>3. inst'[i].link # None /\ \E s \in slips : s.cycle = inst'[i].link /\ i \in s.insts
          BY <1>0, <4>1, <4>2 DEF Agrees
        <4>4. PICK s \in slips : s.cycle = inst'[i].link /\ i \in s.insts
          BY <4>3
        <4>5. s.cycle \in CycleIds /\ Exists(s.cycle)' /\ cycle'[s.cycle].month = m
          BY <4>1, <4>3, <4>4 DEF IInv, TypeOK, SlipRow, LinkedInDueMonth
        <4>6. c \in CycleIds /\ Exists(c)' /\ cycle'[c].month = m
          BY <1>a, <1>0, <2>1, StatusTouches, RunningFacts, Known DEF Exists, CycleStatus
        <4>7. s.cycle = c
          BY <4>5, <4>6 DEF IInv, OneCyclePerMonth
        <4>8. [emp |-> s.emp, insts |-> s.insts] \in payslips[m]
          BY <2>2, <4>7 DEF Shown, SlipsOf
        <4> QED
          BY <4>4, <4>8
      <3> QED
        BY <2>2, <2>3, <2>4, <3>1 DEF Lifecycle!Next, Lifecycle!Approve
    <2>5. CASE stage[m] = "APPROVED"
      <3>1. Published(c)
        BY <2>2, <2>5 DEF Published
      <3>2. \A i \in call[p].locked : i \in Linked(c)
        BY <1>a, <1>0, RunningFacts DEF IInv, RequestsSound, SoundNow, Sound, Linked, Call
      <3>3. \A i \in call[p].locked : inst[i].status = "DEDUCTED"
        BY <1>a, <2>1, <3>1, <3>2, Known
      <3>4. \A i \in Installments : inst'[i].status = inst[i].status
        BY <3>3 DEF ApproveCommit, IInv, TypeOK, InstRow, NotScheduled
      <3>5. deducted'[m] = deducted[m]
        BY <1>0, <2>2, <3>4, SameDeducted
      <3> QED
        BY <1>0, <1>1, <2>2, <2>5, <3>5, MonthShows
    <2> QED
      BY <2>2, <2>4, <2>5
  <1> QED
    BY <1>2, <1>3

LEMMA InsertMaps ==
  ASSUME IInv, IInv', NEW p \in Callers, CreateInsert(p)
  PROVE  Lifecycle!Next \/ UNCHANGED Lifecycle!vars
  <1>a. PICK m : m = call[p].month
    OBVIOUS
  <1>0. UNCHANGED <<slips, inst, loan, staff, mixed>> /\ gone' = gone /\ Proceed(p)
    BY DEF CreateInsert, gone, Proceed
  <1>b. Touches(m)
    BY <1>a, <1>0, ProceedTouches
  <1>1. CASE UNCHANGED cycle
    BY <1>0, <1>1, Unseen
  <1>2. ASSUME NEW c \in CycleIds, ~MonthTaken(m), cycle[c] = Unused,
               cycle' = [cycle EXCEPT ![c] = [month |-> m, status |-> "DRAFT"]], m \notin mixed
        PROVE  Lifecycle!Next
    <2>1. m \in Months
      BY <1>a DEF CreateInsert, At, IInv, RequestsSound, SoundNow, Sound
    <2>2. cycle'[c] = [month |-> m, status |-> "DRAFT"]
      BY <1>2 DEF IInv, TypeOK
    <2>3. ~Exists(c)
      BY <1>2 DEF Unused, Exists, CycleStatus
    <2>4. SlipsOf(c) = {}
      BY <2>3 DEF IInv, SlipsSound, SlipsOf
    <2>5. Exists(c)' /\ cycle'[c].month = m /\ cycle'[c].status = "DRAFT" /\ SlipsOf(c)' = {}
      BY <1>0, <2>2, <2>4 DEF Exists, CycleStatus, SlipsOf
    <2>6. stage'[m] = "DRAFT" /\ payslips'[m] = {}
      BY <1>0, <1>2, <2>5, MappedCycleNext DEF Shown
    <2>7. stage[m] = "NONE" /\ payslips[m] = {}
      BY <1>2, <2>1, NoCycle DEF MonthTaken, CycleOf
    <2>8. deducted'[m] = deducted[m]
      BY <1>0, <2>1, SameDeducted
    <2>9. /\ payslips = [payslips EXCEPT ![m] = payslips[m]]
          /\ deducted = [deducted EXCEPT ![m] = deducted[m]]
      BY DEF payslips, deducted
    <2>10. stage' = [stage EXCEPT ![m] = "DRAFT"] /\ payslips' = payslips /\ deducted' = deducted
      BY <1>0, <1>b, <2>6, <2>7, <2>8, <2>9, StepShows
    <2> QED
      BY <1>0, <2>1, <2>7, <2>10 DEF Lifecycle!Next, Lifecycle!Open
  <1>3. CASE m \in mixed
    BY <1>0, <1>b, <1>3, StepShows
  <1> QED
    BY <1>a, <1>1, <1>2, <1>3 DEF CreateInsert

LEMMA UndoMaps ==
  ASSUME IInv, IInv', SInv, NEW p \in Callers, CreateUndo(p)
  PROVE  Lifecycle!Next \/ UNCHANGED Lifecycle!vars
  <1>a. PICK c, m : c = call[p].cycle /\ m = call[p].month
    OBVIOUS
  <1>0. /\ Running(p) /\ call[p].pc = "create.undo" /\ Proceed(p) /\ UNCHANGED <<mixed, staff>>
        /\ SetStatus(c, "DELETED") /\ slips' = slips \ SlipsOf(c)
    BY <1>a DEF CreateUndo, At, Running, Proceed
  <1>1. Touches(m)
    BY <1>a, <1>0, ProceedTouches
  <1>2. CASE m \in mixed
    BY <1>0, <1>1, <1>2, StepShows
  <1>3. CASE m \notin mixed
    <2>1. /\ c \in CycleIds /\ Exists(c) /\ cycle[c].month = m /\ cycle[c].status = "DRAFT"
          /\ SlipsOf(c) = {}
      BY <1>a, <1>0, <1>3, Known, RunningFacts
      DEF Steady, BacksNow, Backs, Began, Calculating, SlipsOf
    <2>2. m \in Months /\ stage[m] = "DRAFT" /\ payslips[m] = {}
      BY <1>3, <2>1, MappedCycle DEF Shown
    <2>3. \A d \in CycleIds : Exists(d)' => d # c /\ cycle'[d] = cycle[d] /\ Exists(d)
      BY <1>a, <1>0, <2>1, StatusTouches DEF Exists, CycleStatus
    <2>4. CycleOf(m)' = {}
      BY <2>1, <2>3 DEF CycleOf, IInv, OneCyclePerMonth
    <2>5. stage'[m] = "NONE" /\ payslips'[m] = {}
      BY <1>0, <1>3, <2>2, <2>4 DEF stage, payslips, Shown
    <2>6. \A i \in Installments : inst'[i].status = inst[i].status
      BY DEF CreateUndo, IInv, TypeOK, InstRow, NotScheduled
    <2>7. deducted'[m] = deducted[m]
      BY <1>0, <2>2, <2>6, SameDeducted
    <2>8. /\ payslips = [payslips EXCEPT ![m] = payslips[m]]
          /\ deducted = [deducted EXCEPT ![m] = deducted[m]]
      BY DEF payslips, deducted
    <2>9. /\ stage' = [stage EXCEPT ![m] = "NONE"] /\ payslips' = payslips /\ deducted' = deducted
          /\ gone' = gone
      <3>1. /\ stage' = [stage EXCEPT ![m] = stage'[m]] /\ payslips' = [payslips EXCEPT ![m] = payslips'[m]]
            /\ deducted' = [deducted EXCEPT ![m] = deducted'[m]] /\ gone' = gone
        BY <1>0, <1>1, StepShows
      <3> QED
        BY <2>2, <2>5, <2>7, <2>8, <3>1
    <2> QED
      BY <2>2, <2>9 DEF Lifecycle!Next, Lifecycle!GiveUp
  <1> QED
    BY <1>2, <1>3

\* The payslips of a DRAFT month change, its cycle stays.
LEMMA DraftSlipsMap ==
  ASSUME IInv, IInv', NEW c \in CycleIds, NEW m, Touches(m), cycle[c].month = m, m \notin mixed,
         cycle[c].status = "DRAFT", UNCHANGED <<cycle, mixed, staff>>,
         \A i \in Installments : inst'[i].status = inst[i].status
  PROVE  /\ m \in Months /\ stage[m] = "DRAFT" /\ stage' = stage /\ gone' = gone
         /\ payslips[m] = Shown(SlipsOf(c)) /\ deducted' = deducted
         /\ payslips' = [payslips EXCEPT ![m] = Shown(SlipsOf(c)')]
  <1>1. Exists(c) /\ Exists(c)' /\ cycle'[c].month = m /\ cycle'[c].status = "DRAFT"
    BY DEF Exists, CycleStatus
  <1>2. m \in Months /\ stage[m] = "DRAFT" /\ payslips[m] = Shown(SlipsOf(c))
    BY <1>1, MappedCycle
  <1>3. stage'[m] = "DRAFT" /\ payslips'[m] = Shown(SlipsOf(c)')
    BY <1>1, MappedCycleNext
  <1>4. deducted'[m] = deducted[m]
    BY <1>2, SameDeducted
  <1>5. stage = [stage EXCEPT ![m] = stage[m]] /\ deducted = [deducted EXCEPT ![m] = deducted[m]]
    BY DEF stage, deducted
  <1> QED
    BY <1>2, <1>3, <1>4, <1>5, StepShows

LEMMA EraseMaps ==
  ASSUME IInv, IInv', SInv, NEW p \in Callers, RecalculateDelete(p)
  PROVE  Lifecycle!Next \/ UNCHANGED Lifecycle!vars
  <1>a. PICK c, m : c = call[p].cycle /\ m = call[p].month
    OBVIOUS
  <1>0. /\ Running(p) /\ call[p].pc = "recalculate.delete" /\ Proceed(p)
        /\ UNCHANGED <<cycle, inst, mixed, staff>> /\ slips' = slips \ SlipsOf(c)
    BY <1>a DEF RecalculateDelete, At, Running, Proceed
  <1>1. Touches(m)
    BY <1>a, <1>0, ProceedTouches
  <1>2. CASE m \in mixed
    BY <1>0, <1>1, <1>2, StepShows
  <1>3. CASE m \notin mixed
    <2>1. c \in CycleIds /\ cycle[c].month = m /\ cycle[c].status = "DRAFT"
      BY <1>a, <1>0, <1>3, Known, RunningFacts DEF Steady, Began
    <2>2. SlipsOf(c)' = {}
      BY <1>0 DEF SlipsOf
    <2>3. /\ m \in Months /\ stage[m] = "DRAFT" /\ stage' = stage /\ deducted' = deducted
          /\ gone' = gone /\ payslips' = [payslips EXCEPT ![m] = Shown({})]
      BY <1>0, <1>1, <1>3, <2>1, <2>2, DraftSlipsMap
    <2>4. Shown({}) = {}
      BY DEF Shown
    <2> QED
      BY <2>3, <2>4 DEF Lifecycle!Next, Lifecycle!Erase
  <1> QED
    BY <1>2, <1>3

LEMMA CalculateMaps ==
  ASSUME IInv, IInv', SInv, NEW p \in Callers, CalcCommit(p)
  PROVE  Lifecycle!Next \/ UNCHANGED Lifecycle!vars
  <1>a. PICK c, m, new : c = call[p].cycle /\ m = call[p].month /\ new = call[p].computed
    OBVIOUS
  <1>0. /\ Running(p) /\ call[p].pc = "calc.commit" /\ Proceed(p)
        /\ UNCHANGED <<cycle, mixed, staff>> /\ gone' = gone
    BY DEF CalcCommit, At, Running, Proceed, gone
  <1>1. CASE UNCHANGED <<slips, inst>>
    BY <1>0, <1>1, Unseen
  <1>2. Touches(m)
    BY <1>a, <1>0, ProceedTouches
  <1>3. CASE m \in mixed
    BY <1>0, <1>2, <1>3, StepShows
  <1>4. CASE /\ m \notin mixed
             /\ \A t \in new : staff[t.emp] # "REMOVED"
             /\ slips' = slips \cup new
             /\ inst' = [i \in Installments |->
                           IF i \in UNION {s.insts : s \in new} THEN [inst[i] EXCEPT !.link = c]
                           ELSE inst[i]]
    <2>1. /\ c \in CycleIds /\ cycle[c].month = m /\ cycle[c].status = "DRAFT"
          /\ SlipsOf(c) = {} /\ new # {} /\ new \subseteq SlipRow
      BY <1>a, <1>0, <1>4, Known, RunningFacts
      DEF Steady, BacksNow, Backs, Began, Calculating, SlipsOf, Call
    <2>2. /\ \A s \in new : s.cycle = c
          /\ \A s \in new : \A i \in s.insts : Borrower[LoanOf[i]] = s.emp
          /\ \A s, t \in new : s.emp = t.emp => s = t
      BY <1>a, <1>0 DEF IInv, RequestsSound, SoundNow, Sound, RowsFor
    <2>3. SlipsOf(c)' = new
      BY <1>4, <2>1, <2>2 DEF SlipsOf
    <2>4. \A i \in Installments : inst'[i].status = inst[i].status
      BY <1>4 DEF IInv, TypeOK, InstRow, NotScheduled
    <2>5. /\ m \in Months /\ stage[m] = "DRAFT" /\ stage' = stage /\ deducted' = deducted
          /\ payslips[m] = Shown({}) /\ payslips' = [payslips EXCEPT ![m] = Shown(new)]
      BY <1>0, <1>2, <1>4, <2>1, <2>3, <2>4, DraftSlipsMap
    <2>6. payslips[m] = {} /\ payslips'[m] = Shown(new)
      <3>1. payslips[m] = {}
        BY <2>5 DEF Shown
      <3>2. [payslips EXCEPT ![m] = Shown(new)][m] = Shown(new)
        BY <2>5 DEF payslips
      <3> QED
        BY <2>5, <3>1, <3>2
    <2> DEFINE emps == {s.emp : s \in new}
               share == [e \in emps |-> UNION {s.insts : s \in {t \in new : t.emp = e}}]
    <2>7. emps \in (SUBSET (Employees \ gone)) \ {{}}
      <3>1. emps # {} /\ \A s \in new : s.emp \in Employees /\ s.emp \notin gone
        BY <1>4, <2>1 DEF SlipRow, gone
      <3>2. \A e \in emps : \E s \in new : e = s.emp
        OBVIOUS
      <3> HIDE DEF emps, share
      <3>3. emps \in SUBSET (Employees \ gone)
        BY <3>1, <3>2
      <3>4. emps # {}
        BY <3>1
      <3> QED
        BY <3>3, <3>4
    <2>8. \A s \in new : s.emp \in emps /\ share[s.emp] = s.insts
      <3> SUFFICES ASSUME NEW s \in new PROVE s.emp \in emps /\ share[s.emp] = s.insts
        OBVIOUS
      <3>1. {t \in new : t.emp = s.emp} = {s}
        BY <2>2
      <3>2. share[s.emp] = UNION {t.insts : t \in {s}}
        BY <3>1
      <3> QED
        BY <3>2
    <2>9. share \in [emps -> SUBSET Installments]
      <3> SUFFICES ASSUME NEW e \in emps
                   PROVE  UNION {s.insts : s \in {t \in new : t.emp = e}} \subseteq Installments
        OBVIOUS
      <3> QED
        BY <2>1 DEF SlipRow
    <2>10. \A e \in emps : \A i \in share[e] : [j \in Installments |-> Borrower[LoanOf[j]]][i] = e
      <3> SUFFICES ASSUME NEW s \in new, NEW i \in share[s.emp]
                   PROVE  [j \in Installments |-> Borrower[LoanOf[j]]][i] = s.emp
        OBVIOUS
      <3>1. i \in s.insts /\ s.insts \subseteq Installments
        BY <2>1, <2>8 DEF SlipRow
      <3> QED
        BY <2>2, <3>1
    <2> HIDE DEF share
    <2>11. Shown(new) = {[emp |-> e, insts |-> share[e]] : e \in emps}
      BY <2>8 DEF Shown
    <2> HIDE DEF emps
    <2>12. Shown(new) \in Lifecycle!Payslips(emps)
      BY <2>9, <2>10, <2>11 DEF Lifecycle!Payslips
    <2> QED
      BY <1>0, <2>5, <2>6, <2>7, <2>12 DEF Lifecycle!Next, Lifecycle!Calculate
  <1> QED
    BY <1>a, <1>1, <1>3, <1>4 DEF CalcCommit

\* The steps of a request that show nothing.
LEMMA QuietMaps ==
  ASSUME IInv, SInv, NEW p \in Callers,
         \/ Fault(p) \/ CalcRead(p) \/ RecalculateClear(p) \/ RevertClear(p)
         \/ ReviewCount(p) \/ ApproveFind(p) \/ ApproveMark(p) \/ ApproveCount(p)
  PROVE  UNCHANGED Lifecycle!vars
  <1>1. UNCHANGED <<cycle, slips, mixed, staff>> /\ gone' = gone
    BY DEF Fault, CalcFails, Abort, CalcRead, RecalculateClear, RevertClear, ReviewCount,
           ApproveFind, ApproveMark, ApproveCount, rows, gone
  <1>2. CASE RecalculateClear(p)
    <2> SUFFICES ASSUME NEW i \in Installments, Due[i] \notin mixed
                 PROVE  inst'[i].status = "DEDUCTED" <=> inst[i].status = "DEDUCTED"
      BY <1>1, Unseen
    <2>1. Running(p) /\ call[p].pc = "recalculate.clear"
      BY <1>2 DEF RecalculateClear, At, Running
    <2>2. CASE i \in Linked(call[p].cycle)
      <3>1. Steady(p)
        BY <2>1, <2>2, RunningFacts DEF Steady
      <3>2. ~Published(call[p].cycle)
        BY <2>1, <3>1, Known DEF Began, Published
      <3> QED
        BY <1>2, <2>2, <3>1, <3>2, Known DEF RecalculateClear
    <2>3. CASE i \notin Linked(call[p].cycle)
      BY <1>2, <2>3 DEF RecalculateClear
    <2> QED
      BY <2>2, <2>3
  <1>3. CASE RevertClear(p)
    <2>1. \A i \in Installments : inst'[i].status = inst[i].status
      BY <1>3 DEF RevertClear, IInv, TypeOK, InstRow, NotScheduled
    <2> QED
      BY <1>1, <2>1, Unseen
  <1>4. CASE UNCHANGED rows
    BY <1>1, <1>4, Unseen DEF rows
  <1> QED
    BY <1>2, <1>3, <1>4
    DEF Fault, CalcFails, Abort, CalcRead, ReviewCount, ApproveFind, ApproveMark, ApproveCount

\* The start of a request changes nothing but what is mixed.
LEMMA StartMixes ==
  ASSUME NEW p \in Callers, Request(p), IInv
  PROVE  \E m \in Months : UNCHANGED <<rows, staff>> /\ mixed' \in {mixed, mixed \cup {m}}
  <1>1. ASSUME NEW m \in Months, CreateFind(p, m)
        PROVE  UNCHANGED <<rows, staff>> /\ mixed' \in {mixed, mixed \cup {m}}
    BY <1>1 DEF CreateFind, Starts
  <1>2. ASSUME NEW c \in CycleIds, NEW first, NEW allowed \in SUBSET CycleStatus,
               Begin(p, c, allowed, first)
        PROVE  \E m \in Months : UNCHANGED <<rows, staff>> /\ mixed' \in {mixed, mixed \cup {m}}
    <2>1. cycle[c].month \in Months
      BY <1>2, MappedCycle DEF Begin, Exists
    <2> QED
      BY <1>2, <2>1 DEF Begin, Starts
  <1>3. {"DRAFT"} \in SUBSET CycleStatus /\ {"REVIEW"} \in SUBSET CycleStatus
        /\ {"APPROVED"} \in SUBSET CycleStatus
    BY DEF CycleStatus
  <1> QED
    BY <1>1, <1>2, <1>3
    DEF Request, RecalculateBegin, RevertBegin, ReviewBegin, ApproveBegin, CloseBegin

LEMMA StartMaps ==
  ASSUME NEW p \in Callers, Request(p), IInv
  PROVE  Lifecycle!Next \/ UNCHANGED Lifecycle!vars
  <1>1. PICK m \in Months : UNCHANGED <<cycle, slips, inst, staff>> /\ mixed' \in {mixed, mixed \cup {m}}
    BY StartMixes DEF rows
  <1>2. gone' = gone /\ \A n : CycleOf(n)' = CycleOf(n)
    BY <1>1 DEF gone, CycleOf, Exists
  <1>3. CASE mixed' = mixed
    BY <1>1, <1>2, <1>3, Unseen
  <1>4. CASE mixed' = mixed \cup {m}
    <2>1. /\ stage' = [stage EXCEPT ![m] = "MIXED"]
          /\ payslips' = [payslips EXCEPT ![m] = {}]
          /\ deducted' = [deducted EXCEPT ![m] = {}]
      BY <1>1, <1>2, <1>4 DEF stage, payslips, deducted
    <2> QED
      BY <1>2, <2>1 DEF Lifecycle!Next, Lifecycle!Mix
  <1> QED
    BY <1>1, <1>3, <1>4

LEMMA EnvironmentMaps ==
  ASSUME IInv, Environment
  PROVE  Lifecycle!Next \/ UNCHANGED Lifecycle!vars
  <1>1. ASSUME NEW l \in Loans, ApproveLoan(l)
        PROVE  UNCHANGED Lifecycle!vars
    <2>1. \A i \in Installments : LoanOf[i] = l => inst[i].status = "UNUSED"
      BY <1>1 DEF ApproveLoan, IInv, ScheduledOnApproval, NotScheduled, Open
    <2>2. \A i \in Installments : inst'[i].status = "DEDUCTED" <=> inst[i].status = "DEDUCTED"
      BY <1>1, <2>1 DEF ApproveLoan
    <2>3. UNCHANGED <<cycle, slips, mixed>> /\ gone' = gone
      BY <1>1 DEF ApproveLoan, gone
    <2> QED
      BY <2>2, <2>3, Unseen
  <1>2. ASSUME NEW e \in Employees, SetActive(e)
        PROVE  UNCHANGED Lifecycle!vars
    <2>1. \A f \in Employees : staff'[f] = "REMOVED" <=> staff[f] = "REMOVED"
      BY <1>2 DEF SetActive, IInv, TypeOK
    <2>2. gone' = gone
      BY <2>1 DEF gone
    <2> QED
      BY <1>2, <2>2, Unseen DEF SetActive, rows
  <1>3. ASSUME NEW e \in Employees, RemoveEmployee(e)
        PROVE  Lifecycle!Next
    <2>1. /\ UNCHANGED <<cycle, mixed>> /\ slips' = {s \in slips : s.emp # e} /\ staff[e] # "REMOVED"
          /\ staff' = [staff EXCEPT ![e] = "REMOVED"]
          /\ \A i \in Installments : inst'[i] = IF i \in OwedBy(e) THEN NotScheduled ELSE inst[i]
      BY <1>3 DEF RemoveEmployee
    <2>2. \A n : CycleOf(n)' = CycleOf(n)
      BY <2>1 DEF CycleOf, Exists
    <2>3. stage' = stage
      BY <2>1, <2>2 DEF stage
    <2>4. payslips' = [m \in Months |-> {s \in payslips[m] : s.emp # e}]
      <3>1. ASSUME NEW m \in Months
            PROVE  Shown({s \in slips' : s.cycle \in CycleOf(m)})
                     = {s \in Shown({s \in slips : s.cycle \in CycleOf(m)}) : s.emp # e}
        BY <2>1 DEF Shown
      <3> QED
        BY <2>1, <2>2, <3>1 DEF payslips
    <2>5. deducted' = [m \in Months |-> {i \in deducted[m] :
                                           [j \in Installments |-> Borrower[LoanOf[j]]][i] # e}]
      <3>1. \A i \in Installments : inst'[i].status = "DEDUCTED" <=>
              inst[i].status = "DEDUCTED" /\ Borrower[LoanOf[i]] # e
        BY <2>1, ConstantsAssumption DEF OwedBy, LoansOf, NotScheduled
      <3> QED
        BY <2>1, <3>1 DEF deducted
    <2>6. e \notin gone /\ gone' = gone \cup {e}
      BY <2>1 DEF gone, IInv, TypeOK
    <2> QED
      BY <2>3, <2>4, <2>5, <2>6 DEF Lifecycle!Next, Lifecycle!Remove
  <1> QED
    BY <1>1, <1>2, <1>3 DEF Environment

LEMMA NextMaps == IInv /\ IInv' /\ SInv /\ SInv' /\ [Next]_vars => [Lifecycle!Next]_Lifecycle!vars
  <1> SUFFICES ASSUME IInv, IInv', SInv, SInv', [Next]_vars
               PROVE  Lifecycle!Next \/ UNCHANGED Lifecycle!vars
    OBVIOUS
  <1>1. CASE UNCHANGED vars
    BY <1>1, Unseen DEF vars, gone
  <1>2. ASSUME NEW p \in Callers, Proceed(p)
        PROVE  Lifecycle!Next \/ UNCHANGED Lifecycle!vars
    BY <1>2, InsertMaps, UndoMaps, CalculateMaps, EraseMaps, UpdateMaps, ApproveMaps, QuietMaps
    DEF Proceed
  <1> QED
    BY <1>1, <1>2, QuietMaps, StartMaps, EnvironmentMaps DEF Next

\* However many requests are in flight about any months, with every double submit, crash,
\* retry and removal of an employee: what the tables show is a behaviour of the lifecycle,
\* in which a month is given up to nothing but its own requests.
THEOREM PayrollImplementsLifecycle == Spec => ImplementsLifecycle
  <1>1. Spec => Lifecycle!Init /\ [][Lifecycle!Next]_Lifecycle!vars
    BY InitMaps, NextMaps, PayrollIInv, PayrollSInv, PTL DEF Spec
  <1> QED
    BY <1>1 DEF ImplementsLifecycle, Lifecycle!Spec

-----------------------------------------------------------------------------
(* The payroll takes its part in what a loan promises.                     *)

LEMMA SameCollected ==
  ASSUME UNCHANGED mixed,
         \A c \in CycleIds :
            \/ cycle'[c] = cycle[c]
            \/ ~Published(c) /\ ~Published(c)'
            \/ Published(c) /\ Published(c)' /\ cycle'[c].month = cycle[c].month
            \/ cycle'[c].month \in mixed /\ (cycle[c].month \in mixed \/ ~Published(c))
  PROVE  collected' = collected
  BY DEF collected, Published

\* A step about a mixed month shows nothing of what is collected.
LEMMA MixedCollected ==
  ASSUME NEW m \in mixed, Touches(m), UNCHANGED mixed
  PROVE  collected' = collected
  <1>1. \A c \in CycleIds : cycle[c] = Unused => ~Published(c)
    BY DEF Published, Unused
  <1> QED
    BY <1>1, SameCollected DEF Touches

\* A step shows nothing of the loans that leaves them, the statuses of the installments
\* due in months that are not mixed, and what is collected.
LEMMA SamePlans ==
  ASSUME UNCHANGED mixed,
         \A i \in Installments : Due[i] \notin mixed => inst'[i].status = inst[i].status
  PROVE  plan' = plan /\ taken' = taken
  <1>1. \A l, statuses : PlannedOf(l, statuses)' = PlannedOf(l, statuses)
    BY DEF PlannedOf, Planned
  <1> QED
    BY <1>1 DEF plan, taken

LEMMA UnseenLoans ==
  ASSUME UNCHANGED <<loan, mixed>>, collected' = collected,
         \A i \in Installments : Due[i] \notin mixed => inst'[i].status = inst[i].status
  PROVE  UNCHANGED Promise!repaymentVars
  <1>1. standing' = standing
    BY DEF standing
  <1> QED
    BY <1>1, SamePlans DEF Promise!repaymentVars

LEMMA StatusesStay ==
  ASSUME IInv, SInv, NEW p \in Callers, Proceed(p), ~ApproveCommit(p),
         NEW i \in Installments, Due[i] \notin mixed
  PROVE  inst'[i].status = inst[i].status
  <1>1. inst[i] \in InstRow
    BY DEF IInv, TypeOK
  <1>2. CASE RecalculateClear(p)
    <2>1. Running(p) /\ call[p].pc = "recalculate.clear"
      BY <1>2 DEF RecalculateClear, At, Running
    <2>2. CASE i \in Linked(call[p].cycle)
      <3>1. Steady(p) /\ inst[i] # NotScheduled
        BY <2>1, <2>2, RunningFacts DEF Steady
      <3>2. inst[i].status # "DEDUCTED"
        BY <2>1, <2>2, <3>1, Known DEF Began, Published
      <3>3. inst[i].status = "PENDING"
        BY <1>1, <3>1, <3>2 DEF InstRow
      <3> QED
        BY <1>2, <2>2, <3>3 DEF RecalculateClear
    <2>3. CASE i \notin Linked(call[p].cycle)
      BY <1>2, <2>3 DEF RecalculateClear
    <2> QED
      BY <2>2, <2>3
  <1>3. CASE CalcCommit(p) \/ CreateUndo(p) \/ RevertClear(p)
    BY <1>1, <1>3 DEF CalcCommit, CreateUndo, RevertClear, InstRow, NotScheduled
  <1> QED
    BY <1>2, <1>3
    DEF Proceed, CreateInsert, CalcRead, RecalculateDelete, RevertUpdate, ReviewCount, ReviewUpdate,
        ApproveFind, ApproveMark, ApproveCount, CloseUpdate, rows

\* A status set by id that leaves the month on its side of the approval.
LEMMA StatusCollected ==
  ASSUME IInv, SInv, NEW p \in Callers, Running(p), Proceed(p),
         NEW status \in CycleStatus \cup {"DELETED"}, SetStatus(call[p].cycle, status),
         \/ Began(call[p].pc) \subseteq {"DRAFT", "REVIEW"} /\ status \notin {"APPROVED", "CLOSED"}
         \/ Began(call[p].pc) \subseteq {"APPROVED", "CLOSED"} /\ status \in {"APPROVED", "CLOSED"}
  PROVE  collected' = collected
  <1>a. PICK c, m : c = call[p].cycle /\ m = call[p].month
    OBVIOUS
  <1>1. Touches(m) /\ UNCHANGED mixed
    BY <1>a, ProceedTouches
  <1>2. CASE m \in mixed
    BY <1>1, <1>2, MixedCollected
  <1>3. CASE m \notin mixed
    <2>1. /\ c \in CycleIds /\ Exists(c) /\ cycle[c].month = m /\ cycle[c].status \in Began(call[p].pc)
      BY <1>a, <1>3, Known, RunningFacts DEF Steady
    <2>2. /\ \A d \in CycleIds : d # c => cycle'[d] = cycle[d]
          /\ cycle'[c].month = m /\ cycle'[c].status = status
      BY <1>a, <2>1, StatusTouches
    <2>3. (Published(c) /\ Published(c)') \/ (~Published(c) /\ ~Published(c)')
      BY <2>1, <2>2 DEF Published
    <2> QED
      BY <1>1, <2>1, <2>2, <2>3, SameCollected
  <1> QED
    BY <1>2, <1>3

LEMMA CollectedStays ==
  ASSUME IInv, SInv, NEW p \in Callers, Proceed(p), ~ApproveCommit(p)
  PROVE  collected' = collected
  <1>0. UNCHANGED mixed
    BY ProceedTouches
  <1>1. CASE UNCHANGED cycle
    BY <1>0, <1>1, SameCollected
  <1>2. CASE CreateInsert(p)
    <2> SUFFICES ASSUME NEW c \in CycleIds, cycle[c] = Unused, NEW m,
                        cycle' = [cycle EXCEPT ![c] = [month |-> m, status |-> "DRAFT"]]
                 PROVE  collected' = collected
      BY <1>1, <1>2 DEF CreateInsert
    <2>1. /\ cycle'[c] = [month |-> m, status |-> "DRAFT"]
          /\ \A d \in CycleIds \ {c} : cycle'[d] = cycle[d]
      BY DEF IInv, TypeOK
    <2>2. ~Published(c) /\ ~Published(c)'
      BY <2>1 DEF Published, Unused
    <2> QED
      BY <1>0, <2>1, <2>2, SameCollected
  <1>3. CASE CreateUndo(p) \/ RevertUpdate(p) \/ ReviewUpdate(p) \/ CloseUpdate(p)
    <2>1. Running(p)
      BY <1>3 DEF CreateUndo, RevertUpdate, ReviewUpdate, CloseUpdate, At, Running
    <2>2. CASE CreateUndo(p)
      BY <2>1, <2>2, StatusCollected DEF CreateUndo, At, Began, CycleStatus
    <2>3. CASE RevertUpdate(p)
      BY <2>1, <2>3, StatusCollected DEF RevertUpdate, At, Began, CycleStatus
    <2>4. CASE ReviewUpdate(p)
      BY <2>1, <2>4, StatusCollected DEF ReviewUpdate, At, Began, CycleStatus
    <2>5. CASE CloseUpdate(p)
      BY <2>1, <2>5, StatusCollected DEF CloseUpdate, At, Began, CycleStatus
    <2> QED
      BY <1>3, <2>2, <2>3, <2>4, <2>5
  <1> QED
    BY <1>1, <1>2, <1>3
    DEF Proceed, CalcRead, CalcCommit, RecalculateClear, RecalculateDelete, RevertClear, ReviewCount,
        ApproveFind, ApproveMark, ApproveCount, rows

LEMMA LoanApprovalKeeps ==
  ASSUME IInv, NEW l \in Loans, ApproveLoan(l)
  PROVE  Promise!RepaymentNext
  <1>1. /\ loan[l] = "PENDING" /\ loan' = [loan EXCEPT ![l] = "APPROVED"] /\ UNCHANGED <<cycle, mixed>>
        /\ \A i \in Installments :
             inst'[i] = IF LoanOf[i] = l THEN [status |-> "PENDING", link |-> None] ELSE inst[i]
    BY DEF ApproveLoan
  <1>2. \A i \in Installments : LoanOf[i] = l => inst[i].status = "UNUSED"
    BY <1>1 DEF IInv, ScheduledOnApproval, NotScheduled, Open
  <1>3. standing[l] = "OPEN" /\ standing' = [standing EXCEPT ![l] = "APPROVED"]
    BY <1>1 DEF standing, IInv, TypeOK
  <1>4. ASSUME NEW k \in Loans, NEW statuses, k # l
        PROVE  PlannedOf(k, statuses)' = PlannedOf(k, statuses)
    BY <1>1, <1>4 DEF PlannedOf, Planned
  <1>5. PlannedOf(l, {"DEDUCTED"}) = {} /\ PlannedOf(l, {"DEDUCTED"})' = {}
    BY <1>1, <1>2 DEF PlannedOf
  <1>6. taken' = taken
    <2>1. \A k \in Loans : taken'[k] = taken[k]
      BY <1>4, <1>5 DEF taken
    <2> QED
      BY <2>1 DEF taken
  <1>7. plan' = [plan EXCEPT ![l] = plan'[l]]
    <2>1. \A k \in Loans : k # l => plan'[k] = plan[k]
      BY <1>4 DEF plan
    <2> QED
      BY <2>1 DEF plan
  <1>8. Promise!IsPlan(plan'[l])
    <2>1. \A i \in Installments : Due[i] \in Months
      BY ConstantsAssumption
    <2> QED
      BY <2>1 DEF plan, PlannedOf, Planned, Promise!IsPlan, Promise!Installment
  <1>9. collected' = collected
    BY <1>1, SameCollected
  <1> QED
    BY <1>3, <1>6, <1>7, <1>8, <1>9 DEF Promise!RepaymentNext, Promise!Approve

\* Where an approval finds everything it would deduct deducted, or of a mixed month, it
\* settles the loans that it sets PAID_OFF.
LEMMA ApprovalSettles ==
  ASSUME IInv, SInv, NEW p \in Callers, ApproveCommit(p), Exists(call[p].cycle), collected' = collected,
         \A i \in call[p].locked : Due[i] \in mixed \/ inst[i].status = "DEDUCTED"
  PROVE  Promise!RepaymentNext
  <1>a. PICK locked, paidOff : locked = call[p].locked /\ paidOff = call[p].paidOff
    OBVIOUS
  <1>1. /\ inst' = [i \in Installments |->
                      IF i \in locked THEN [inst[i] EXCEPT !.status = "DEDUCTED"] ELSE inst[i]]
        /\ loan' = [l \in Loans |-> IF l \in paidOff THEN "PAID_OFF" ELSE loan[l]]
        /\ UNCHANGED mixed
    BY <1>a DEF ApproveCommit
  <1>2. \A i \in Installments : Due[i] \notin mixed => inst'[i].status = inst[i].status
    BY <1>a, <1>1 DEF IInv, TypeOK, InstRow, NotScheduled
  <1>3. plan' = plan /\ taken' = taken
    BY <1>1, <1>2, SamePlans
  <1>4. \A l \in paidOff : l \in Loans /\ loan[l] \in Open
    BY <1>a DEF IInv, TypeOK, Call, RequestsSound, SoundNow, Sound
  <1>5. \A l \in paidOff : taken[l] = plan[l]
    <2> SUFFICES ASSUME NEW l \in paidOff PROVE taken[l] = plan[l]
      OBVIOUS
    <2>1. \A i \in Installments : LoanOf[i] = l /\ Due[i] \notin mixed => inst[i].status = "DEDUCTED"
      BY <1>a DEF SInv, AllPaid, Paid
    <2>2. PlannedOf(l, {"PENDING", "DEDUCTED"}) = PlannedOf(l, {"DEDUCTED"})
      BY <2>1 DEF PlannedOf
    <2> QED
      BY <1>4, <2>2 DEF plan, taken
  <1> DEFINE L == {l \in paidOff : loan[l] = "APPROVED"}
  <1>6. L \in SUBSET Loans /\ \A l \in L : standing[l] = "APPROVED" /\ taken[l] = plan[l]
    BY <1>4, <1>5 DEF standing
  <1>7. standing' = [l \in Loans |-> IF l \in L THEN "PAID_OFF" ELSE standing[l]]
    <2>1. \A l \in Loans : loan'[l] = IF l \in L THEN "PAID_OFF" ELSE loan[l]
      BY <1>1, <1>4 DEF Open
    <2>2. \A l \in L : loan[l] = "APPROVED"
      OBVIOUS
    <2> HIDE DEF L
    <2>3. \A l \in Loans : standing'[l] = IF l \in L THEN "PAID_OFF" ELSE standing[l]
      BY <2>1 DEF standing
    <2> QED
      BY <2>3 DEF standing
  <1> HIDE DEF L
  <1> QED
    BY <1>3, <1>6, <1>7 DEF Promise!RepaymentNext, Promise!Settle

\* The first approval of a month that is not mixed collects it.
LEMMA ApprovalCollects ==
  ASSUME IInv, SInv, NEW p \in Callers, ApproveCommit(p), Steady(p),
         cycle[call[p].cycle].status = "REVIEW"
  PROVE  Promise!RepaymentNext
  <1>a. PICK c, m, locked, paidOff :
           c = call[p].cycle /\ m = call[p].month /\ locked = call[p].locked /\ paidOff = call[p].paidOff
    OBVIOUS
  <1>0. call[p].pc = "approve.count" /\ UNCHANGED mixed /\ SetStatus(c, "APPROVED") /\ Running(p)
    BY <1>a DEF ApproveCommit, At, Steady
  <1>1. /\ c \in CycleIds /\ Exists(c) /\ cycle[c].month = m /\ ~Published(c) /\ m \notin mixed
    BY <1>a, Known, RunningFacts DEF Steady, Published
  <1>2. /\ inst' = [i \in Installments |->
                      IF i \in locked THEN [inst[i] EXCEPT !.status = "DEDUCTED"] ELSE inst[i]]
        /\ loan' = [l \in Loans |-> IF l \in paidOff THEN "PAID_OFF" ELSE loan[l]]
    BY <1>a, <1>1 DEF ApproveCommit
  <1>3. ASSUME NEW i \in locked
        PROVE  i \in Installments /\ Due[i] = m /\ inst[i].status = "PENDING" /\ inst[i] # NotScheduled
    <2>1. i \in Linked(c)
      BY <1>a, <1>1, <1>0 DEF IInv, TypeOK, Call, RequestsSound, SoundNow, Sound, Linked
    <2>2. i \in Installments /\ Due[i] = m /\ inst[i] # NotScheduled
      BY <1>a, <1>0, <2>1, RunningFacts
    <2>3. inst[i].status # "DEDUCTED"
      BY <1>a, <1>1, <2>1, Known
    <2> QED
      BY <2>2, <2>3 DEF IInv, TypeOK, InstRow
  <1>4. ASSUME NEW i \in Installments
        PROVE  inst'[i].status = IF i \in locked THEN "DEDUCTED" ELSE inst[i].status
    BY <1>2 DEF IInv, TypeOK, InstRow, NotScheduled
  <1>5. ASSUME NEW i \in locked
        PROVE  loan[LoanOf[i]] = "APPROVED"
    <2>1. i \in Installments /\ inst[i] # NotScheduled /\ inst[i].status # "DEDUCTED" /\ Due[i] \notin mixed
      BY <1>1, <1>3
    <2>2. loan[LoanOf[i]] \in Open /\ loan[LoanOf[i]] # "PAID_OFF"
      BY <2>1 DEF IInv, ScheduledOnApproval, SInv, PaidOffOnlyWhenDeducted
    <2> QED
      BY <2>2 DEF Open
  <1>6. collected' = collected \cup {m} /\ m \in Months /\ m \notin collected
    <2>1. /\ \A d \in CycleIds : d # c => cycle'[d] = cycle[d]
          /\ cycle'[c].month = m /\ cycle'[c].status = "APPROVED"
      BY <1>a, <1>0, <1>1, StatusTouches DEF CycleStatus
    <2>2. Published(c)' /\ m \in Months
      BY <1>1, <2>1, MappedCycle DEF Published
    <2>3. m \notin collected
      <3> SUFFICES ASSUME NEW d \in CycleIds, Published(d), cycle[d].month = m
                   PROVE  FALSE
        BY DEF collected
      <3>1. Exists(d)
        BY DEF Published, Exists, CycleStatus
      <3>2. d = c
        BY <1>1, <3>1 DEF IInv, OneCyclePerMonth
      <3> QED
        BY <1>1, <3>2
    <2>4. \A n \in Months : n \in collected' <=> n \in collected \/ n = m
      BY <1>0, <1>1, <2>1, <2>2 DEF collected, Published
    <2>5. collected \subseteq Months /\ collected' \subseteq Months
      BY DEF collected
    <2> QED
      BY <2>2, <2>3, <2>4, <2>5
  <1>7. ASSUME NEW l \in Loans
        PROVE  plan'[l] = plan[l] /\ Promise!Collects(l, m)
    <2>1. /\ plan[l] = PlannedOf(l, {"PENDING", "DEDUCTED"}) /\ taken[l] = PlannedOf(l, {"DEDUCTED"})
          /\ plan'[l] = PlannedOf(l, {"PENDING", "DEDUCTED"})' /\ taken'[l] = PlannedOf(l, {"DEDUCTED"})'
      BY DEF plan, taken
    <2>2. plan'[l] = plan[l]
      BY <1>0, <1>3, <1>4, <2>1 DEF PlannedOf, Planned
    <2>3. taken[l] \subseteq taken'[l]
      BY <1>0, <1>4, <2>1 DEF PlannedOf, Planned
    <2>4. taken'[l] \ taken[l] \subseteq {Planned(i) : i \in {j \in locked : LoanOf[j] = l}}
      BY <1>0, <1>3, <1>4, <2>1 DEF PlannedOf, Planned
    <2>5. taken'[l] \ taken[l] \subseteq {i \in plan[l] : i.due = m}
      <3> SUFFICES ASSUME NEW i \in locked, LoanOf[i] = l
                   PROVE  Planned(i) \in plan[l] /\ Planned(i).due = m
        BY <2>4
      <3> QED
        BY <1>1, <1>3, <2>1 DEF PlannedOf, Planned
    <2>6. taken'[l] \ taken[l] # {} => loan[l] = "APPROVED" /\ standing[l] = "APPROVED"
      BY <1>5, <2>4 DEF standing
    <2>7. CASE l \notin paidOff \/ loan[l] = "PAID_OFF"
      <3>1. loan'[l] = loan[l]
        BY <1>2, <2>7
      <3>2. standing'[l] = standing[l]
        BY <3>1 DEF standing
      <3> QED
        BY <2>2, <2>3, <2>5, <2>6, <3>2 DEF Promise!Collects
    <2>8. CASE l \in paidOff /\ loan[l] # "PAID_OFF"
      <3>1. loan[l] = "APPROVED"
        BY <1>a, <2>8 DEF IInv, RequestsSound, SoundNow, Sound, Open
      <3>2. loan'[l] = "PAID_OFF"
        BY <1>2, <2>8
      <3>3. standing[l] = "APPROVED" /\ standing'[l] = "PAID_OFF"
        BY <3>1, <3>2 DEF standing
      <3>4. \A i \in Installments : LoanOf[i] = l /\ Due[i] \notin mixed => inst'[i].status = "DEDUCTED"
        BY <1>a, <1>4, <2>8 DEF SInv, AllPaid, Paid
      <3>5. taken'[l] = plan'[l]
        BY <1>0, <2>1, <3>4 DEF PlannedOf
      <3> QED
        BY <2>2, <2>3, <2>5, <2>6, <3>3, <3>5 DEF Promise!Collects
    <2> QED
      BY <2>2, <2>7, <2>8
  <1>8. plan' = plan /\ standing' = [l \in Loans |-> standing'[l]] /\ taken' = [l \in Loans |-> taken'[l]]
    BY <1>7 DEF plan, standing, taken
  <1> QED
    BY <1>6, <1>7, <1>8 DEF Promise!RepaymentNext, Promise!Collect

LEMMA PayrollApprovalKeeps ==
  ASSUME IInv, SInv, NEW p \in Callers, ApproveCommit(p)
  PROVE  Promise!RepaymentNext \/ UNCHANGED Promise!repaymentVars
  <1>a. PICK c, m : c = call[p].cycle /\ m = call[p].month
    OBVIOUS
  <1>0. /\ call[p].pc = "approve.count" /\ Proceed(p) /\ UNCHANGED mixed /\ SetStatus(c, "APPROVED")
        /\ Running(p) /\ c \in CycleIds
    BY <1>a, RunningFacts DEF ApproveCommit, At, Proceed, Running
  <1>1. \A i \in call[p].locked : i \in Linked(c) /\ Due[i] = m
    <2>1. \A i \in call[p].locked : i \in Linked(c)
      BY <1>a, <1>0, RunningFacts DEF IInv, RequestsSound, SoundNow, Sound, Linked, Call
    <2> QED
      BY <1>a, <1>0, <2>1, RunningFacts
  <1>2. CASE ~Exists(c)
    <2>1. UNCHANGED <<inst, loan, cycle>>
      BY <1>a, <1>2 DEF ApproveCommit, SetStatus
    <2> QED
      BY <1>0, <2>1, UnseenLoans, SameCollected
  <1>3. CASE Exists(c) /\ m \in mixed
    <2>1. collected' = collected
      BY <1>a, <1>0, <1>3, ProceedTouches, MixedCollected
    <2> QED
      BY <1>a, <1>1, <1>3, <2>1, ApprovalSettles
  <1>4. CASE Exists(c) /\ m \notin mixed
    <2>1. Steady(p)
      BY <1>a, <1>0, <1>4 DEF Steady
    <2>2. cycle[c].status \in {"REVIEW", "APPROVED"} /\ cycle[c].month = m
      BY <1>a, <1>0, <2>1, Known, RunningFacts DEF Began
    <2>3. CASE cycle[c].status = "REVIEW"
      BY <1>a, <2>1, <2>3, ApprovalCollects
    <2>4. CASE cycle[c].status = "APPROVED"
      <3>1. \A i \in call[p].locked : inst[i].status = "DEDUCTED"
        BY <1>a, <1>1, <2>1, <2>4, Known DEF Published
      <3>2. /\ \A d \in CycleIds : d # c => cycle'[d] = cycle[d]
            /\ cycle'[c].month = m /\ cycle'[c].status = "APPROVED"
        BY <1>a, <1>0, <1>4, StatusTouches DEF CycleStatus
      <3>3. collected' = collected
        BY <1>0, <2>2, <2>4, <3>2, SameCollected DEF Published
      <3> QED
        BY <1>a, <1>4, <3>1, <3>3, ApprovalSettles
    <2> QED
      BY <2>2, <2>3, <2>4
  <1> QED
    BY <1>2, <1>3, <1>4

LEMMA RemovalForgets ==
  ASSUME IInv, NEW e \in Employees, RemoveEmployee(e)
  PROVE  Promise!RepaymentNext
  <1>1. /\ UNCHANGED <<cycle, mixed>>
        /\ loan' = [l \in Loans |-> IF l \in LoansOf(e) THEN "REMOVED" ELSE loan[l]]
        /\ \A i \in Installments : inst'[i] = IF i \in OwedBy(e) THEN NotScheduled ELSE inst[i]
    BY DEF RemoveEmployee
  <1>2. collected' = collected
    BY <1>1, SameCollected
  <1>3. standing' = [l \in Loans |-> IF l \in LoansOf(e) THEN "REMOVED" ELSE standing[l]]
    BY <1>1 DEF standing
  <1>4. ASSUME NEW l \in Loans, NEW statuses, statuses \subseteq {"PENDING", "DEDUCTED"}
        PROVE  PlannedOf(l, statuses)' = IF l \in LoansOf(e) THEN {} ELSE PlannedOf(l, statuses)
    <2>1. CASE l \in LoansOf(e)
      <3>1. \A i \in Installments : LoanOf[i] = l => inst'[i].status \notin statuses
        BY <1>1, <1>4, <2>1 DEF OwedBy, NotScheduled
      <3> QED
        BY <2>1, <3>1 DEF PlannedOf
    <2>2. CASE l \notin LoansOf(e)
      <3>1. \A i \in Installments : LoanOf[i] = l => inst'[i] = inst[i]
        BY <1>1, <2>2 DEF OwedBy
      <3> QED
        BY <1>1, <2>2, <3>1 DEF PlannedOf, Planned
    <2> QED
      BY <2>1, <2>2
  <1>5. plan' = [l \in Loans |-> IF l \in LoansOf(e) THEN {} ELSE plan[l]]
    BY <1>4 DEF plan
  <1>6. taken' = [l \in Loans |-> IF l \in LoansOf(e) THEN {} ELSE taken[l]]
    BY <1>4 DEF taken
  <1>7. LoansOf(e) \in SUBSET Loans
    BY DEF LoansOf
  <1> QED
    BY <1>2, <1>3, <1>5, <1>6, <1>7 DEF Promise!RepaymentNext, Promise!Forget

LEMMA StartDoubts ==
  ASSUME IInv, NEW p \in Callers, Request(p)
  PROVE  Promise!RepaymentNext \/ UNCHANGED Promise!repaymentVars
  <1>1. PICK m \in Months : UNCHANGED <<cycle, inst, loan>> /\ mixed' \in {mixed, mixed \cup {m}}
    BY StartMixes DEF rows
  <1>2. CASE mixed' = mixed
    BY <1>1, <1>2, UnseenLoans, SameCollected
  <1>3. CASE mixed' = mixed \cup {m}
    <2>1. standing' = standing
      BY <1>1 DEF standing
    <2>2. \A l, statuses : PlannedOf(l, statuses)' = {i \in PlannedOf(l, statuses) : i.due # m}
      BY <1>1, <1>3 DEF PlannedOf, Planned
    <2>3. plan' = [l \in Loans |-> {i \in plan[l] : i.due # m}]
          /\ taken' = [l \in Loans |-> {i \in taken[l] : i.due # m}]
      BY <2>2 DEF plan, taken
    <2>4. collected' = collected \ {m}
      BY <1>1, <1>3 DEF collected, Published
    <2> QED
      BY <2>1, <2>3, <2>4 DEF Promise!RepaymentNext, Promise!Doubt
  <1> QED
    BY <1>1, <1>2, <1>3

LEMMA StepKeeps ==
  IInv /\ SInv /\ [Next]_vars => [Promise!RepaymentNext]_Promise!repaymentVars
  <1> SUFFICES ASSUME IInv, SInv, [Next]_vars
               PROVE  Promise!RepaymentNext \/ UNCHANGED Promise!repaymentVars
    OBVIOUS
  <1>1. ASSUME UNCHANGED <<rows, mixed>> PROVE UNCHANGED Promise!repaymentVars
    BY <1>1, UnseenLoans, SameCollected DEF rows
  <1>2. ASSUME NEW p \in Callers, Fault(p) PROVE UNCHANGED Promise!repaymentVars
    BY <1>1, <1>2 DEF Fault, CalcFails, Abort
  <1>3. ASSUME NEW p \in Callers, Proceed(p), ~ApproveCommit(p) PROVE UNCHANGED Promise!repaymentVars
    <2>1. UNCHANGED loan
      BY <1>3
      DEF Proceed, CreateInsert, CreateUndo, CalcRead, CalcCommit, RecalculateClear, RecalculateDelete,
          RevertClear, RevertUpdate, ReviewCount, ReviewUpdate, ApproveFind, ApproveMark, ApproveCount,
          CloseUpdate, rows
    <2>2. UNCHANGED mixed
      BY <1>3, ProceedTouches
    <2> QED
      BY <1>3, <2>1, <2>2, StatusesStay, CollectedStays, UnseenLoans
  <1>4. Environment => Promise!RepaymentNext \/ UNCHANGED Promise!repaymentVars
    BY <1>1, LoanApprovalKeeps, RemovalForgets DEF Environment, SetActive
  <1>5. UNCHANGED vars => UNCHANGED Promise!repaymentVars
    BY <1>1 DEF vars, rows
  <1> QED
    BY <1>2, <1>3, <1>4, <1>5, StartDoubts, PayrollApprovalKeeps DEF Next

\* However many requests are in flight, with every double submit, crash, retry and removal
\* of an employee: of every loan a month that is not mixed collects once, and only what is
\* due in it; a loan is PAID_OFF only when all that is not in doubt was taken.
THEOREM PayrollKeepsPromise == Spec => KeepsPromise
  <1>1. Init => Promise!RepaymentInit
    BY DEF Init, Promise!RepaymentInit, standing, plan, taken, PlannedOf, collected, Published,
           NotScheduled, Unused
  <1>2. Spec => Promise!RepaymentInit /\ [][Promise!RepaymentNext]_Promise!repaymentVars
    BY <1>1, StepKeeps, PayrollIInv, PayrollSInv, PTL DEF Spec
  <1> QED
    BY <1>2 DEF KeepsPromise, Promise!RepaymentSpec
=============================================================================
