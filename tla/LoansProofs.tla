---------------------------- MODULE LoansProofs ----------------------------
(***************************************************************************)
(* Proofs about LoanSchedule and Loans, for any totals, ways to split,     *)
(* dates, employees and number of loans.                                   *)
(***************************************************************************)
EXTENDS LoansRefinement, TLAPS, WellFoundedInduction

-----------------------------------------------------------------------------
(* Sums.  Total is a recursive function; where a closed form of its partial*)
(* sums is known, the least index at which they could differ is absurd.    *)

\* Every set of naturals that is not empty has a least element.
LEMMA Least ==
  ASSUME NEW T, T \subseteq Nat, T # {}
  PROVE  \E i \in T : \A j \in T : ~(j < i)
  <1>1. PICK i \in T : \A j \in T : <<j, i>> \notin OpToRel(<, Nat)
    BY NatLessThanWellFounded, WFMin, Zenon
  <1>2. ASSUME NEW j \in T, j < i PROVE <<j, i>> \in OpToRel(<, Nat)
    <2>1. i \in Nat /\ j \in Nat
      OBVIOUS
    <2> QED
      BY <1>2, <2>1, Zenon DEF OpToRel
  <1> QED
    BY <1>1, <1>2

\* Any function that starts at 0 and adds amount after amount is the running
\* total of the amounts.
LEMMA RunningTotal ==
  ASSUME NEW amounts, NEW n \in Nat, Len(amounts) = n,
         \A i \in 1 .. n : amounts[i] \in Int,
         NEW c \in [0 .. n -> Int], c[0] = 0,
         \A i \in 1 .. n : c[i] = c[i - 1] + amounts[i]
  PROVE  Total(amounts) = c[n]
  <1> DEFINE Adds(f) == f = [i \in 0 .. n |-> IF i = 0 THEN 0 ELSE f[i - 1] + amounts[i]]
             paid == CHOOSE f : Adds(f)
  <1>1. Total(amounts) = paid[n]
    BY DEF Total
  <1>2. Adds(c)
    OBVIOUS
  <1>3. Adds(paid)
    <2> HIDE DEF Adds
    <2> QED
      BY <1>2
  <1> HIDE DEF paid
  <1>4. paid[0] = 0 /\ \A i \in 1 .. n : paid[i] = paid[i - 1] + amounts[i]
    BY <1>3
  <1> HIDE DEF Adds
  <1> DEFINE Differ == {i \in 0 .. n : paid[i] # c[i]}
  <1>5. Differ = {}
    <2> SUFFICES ASSUME Differ # {} PROVE FALSE
      OBVIOUS
    <2>1. PICK i \in Differ : \A j \in Differ : ~(j < i)
      <3>1. Differ \subseteq Nat
        OBVIOUS
      <3> HIDE DEF Differ
      <3> QED
        BY <3>1, Least
    <2>2. i \in 1 .. n /\ paid[i] # c[i]
      BY <1>4
    <2>3. i - 1 \in 0 .. n /\ i - 1 < i
      BY <2>2
    <2>4. paid[i - 1] = c[i - 1]
      BY <2>1, <2>3
    <2> QED
      BY <1>4, <2>2, <2>4
  <1> QED
    BY <1>1, <1>5

-----------------------------------------------------------------------------
(* The split.                                                              *)

LEMMA Quotient ==
  ASSUME NEW a \in Nat, NEW b \in Nat \ {0}
  PROVE  /\ a \div b \in Nat /\ b * (a \div b) \in Nat
         /\ b * (a \div b) <= a /\ a < b * (a \div b) + b
  <1>1. a \div b \in Nat
    OBVIOUS
  <1>2. b * (a \div b) \in Nat
    BY <1>1
  <1>3. b * (a \div b) <= a /\ a < b * (a \div b) + b
    OBVIOUS
  <1> QED
    BY <1>1, <1>2, <1>3

\* Multiples of a number, one after the other.
LEMMA Multiples ==
  ASSUME NEW b \in Nat
  PROVE  0 * b = 0 /\ \A i \in Nat : i * b \in Nat /\ (i + 1) * b = i * b + b
  OBVIOUS

\* "Split the total into this many equal monthly installments": the installments
\* are equal but for the last, which exceeds the others by less than a cent for
\* each of them, and they come to the total.
THEOREM SplitByCountReconciles ==
  ASSUME NEW total \in Nat, NEW count \in Nat \ {0}
  PROVE  LET s == SplitByCount(total, count)
         IN  /\ s \in Seq(Nat) /\ Len(s) = count
             /\ \A i \in 1 .. count - 1 : s[i] = total \div count
             /\ s[count] \in total \div count .. total \div count + count - 1
             /\ Total(s) = total
  <1> DEFINE base == total \div count
             s == SplitByCount(total, count)
             c == [i \in 0 .. count |-> IF i = count THEN total ELSE i * base]
  <1>1. base \in Nat /\ count * base \in Nat /\ count * base <= total /\ total < count * base + count
    BY Quotient
  <1>2. base * count = count * base
    BY <1>1
  <1>3. s = [i \in 1 .. count |-> IF i = count THEN base + (total - count * base) ELSE base]
    BY <1>2 DEF SplitByCount
  <1> HIDE DEF base, s
  <1>4. s \in Seq(Nat) /\ Len(s) = count /\ s[count] \in base .. base + count - 1
        /\ \A i \in 1 .. count - 1 : s[i] = base
    BY <1>1, <1>3
  <1>5. \A i \in Nat : i * base \in Nat /\ (i + 1) * base = i * base + base
    BY <1>1, Multiples
  <1>6. c \in [0 .. count -> Int] /\ c[0] = 0 /\ c[count] = total
    BY <1>1, <1>5, Multiples
  <1>7. ASSUME NEW i \in 1 .. count PROVE c[i] = c[i - 1] + s[i]
    <2>1. i - 1 \in Nat /\ i - 1 \in 0 .. count - 1 /\ (i - 1) + 1 = i
      OBVIOUS
    <2>2. i * base = (i - 1) * base + base
      BY <1>5, <2>1
    <2>3. c[i - 1] = (i - 1) * base
      BY <2>1
    <2>4. CASE i = count
      <3>1. c[i] = total /\ s[i] = base + (total - count * base)
        BY <1>3, <2>4
      <3> HIDE DEF c
      <3> QED
        BY <1>1, <2>2, <2>3, <2>4, <3>1
    <2>5. CASE i # count
      <3>1. c[i] = i * base /\ s[i] = base
        BY <1>3, <2>5
      <3> HIDE DEF c
      <3> QED
        BY <2>2, <2>3, <3>1
    <2> QED
      BY <2>4, <2>5
  <1> HIDE DEF c
  <1>8. Total(s) = total
    <2>1. \A i \in 1 .. count : s[i] \in Int
      BY <1>4
    <2>2. \A i \in 1 .. count : c[i] = c[i - 1] + s[i]
      BY <1>7
    <2>3. Total(s) = c[count]
      <3>1. count \in Nat /\ Len(s) = count
        BY <1>4
      <3>2. c \in [0 .. count -> Int] /\ c[0] = 0
        BY <1>6
      <3> QED
        BY <2>1, <2>2, <3>1, <3>2, RunningTotal, Zenon
    <2> QED
      BY <1>6, <2>3
  <1> QED
    BY <1>4, <1>8 DEF base, s

\* "The last one absorbs any remainder": every installment but the last is the
\* amount asked for, the last is a positive rest of at most that, and they come
\* to the total.
THEOREM SplitByAmountReconciles ==
  ASSUME NEW total \in Nat \ {0}, NEW amount \in Nat \ {0}
  PROVE  LET s == SplitByAmount(total, amount)
         IN  /\ s \in Seq(Nat) /\ Len(s) > 0
             /\ \A i \in 1 .. Len(s) - 1 : s[i] = amount
             /\ s[Len(s)] \in 1 .. amount
             /\ Total(s) = total
  <1> DEFINE s == SplitByAmount(total, amount)
  <1>1. CASE amount >= total
    <2>1. s = <<total>>
      BY <1>1 DEF SplitByAmount
    <2> DEFINE c == [i \in 0 .. 1 |-> IF i = 0 THEN 0 ELSE total]
    <2>2. c \in [0 .. 1 -> Int] /\ c[0] = 0 /\ c[1] = total
      OBVIOUS
    <2>3. Len(s) = 1 /\ s[1] = total /\ c[1] = c[0] + s[1]
      BY <2>1, <2>2
    <2> HIDE DEF s, c
    <2>4. Total(s) = total
      <3>1. \A i \in 1 .. 1 : s[i] \in Int
        BY <2>3
      <3>2. \A i \in 1 .. 1 : c[i] = c[i - 1] + s[i]
        BY <2>3
      <3>3. 1 \in Nat
        OBVIOUS
      <3>4. Total(s) = c[1]
        BY <2>2, <2>3, <3>1, <3>2, <3>3, RunningTotal, Zenon
      <3> QED
        BY <2>2, <3>4
    <2> QED
      BY <1>1, <2>1, <2>4 DEF s
  <1>2. CASE ~(amount >= total)
    <2> DEFINE full == total \div amount
               rest == total - full * amount
               n == full + (IF rest > 0 THEN 1 ELSE 0)
               c == [i \in 0 .. n |-> IF i <= full THEN i * amount ELSE total]
    <2>1. s = [i \in 1 .. n |-> IF i <= full THEN amount ELSE rest]
      BY <1>2 DEF SplitByAmount
    <2>2. full \in Nat /\ amount * full \in Nat /\ amount * full <= total
          /\ total < amount * full + amount
      BY Quotient
    <2>3. full * amount = amount * full
      BY <2>2
    <2>4. rest \in Nat /\ rest < amount /\ total = full * amount + rest /\ full * amount \in Nat
      BY <2>2, <2>3
    <2>5. full > 0
      <3>1. full = 0 => full * amount = 0
        BY Multiples
      <3> HIDE DEF full
      <3> QED
        BY <1>2, <2>2, <2>4, <3>1
    <2> HIDE DEF s, full, rest
    <2>6. n \in Nat /\ n > 0 /\ s \in Seq(Nat) /\ Len(s) = n
      BY <2>1, <2>2, <2>4, <2>5
    <2>7. \A i \in Nat : i * amount \in Nat /\ (i + 1) * amount = i * amount + amount
      BY Multiples
    <2>8. c \in [0 .. n -> Int] /\ c[0] = 0 /\ c[n] = total
      BY <2>2, <2>4, <2>7, Multiples
    <2>9. ASSUME NEW i \in 1 .. n PROVE c[i] = c[i - 1] + s[i]
      <3>1. i - 1 \in Nat /\ i * amount = (i - 1) * amount + amount /\ i - 1 <= full
            /\ c[i - 1] = (i - 1) * amount
        BY <2>2, <2>7
      <3>2. CASE i <= full
        BY <2>1, <3>1, <3>2
      <3>3. CASE ~(i <= full)
        <4>1. i - 1 = full /\ s[i] = rest /\ c[i] = total
          BY <2>1, <2>2, <3>1, <3>3
        <4> HIDE DEF c
        <4> QED
          BY <2>4, <3>1, <4>1
      <3> QED
        BY <3>2, <3>3
    <2>10. /\ \A i \in 1 .. Len(s) - 1 : s[i] = amount
           /\ s[Len(s)] \in 1 .. amount
      BY <2>1, <2>2, <2>4, <2>5, <2>6
    <2> HIDE DEF n, c
    <2>11. Total(s) = total
      <3>1. \A i \in 1 .. n : s[i] \in Int
        BY <2>6
      <3>2. \A i \in 1 .. n : c[i] = c[i - 1] + s[i]
        BY <2>9
      <3>3. n \in Nat /\ Len(s) = n
        BY <2>6
      <3>4. c \in [0 .. n -> Int] /\ c[0] = 0
        BY <2>8
      <3>5. Total(s) = c[n]
        BY <3>1, <3>2, <3>3, <3>4, RunningTotal, Zenon
      <3> QED
        BY <2>8, <3>5
    <2> QED
      BY <2>6, <2>10, <2>11 DEF s
  <1> QED
    BY <1>1, <1>2

-----------------------------------------------------------------------------
(* Due dates.                                                              *)

LEMMA MonthLengths ==
  ASSUME NEW m \in Nat
  PROVE  MonthLength(m) \in 28 .. 31
  <1>1. m % 12 \in 0 .. 11
    OBVIOUS
  <1> QED
    BY <1>1, ScheduleAssumption DEF MonthLength

\* An installment is due on a day that exists, whatever day the first is due on.
THEOREM DueDateIsDate ==
  ASSUME NEW date \in Date, IsDate(date), NEW k \in Nat
  PROVE  AddUtcMonths(date, k) \in Date /\ IsDate(AddUtcMonths(date, k))
  <1> DEFINE m == date.month + k
             d == AddUtcMonths(date, k)
  <1>1. date.month \in Nat /\ m \in Nat /\ m + 1 \in Nat
    BY DEF Date
  <1>2. date.day \in Nat /\ 1 <= date.day /\ date.day <= 31
    BY <1>1, MonthLengths DEF IsDate
  <1>3. MonthLength(m) \in 28 .. 31 /\ MonthLength(m + 1) \in 28 .. 31
    BY <1>1, MonthLengths
  <1>4. CASE date.day <= MonthLength(m)
    <2>1. d = [month |-> m, day |-> date.day]
      BY <1>4 DEF AddUtcMonths
    <2> HIDE DEF m, d
    <2> QED
      BY <1>1, <1>2, <1>4, <2>1 DEF Date, IsDate, d
  <1>5. CASE ~(date.day <= MonthLength(m))
    <2>1. d = [month |-> m + 1, day |-> date.day - MonthLength(m)]
      BY <1>5 DEF AddUtcMonths
    <2> HIDE DEF m, d
    <2>2. date.day - MonthLength(m) \in 1 .. 3
      BY <1>2, <1>3, <1>5
    <2> QED
      BY <1>1, <1>3, <2>1, <2>2 DEF Date, IsDate, d
  <1> QED
    BY <1>4, <1>5

\* "Day-of-month preserved": true of every month when the first installment is
\* due on the 28th at the latest.
THEOREM DayOfMonthPreserved ==
  ASSUME NEW date \in Date, date.day <= 28, NEW k \in Nat
  PROVE  AddUtcMonths(date, k) = [month |-> date.month + k, day |-> date.day]
  <1>1. date.month + k \in Nat /\ date.day \in Nat
    BY DEF Date
  <1> QED
    BY <1>1, MonthLengths DEF AddUtcMonths

\* No two installments of a schedule are due on the same day: each is due after
\* the one before it, also when a day that does not exist is carried over.
THEOREM DueDatesIncrease ==
  ASSUME NEW date \in Date, IsDate(date), NEW k \in Nat
  PROVE  LET d == AddUtcMonths(date, k)
             e == AddUtcMonths(date, k + 1)
         IN  d.month < e.month \/ (d.month = e.month /\ d.day < e.day)
  <1> DEFINE m == date.month + k
  <1>1. date.month \in Nat /\ m \in Nat /\ m + 1 \in Nat /\ date.month + (k + 1) = m + 1
    BY DEF Date
  <1>2. date.day \in Nat /\ MonthLength(m) \in 28 .. 31 /\ MonthLength(m + 1) \in 28 .. 31
    BY <1>1, MonthLengths DEF Date
  <1>3. AddUtcMonths(date, k) = IF date.day <= MonthLength(m) THEN [month |-> m, day |-> date.day]
                                ELSE [month |-> m + 1, day |-> date.day - MonthLength(m)]
    BY DEF AddUtcMonths
  <1>4. AddUtcMonths(date, k + 1) =
          IF date.day <= MonthLength(m + 1) THEN [month |-> m + 1, day |-> date.day]
          ELSE [month |-> m + 2, day |-> date.day - MonthLength(m + 1)]
    BY <1>1 DEF AddUtcMonths
  <1> HIDE DEF m
  <1> QED
    BY <1>1, <1>2, <1>3, <1>4

-----------------------------------------------------------------------------
(* Rows and calls are well formed.                                         *)

\* What an approval is about to write comes to the total it read.
LEMMA ScheduleReconciles ==
  ASSUME NEW total \in Nat \ {0}, NEW dto \in Dtos, NEW start \in Starts
  PROVE  /\ Schedule(total, dto, start) \in Seq(InstallmentRow)
         /\ Total(Amounts(Schedule(total, dto, start))) = total
  <1> DEFINE amounts == Split(total, dto)
             rows == Schedule(total, dto, start)
  <1>1. dto.value \in Nat \ {0} /\ start \in Date /\ IsDate(start)
    BY LoansAssumption DEF Date
  <1>2. amounts \in Seq(Nat) /\ Total(amounts) = total
    <2>1. CASE dto.by = "count"
      BY <1>1, <2>1, SplitByCountReconciles DEF Split
    <2>2. CASE dto.by # "count"
      BY <1>1, <2>2, SplitByAmountReconciles DEF Split
    <2> QED
      BY <2>1, <2>2
  <1> HIDE DEF amounts
  <1>3. rows = [i \in 1 .. Len(amounts) |->
                  [amount |-> amounts[i], due |-> AddUtcMonths(start, i - 1), status |-> "PENDING"]]
    BY DEF Schedule, amounts
  <1> HIDE DEF rows
  <1>4. ASSUME NEW i \in 1 .. Len(amounts)
        PROVE  [amount |-> amounts[i], due |-> AddUtcMonths(start, i - 1), status |-> "PENDING"]
                  \in InstallmentRow
    <2>1. i - 1 \in Nat /\ amounts[i] \in Nat
      BY <1>2
    <2>2. AddUtcMonths(start, i - 1) \in Date
      BY <1>1, <2>1, DueDateIsDate
    <2> QED
      BY <2>1, <2>2 DEF InstallmentRow
  <1>5. rows \in Seq(InstallmentRow) /\ Len(rows) = Len(amounts)
    <2>1. Len(amounts) \in Nat
      BY <1>2
    <2> QED
      BY <1>3, <1>4, <2>1
  <1>6. Amounts(rows) = amounts
    BY <1>2, <1>3 DEF Amounts
  <1> QED
    BY <1>2, <1>5, <1>6 DEF rows

LEMMA IdleCall == Idle \in Call
  BY DEF Call

LEMMA InitTypeOK == Init => TypeOK
  BY IdleCall DEF Init, TypeOK, LoanRow

LEMMA SetStatusType ==
  ASSUME TypeOK, NEW l \in LoanIds, IsRow(l), NEW status \in {"APPROVED", "PAID_OFF", "DELETED"}
  PROVE  [loan[l] EXCEPT !.status = status] \in LoanRow
  <1>1. loan[l] \in LoanRow /\ loan[l] # NoLoan
    BY DEF TypeOK, IsRow, NoLoan
  <1> QED
    BY <1>1 DEF LoanRow

LEMMA InsertType ==
  ASSUME TypeOK, NEW l \in LoanIds, NEW e \in Employees, NEW total \in Totals, Insert(l, e, total)
  PROVE  loan' \in [LoanIds -> LoanRow]
  BY DEF TypeOK, Insert, LoanRow

LEMMA CollectedType ==
  ASSUME TypeOK, NEW l \in LoanIds, NEW month
  PROVE  /\ Collected(l, month) \in Seq(InstallmentRow)
         /\ Len(Collected(l, month)) = Len(installments[l])
         /\ \A i \in DOMAIN installments[l] :
               /\ Collected(l, month)[i].amount = installments[l][i].amount
               /\ Collected(l, month)[i].due = installments[l][i].due
  <1> DEFINE rows == installments[l]
  <1>1. rows \in Seq(InstallmentRow)
    BY DEF TypeOK
  <1>2. Collected(l, month) = [i \in DOMAIN rows |->
          IF rows[i].due.month = month THEN [rows[i] EXCEPT !.status = "DEDUCTED"] ELSE rows[i]]
    BY DEF Collected
  <1> HIDE DEF rows
  <1>3. DOMAIN rows = 1 .. Len(rows) /\ Len(rows) \in Nat /\ \A i \in 1 .. Len(rows) : rows[i] \in InstallmentRow
    BY <1>1
  <1>4. \A r \in InstallmentRow : LET d == [r EXCEPT !.status = "DEDUCTED"]
                                  IN  d \in InstallmentRow /\ d.amount = r.amount /\ d.due = r.due
    BY DEF InstallmentRow
  <1> QED
    BY <1>2, <1>3, <1>4 DEF rows

LEMMA BeginType ==
  ASSUME TypeOK, NEW p \in Callers, Begin(p)
  PROVE  TypeOK'
  <1>1. ASSUME NEW e \in Employees, NEW l \in LoanIds, NEW total \in Totals, Create(p, l, e, total)
        PROVE  TypeOK'
    BY <1>1, InsertType DEF Create, TypeOK
  <1>2. ASSUME NEW e \in Employees, RequestBegin(p, e)
        PROVE  TypeOK'
    <2>1. [pc |-> "request", of |-> e, rows |-> <<>>] \in Call
      BY DEF Call
    <2> QED
      BY <1>2, <2>1 DEF RequestBegin, Become, TypeOK
  <1>3. ASSUME NEW l \in LoanIds, NEW dto \in Dtos, NEW start \in Starts, ApproveBegin(p, l, dto, start)
        PROVE  TypeOK'
    <2>1. loan[l].total \in Nat \ {0}
      <3>1. loan[l] \in LoanRow /\ loan[l].status = "PENDING"
        BY <1>3 DEF ApproveBegin, TypeOK
      <3>2. loan[l].total \in Totals
        BY <3>1 DEF LoanRow, NoLoan
      <3> QED
        BY <3>2, LoansAssumption
    <2> DEFINE c == [pc |-> "approve", of |-> l, rows |-> Schedule(loan[l].total, dto, start)]
    <2>2. Schedule(loan[l].total, dto, start) \in Seq(InstallmentRow)
      BY <2>1, ScheduleReconciles
    <2>3. c \in Call
      BY <2>2 DEF Call
    <2>4. Become(p, c) /\ Contest(l) /\ UNCHANGED <<loan, installments, approved, gone>>
      BY <1>3 DEF ApproveBegin
    <2> HIDE DEF c
    <2> QED
      BY <2>3, <2>4 DEF Become, Contest, TypeOK
  <1>4. ASSUME NEW l \in LoanIds, RemoveBegin(p, l)
        PROVE  TypeOK'
    <2>1. [pc |-> "remove", of |-> l, rows |-> <<>>] \in Call
      BY DEF Call
    <2> QED
      BY <1>4, <2>1 DEF RemoveBegin, Become, Contest, TypeOK
  <1> QED
    BY <1>1, <1>2, <1>3, <1>4 DEF Begin

\* The rows a call in flight is about.
LEMMA CallParts ==
  ASSUME TypeOK, NEW p \in Callers
  PROVE  /\ At(p, "request") => call[p].of \in Employees
         /\ At(p, "approve") => call[p].of \in LoanIds /\ call[p].rows \in Seq(InstallmentRow)
         /\ At(p, "remove") => call[p].of \in LoanIds
  <1>1. call[p] \in Call
    BY DEF TypeOK
  <1> QED
    BY <1>1 DEF Call, Idle, At

LEMMA ProceedType ==
  ASSUME TypeOK, NEW p \in Callers, Proceed(p)
  PROVE  TypeOK'
  <1>1. Return(p) /\ call' \in [Callers -> Call]
    BY IdleCall DEF Proceed, RequestInsert, ApproveCommit, RemoveDelete, Abort, Return, Become, TypeOK
  <1>2. ASSUME NEW l \in LoanIds, NEW total \in Totals, RequestInsert(p, l, total)
        PROVE  TypeOK'
    BY <1>1, <1>2, InsertType, CallParts DEF RequestInsert, TypeOK
  <1> DEFINE l == call[p].of
  <1>3. CASE ApproveCommit(p)
    <2>1. l \in LoanIds /\ call[p].rows \in Seq(InstallmentRow)
      BY <1>3, CallParts DEF ApproveCommit
    <2>2. CASE IsRow(l)
      <3>1. installments' = [installments EXCEPT ![l] = @ \o call[p].rows] /\ SetStatus(l, "APPROVED")
            /\ UNCHANGED <<approved, gone, contested>>
        BY <1>3, <2>2 DEF ApproveCommit
      <3> HIDE DEF l
      <3>2. installments[l] \o call[p].rows \in Seq(InstallmentRow)
        BY <2>1 DEF TypeOK
      <3>3. installments' \in [LoanIds -> Seq(InstallmentRow)]
        BY <3>1, <3>2 DEF TypeOK
      <3>4. loan' \in [LoanIds -> LoanRow]
        BY <2>1, <2>2, <3>1, SetStatusType DEF SetStatus, TypeOK
      <3> QED
        BY <1>1, <3>1, <3>3, <3>4 DEF TypeOK
    <2>3. CASE ~IsRow(l)
      BY <1>1, <1>3, <2>3 DEF ApproveCommit, TypeOK
    <2> QED
      BY <2>2, <2>3
  <1>4. CASE RemoveDelete(p)
    <2>1. l \in LoanIds
      BY <1>4, CallParts DEF RemoveDelete
    <2>2. CASE IsRow(l)
      <3>1. installments' = [installments EXCEPT ![l] = <<>>] /\ SetStatus(l, "DELETED")
            /\ UNCHANGED <<approved, gone, contested>>
        BY <1>4, <2>2 DEF RemoveDelete
      <3> HIDE DEF l
      <3>2. loan' \in [LoanIds -> LoanRow]
        BY <2>1, <2>2, <3>1, SetStatusType DEF SetStatus, TypeOK
      <3>3. <<>> \in Seq(InstallmentRow)
        OBVIOUS
      <3>4. installments' \in [LoanIds -> Seq(InstallmentRow)]
        BY <3>1, <3>3 DEF TypeOK
      <3> QED
        BY <1>1, <3>1, <3>2, <3>4 DEF TypeOK
    <2>3. CASE ~IsRow(l)
      BY <1>1, <1>4, <2>3 DEF RemoveDelete, TypeOK
    <2> QED
      BY <2>2, <2>3
  <1>5. CASE Abort(p)
    BY <1>1, <1>5 DEF Abort, TypeOK
  <1> QED
    BY <1>2, <1>3, <1>4, <1>5 DEF Proceed

LEMMA PayrollType ==
  ASSUME TypeOK, NEW month \in Months, NEW seen \in SUBSET LoanIds, PayrollApproved(month, seen)
  PROVE  TypeOK'
  <1>1. /\ installments' = [l \in LoanIds |-> installments'[l]]
        /\ \A l \in LoanIds : installments'[l] \in {installments[l], Collected(l, month)}
    BY DEF PayrollApproved
  <1>2. \A l \in LoanIds : Collected(l, month) \in Seq(InstallmentRow)
    BY CollectedType
  <1>3. \A l \in LoanIds : loan'[l] = loan[l] \/
           (IsRow(l) /\ loan'[l] = [loan[l] EXCEPT !.status = "PAID_OFF"])
    BY DEF PayrollApproved, IsRow
  <1>4. loan' = [l \in LoanIds |-> loan'[l]]
    BY DEF PayrollApproved
  <1>5. \A l \in LoanIds : loan'[l] \in LoanRow
    BY <1>3, SetStatusType DEF TypeOK
  <1>6. approved' \subseteq Months /\ UNCHANGED <<gone, call, contested>>
    BY DEF PayrollApproved, TypeOK
  <1>7. \A l \in LoanIds : installments'[l] \in Seq(InstallmentRow)
    BY <1>1, <1>2 DEF TypeOK
  <1>8. installments' \in [LoanIds -> Seq(InstallmentRow)]
    BY <1>1, <1>7, Zenon
  <1>9. loan' \in [LoanIds -> LoanRow]
    BY <1>4, <1>5, Zenon
  <1> QED
    BY <1>6, <1>8, <1>9 DEF TypeOK

LEMMA RemovalType ==
  ASSUME TypeOK, NEW e \in Employees, RemoveEmployee(e)
  PROVE  TypeOK'
  <1>1. \A l \in LoanIds : loan'[l] = loan[l] \/
           (IsRow(l) /\ loan'[l] = [loan[l] EXCEPT !.status = "DELETED"])
    BY DEF RemoveEmployee
  <1>2. \A l \in LoanIds : loan'[l] \in LoanRow
    BY <1>1, SetStatusType DEF TypeOK
  <1>3. loan' = [l \in LoanIds |-> loan'[l]]
    BY DEF RemoveEmployee
  <1>4. loan' \in [LoanIds -> LoanRow]
    BY <1>2, <1>3, Zenon
  <1>5. <<>> \in Seq(InstallmentRow)
    OBVIOUS
  <1>6. installments' \in [LoanIds -> Seq(InstallmentRow)]
    BY <1>5 DEF RemoveEmployee, TypeOK
  <1> QED
    BY <1>4, <1>6 DEF RemoveEmployee, TypeOK

LEMMA NextType == TypeOK /\ [Next]_vars => TypeOK'
  <1> SUFFICES ASSUME TypeOK, [Next]_vars PROVE TypeOK'
    OBVIOUS
  <1>1. CASE UNCHANGED vars
    BY <1>1 DEF vars, TypeOK
  <1> QED
    BY <1>1, BeginType, ProceedType, PayrollType, RemovalType DEF Next

\* Loans, installments and calls are well formed, for any calls in flight: no
\* installment is negative, and every due date is a day that exists.
THEOREM LoansTypeOK == Spec => []TypeOK
  BY InitTypeOK, NextType, PTL DEF Spec

-----------------------------------------------------------------------------
(* The dates of a schedule.                                                *)

LEMMA DueMonth ==
  ASSUME NEW date \in Date, IsDate(date), NEW k \in Nat
  PROVE  LET m == AddUtcMonths(date, k).month
         IN  /\ m \in Nat /\ m \in {date.month + k, date.month + k + 1}
             /\ date.day <= 28 => m = date.month + k
             /\ AddUtcMonths(date, 0).day = date.day
  <1>1. date.month \in Nat /\ date.day \in Nat /\ date.month + k \in Nat
    BY DEF Date
  <1>2. MonthLength(date.month + k) \in 28 .. 31
    BY <1>1, MonthLengths
  <1>3. date.month + 0 = date.month /\ date.day <= MonthLength(date.month)
    <2>1. MonthLength(date.month) \in 28 .. 31
      BY <1>1, MonthLengths
    <2> QED
      BY <1>1, <2>1 DEF IsDate
  <1>4. AddUtcMonths(date, 0).day = date.day
    BY <1>3 DEF AddUtcMonths
  <1>5. AddUtcMonths(date, k).month =
          IF date.day <= MonthLength(date.month + k) THEN date.month + k ELSE date.month + k + 1
    BY DEF AddUtcMonths
  <1> HIDE DEF AddUtcMonths
  <1> QED
    BY <1>1, <1>2, <1>4, <1>5

LEMMA ScheduleKeepsPace ==
  ASSUME NEW total \in Nat \ {0}, NEW dto \in Dtos, NEW start \in Starts
  PROVE  KeepsPace(Schedule(total, dto, start))
  <1> DEFINE amounts == Split(total, dto)
             rows == Schedule(total, dto, start)
  <1>1. start \in Date /\ IsDate(start) /\ start.month \in Nat /\ start.day \in Nat
    BY LoansAssumption DEF Date
  <1>2. rows = [i \in 1 .. Len(amounts) |->
                  [amount |-> amounts[i], due |-> AddUtcMonths(start, i - 1), status |-> "PENDING"]]
    BY DEF Schedule
  <1>3. rows \in Seq(InstallmentRow)
    BY ScheduleReconciles
  <1> HIDE DEF amounts, rows
  <1>4. /\ Len(rows) \in Nat /\ DOMAIN rows = 1 .. Len(rows) /\ DOMAIN rows = 1 .. Len(amounts)
    BY <1>2, <1>3
  <1>5. ASSUME NEW i \in DOMAIN rows
        PROVE  /\ i \in Nat /\ rows[i].due = AddUtcMonths(start, i - 1)
               /\ rows[i].due.month \in Nat
               /\ rows[i].due.month \in {start.month + (i - 1), start.month + (i - 1) + 1}
               /\ start.day <= 28 => rows[i].due.month = start.month + (i - 1)
    <2>1. i \in Nat /\ i - 1 \in Nat
      BY <1>4
    <2>2. rows[i].due = AddUtcMonths(start, i - 1)
      BY <1>2, <1>4
    <2> QED
      BY <1>1, <2>1, <2>2, DueMonth
  <1>6. 1 \in DOMAIN rows => rows[1].due.day = start.day
    <2>1. 1 - 1 = 0
      OBVIOUS
    <2> QED
      BY <1>1, <1>5, <2>1, DueMonth
  <1>7. ASSUME NEW i \in DOMAIN rows, NEW j \in DOMAIN rows, i < j
        PROVE  LET gap == rows[j].due.month - rows[i].due.month
               IN  /\ gap \in {j - i - 1, j - i, j - i + 1}
                   /\ rows[1].due.day <= 28 => gap = j - i
    <2>1. 1 \in DOMAIN rows
      BY <1>4, <1>7
    <2>2. rows[i].due.month \in Nat /\ rows[j].due.month \in Nat /\ i \in Nat /\ j \in Nat
      BY <1>5
    <2>3. rows[j].due.month - rows[i].due.month \in {j - i - 1, j - i, j - i + 1}
      BY <1>1, <1>5, <2>2
    <2>4. rows[1].due.day <= 28 => rows[j].due.month - rows[i].due.month = j - i
      BY <1>1, <1>5, <1>6, <2>1, <2>2
    <2> QED
      BY <2>3, <2>4
  <1> QED
    BY <1>7 DEF KeepsPace, rows

LEMMA SamePace ==
  ASSUME NEW a, NEW b, DOMAIN a = DOMAIN b, KeepsPace(b), NEW n \in Nat, DOMAIN b = 1 .. n,
         \A i \in DOMAIN b : a[i].due = b[i].due
  PROVE  KeepsPace(a)
  <1> SUFFICES ASSUME NEW i \in DOMAIN b, NEW j \in DOMAIN b, i < j
               PROVE  LET gap == a[j].due.month - a[i].due.month
                      IN  /\ gap \in {j - i - 1, j - i, j - i + 1}
                          /\ a[1].due.day <= 28 => gap = j - i
    BY DEF KeepsPace
  <1>1. 1 \in DOMAIN b
    OBVIOUS
  <1>2. a[1].due = b[1].due /\ a[i].due = b[i].due /\ a[j].due = b[j].due
    BY <1>1
  <1> QED
    BY <1>2 DEF KeepsPace

-----------------------------------------------------------------------------
(* Sums and dates, of the loans that no two calls decide on at once.       *)

\* What is known of one loan, given its row and its installments: it has a
\* schedule just when it was approved, and that comes to its total.
LoanSound(row, rows) ==
    /\ IF row.status \in {"APPROVED", "PAID_OFF"} THEN Total(Amounts(rows)) = row.total ELSE rows = <<>>
    /\ row.status = "PAID_OFF" => AllDeducted(rows)
    /\ KeepsPace(rows)

\* A loan in the hands of one call only is PENDING still, or went with its employee, and the
\* schedule that the call is going to write comes to its total.
CallSound(row, c) ==
    /\ row.status \in {"PENDING", "DELETED"}
    /\ c.pc = "approve" =>
         /\ row.status = "PENDING" => Total(Amounts(c.rows)) = row.total
         /\ KeepsPace(c.rows)
         /\ \A i \in DOMAIN c.rows : c.rows[i].status = "PENDING"

Deciding(p) == call[p].pc \in {"approve", "remove"}

SInv ==
    /\ TypeOK
    /\ \A l \in LoanIds \ contested : LoanSound(loan[l], installments[l])
    /\ \A p \in Callers : Deciding(p) /\ call[p].of \notin contested =>
         CallSound(loan[call[p].of], call[p])
    /\ \A p, q \in Callers : p # q /\ Deciding(p) /\ Deciding(q) /\ call[p].of = call[q].of =>
         call[p].of \in contested

LEMMA NoRowsSound ==
  ASSUME NEW row, row.status \notin {"APPROVED", "PAID_OFF"}
  PROVE  LoanSound(row, <<>>)
  BY DEF LoanSound, KeepsPace

LEMMA InitSInv == Init => SInv
  <1> SUFFICES ASSUME Init PROVE SInv
    OBVIOUS
  <1>1. \A l \in LoanIds : LoanSound(loan[l], installments[l])
    BY NoRowsSound DEF Init, NoLoan
  <1>2. \A p \in Callers : ~Deciding(p)
    BY DEF Init, Deciding, Idle
  <1> QED
    BY <1>1, <1>2, InitTypeOK DEF SInv

LEMMA DecidedLoan ==
  ASSUME TypeOK, NEW p \in Callers, Deciding(p)
  PROVE  call[p].of \in LoanIds
  BY CallParts DEF Deciding, At

\* A step of caller p after which it decides on nothing, or what it did before.  The rows
\* stay sound; a loan in the hands of another call stays, or is deleted.
LEMMA StepSound ==
  ASSUME SInv, TypeOK', UNCHANGED contested,
         \A l \in LoanIds \ contested : LoanSound(loan'[l], installments'[l]),
         \A q \in Callers : ~Deciding(q)' \/
           /\ call'[q] = call[q]
           /\ call[q].of \in contested \/ loan'[call[q].of] = loan[call[q].of]
                \/ loan'[call[q].of].status = "DELETED"
  PROVE  SInv'
  <1>1. ASSUME NEW p \in Callers, Deciding(p)', call'[p].of \notin contested
        PROVE  CallSound(loan'[call'[p].of], call'[p])
    <2>1. call'[p] = call[p] /\ Deciding(p)
      BY <1>1 DEF Deciding
    <2>2. CallSound(loan[call[p].of], call[p])
      BY <1>1, <2>1 DEF SInv
    <2> QED
      BY <1>1, <2>1, <2>2 DEF CallSound
  <1>2. ASSUME NEW p \in Callers, NEW q \in Callers, p # q, Deciding(p)', Deciding(q)',
               call'[p].of = call'[q].of
        PROVE  call'[p].of \in contested
    <2>1. call'[p] = call[p] /\ Deciding(p) /\ call'[q] = call[q] /\ Deciding(q)
      BY <1>2 DEF Deciding
    <2> QED
      BY <1>2, <2>1 DEF SInv
  <1> QED
    BY <1>1, <1>2 DEF SInv

\* Caller p begins to decide on loan l.
LEMMA DecideSound ==
  ASSUME SInv, TypeOK', NEW p \in Callers, NEW l \in LoanIds, NEW c, call' = [call EXCEPT ![p] = c],
         c.of = l, Contest(l), UNCHANGED <<loan, installments>>, CallSound(loan[l], c), ~Deciding(p)
  PROVE  SInv'
  <1>1. contested \subseteq contested'
    BY DEF Contest
  <1>2. call'[p] = c /\ \A q \in Callers : q # p => call'[q] = call[q]
    BY DEF SInv, TypeOK
  <1>3. ASSUME NEW q \in Callers, Deciding(q)', call'[q].of \notin contested'
        PROVE  CallSound(loan[call'[q].of], call'[q])
    <2>1. CASE q = p
      BY <1>2, <2>1
    <2>2. CASE q # p
      BY <1>1, <1>2, <1>3, <2>2 DEF SInv, Deciding
    <2> QED
      BY <2>1, <2>2
  <1>4. ASSUME NEW q \in Callers, NEW k \in Callers, q # k, Deciding(q)', Deciding(k)',
               call'[q].of = call'[k].of
        PROVE  call'[q].of \in contested'
    <2>1. CASE q # p /\ k # p
      BY <1>1, <1>2, <1>4, <2>1 DEF SInv, Deciding
    <2>2. ASSUME NEW o \in Callers, o # p, Deciding(o)', call'[o].of = l PROVE l \in contested'
      <3>1. call[o].pc \in {"approve", "remove"} /\ call[o].of = l
        BY <1>2, <2>2 DEF Deciding
      <3> QED
        BY <3>1 DEF Contest
    <2> QED
      BY <1>2, <1>4, <2>1, <2>2
  <1>5. \A k \in LoanIds \ contested' : LoanSound(loan[k], installments[k])
    BY <1>1 DEF SInv
  <1> QED
    BY <1>3, <1>4, <1>5 DEF SInv

LEMMA InsertSound ==
  ASSUME SInv, TypeOK', NEW l \in LoanIds, NEW e, NEW total, Insert(l, e, total),
         UNCHANGED <<installments, contested>>,
         \A q \in Callers : call'[q] = call[q] \/ ~Deciding(q)'
  PROVE  SInv'
  <1>1. /\ loan[l] = NoLoan /\ loan[l].status = "UNUSED"
        /\ loan' = [loan EXCEPT ![l] = [emp |-> e, total |-> total, status |-> "PENDING"]]
    BY DEF Insert, NoLoan
  <1>2. /\ loan'[l] = [emp |-> e, total |-> total, status |-> "PENDING"]
        /\ \A k \in LoanIds : k # l => loan'[k] = loan[k]
    BY <1>1 DEF SInv, TypeOK
  <1>3. ASSUME NEW k \in LoanIds \ contested PROVE LoanSound(loan'[k], installments'[k])
    <2>1. CASE k = l
      <3>1. installments[l] = <<>>
        BY <1>1, <1>3, <2>1 DEF SInv, LoanSound
      <3> QED
        BY <1>2, <2>1, <3>1, NoRowsSound
    <2>2. CASE k # l
      BY <1>2, <1>3, <2>2 DEF SInv
    <2> QED
      BY <2>1, <2>2
  <1>4. \A q \in Callers : Deciding(q) => call[q].of \in contested \/ call[q].of # l
    BY <1>1 DEF SInv, CallSound
  <1>5. \A q \in Callers : Deciding(q) => call[q].of \in LoanIds
    BY DecidedLoan DEF SInv
  <1>6. \A q \in Callers : ~Deciding(q)' \/ (call'[q] = call[q] /\ Deciding(q))
    BY DEF Deciding
  <1> QED
    BY <1>2, <1>3, <1>4, <1>5, <1>6, StepSound

LEMMA BeginSound ==
  ASSUME SInv, NEW p \in Callers, Begin(p), TypeOK'
  PROVE  SInv'
  <1>t. /\ loan \in [LoanIds -> LoanRow] /\ call \in [Callers -> Call]
        /\ installments \in [LoanIds -> Seq(InstallmentRow)]
    BY DEF SInv, TypeOK
  <1>1. ASSUME NEW e \in Employees, NEW l \in LoanIds, NEW total \in Totals, Create(p, l, e, total)
        PROVE  SInv'
    BY <1>1, InsertSound DEF Create
  <1>2. ASSUME NEW e \in Employees, RequestBegin(p, e)
        PROVE  SInv'
    <2>1. /\ UNCHANGED <<loan, installments, contested>> /\ ~Deciding(p)'
          /\ \A q \in Callers : q # p => call'[q] = call[q]
      BY <1>2, <1>t DEF RequestBegin, Become, Deciding
    <2>2. \A l \in LoanIds \ contested : LoanSound(loan'[l], installments'[l])
      BY <2>1 DEF SInv
    <2> QED
      BY <2>1, <2>2, StepSound
  <1>3. ASSUME NEW l \in LoanIds, NEW dto \in Dtos, NEW start \in Starts, ApproveBegin(p, l, dto, start)
        PROVE  SInv'
    <2> DEFINE new == Schedule(loan[l].total, dto, start)
               c == [pc |-> "approve", of |-> l, rows |-> new]
    <2>1. /\ loan[l].status = "PENDING" /\ Become(p, c) /\ Contest(l) /\ ~Deciding(p)
          /\ UNCHANGED <<loan, installments>>
      BY <1>3 DEF ApproveBegin, At, Deciding
    <2>2. loan[l].total \in Nat \ {0}
      <3>1. loan[l] \in LoanRow
        BY <1>t
      <3>2. loan[l].total \in Totals
        BY <2>1, <3>1 DEF LoanRow, NoLoan
      <3> QED
        BY <3>2, LoansAssumption
    <2>3. Total(Amounts(new)) = loan[l].total
      BY <2>2, ScheduleReconciles
    <2>4. KeepsPace(new)
      BY <2>2, ScheduleKeepsPace
    <2>5. \A i \in DOMAIN new : new[i].status = "PENDING"
      BY DEF Schedule
    <2> HIDE DEF new
    <2>6. CallSound(loan[l], c)
      BY <2>1, <2>3, <2>4, <2>5 DEF CallSound
    <2>7. c.of = l
      OBVIOUS
    <2> HIDE DEF c
    <2> QED
      BY <2>1, <2>6, <2>7, DecideSound DEF Become
  <1>4. ASSUME NEW l \in LoanIds, RemoveBegin(p, l)
        PROVE  SInv'
    <2> DEFINE c == [pc |-> "remove", of |-> l, rows |-> <<>>]
    <2>1. /\ loan[l].status = "PENDING" /\ Become(p, c) /\ Contest(l) /\ ~Deciding(p)
          /\ UNCHANGED <<loan, installments>>
      BY <1>4 DEF RemoveBegin, At, Deciding
    <2>2. CallSound(loan[l], c) /\ c.of = l
      BY <2>1 DEF CallSound
    <2> HIDE DEF c
    <2> QED
      BY <2>1, <2>2, DecideSound DEF Become
  <1> QED
    BY <1>1, <1>2, <1>3, <1>4 DEF Begin

\* The write of a decision: loan l changes, in the hands of no other call.
LEMMA WriteSound ==
  ASSUME SInv, TypeOK', NEW p \in Callers, Deciding(p), Become(p, Idle), UNCHANGED contested,
         \A k \in LoanIds : k # call[p].of => loan'[k] = loan[k] /\ installments'[k] = installments[k],
         call[p].of \notin contested => LoanSound(loan'[call[p].of], installments'[call[p].of])
  PROVE  SInv'
  <1>1. ~Deciding(p)' /\ \A q \in Callers : q # p => call'[q] = call[q]
    BY DEF SInv, TypeOK, Become, Deciding, Idle
  <1>2. \A k \in LoanIds \ contested : LoanSound(loan'[k], installments'[k])
    BY DEF SInv
  <1>3. ASSUME NEW q \in Callers, Deciding(q)'
        PROVE  /\ call'[q] = call[q]
               /\ call[q].of \in contested \/ loan'[call[q].of] = loan[call[q].of]
    <2>1. q # p /\ call'[q] = call[q] /\ Deciding(q)
      BY <1>1, <1>3 DEF Deciding
    <2>2. call[q].of \in LoanIds
      BY <2>1, DecidedLoan DEF SInv
    <2>3. call[q].of = call[p].of => call[q].of \in contested
      BY <2>1 DEF SInv
    <2> QED
      BY <2>1, <2>2, <2>3
  <1> QED
    BY <1>2, <1>3, StepSound

\* What the write of an approval, or of a removal, leaves of a loan that is not contested.
LEMMA ApprovalWrites ==
  ASSUME SInv, NEW p \in Callers, ApproveCommit(p), NEW l, l = call[p].of
  PROVE  /\ l \in LoanIds /\ Deciding(p) /\ call[p].rows \in Seq(InstallmentRow)
         /\ \A k \in LoanIds : k # l => loan'[k] = loan[k] /\ installments'[k] = installments[k]
         /\ l \notin contested =>
              \/ loan[l].status = "DELETED" /\ UNCHANGED <<loan, installments>>
              \/ /\ loan[l].status = "PENDING" /\ installments[l] = <<>>
                 /\ loan'[l].status = "APPROVED" /\ loan'[l].total = loan[l].total
                 /\ installments'[l] = call[p].rows
                 /\ CallSound(loan[l], call[p]) /\ call[p].pc = "approve"
  <1>t. /\ loan \in [LoanIds -> LoanRow] /\ TypeOK
        /\ installments \in [LoanIds -> Seq(InstallmentRow)]
    BY DEF SInv, TypeOK
  <1>1. l \in LoanIds /\ call[p].rows \in Seq(InstallmentRow) /\ Deciding(p) /\ call[p].pc = "approve"
    BY <1>t, CallParts DEF ApproveCommit, Deciding, At
  <1>2. CASE IsRow(l)
    <2>1. installments' = [installments EXCEPT ![l] = @ \o call[p].rows] /\ SetStatus(l, "APPROVED")
      BY <1>2 DEF ApproveCommit
    <2>2. loan'[l].status = "APPROVED" /\ loan'[l].total = loan[l].total
          /\ \A k \in LoanIds : k # l => loan'[k] = loan[k] /\ installments'[k] = installments[k]
      <3>1. loan[l] \in LoanRow /\ loan[l] # NoLoan
        BY <1>t, <1>1, <1>2 DEF NoLoan, IsRow
      <3> QED
        BY <1>t, <1>1, <2>1, <3>1 DEF SetStatus, LoanRow
    <2>3. ASSUME l \notin contested
          PROVE  /\ loan[l].status = "PENDING" /\ installments[l] = <<>>
                 /\ installments'[l] = call[p].rows /\ CallSound(loan[l], call[p])
      <3>1. CallSound(loan[l], call[p])
        BY <1>1, <2>3 DEF SInv
      <3>2. loan[l].status = "PENDING"
        BY <1>2, <3>1 DEF CallSound, IsRow
      <3>3. installments[l] = <<>>
        BY <1>1, <2>3, <3>2 DEF SInv, LoanSound
      <3>4. installments'[l] = installments[l] \o call[p].rows
        BY <1>t, <1>1, <2>1
      <3> QED
        BY <1>1, <3>1, <3>2, <3>3, <3>4
    <2> QED
      BY <1>1, <2>2, <2>3
  <1>3. CASE ~IsRow(l)
    <2>1. UNCHANGED <<loan, installments>>
      BY <1>3 DEF ApproveCommit
    <2>2. l \notin contested => loan[l].status = "DELETED"
      BY <1>1, <1>3 DEF SInv, CallSound, IsRow
    <2> QED
      BY <1>1, <2>1, <2>2
  <1> QED
    BY <1>2, <1>3

LEMMA RemovalWrites ==
  ASSUME SInv, NEW p \in Callers, RemoveDelete(p), NEW l, l = call[p].of
  PROVE  /\ l \in LoanIds /\ Deciding(p)
         /\ \A k \in LoanIds : k # l => loan'[k] = loan[k] /\ installments'[k] = installments[k]
         /\ l \notin contested =>
              /\ loan[l].status \in {"PENDING", "DELETED"} /\ loan'[l].status = "DELETED"
              /\ installments[l] = <<>> /\ installments'[l] = <<>>
  <1>t. /\ loan \in [LoanIds -> LoanRow] /\ TypeOK
        /\ installments \in [LoanIds -> Seq(InstallmentRow)]
    BY DEF SInv, TypeOK
  <1>1. l \in LoanIds /\ Deciding(p)
    BY <1>t, CallParts DEF RemoveDelete, Deciding, At
  <1>2. l \notin contested => loan[l].status \in {"PENDING", "DELETED"} /\ installments[l] = <<>>
    BY <1>1 DEF SInv, CallSound, LoanSound
  <1>3. CASE IsRow(l)
    <2>1. installments' = [installments EXCEPT ![l] = <<>>] /\ SetStatus(l, "DELETED")
      BY <1>3 DEF RemoveDelete
    <2>2. loan[l] \in LoanRow /\ loan[l] # NoLoan
      BY <1>t, <1>1, <1>3 DEF NoLoan, IsRow
    <2>3. installments'[l] = <<>> /\ loan'[l].status = "DELETED"
          /\ \A k \in LoanIds : k # l => loan'[k] = loan[k] /\ installments'[k] = installments[k]
      BY <1>t, <1>1, <2>1, <2>2 DEF SetStatus, LoanRow
    <2> QED
      BY <1>1, <1>2, <2>3
  <1>4. CASE ~IsRow(l)
    <2>1. UNCHANGED <<loan, installments>>
      BY <1>4 DEF RemoveDelete
    <2> QED
      BY <1>1, <1>2, <1>4, <2>1 DEF IsRow
  <1> QED
    BY <1>3, <1>4

LEMMA ProceedSound ==
  ASSUME SInv, NEW p \in Callers, Proceed(p), TypeOK'
  PROVE  SInv'
  <1>i. Become(p, Idle) /\ UNCHANGED contested
    BY DEF Proceed, RequestInsert, ApproveCommit, RemoveDelete, Abort, Return
  <1>q. \A q \in Callers : call'[q] = call[q] \/ ~Deciding(q)'
    BY <1>i DEF SInv, TypeOK, Become, Deciding, Idle
  <1>1. ASSUME NEW l \in LoanIds, NEW total \in Totals, RequestInsert(p, l, total)
        PROVE  SInv'
    BY <1>1, <1>q, InsertSound DEF RequestInsert
  <1>2. CASE ApproveCommit(p)
    <2>a. PICK l : l = call[p].of
      OBVIOUS
    <2>1. l \in LoanIds /\ Deciding(p)
          /\ \A k \in LoanIds : k # l => loan'[k] = loan[k] /\ installments'[k] = installments[k]
      BY <1>2, <2>a, ApprovalWrites
    <2>2. ASSUME l \notin contested PROVE LoanSound(loan'[l], installments'[l])
      <3>1. CASE UNCHANGED <<loan, installments>>
        BY <2>1, <2>2, <3>1 DEF SInv
      <3>2. CASE /\ loan[l].status = "PENDING" /\ loan'[l].status = "APPROVED"
                 /\ loan'[l].total = loan[l].total /\ installments'[l] = call[p].rows
                 /\ CallSound(loan[l], call[p]) /\ call[p].pc = "approve"
        BY <3>2 DEF LoanSound, CallSound
      <3> QED
        BY <1>2, <2>a, <2>2, <3>1, <3>2, ApprovalWrites
    <2> QED
      BY <1>i, <2>a, <2>1, <2>2, WriteSound
  <1>3. CASE RemoveDelete(p)
    <2>a. PICK l : l = call[p].of
      OBVIOUS
    <2>1. /\ l \in LoanIds /\ Deciding(p)
          /\ \A k \in LoanIds : k # l => loan'[k] = loan[k] /\ installments'[k] = installments[k]
          /\ l \notin contested => loan'[l].status = "DELETED" /\ installments'[l] = <<>>
      BY <1>3, <2>a, RemovalWrites
    <2>2. l \notin contested => LoanSound(loan'[l], installments'[l])
      BY <2>1, NoRowsSound
    <2> QED
      BY <1>i, <2>a, <2>1, <2>2, WriteSound
  <1>4. CASE Abort(p)
    <2>1. UNCHANGED <<loan, installments>>
      BY <1>4 DEF Abort
    <2>2. \A l \in LoanIds \ contested : LoanSound(loan'[l], installments'[l])
      BY <2>1 DEF SInv
    <2> QED
      BY <1>i, <1>q, <2>1, <2>2, StepSound
  <1> QED
    BY <1>1, <1>2, <1>3, <1>4 DEF Proceed

LEMMA CollectedDates ==
  ASSUME TypeOK, NEW l \in LoanIds, NEW month
  PROVE  /\ Len(Collected(l, month)) = Len(installments[l]) /\ Len(installments[l]) \in Nat
         /\ DOMAIN installments[l] = 1 .. Len(installments[l])
         /\ \A i \in 1 .. Len(installments[l]) :
               /\ Collected(l, month)[i].amount = installments[l][i].amount
               /\ Collected(l, month)[i].due = installments[l][i].due
  <1>1. installments[l] \in Seq(InstallmentRow)
    BY DEF TypeOK
  <1> QED
    BY <1>1, CollectedType

\* Deducting installments changes no amount and no date.
LEMMA PayrollSound ==
  ASSUME SInv, NEW month \in Months, NEW seen \in SUBSET LoanIds, PayrollApproved(month, seen), TypeOK'
  PROVE  SInv'
  <1>t. loan \in [LoanIds -> LoanRow] /\ TypeOK /\ UNCHANGED <<call, contested>>
    BY DEF SInv, TypeOK, PayrollApproved
  <1>1. ASSUME NEW l \in LoanIds
        PROVE  /\ Amounts(Collected(l, month)) = Amounts(installments[l])
               /\ KeepsPace(installments[l]) => KeepsPace(Collected(l, month))
    <2>1. DOMAIN Collected(l, month) = DOMAIN installments[l]
      BY DEF Collected
    <2>2. /\ \A i \in DOMAIN installments[l] :
               /\ Collected(l, month)[i].amount = installments[l][i].amount
               /\ Collected(l, month)[i].due = installments[l][i].due
          /\ DOMAIN installments[l] = 1 .. Len(installments[l]) /\ Len(installments[l]) \in Nat
      BY <1>t, CollectedDates
    <2>3. Amounts(Collected(l, month)) = Amounts(installments[l])
      BY <2>1, <2>2 DEF Amounts
    <2>4. KeepsPace(installments[l]) => KeepsPace(Collected(l, month))
      BY <2>1, <2>2, SamePace
    <2> QED
      BY <2>3, <2>4
  <1>2. ASSUME NEW l \in LoanIds \ contested
        PROVE  LoanSound(loan'[l], installments'[l])
    <2>1. CASE l \notin seen
      BY <2>1 DEF PayrollApproved, SInv
    <2>2. CASE l \in seen
      <3>1. loan[l].status = "APPROVED" /\ loan[l] \in LoanRow /\ loan[l] # NoLoan
        BY <1>t, <2>2 DEF PayrollApproved, NoLoan
      <3>2. loan'[l].total = loan[l].total /\ loan'[l].status \in {"APPROVED", "PAID_OFF"}
        BY <3>1 DEF PayrollApproved, LoanRow
      <3>3. loan'[l].status = "PAID_OFF" => AllDeducted(installments'[l])
        BY <3>1 DEF PayrollApproved
      <3>4. Total(Amounts(installments[l])) = loan[l].total /\ KeepsPace(installments[l])
        BY <1>2, <3>1 DEF SInv, LoanSound
      <3>5. Amounts(installments'[l]) = Amounts(installments[l]) /\ KeepsPace(installments'[l])
        BY <1>1, <3>4 DEF PayrollApproved
      <3> QED
        BY <3>2, <3>3, <3>4, <3>5 DEF LoanSound
    <2> QED
      BY <2>1, <2>2
  <1>3. ASSUME NEW q \in Callers, Deciding(q)', call[q].of \notin contested
        PROVE  loan'[call[q].of] = loan[call[q].of]
    <2>1. Deciding(q)
      BY <1>t, <1>3 DEF Deciding
    <2>2. call[q].of \in LoanIds /\ loan[call[q].of].status # "APPROVED"
      BY <1>t, <1>3, <2>1, DecidedLoan DEF SInv, CallSound
    <2> QED
      BY <2>2 DEF PayrollApproved
  <1> QED
    BY <1>t, <1>2, <1>3, StepSound

LEMMA EmployeeSound ==
  ASSUME SInv, NEW e \in Employees, RemoveEmployee(e), TypeOK'
  PROVE  SInv'
  <1>t. loan \in [LoanIds -> LoanRow] /\ TypeOK /\ UNCHANGED <<call, contested>>
    BY DEF SInv, TypeOK, RemoveEmployee
  <1>1. ASSUME NEW l \in LoanIds
        PROVE  \/ loan'[l] = loan[l] /\ installments'[l] = installments[l]
               \/ loan'[l].status = "DELETED" /\ installments'[l] = <<>>
    <2>1. \/ loan'[l] = loan[l] /\ installments'[l] = installments[l]
          \/ loan'[l] = [loan[l] EXCEPT !.status = "DELETED"] /\ installments'[l] = <<>> /\ IsRow(l)
      BY DEF RemoveEmployee
    <2>2. loan[l] \in LoanRow /\ (IsRow(l) => loan[l] # NoLoan)
      BY <1>t DEF IsRow, NoLoan
    <2> QED
      BY <2>1, <2>2 DEF LoanRow
  <1>2. \A l \in LoanIds \ contested : LoanSound(loan'[l], installments'[l])
    BY <1>1, NoRowsSound DEF SInv
  <1>3. ASSUME NEW q \in Callers, Deciding(q)'
        PROVE  loan'[call[q].of] = loan[call[q].of] \/ loan'[call[q].of].status = "DELETED"
    <2>1. call[q].of \in LoanIds
      BY <1>t, <1>3, DecidedLoan DEF Deciding
    <2> QED
      BY <1>1, <2>1
  <1> QED
    BY <1>t, <1>2, <1>3, StepSound

LEMMA NextSInv == SInv /\ [Next]_vars => SInv'
  <1> SUFFICES ASSUME SInv, [Next]_vars PROVE SInv'
    OBVIOUS
  <1>1. TypeOK'
    BY NextType DEF SInv
  <1>2. CASE UNCHANGED vars
    <2>1. UNCHANGED <<loan, installments, call, contested>>
      BY <1>2 DEF vars
    <2>2. \A l \in LoanIds \ contested : LoanSound(loan'[l], installments'[l])
      BY <2>1 DEF SInv
    <2> QED
      BY <1>1, <2>1, <2>2, StepSound
  <1> QED
    BY <1>1, <1>2, BeginSound, ProceedSound, PayrollSound, EmployeeSound DEF Next

\* The inductive invariant, for any calls in flight.
THEOREM LoansSInv == Spec => []SInv
  BY InitSInv, NextSInv, PTL DEF Spec

LEMMA TotalOfNothing == Total(<<>>) = 0
  <1> DEFINE c == [i \in 0 .. 0 |-> 0]
  <1>1. c \in [0 .. 0 -> Int] /\ c[0] = 0 /\ 0 \in Nat /\ Len(<<>>) = 0
    OBVIOUS
  <1>2. \A i \in 1 .. 0 : <<>>[i] \in Int /\ c[i] = c[i - 1] + <<>>[i]
    OBVIOUS
  <1> HIDE DEF c
  <1>3. Total(<<>>) = c[0]
    BY <1>1, <1>2, RunningTotal, Zenon
  <1> QED
    BY <1>1, <1>3

\* However calls overlap and fail, and employees are removed: the installments of a loan come
\* to its total amount and there are none before the approval, unless two calls decide on
\* this loan at the same time.
THEOREM LoansReconciles == Spec => []Reconciles
  <1>1. SInv => Reconciles
    <2> SUFFICES ASSUME SInv, NEW l \in LoanIds \ contested PROVE SumsUp(l)
      BY DEF Reconciles
    <2>1. LoanSound(loan[l], installments[l])
      BY DEF SInv
    <2>2. Total(Amounts(<<>>)) = 0
      <3>1. Amounts(<<>>) = <<>>
        BY DEF Amounts
      <3> QED
        BY <3>1, TotalOfNothing
    <2> QED
      BY <2>1, <2>2 DEF LoanSound, SumsUp
  <1> QED
    BY <1>1, LoansSInv, PTL

\* Of those loans, one that is PAID_OFF was repaid to the cent.
THEOREM LoansPaidOffIsRepaid ==
  Spec => []PaidOffIsRepaid
  <1>1. SInv => PaidOffIsRepaid
    <2> SUFFICES ASSUME SInv, NEW l \in LoanIds \ contested, loan[l].status = "PAID_OFF"
                 PROVE  Total(Deducted(installments[l])) = loan[l].total
      BY DEF PaidOffIsRepaid
    <2>1. AllDeducted(installments[l]) /\ Total(Amounts(installments[l])) = loan[l].total
      BY DEF SInv, LoanSound
    <2>2. Deducted(installments[l]) = Amounts(installments[l])
      BY <2>1 DEF Deducted, Amounts, AllDeducted
    <2> QED
      BY <2>1, <2>2
  <1> QED
    BY <1>1, LoansSInv, PTL

\* And its due dates keep pace from any first due date that exists, the 31st included.
THEOREM LoansSteadyDates == Spec => []SteadyDates
  <1>1. SInv => SteadyDates
    BY DEF SInv, LoanSound, SteadyDates
  <1> QED
    BY <1>1, LoansSInv, PTL

-----------------------------------------------------------------------------
(* Loans implements Repayment.                                             *)

LEMMA PlanIs ==
  ASSUME NEW some \in Seq(InstallmentRow)
  PROVE  Promise!IsPlan({[key |-> i, due |-> some[i].due.month] : i \in DOMAIN some})
  <1>1. \A i \in DOMAIN some : i \in Nat /\ some[i].due.month \in Nat
    <2>1. \A i \in DOMAIN some : i \in Nat /\ some[i] \in InstallmentRow
      OBVIOUS
    <2> QED
      BY <2>1 DEF InstallmentRow, Date
  <1> QED
    BY <1>1 DEF Promise!IsPlan, Promise!Installment

\* What is shown of a loan depends on its row, its installments and whether it is contested.
LEMMA SameLoan ==
  ASSUME NEW l \in LoanIds, installments'[l] = installments[l], standing'[l] = standing[l]
  PROVE  plan'[l] = plan[l] /\ taken'[l] = taken[l]
  <1>1. Kept(l)' = Kept(l)
    BY DEF standing, Kept
  <1>2. \A S : PlannedOf(l, S)' = PlannedOf(l, S)
    BY <1>1 DEF PlannedOf, Planned
  <1> QED
    BY <1>2 DEF plan, taken

LEMMA SameRow ==
  ASSUME NEW l \in LoanIds, loan'[l] = loan[l], l \in contested' <=> l \in contested
  PROVE  standing'[l] = standing[l]
  BY DEF standing, Kept

LEMMA NotKept ==
  ASSUME NEW l \in LoanIds
  PROVE  /\ ~Kept(l) => standing[l] = "REMOVED" /\ plan[l] = {} /\ taken[l] = {}
         /\ ~Kept(l)' => standing'[l] = "REMOVED" /\ plan'[l] = {} /\ taken'[l] = {}
  <1>1. ~Kept(l) => standing[l] = "REMOVED" /\ plan[l] = {} /\ taken[l] = {}
    BY DEF standing, plan, taken, PlannedOf
  <1>2. ~Kept(l)' => standing'[l] = "REMOVED" /\ plan'[l] = {} /\ taken'[l] = {}
    BY DEF standing, plan, taken, PlannedOf
  <1> QED
    BY <1>1, <1>2

\* A step after which some loans are given up and the others are shown as before.
LEMMA Forgetting ==
  ASSUME NEW L \in SUBSET LoanIds, UNCHANGED approved,
         \A l \in L : ~Kept(l)',
         \A l \in LoanIds \ L : \/ ~Kept(l) /\ ~Kept(l)'
                                \/ standing'[l] = standing[l] /\ installments'[l] = installments[l]
  PROVE  Promise!RepaymentNext
  <1>1. ASSUME NEW l \in LoanIds \ L
        PROVE  standing'[l] = standing[l] /\ plan'[l] = plan[l] /\ taken'[l] = taken[l]
    BY <1>1, SameLoan, NotKept
  <1>2. ASSUME NEW l \in L
        PROVE  standing'[l] = "REMOVED" /\ plan'[l] = {} /\ taken'[l] = {}
    BY <1>2, NotKept
  <1>3. /\ standing' = [l \in LoanIds |-> standing'[l]] /\ plan' = [l \in LoanIds |-> plan'[l]]
        /\ taken' = [l \in LoanIds |-> taken'[l]]
    BY DEF standing, plan, taken
  <1>4. /\ standing' = [l \in LoanIds |-> IF l \in L THEN "REMOVED" ELSE standing[l]]
        /\ plan' = [l \in LoanIds |-> IF l \in L THEN {} ELSE plan[l]]
        /\ taken' = [l \in LoanIds |-> IF l \in L THEN {} ELSE taken[l]]
    BY <1>1, <1>2, <1>3
  <1>5. Promise!Forget(L)
    BY <1>4 DEF Promise!Forget
  <1> QED
    BY <1>5 DEF Promise!RepaymentNext

\* A step that shows nothing is one that forgets no loan.
LEMMA Unseen ==
  ASSUME UNCHANGED approved,
         \A l \in LoanIds : \/ ~Kept(l) /\ ~Kept(l)'
                            \/ standing'[l] = standing[l] /\ installments'[l] = installments[l]
  PROVE  Promise!RepaymentNext
  <1>1. {} \in SUBSET LoanIds /\ \A l \in {} : ~Kept(l)'
    OBVIOUS
  <1> QED
    BY <1>1, Forgetting

LEMMA InsertUnseen ==
  ASSUME TypeOK, UNCHANGED <<installments, approved, contested>>,
         NEW l \in LoanIds, NEW e, NEW total, Insert(l, e, total)
  PROVE  Promise!RepaymentNext
  <1>1. /\ loan[l].status = "UNUSED" /\ loan'[l].status = "PENDING"
        /\ \A k \in LoanIds : k # l => loan'[k] = loan[k]
    BY DEF TypeOK, Insert, NoLoan
  <1>2. standing'[l] = standing[l]
    BY <1>1 DEF standing, Kept
  <1>3. \A k \in LoanIds : standing'[k] = standing[k]
    BY <1>1, <1>2, SameRow
  <1> QED
    BY <1>3, Unseen

\* A call that begins to decide on a loan may make it a contested one.
LEMMA BeginUnseen ==
  ASSUME SInv, NEW p \in Callers, Begin(p)
  PROVE  Promise!RepaymentNext
  <1>t. TypeOK
    BY DEF SInv
  <1>1. ASSUME UNCHANGED <<loan, installments, approved, contested>> PROVE Promise!RepaymentNext
    BY <1>1, SameRow, Unseen
  <1>2. ASSUME NEW l \in LoanIds, UNCHANGED <<loan, installments, approved>>, Contest(l)
        PROVE  Promise!RepaymentNext
    <2>1. CASE contested' = contested
      BY <1>1, <1>2, <2>1
    <2>2. CASE contested' = contested \cup {l}
      <3>1. \A k \in {l} : ~Kept(k)'
        BY <2>2 DEF Kept
      <3>2. \A k \in LoanIds \ {l} : standing'[k] = standing[k] /\ installments'[k] = installments[k]
        BY <1>2, <2>2, SameRow
      <3>3. {l} \in SUBSET LoanIds
        OBVIOUS
      <3> QED
        BY <1>2, <3>1, <3>2, <3>3, Forgetting
    <2> QED
      BY <1>2, <2>1, <2>2 DEF Contest
  <1> QED
    BY <1>t, <1>1, <1>2, InsertUnseen DEF Begin, Create, RequestBegin, ApproveBegin, RemoveBegin

LEMMA ApprovalKeeps ==
  ASSUME SInv, TypeOK', NEW p \in Callers, ApproveCommit(p)
  PROVE  Promise!RepaymentNext
  <1>a. PICK l : l = call[p].of
    OBVIOUS
  <1>b. UNCHANGED <<approved, contested>>
    BY DEF ApproveCommit
  <1>1. /\ l \in LoanIds /\ call[p].rows \in Seq(InstallmentRow)
        /\ \A k \in LoanIds : k # l => loan'[k] = loan[k] /\ installments'[k] = installments[k]
    BY <1>a, ApprovalWrites
  <1>2. \A k \in LoanIds : k # l =>
           standing'[k] = standing[k] /\ plan'[k] = plan[k] /\ taken'[k] = taken[k]
    BY <1>b, <1>1, SameRow, SameLoan
  <1>3. CASE l \in contested
    <2>1. \A k \in {l} : ~Kept(k)'
      BY <1>b, <1>3 DEF Kept
    <2>2. \A k \in LoanIds \ {l} : standing'[k] = standing[k] /\ installments'[k] = installments[k]
      BY <1>1, <1>2
    <2>3. {l} \in SUBSET LoanIds
      BY <1>1
    <2> QED
      BY <1>b, <2>1, <2>2, <2>3, Forgetting
  <1>4. CASE UNCHANGED <<loan, installments>>
    <2>1. \A k \in LoanIds : standing'[k] = standing[k] /\ installments'[k] = installments[k]
      BY <1>b, <1>4, SameRow
    <2> QED
      BY <1>b, <2>1, Unseen
  <1>5. CASE /\ l \notin contested
             /\ loan[l].status = "PENDING" /\ installments[l] = <<>>
             /\ loan'[l].status = "APPROVED" /\ installments'[l] = call[p].rows
             /\ CallSound(loan[l], call[p]) /\ call[p].pc = "approve"
    <2>1. standing[l] = "OPEN" /\ standing'[l] = "APPROVED" /\ Kept(l) /\ Kept(l)'
      BY <1>b, <1>1, <1>5 DEF standing, Kept
    <2>2. standing' = [standing EXCEPT ![l] = "APPROVED"]
      BY <1>1, <1>2, <2>1 DEF standing
    <2>3. plan' = [plan EXCEPT ![l] = plan'[l]]
      BY <1>1, <1>2 DEF plan
    <2>4. taken[l] = {}
      <3>1. {i \in DOMAIN installments[l] : installments[l][i].status = "DEDUCTED"} = {}
        BY <1>5
      <3> QED
        BY <1>1, <3>1 DEF taken, PlannedOf
    <2>5. taken'[l] = {}
      <3>1. {i \in DOMAIN installments'[l] : installments'[l][i].status = "DEDUCTED"} = {}
        BY <1>5 DEF CallSound
      <3> QED
        BY <1>1, <3>1 DEF taken, PlannedOf
    <2>6. taken' = taken
      <3>1. taken' = [k \in LoanIds |-> taken'[k]] /\ taken = [k \in LoanIds |-> taken[k]]
        BY DEF taken
      <3> QED
        BY <1>2, <2>4, <2>5, <3>1
    <2>7. plan'[l] = {[key |-> i, due |-> installments'[l][i].due.month] : i \in DOMAIN installments'[l]}
      BY <1>1, <2>1 DEF plan, PlannedOf, Planned
    <2>8. Promise!IsPlan(plan'[l])
      BY <1>1, <1>5, <2>7, PlanIs
    <2>9. Promise!Approve(l)
      BY <1>b, <2>1, <2>2, <2>3, <2>6, <2>8 DEF Promise!Approve
    <2> QED
      BY <1>1, <2>9 DEF Promise!RepaymentNext
  <1> QED
    BY <1>a, <1>3, <1>4, <1>5, ApprovalWrites

LEMMA RemovalKeeps ==
  ASSUME SInv, NEW p \in Callers, RemoveDelete(p)
  PROVE  Promise!RepaymentNext
  <1>a. PICK l : l = call[p].of
    OBVIOUS
  <1>b. UNCHANGED <<approved, contested>>
    BY DEF RemoveDelete
  <1>1. /\ l \in LoanIds
        /\ \A k \in LoanIds : k # l => loan'[k] = loan[k] /\ installments'[k] = installments[k]
        /\ l \notin contested => loan'[l].status = "DELETED"
    BY <1>a, RemovalWrites
  <1>2. \A k \in {l} : ~Kept(k)'
    BY <1>b, <1>1 DEF Kept
  <1>3. \A k \in LoanIds \ {l} : standing'[k] = standing[k] /\ installments'[k] = installments[k]
    BY <1>b, <1>1, SameRow
  <1>4. {l} \in SUBSET LoanIds
    BY <1>1
  <1> QED
    BY <1>b, <1>2, <1>3, <1>4, Forgetting

LEMMA EmployeeKeeps ==
  ASSUME SInv, NEW e \in Employees, RemoveEmployee(e)
  PROVE  Promise!RepaymentNext
  <1> DEFINE lost == {l \in LoanIds : loan[l].emp = e /\ IsRow(l)}
  <1>1. UNCHANGED <<approved, contested>> /\ lost \in SUBSET LoanIds
    BY DEF RemoveEmployee
  <1>2. \A l \in LoanIds \ lost : loan'[l] = loan[l] /\ installments'[l] = installments[l]
    BY DEF RemoveEmployee
  <1>3. \A l \in lost : loan'[l].status = "DELETED"
    <2> SUFFICES ASSUME NEW l \in lost PROVE loan'[l].status = "DELETED"
      OBVIOUS
    <2>1. loan'[l] = [loan[l] EXCEPT !.status = "DELETED"]
      BY DEF RemoveEmployee
    <2>2. loan[l] \in LoanRow /\ loan[l] # NoLoan
      BY DEF SInv, TypeOK, IsRow, NoLoan
    <2> QED
      BY <2>1, <2>2 DEF LoanRow
  <1> HIDE DEF lost
  <1>4. \A l \in lost : ~Kept(l)'
    BY <1>3 DEF Kept
  <1>5. \A l \in LoanIds \ lost : standing'[l] = standing[l] /\ installments'[l] = installments[l]
    BY <1>1, <1>2, SameRow
  <1> QED
    BY <1>1, <1>4, <1>5, Forgetting

\* A collected loan was APPROVED; one that is not kept shows nothing of it.
LEMMA CollectedShows ==
  ASSUME TypeOK, TypeOK', NEW l \in LoanIds, NEW month, UNCHANGED contested,
         loan[l].status = "APPROVED", Kept(l), installments'[l] = Collected(l, month),
         loan'[l] \in {loan[l], [loan[l] EXCEPT !.status = "PAID_OFF"]},
         loan'[l] # loan[l] => AllDeducted(Collected(l, month))
  PROVE  plan'[l] = plan[l] /\ Promise!Collects(l, month)
  <1>1. loan[l] \in LoanRow /\ loan[l] # NoLoan /\ installments[l] \in Seq(InstallmentRow)
    BY DEF TypeOK, NoLoan
  <1>2. loan'[l].status \in {"APPROVED", "PAID_OFF"}
        /\ (loan'[l].status = "PAID_OFF" => AllDeducted(Collected(l, month)))
    BY <1>1 DEF LoanRow
  <1>3. Kept(l)' /\ standing[l] = "APPROVED" /\ standing'[l] = loan'[l].status
    BY <1>2 DEF standing, Kept
  <1>4. /\ DOMAIN installments'[l] = DOMAIN installments[l]
        /\ \A i \in DOMAIN installments[l] :
              /\ installments'[l][i].due = installments[l][i].due
              /\ installments'[l][i].status =
                   IF installments[l][i].due.month = month THEN "DEDUCTED" ELSE installments[l][i].status
    <2>1. /\ DOMAIN installments'[l] = DOMAIN installments[l]
          /\ \A i \in DOMAIN installments[l] :
               installments'[l][i] = IF installments[l][i].due.month = month
                                     THEN [installments[l][i] EXCEPT !.status = "DEDUCTED"]
                                     ELSE installments[l][i]
      BY DEF Collected
    <2>2. \A i \in DOMAIN installments[l] : installments[l][i] \in InstallmentRow
      BY <1>1
    <2> QED
      BY <2>1, <2>2 DEF InstallmentRow
  <1>5. \A i \in DOMAIN installments[l] : Planned(l, i)' = Planned(l, i)
    BY <1>4 DEF Planned
  <1>6. /\ plan[l] = {Planned(l, i) : i \in DOMAIN installments[l]}
        /\ taken[l] = {Planned(l, i) :
                          i \in {j \in DOMAIN installments[l] : installments[l][j].status = "DEDUCTED"}}
    BY DEF plan, taken, PlannedOf
  <1>7. /\ plan'[l] = {Planned(l, i) : i \in DOMAIN installments[l]}
        /\ taken'[l] = {Planned(l, i) :
                          i \in {j \in DOMAIN installments[l] : installments'[l][j].status = "DEDUCTED"}}
    BY <1>3, <1>4, <1>5 DEF plan, taken, PlannedOf
  <1>8. taken[l] \subseteq taken'[l]
    BY <1>4, <1>6, <1>7
  <1>9. taken'[l] \ taken[l] \subseteq {i \in plan[l] : i.due = month}
    <2> SUFFICES ASSUME NEW i \in DOMAIN installments[l], installments'[l][i].status = "DEDUCTED",
                        Planned(l, i) \notin taken[l]
                 PROVE  Planned(l, i) \in plan[l] /\ Planned(l, i).due = month
      BY <1>7
    <2>1. installments[l][i].status # "DEDUCTED"
      BY <1>6
    <2> QED
      BY <1>4, <1>6, <2>1 DEF Planned
  <1>10. AllDeducted(Collected(l, month)) => taken'[l] = plan[l]
    BY <1>4, <1>6, <1>7 DEF AllDeducted
  <1> QED
    BY <1>2, <1>3, <1>6, <1>7, <1>8, <1>9, <1>10 DEF Promise!Collects

LEMMA PayrollKeeps ==
  ASSUME SInv, TypeOK', NEW month \in Months, NEW seen \in SUBSET LoanIds, PayrollApproved(month, seen)
  PROVE  Promise!RepaymentNext
  <1>t. TypeOK /\ UNCHANGED contested
    BY DEF SInv, PayrollApproved
  <1>1. ASSUME NEW l \in LoanIds
        PROVE  plan'[l] = plan[l] /\ Promise!Collects(l, month)
    <2>1. CASE standing'[l] = standing[l] /\ plan'[l] = plan[l] /\ taken'[l] = taken[l]
      BY <2>1 DEF Promise!Collects
    <2>2. CASE installments'[l] = installments[l] /\ loan'[l] = loan[l]
      BY <1>t, <2>1, <2>2, SameRow, SameLoan
    <2>3. CASE /\ l \in seen /\ installments'[l] = Collected(l, month)
               /\ loan'[l] \in {loan[l], [loan[l] EXCEPT !.status = "PAID_OFF"]}
               /\ loan'[l] # loan[l] => AllDeducted(Collected(l, month))
      <3>1. loan[l].status = "APPROVED"
        BY <2>3 DEF PayrollApproved
      <3>2. CASE l \in contested
        <4>1. ~Kept(l) /\ ~Kept(l)'
          BY <1>t, <3>2 DEF Kept
        <4> QED
          BY <2>1, <4>1, NotKept
      <3>3. CASE l \notin contested
        <4>1. Kept(l)
          BY <3>1, <3>3 DEF Kept
        <4> QED
          BY <1>t, <2>3, <3>1, <4>1, CollectedShows
      <3> QED
        BY <3>2, <3>3
    <2>4. \/ installments'[l] = installments[l] /\ loan'[l] = loan[l]
          \/ /\ l \in seen /\ installments'[l] = Collected(l, month)
             /\ loan'[l] \in {loan[l], [loan[l] EXCEPT !.status = "PAID_OFF"]}
             /\ loan'[l] # loan[l] => AllDeducted(Collected(l, month))
      BY DEF PayrollApproved
    <2> QED
      BY <2>2, <2>3, <2>4
  <1>2. plan' = plan /\ standing' = [l \in LoanIds |-> standing'[l]] /\ taken' = [l \in LoanIds |-> taken'[l]]
    BY <1>1 DEF plan, standing, taken
  <1>3. month \notin approved /\ approved' = approved \cup {month}
    BY DEF PayrollApproved
  <1> QED
    BY <1>1, <1>2, <1>3 DEF Promise!RepaymentNext, Promise!Collect

LEMMA StepKeeps ==
  SInv /\ SInv' /\ [Next]_vars => [Promise!RepaymentNext]_Promise!repaymentVars
  <1> SUFFICES ASSUME SInv, TypeOK', [Next]_vars
               PROVE  Promise!RepaymentNext
    BY DEF SInv
  <1>1. ASSUME UNCHANGED <<loan, installments, approved, contested>> PROVE Promise!RepaymentNext
    BY <1>1, SameRow, Unseen
  <1>2. ASSUME NEW p \in Callers, Proceed(p) PROVE Promise!RepaymentNext
    <2>1. ASSUME NEW l \in LoanIds, NEW total \in Totals, RequestInsert(p, l, total)
          PROVE  Promise!RepaymentNext
      BY <2>1, InsertUnseen DEF SInv, RequestInsert
    <2> QED
      BY <1>1, <1>2, <2>1, ApprovalKeeps, RemovalKeeps DEF Proceed, Abort
  <1> QED
    BY <1>1, <1>2, BeginUnseen, EmployeeKeeps, PayrollKeeps DEF Next, vars

\* For any loans, splits and dates, calls that overlap and fail anywhere, and employees who
\* are removed: a loan gets one plan when it is approved, a month takes what is due in it,
\* once, PAID_OFF says that all of it was taken, and only two calls that decide on the same
\* loan at once can spoil it.
THEOREM LoansKeepPromise == Spec => KeepsPromise
  <1>1. Init => Promise!RepaymentInit
    BY DEF Init, Promise!RepaymentInit, standing, plan, taken, Kept, PlannedOf, NoLoan
  <1>2. Spec => Promise!RepaymentInit /\ [][Promise!RepaymentNext]_Promise!repaymentVars
    BY <1>1, StepKeeps, LoansSInv, PTL DEF Spec
  <1> QED
    BY <1>2 DEF KeepsPromise, Promise!RepaymentSpec
=============================================================================
