--------------------------- MODULE RequestsProofs ---------------------------
(***************************************************************************)
(* Proofs about Requests, for any staff, any number of requests and any    *)
(* number of calls in flight.                                              *)
(***************************************************************************)
EXTENDS Requests, TLAPS

USE DEF Decisions

\* Somebody who was the requester's manager has approved request r at level 1,
\* as these rows have it.
FirstIn(reqs, stepRows, pairs, r) ==
    \E s \in stepRows :
        /\ s.req = r /\ s.level = 1 /\ s.action = "APPROVED"
        /\ EmployeeOf[s.actor] # reqs[r].emp
        /\ <<EmployeeOf[s.actor], reqs[r].emp>> \in pairs

\* What a call in flight knows to be true of the rows, although it read them
\* some awaits ago.
Sound(reqs, stepRows, pairs, c) ==
    /\ c.pc = "submit" => /\ c.actor \in Users /\ c.req \in RequestIds /\ c.emp \in Employees
                          /\ reqs[c.req] = Unused
    /\ c.pc \in {"authorize", "advance", "finalize"} =>
          /\ c.actor \in Users /\ c.req \in RequestIds /\ c.level \in {1, 2}
          /\ reqs[c.req] # Unused /\ reqs[c.req].emp = c.emp
          /\ EmployeeOf[c.actor] # c.emp
    /\ c.pc = "authorize" => c.level = 1 /\ EmployeeOf[c.actor] # None
    /\ c.pc = "advance" => c.level = 1 /\ <<EmployeeOf[c.actor], c.emp>> \in pairs
    /\ c.pc = "finalize" /\ c.action = "APPROVED" =>
          \/ c.actor \in Owners
          \/ c.level = 2 /\ CanFinalize(c.actor) /\ FirstIn(reqs, stepRows, pairs, c.req)
    /\ c.pc = "cancel" => c.req \in RequestIds /\ reqs[c.req] # Unused
    /\ c.pc = "notify" => c.req \in RequestIds

FirstLevel(r) == FirstIn(req, steps, managed, r)
CallsSound == \A p \in Callers : Sound(req, steps, managed, call[p])

\* The id of a request that is being submitted is nobody else's business.
SubmitAlone ==
    \A p, q \in Callers : call[p].pc = "submit" /\ call[q].req = call[p].req => p = q

ManagersManaged == \A e \in Employees : manager[e] # None => <<manager[e], e>> \in managed

LevelTwoApproved == \A r \in RequestIds : req[r].level = 2 => FirstLevel(r)

IInv ==
    /\ TypeOK
    /\ CallsSound
    /\ SubmitAlone
    /\ ManagersManaged
    /\ LevelTwoApproved
    /\ TwoLevelApproval
    /\ ReviewerDecided

LEMMA InitIInv == Init => IInv
  BY RequestsAssumption
  DEF Init, IInv, TypeOK, CallsSound, Sound, SubmitAlone, ManagersManaged, LevelTwoApproved,
      TwoLevelApproval, ReviewerDecided, ReqRow, Unused, Call, Idle, Pcs

-----------------------------------------------------------------------------
(* Every step lets the rows grow: no step or manager is forgotten, and a   *)
(* request keeps its employee.                                             *)
Grow ==
    /\ steps \subseteq steps' /\ managed \subseteq managed'
    /\ \A r \in RequestIds : req[r] # Unused => req'[r] # Unused /\ req'[r].emp = req[r].emp

LEMMA FirstLevelStays ==
  ASSUME Grow
  PROVE  \A r \in RequestIds : req[r] # Unused /\ FirstIn(req, steps, managed, r)
                                  => FirstIn(req', steps', managed', r)
  BY DEF Grow, FirstIn

\* What the call of another caller knows stays true, provided the row it is
\* about to insert is left alone.
LEMMA SoundStays ==
  ASSUME Grow
  PROVE  \A c \in Call : Sound(req, steps, managed, c)
                         /\ (c.pc = "submit" => req'[c.req] = req[c.req])
                            => Sound(req', steps', managed', c)
  BY FirstLevelStays DEF Sound, Grow

\* A step by which caller p comes to execute c.
LEMMA CallStep ==
  ASSUME IInv, Grow, NEW p \in Callers, NEW c \in Call, Become(p, c),
         Sound(req', steps', managed', c),
         \A r \in RequestIds : req'[r] = req[r] \/ r = call[p].req,
         \/ c.pc # "submit" /\ c.req \in {call[p].req, None}
         \/ c.pc # "submit" /\ c.req \in RequestIds /\ req[c.req] # Unused
         \/ \A q \in Callers : call[q].req # c.req
  PROVE  call' \in [Callers -> Call] /\ CallsSound' /\ SubmitAlone'
  <1>1. call' \in [Callers -> Call] /\ call'[p] = c /\ \A q \in Callers \ {p} : call'[q] = call[q]
    BY DEF IInv, TypeOK, Become
  <1>2. \A q \in Callers : /\ call[q] \in Call /\ Sound(req, steps, managed, call[q])
                           /\ call[q].pc = "submit" =>
                                call[q].req \in RequestIds /\ req[call[q].req] = Unused
    BY DEF IInv, TypeOK, CallsSound, Sound
  <1>3. \A q \in Callers : q # p /\ call[q].pc = "submit" => call[q].req # call[p].req
    BY DEF IInv, SubmitAlone
  <1>4. \A q \in Callers \ {p} : Sound(req', steps', managed', call[q])
    BY <1>2, <1>3, SoundStays
  <1>5. CallsSound'
    BY <1>1, <1>4 DEF CallsSound
  <1>6. SubmitAlone'
    BY <1>1, <1>2, <1>3, RequestsAssumption DEF SubmitAlone, IInv
  <1> QED
    BY <1>1, <1>5, <1>6

LEMMA IdleSound == Idle \in Call /\ Idle.req = None /\ Idle.pc = "idle"
                   /\ \A reqs, stepRows, pairs : Sound(reqs, stepRows, pairs, Idle)
  BY DEF Idle, Call, Pcs, Sound

\* The tail of a handler knows only which request it is about.
LEMMA NotifyCall ==
  ASSUME IInv, NEW p \in Callers, NEW users \in SUBSET Users,
         NEW type \in {"SUBMITTED", "LEVEL2", "APPROVED", "REJECTED"},
         Notify(p, type, users), call[p].req \in RequestIds
  PROVE  \E c \in Call : /\ Become(p, c) /\ c.pc # "submit" /\ c.req \in {call[p].req, None}
                         /\ \A reqs, stepRows, pairs : Sound(reqs, stepRows, pairs, c)
  <1>1. CASE users = {}
    BY <1>1, IdleSound DEF Notify, Return
  <1>2. CASE users # {}
    <2> DEFINE c == [call[p] EXCEPT !.pc = "notify", !.type = type, !.todo = users]
    <2> call[p] \in Call
      BY DEF IInv, TypeOK
    <2>1. c \in Call /\ c.pc = "notify" /\ c.req = call[p].req
      BY DEF Call, Pcs
    <2>2. \A reqs, stepRows, pairs : Sound(reqs, stepRows, pairs, c)
      BY <2>1 DEF Sound
    <2>3. Become(p, c)
      BY <1>2 DEF Notify
    <2> QED
      BY <2>1, <2>2, <2>3
  <1> QED
    BY <1>1, <1>2

-----------------------------------------------------------------------------
(* The steps that change no row but notifications.                         *)
LEMMA QuietStep ==
  ASSUME IInv, NEW p \in Callers, NEW c \in Call, Become(p, c),
         UNCHANGED <<manager, req, steps, managed>>, sent' \subseteq NoteRow,
         cut' \subseteq RequestIds,
         Sound(req, steps, managed, c),
         \/ c.pc # "submit" /\ c.req \in {call[p].req, None}
         \/ c.pc # "submit" /\ c.req \in RequestIds /\ req[c.req] # Unused
         \/ \A q \in Callers : call[q].req # c.req
  PROVE  IInv'
  <1>1. Grow
    BY DEF Grow
  <1>2. call' \in [Callers -> Call] /\ CallsSound' /\ SubmitAlone'
    BY <1>1, CallStep
  <1> QED
    BY <1>2 DEF IInv, TypeOK, ManagersManaged, LevelTwoApproved, TwoLevelApproval,
                ReviewerDecided, FirstLevel, ApprovedBy, StepsOf

LEMMA SubmitBeginKeepsIInv ==
  ASSUME IInv, NEW p \in Callers, NEW u \in Users, NEW r \in RequestIds, NEW e \in Employees,
         SubmitBegin(p, u, r, e)
  PROVE  IInv'
  <1> DEFINE c == [Idle EXCEPT !.pc = "submit", !.actor = u, !.req = r, !.emp = e,
                               !.todo = SubmitAudience(e)]
  <1>1. SubmitAudience(e) \subseteq Users
    BY RequestsAssumption DEF SubmitAudience, Accounts
  <1>2. c \in Call /\ Become(p, c)
    BY <1>1 DEF Call, Pcs, Idle, SubmitBegin
  <1>3. Sound(req, steps, managed, c) /\ \A q \in Callers : call[q].req # c.req
    BY DEF Sound, SubmitBegin, Idle
  <1>4. UNCHANGED <<manager, req, steps, managed>> /\ sent' \subseteq NoteRow
        /\ cut' \subseteq RequestIds
    BY DEF SubmitBegin, IInv, TypeOK
  <1> QED
    BY <1>2, <1>3, <1>4, QuietStep

LEMMA ReviewBeginKeepsIInv ==
  ASSUME IInv, NEW p \in Callers, NEW u \in Users, NEW r \in RequestIds,
         NEW action \in {"APPROVED", "REJECTED"}, ReviewBegin(p, u, r, action)
  PROVE  IInv'
  <1> DEFINE c == [Idle EXCEPT !.pc = IF req[r].level = 1 /\ EmployeeOf[u] # None
                                      THEN "authorize" ELSE "finalize",
                               !.actor = u, !.req = r, !.emp = req[r].emp,
                               !.level = req[r].level, !.action = action]
  <1>1. req[r] # Unused /\ req[r].emp \in Employees /\ req[r].level \in {1, 2}
    BY DEF ReviewBegin, IInv, TypeOK, ReqRow, Unused, Open
  <1>2. c \in Call /\ Become(p, c)
    BY <1>1 DEF Call, Pcs, Idle, ReviewBegin
  <1>3. req[r].level = 2 => FirstIn(req, steps, managed, r)
    BY DEF IInv, LevelTwoApproved, FirstLevel
  <1>4. c.pc \in {"authorize", "finalize"} /\ c.actor = u /\ c.req = r /\ c.emp = req[r].emp
        /\ c.level = req[r].level
    BY DEF Idle
  <1>5. c.pc = "finalize" => u \in Owners \/ (c.level = 2 /\ CanFinalize(u))
    BY <1>1, <1>4 DEF ReviewBegin, Idle
  <1>6. c.pc = "authorize" => c.level = 1 /\ EmployeeOf[u] # None
    BY <1>1, <1>4 DEF Idle
  <1>7. EmployeeOf[u] # req[r].emp /\ UNCHANGED <<manager, req, steps, managed>>
        /\ sent' \subseteq NoteRow /\ cut' \subseteq RequestIds
    BY DEF ReviewBegin, IInv, TypeOK
  <1> HIDE DEF c
  <1>8. Sound(req, steps, managed, c)
    BY <1>1, <1>3, <1>4, <1>5, <1>6, <1>7 DEF Sound
  <1> QED
    BY <1>1, <1>2, <1>4, <1>7, <1>8, QuietStep

LEMMA AuthorizeKeepsIInv ==
  ASSUME IInv, NEW p \in Callers, Authorize(p)
  PROVE  IInv'
  <1>1. /\ call[p] \in Call /\ Sound(req, steps, managed, call[p]) /\ call[p].pc = "authorize"
        /\ UNCHANGED <<manager, req, steps, managed>> /\ sent' \subseteq NoteRow
        /\ cut' \subseteq RequestIds
    BY DEF Authorize, At, IInv, TypeOK, CallsSound
  <1>2. /\ call[p].req \in RequestIds /\ call[p].emp \in Employees
        /\ EmployeeOf[call[p].actor] # None
    BY <1>1, RequestsAssumption DEF Sound, IInv, TypeOK, ReqRow, Unused
  <1>3. CASE Goto(p, "finalize") /\ (call[p].actor \in Owners \/ call[p].action = "REJECTED")
    <2> DEFINE c == [call[p] EXCEPT !.pc = "finalize"]
    <2>1. c \in Call /\ Become(p, c) /\ c.pc = "finalize" /\ c.req = call[p].req
      BY <1>1, <1>3 DEF Call, Pcs, Goto
    <2>2. Sound(req, steps, managed, c)
      BY <1>1, <1>3 DEF Sound, Call
    <2> QED
      BY <1>1, <2>1, <2>2, QuietStep
  <1>4. CASE Goto(p, "advance") /\ manager[call[p].emp] = EmployeeOf[call[p].actor]
    <2> DEFINE c == [call[p] EXCEPT !.pc = "advance"]
    <2>1. c \in Call /\ Become(p, c) /\ c.pc = "advance" /\ c.req = call[p].req
      BY <1>1, <1>4 DEF Call, Pcs, Goto
    <2>2. Sound(req, steps, managed, c)
      BY <1>1, <1>2, <1>4 DEF Sound, Call, IInv, ManagersManaged
    <2> QED
      BY <1>1, <2>1, <2>2, QuietStep
  <1>5. CASE Return(p)
    BY <1>1, <1>5, IdleSound, QuietStep DEF Return
  <1> QED
    BY <1>3, <1>4, <1>5 DEF Authorize

LEMMA CancelBeginKeepsIInv ==
  ASSUME IInv, NEW p \in Callers, NEW u \in Users, NEW r \in RequestIds, CancelBegin(p, u, r)
  PROVE  IInv'
  <1> DEFINE c == [Idle EXCEPT !.pc = "cancel", !.actor = u, !.req = r, !.emp = req[r].emp]
  <1>1. req[r] # Unused /\ req[r].emp \in Employees
    BY DEF CancelBegin, IInv, TypeOK, ReqRow, Unused
  <1>2. c \in Call /\ Become(p, c) /\ c.pc = "cancel" /\ c.req = r
    BY <1>1 DEF Call, Pcs, Idle, CancelBegin
  <1>3. Sound(req, steps, managed, c)
    BY <1>1, <1>2 DEF Sound
  <1>4. UNCHANGED <<manager, req, steps, managed>> /\ sent' \subseteq NoteRow
        /\ cut' \subseteq RequestIds
    BY DEF CancelBegin, IInv, TypeOK
  <1> QED
    BY <1>1, <1>2, <1>3, <1>4, QuietStep

LEMMA NotifyOneKeepsIInv ==
  ASSUME IInv, NEW p \in Callers, NotifyOne(p)
  PROVE  IInv'
  <1>1. /\ call[p] \in Call /\ call[p].req \in RequestIds
        /\ UNCHANGED <<manager, req, steps, managed>> /\ cut' \subseteq RequestIds
    BY DEF NotifyOne, At, IInv, TypeOK, CallsSound, Sound
  <1>2. PICK u \in call[p].todo :
          /\ sent' = sent \cup {[req |-> call[p].req, user |-> u, type |-> call[p].type]}
          /\ Notify(p, call[p].type, call[p].todo \ {u})
    BY DEF NotifyOne
  <1>3. sent' \subseteq NoteRow
    BY <1>1, <1>2 DEF Call, NoteRow, IInv, TypeOK
  <1>4. PICK c \in Call : /\ Become(p, c) /\ c.pc # "submit" /\ c.req \in {call[p].req, None}
                          /\ \A reqs, stepRows, pairs : Sound(reqs, stepRows, pairs, c)
    <2>1. call[p].todo \ {u} \in SUBSET Users
          /\ call[p].type \in {"SUBMITTED", "LEVEL2", "APPROVED", "REJECTED"}
      BY <1>1 DEF Call
    <2> QED
      BY <1>1, <1>2, <2>1, NotifyCall
  <1> QED
    BY <1>1, <1>3, <1>4, QuietStep

-----------------------------------------------------------------------------
(* The steps that update one request, r, by its id.                        *)

\* What the row of r owes the invariant.
RowSound(reqs, stepRows, pairs, r) ==
    LET mine == {s \in stepRows : s.req = r}
    IN  /\ reqs[r].level = 2 => FirstIn(reqs, stepRows, pairs, r)
        /\ reqs[r].status = "APPROVED" =>
             \/ \E s \in mine : /\ s.action = "APPROVED" /\ EmployeeOf[s.actor] # reqs[r].emp
                                /\ s.actor \in Owners
             \/ /\ FirstIn(reqs, stepRows, pairs, r)
                /\ \E t \in mine : /\ t.action = "APPROVED" /\ EmployeeOf[t.actor] # reqs[r].emp
                                   /\ t.level = 2 /\ CanFinalize(t.actor)
        /\ reqs[r].status \in {"APPROVED", "REJECTED"} =>
             \E s \in mine : s.action = reqs[r].status /\ s.actor = reqs[r].reviewer

RowsSound == \A r \in RequestIds : RowSound(req, steps, managed, r)

LEMMA RowSoundIsInvariant ==
  (LevelTwoApproved /\ TwoLevelApproval /\ ReviewerDecided) <=> RowsSound
  <1> DEFINE ByOwner(r) == \E s \in StepsOf(r) : ApprovedBy(r, s) /\ s.actor \in Owners
             Second(r) == \E t \in StepsOf(r) :
                            ApprovedBy(r, t) /\ t.level = 2 /\ CanFinalize(t.actor)
             First(r) == \E s \in StepsOf(r) :
                            /\ ApprovedBy(r, s) /\ s.level = 1
                            /\ <<EmployeeOf[s.actor], req[r].emp>> \in managed
  <1>1. TwoLevelApproval <=>
          \A r \in RequestIds : req[r].status = "APPROVED" => ByOwner(r) \/ (First(r) /\ Second(r))
    BY Zenon DEF TwoLevelApproval
  <1>2. \A r \in RequestIds : First(r) <=> FirstIn(req, steps, managed, r)
    BY DEF ApprovedBy, StepsOf, FirstIn
  <1>3. \A r \in RequestIds : ByOwner(r) <=>
          \E s \in {x \in steps : x.req = r} :
             s.action = "APPROVED" /\ EmployeeOf[s.actor] # req[r].emp /\ s.actor \in Owners
    BY DEF ApprovedBy, StepsOf
  <1>4. \A r \in RequestIds : Second(r) <=>
          \E t \in {x \in steps : x.req = r} :
             /\ t.action = "APPROVED" /\ EmployeeOf[t.actor] # req[r].emp
             /\ t.level = 2 /\ CanFinalize(t.actor)
    BY DEF ApprovedBy, StepsOf
  <1> HIDE DEF ByOwner, Second, First
  <1> QED
    BY <1>1, <1>2, <1>3, <1>4
    DEF RowsSound, RowSound, LevelTwoApproved, ReviewerDecided, StepsOf, FirstLevel

LEMMA RowStep ==
  ASSUME IInv, Grow, NEW r \in RequestIds, UNCHANGED <<manager, sent, managed, cut>>,
         req' \in [RequestIds -> ReqRow], steps' \subseteq StepRow,
         \A x \in RequestIds : req'[x] = req[x] \/ x = r,
         RowSound(req', steps', managed', r),
         call' \in [Callers -> Call] /\ CallsSound' /\ SubmitAlone'
  PROVE  IInv'
  <1>1. \A x \in RequestIds : RowSound(req, steps, managed, x)
    BY RowSoundIsInvariant DEF IInv, RowsSound
  <1>2. ASSUME NEW x \in RequestIds, x # r
        PROVE  RowSound(req', steps', managed', x)
    <2>1. /\ req'[x] = req[x] /\ steps \subseteq steps' /\ managed \subseteq managed'
          /\ RowSound(req, steps, managed, x)
      BY <1>1, <1>2 DEF Grow
    <2>2. FirstIn(req, steps, managed, x) => FirstIn(req', steps', managed', x)
      BY <2>1 DEF FirstIn
    <2> QED
      BY <2>1, <2>2 DEF RowSound
  <1>3. (LevelTwoApproved /\ TwoLevelApproval /\ ReviewerDecided)'
    <2>1. RowsSound'
      BY <1>2 DEF RowsSound
    <2> QED
      BY <2>1, RowSoundIsInvariant, PTL
  <1> QED
    BY <1>3 DEF IInv, TypeOK, ManagersManaged

LEMMA SubmitInsertKeepsIInv ==
  ASSUME IInv, NEW p \in Callers, SubmitInsert(p)
  PROVE  IInv'
  <1> DEFINE r == call[p].req
  <1>1. /\ call[p] \in Call /\ r \in RequestIds /\ call[p].emp \in Employees /\ req[r] = Unused
        /\ UNCHANGED <<manager, steps, sent, managed, cut>>
    BY DEF SubmitInsert, At, IInv, TypeOK, CallsSound, Sound
  <1>2. /\ req' \in [RequestIds -> ReqRow] /\ \A x \in RequestIds : req'[x] = req[x] \/ x = r
        /\ req'[r].level = 1 /\ req'[r].status = "PENDING"
    BY <1>1 DEF SubmitInsert, IInv, TypeOK, ReqRow, Open
  <1>3. Grow
    BY <1>1, <1>2 DEF Grow
  <1>4. PICK c \in Call : /\ Become(p, c) /\ c.pc # "submit" /\ c.req \in {r, None}
                          /\ \A reqs, stepRows, pairs : Sound(reqs, stepRows, pairs, c)
    <2>1. call[p].todo \in SUBSET Users
      BY <1>1 DEF Call
    <2> QED
      BY <1>1, <2>1, NotifyCall DEF SubmitInsert
  <1>5. call' \in [Callers -> Call] /\ CallsSound' /\ SubmitAlone'
    BY <1>2, <1>3, <1>4, CallStep
  <1>6. RowSound(req', steps', managed', r)
    BY <1>2 DEF RowSound
  <1>7. steps' \subseteq StepRow
    BY <1>1 DEF IInv, TypeOK
  <1> QED
    BY <1>1, <1>2, <1>3, <1>5, <1>6, <1>7, RowStep

LEMMA AdvanceKeepsIInv ==
  ASSUME IInv, NEW p \in Callers, Advance(p)
  PROVE  IInv'
  <1> DEFINE r == call[p].req
             s == [req |-> r, level |-> call[p].level, action |-> "APPROVED",
                   actor |-> call[p].actor]
  <1>1. /\ call[p] \in Call /\ Sound(req, steps, managed, call[p]) /\ call[p].pc = "advance"
        /\ UNCHANGED <<manager, sent, managed, cut>> /\ steps' = steps \cup {s}
    BY DEF Advance, At, Record, IInv, TypeOK, CallsSound
  <1>2. /\ r \in RequestIds /\ req[r] # Unused /\ req[r].emp = call[p].emp /\ s \in StepRow
        /\ s.level = 1 /\ EmployeeOf[s.actor] # req[r].emp
        /\ <<EmployeeOf[s.actor], req[r].emp>> \in managed
    BY <1>1 DEF Sound, StepRow
  <1>3. /\ req' \in [RequestIds -> ReqRow] /\ \A x \in RequestIds : req'[x] = req[x] \/ x = r
        /\ req'[r].level = 2 /\ req'[r].status = "IN_REVIEW" /\ req'[r].emp = req[r].emp
        /\ req'[r] # Unused
    BY <1>2 DEF Advance, IInv, TypeOK, ReqRow, Open, Unused
  <1>4. Grow
    BY <1>1, <1>3 DEF Grow
  <1>5. PICK c \in Call : /\ Become(p, c) /\ c.pc # "submit" /\ c.req \in {r, None}
                          /\ \A reqs, stepRows, pairs : Sound(reqs, stepRows, pairs, c)
    <2>1. Owners \cup Approvers \in SUBSET Users
      BY RequestsAssumption
    <2> QED
      BY <1>2, <2>1, NotifyCall DEF Advance
  <1>6. call' \in [Callers -> Call] /\ CallsSound' /\ SubmitAlone'
    BY <1>3, <1>4, <1>5, CallStep
  <1>7. RowSound(req', steps', managed', r)
    BY <1>1, <1>2, <1>3 DEF RowSound, FirstIn
  <1>8. steps' \subseteq StepRow
    BY <1>1, <1>2 DEF IInv, TypeOK
  <1> QED
    BY <1>1, <1>2, <1>3, <1>4, <1>6, <1>7, <1>8, RowStep

LEMMA FinalizeKeepsIInv ==
  ASSUME IInv, NEW p \in Callers, Finalize(p)
  PROVE  IInv'
  <1> DEFINE r == call[p].req
             s == [req |-> r, level |-> call[p].level, action |-> call[p].action,
                   actor |-> call[p].actor]
  <1>1. /\ call[p] \in Call /\ Sound(req, steps, managed, call[p]) /\ call[p].pc = "finalize"
        /\ UNCHANGED <<manager, sent, managed, cut>> /\ steps' = steps \cup {s}
    BY DEF Finalize, At, Record, IInv, TypeOK, CallsSound
  <1>2. /\ r \in RequestIds /\ req[r] # Unused /\ req[r].emp = call[p].emp /\ s \in StepRow
        /\ EmployeeOf[s.actor] # req[r].emp /\ s.actor \in Users
        /\ s.action = "APPROVED" =>
             \/ s.actor \in Owners
             \/ s.level = 2 /\ CanFinalize(s.actor) /\ FirstIn(req, steps, managed, r)
    BY <1>1 DEF Sound, StepRow, Call
  <1>3. /\ req' \in [RequestIds -> ReqRow] /\ \A x \in RequestIds : req'[x] = req[x] \/ x = r
        /\ req'[r].level = req[r].level /\ req'[r].status = s.action
        /\ req'[r].emp = req[r].emp /\ req'[r].reviewer = s.actor /\ req'[r] # Unused
    <2>1. s.action \in Final
      BY <1>2 DEF StepRow, Final
    <2> QED
      BY <1>2, <2>1 DEF Finalize, IInv, TypeOK, ReqRow, Unused, Final
  <1>4. Grow
    BY <1>1, <1>3 DEF Grow
  <1>5. PICK c \in Call : /\ Become(p, c) /\ c.pc # "submit" /\ c.req \in {r, None}
                          /\ \A reqs, stepRows, pairs : Sound(reqs, stepRows, pairs, c)
    <2>1. /\ Accounts(call[p].emp) \in SUBSET Users
          /\ call[p].action \in {"SUBMITTED", "LEVEL2", "APPROVED", "REJECTED"}
      BY <1>1 DEF Accounts, Call
    <2> QED
      BY <1>2, <2>1, NotifyCall DEF Finalize
  <1>6. call' \in [Callers -> Call] /\ CallsSound' /\ SubmitAlone'
    BY <1>3, <1>4, <1>5, CallStep
  <1>7. RowSound(req, steps, managed, r)
    BY <1>2, RowSoundIsInvariant DEF IInv, RowsSound
  <1>8. FirstIn(req, steps, managed, r) => FirstIn(req', steps', managed', r)
    BY <1>2, <1>4, FirstLevelStays
  <1>9. s \in steps' /\ s.req = r
    BY <1>1
  <1> HIDE DEF s
  <1>10. RowSound(req', steps', managed', r)
    BY <1>2, <1>3, <1>7, <1>8, <1>9 DEF RowSound
  <1>11. steps' \subseteq StepRow
    BY <1>1, <1>2 DEF IInv, TypeOK
  <1> QED
    BY <1>1, <1>2, <1>3, <1>4, <1>6, <1>10, <1>11, RowStep

LEMMA CancelUpdateKeepsIInv ==
  ASSUME IInv, NEW p \in Callers, CancelUpdate(p)
  PROVE  IInv'
  <1> DEFINE r == call[p].req
  <1>1. /\ r \in RequestIds /\ req[r] # Unused
        /\ UNCHANGED <<manager, steps, sent, managed, cut>> /\ Return(p)
    BY DEF CancelUpdate, At, IInv, CallsSound, Sound
  <1>2. /\ req' \in [RequestIds -> ReqRow] /\ \A x \in RequestIds : req'[x] = req[x] \/ x = r
        /\ req'[r].level = req[r].level /\ req'[r].status = "CANCELLED"
        /\ req'[r].emp = req[r].emp /\ req'[r] # Unused
    BY <1>1 DEF CancelUpdate, IInv, TypeOK, ReqRow, Unused, Final
  <1>3. Grow
    BY <1>1, <1>2 DEF Grow
  <1>4. call' \in [Callers -> Call] /\ CallsSound' /\ SubmitAlone'
    BY <1>1, <1>2, <1>3, IdleSound, CallStep DEF Return
  <1>5. RowSound(req, steps, managed, r)
    BY <1>1, RowSoundIsInvariant DEF IInv, RowsSound
  <1>6. RowSound(req', steps', managed', r)
    BY <1>1, <1>2, <1>5 DEF RowSound, FirstIn
  <1>7. steps' \subseteq StepRow
    BY <1>1 DEF IInv, TypeOK
  <1> QED
    BY <1>1, <1>2, <1>3, <1>4, <1>6, <1>7, RowStep

LEMMA EnvironmentKeepsIInv ==
  ASSUME IInv, Environment
  PROVE  IInv'
  <1>1. PICK e \in Employees, m \in Employees \cup {None} : SetManager(e, m)
    BY DEF Environment
  <1>2. /\ manager' \in [Employees -> Employees \cup {None}] /\ managed \subseteq managed'
        /\ UNCHANGED <<req, steps, sent, call, cut>>
    BY <1>1 DEF SetManager, IInv, TypeOK
  <1>3. ManagersManaged'
    BY <1>1, <1>2 DEF SetManager, ManagersManaged, IInv, TypeOK
  <1>4. Grow
    BY <1>2 DEF Grow
  <1>5. CallsSound' /\ SubmitAlone'
    BY <1>2, <1>4, SoundStays DEF IInv, TypeOK, CallsSound, SubmitAlone
  <1>6. (LevelTwoApproved /\ TwoLevelApproval /\ ReviewerDecided)'
    <2>1. RowsSound
      BY RowSoundIsInvariant DEF IInv
    <2>2. RowsSound'
      BY <1>2, <2>1 DEF RowsSound, RowSound, FirstIn
    <2> QED
      BY <2>2, RowSoundIsInvariant, PTL
  <1> QED
    BY <1>2, <1>3, <1>5, <1>6 DEF IInv, TypeOK

LEMMA NextKeepsIInv == IInv /\ [Next]_vars => IInv'
  <1> SUFFICES ASSUME IInv, [Next]_vars
               PROVE  IInv'
    OBVIOUS
  <1>1. CASE UNCHANGED vars
    BY <1>1 DEF vars, IInv, TypeOK, CallsSound, SubmitAlone, ManagersManaged, LevelTwoApproved,
                TwoLevelApproval, ReviewerDecided, FirstLevel, ApprovedBy, StepsOf
  <1>2. CASE Environment
    BY <1>2, EnvironmentKeepsIInv
  <1>3. ASSUME NEW p \in Callers, Begin(p)
        PROVE  IInv'
    BY <1>3, SubmitBeginKeepsIInv, ReviewBeginKeepsIInv, CancelBeginKeepsIInv DEF Begin
  <1>4. ASSUME NEW p \in Callers, Proceed(p)
        PROVE  IInv'
    BY <1>4, SubmitInsertKeepsIInv, AuthorizeKeepsIInv, AdvanceKeepsIInv, FinalizeKeepsIInv,
       CancelUpdateKeepsIInv, NotifyOneKeepsIInv DEF Proceed
  <1>5. ASSUME NEW p \in Callers, Abort(p)
        PROVE  IInv'
    <2>1. UNCHANGED <<manager, req, steps, managed>> /\ sent' \subseteq NoteRow
        /\ cut' \subseteq RequestIds
      BY <1>5 DEF Abort, At, IInv, TypeOK, CallsSound, Sound
    <2> QED
      BY <1>5, <2>1, IdleSound, QuietStep DEF Abort, Return
  <1> QED
    BY <1>1, <1>2, <1>3, <1>4, <1>5 DEF Next

\* The inductive invariant behind the theorems below.
THEOREM RequestsIInv == Spec => []IInv
  BY InitIInv, NextKeepsIInv, PTL DEF Spec

\* Rows and calls are always well formed.
THEOREM RequestsTypeOK == Spec => []TypeOK
  <1>1. IInv => TypeOK
    BY DEF IInv
  <1> QED
    BY <1>1, RequestsIInv, PTL

\* No interleaving of approvals, rejections, cancellations and changes of
\* manager approves a request without its two levels, or an owner.
THEOREM RequestsTwoLevelApproval == Spec => []TwoLevelApproval
  <1>1. IInv => TwoLevelApproval
    BY DEF IInv
  <1> QED
    BY <1>1, RequestsIInv, PTL

\* The reviewer named by a decided request took that decision.
THEOREM RequestsReviewerDecided == Spec => []ReviewerDecided
  <1>1. IInv => ReviewerDecided
    BY DEF IInv
  <1> QED
    BY <1>1, RequestsIInv, PTL

-----------------------------------------------------------------------------
(* Notifications.                                                          *)

\* A handler begins by reading.
LEMMA BeginRows ==
  ASSUME NEW p \in Callers, Begin(p)
  PROVE  UNCHANGED <<req, steps, sent, cut>> /\ call[p].pc = "idle" /\ \E c : Become(p, c)
  <1>1. PICK u \in Users, r \in RequestIds :
          \/ \E e \in Employees : SubmitBegin(p, u, r, e)
          \/ \E action \in {"APPROVED", "REJECTED"} : ReviewBegin(p, u, r, action)
          \/ CancelBegin(p, u, r)
    BY DEF Begin
  <1>2. ASSUME NEW e \in Employees, SubmitBegin(p, u, r, e)
        PROVE  UNCHANGED <<req, steps, sent, cut>> /\ call[p].pc = "idle" /\ \E c : Become(p, c)
    BY <1>2, Zenon DEF SubmitBegin, At
  <1>3. ASSUME NEW action \in {"APPROVED", "REJECTED"}, ReviewBegin(p, u, r, action)
        PROVE  UNCHANGED <<req, steps, sent, cut>> /\ call[p].pc = "idle" /\ \E c : Become(p, c)
    BY <1>3, Zenon DEF ReviewBegin, At
  <1>4. CASE CancelBegin(p, u, r)
    BY <1>4, Zenon DEF CancelBegin, At
  <1> QED
    BY <1>1, <1>2, <1>3, <1>4

Coming(calls, r, u, type) ==
    \E p \in Callers : /\ calls[p].req = r /\ calls[p].pc = "notify" /\ calls[p].type = type
                       /\ u \in calls[p].todo

\* Whoever has an account has been told of a decision, or a call in flight is to,
\* unless a call that told of it was cut short.
ToldOf(r) ==
    req[r].status \in Decisions /\ r \notin cut =>
        \A u \in Accounts(req[r].emp) :
            [req |-> r, user |-> u, type |-> req[r].status] \in sent \/ Coming(call, r, u, req[r].status)

\* Steps of a call that is not sending leave what others send.
LEMMA ToldStays ==
  ASSUME NEW p \in Callers, NEW r \in RequestIds, ToldOf(r), req'[r] = req[r], sent \subseteq sent',
         cut \subseteq cut', call[p].pc # "notify", \A q \in Callers \ {p} : call'[q] = call[q]
  PROVE  ToldOf(r)'
  <1>1. ASSUME NEW u, Coming(call, r, u, req[r].status)
        PROVE  Coming(call', r, u, req'[r].status)
    BY <1>1 DEF Coming
  <1> QED
    BY <1>1 DEF ToldOf

LEMMA NotifyComes ==
  ASSUME IInv, NEW p \in Callers, NEW type, NEW users \in SUBSET Users, Notify(p, type, users)
  PROVE  /\ \A q \in Callers \ {p} : call'[q] = call[q]
         /\ \A u \in users : Coming(call', call[p].req, u, type)
  <1>1. call \in [Callers -> Call] /\ call[p] \in Call
    BY DEF IInv, TypeOK
  <1>2. CASE users = {}
    BY <1>1, <1>2 DEF Notify, Return, Become
  <1>3. CASE users # {}
    <2>1. call' = [call EXCEPT ![p] = [call[p] EXCEPT !.pc = "notify", !.type = type, !.todo = users]]
      BY <1>3 DEF Notify, Become
    <2>2. call'[p].req = call[p].req /\ call'[p].pc = "notify" /\ call'[p].type = type
          /\ call'[p].todo = users
      BY <1>1, <2>1 DEF Call
    <2> QED
      BY <1>1, <2>1, <2>2 DEF Coming
  <1> QED
    BY <1>2, <1>3

LEMMA ToldStep ==
  ASSUME IInv, \A r \in RequestIds : ToldOf(r), [Next]_vars
  PROVE  \A r \in RequestIds : ToldOf(r)'
  <1> SUFFICES ASSUME NEW r \in RequestIds PROVE ToldOf(r)'
    OBVIOUS
  <1>t. /\ req \in [RequestIds -> ReqRow] /\ call \in [Callers -> Call]
        /\ \A p \in Callers : call[p] \in Call /\ Sound(req, steps, managed, call[p])
    BY DEF IInv, TypeOK, CallsSound
  <1>1. ASSUME NEW p \in Callers, Begin(p) \/ Authorize(p)
        PROVE  ToldOf(r)'
    <2>1. UNCHANGED <<req, sent, cut>> /\ call[p].pc # "notify" /\ \E c : Become(p, c)
      BY <1>1, BeginRows DEF Authorize, At, Goto, Return
    <2>2. \A q \in Callers \ {p} : call'[q] = call[q]
      BY <1>t, <2>1 DEF Become
    <2> QED
      BY <2>1, <2>2, ToldStays
  <1>2. ASSUME NEW p \in Callers, SubmitInsert(p) \/ Advance(p) \/ CancelUpdate(p)
        PROVE  ToldOf(r)'
    <2>1. /\ UNCHANGED <<sent, cut>> /\ call[p].pc # "notify"
          /\ call[p].req \in RequestIds /\ call[p].todo \in SUBSET Users
          /\ Owners \cup Approvers \in SUBSET Users
      BY <1>2, <1>t, RequestsAssumption DEF SubmitInsert, Advance, CancelUpdate, At, Sound, Call
    <2>2. \A q \in Callers \ {p} : call'[q] = call[q]
      BY <1>2, <1>t, <2>1, NotifyComes DEF SubmitInsert, Advance, CancelUpdate, Return, Become
    <2>3. CASE r # call[p].req
      <3>1. req'[r] = req[r]
        BY <1>2, <1>t, <2>3 DEF SubmitInsert, Advance, CancelUpdate
      <3> QED
        BY <2>1, <2>2, <3>1, ToldStays
    <2>4. CASE r = call[p].req
      <3>1. req'[r].status \in {"PENDING", "IN_REVIEW", "CANCELLED"}
        BY <1>2, <1>t, <2>4 DEF SubmitInsert, Advance, CancelUpdate, ReqRow, Unused
      <3> QED
        BY <3>1 DEF ToldOf
    <2> QED
      BY <2>3, <2>4
  <1>3. ASSUME NEW p \in Callers, Finalize(p)
        PROVE  ToldOf(r)'
    <2>1. /\ UNCHANGED <<sent, cut>> /\ call[p].pc # "notify" /\ call[p].req \in RequestIds
          /\ req[call[p].req].emp = call[p].emp /\ req[call[p].req] # Unused
          /\ Accounts(call[p].emp) \in SUBSET Users /\ call[p].action \in {"APPROVED", "REJECTED"}
      BY <1>3, <1>t DEF Finalize, At, Sound, Call, Accounts
    <2>2. /\ \A q \in Callers \ {p} : call'[q] = call[q]
          /\ \A u \in Accounts(call[p].emp) : Coming(call', call[p].req, u, call[p].action)
      BY <1>3, <2>1, NotifyComes DEF Finalize
    <2>3. CASE r # call[p].req
      <3>1. req'[r] = req[r]
        BY <1>3, <1>t, <2>3 DEF Finalize
      <3> QED
        BY <2>1, <2>2, <3>1, ToldStays
    <2>4. CASE r = call[p].req
      <3>1. req'[r].status = call[p].action /\ req'[r].emp = call[p].emp
        BY <1>3, <1>t, <2>1, <2>4 DEF Finalize, ReqRow, Unused
      <3>2. Accounts(req'[r].emp) = Accounts(call[p].emp)
        BY <3>1
      <3>3. \A u \in Accounts(req'[r].emp) : Coming(call', r, u, req'[r].status)
        BY <2>2, <2>4, <3>1, <3>2 DEF Coming
      <3> QED
        BY <3>3 DEF ToldOf, Accounts
    <2> QED
      BY <2>3, <2>4
  <1>4. ASSUME NEW p \in Callers, NotifyOne(p)
        PROVE  ToldOf(r)'
    <2>1. PICK v \in call[p].todo :
            /\ sent' = sent \cup {[req |-> call[p].req, user |-> v, type |-> call[p].type]}
            /\ Notify(p, call[p].type, call[p].todo \ {v})
      BY <1>4 DEF NotifyOne
    <2>2. UNCHANGED <<req, cut>> /\ call[p].pc = "notify" /\ call[p].todo \ {v} \in SUBSET Users
      BY <1>4, <1>t DEF NotifyOne, At, Call
    <2>3. /\ \A q \in Callers \ {p} : call'[q] = call[q]
          /\ \A u \in call[p].todo \ {v} : Coming(call', call[p].req, u, call[p].type)
      BY <2>1, <2>2, NotifyComes
    <2>4. ASSUME NEW u, NEW type, Coming(call, r, u, type)
          PROVE  [req |-> r, user |-> u, type |-> type] \in sent' \/ Coming(call', r, u, type)
      <3>1. PICK q \in Callers : /\ call[q].req = r /\ call[q].pc = "notify" /\ call[q].type = type
                                 /\ u \in call[q].todo
        BY <2>4 DEF Coming
      <3>2. CASE q # p
        BY <2>3, <3>1, <3>2 DEF Coming
      <3>3. CASE q = p /\ u = v
        BY <2>1, <3>1, <3>3
      <3>4. CASE q = p /\ u # v
        BY <2>3, <3>1, <3>4
      <3> QED
        BY <3>2, <3>3, <3>4
    <2> QED
      BY <2>1, <2>2, <2>4 DEF ToldOf
  <1>5. CASE UNCHANGED vars \/ Environment
    <2>1. UNCHANGED <<req, sent, call, cut>>
      BY <1>5 DEF vars, Environment, SetManager
    <2> QED
      BY <2>1 DEF ToldOf, Coming
  <1>6. ASSUME NEW p \in Callers, Abort(p)
        PROVE  ToldOf(r)'
    <2>1. UNCHANGED <<req, sent>> /\ cut \subseteq cut' /\ Return(p)
      BY <1>6 DEF Abort
    <2>2. \A q \in Callers \ {p} : call'[q] = call[q]
      BY <1>t, <2>1 DEF Return, Become
    <2>3. CASE call[p].pc # "notify"
      BY <2>1, <2>2, <2>3, ToldStays
    <2>4. CASE call[p].pc = "notify" /\ call[p].type \in Decisions /\ call[p].req = r
      <3>1. r \in cut'
        BY <1>6, <2>4 DEF Abort, At
      <3> QED
        BY <3>1 DEF ToldOf
    <2>5. CASE ~(call[p].type \in Decisions /\ call[p].req = r)
      <3>1. ASSUME NEW u, req[r].status \in Decisions, Coming(call, r, u, req[r].status)
            PROVE  Coming(call', r, u, req[r].status)
        BY <2>2, <2>5, <3>1 DEF Coming
      <3> QED
        BY <2>1, <3>1 DEF ToldOf
    <2> QED
      BY <2>3, <2>4, <2>5
  <1> QED
    BY <1>1, <1>2, <1>3, <1>4, <1>5, <1>6 DEF Next, Proceed

\* An employee with an account hears of the decision that stands, however many
\* reviews overlap and whatever is decided twice, unless a call was cut short while
\* it told of a decision (finalize and the notification that follows it).
THEOREM RequestsOutcomeNotified == Spec => []OutcomeNotified
  <1> DEFINE Told == \A r \in RequestIds : ToldOf(r)
  <1>1. Init => Told
    BY DEF Init, ToldOf, Unused
  <1>2. IInv /\ Told /\ [Next]_vars => Told'
    BY ToldStep
  <1>3. Told => OutcomeNotified
    BY DEF ToldOf, Coming, OutcomeNotified
  <1> HIDE DEF Told
  <1> QED
    BY <1>1, <1>2, <1>3, RequestsIInv, PTL DEF Spec
=============================================================================
