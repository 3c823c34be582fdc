---------------------------- MODULE SeatsProofs -----------------------------
(***************************************************************************)
(* The seat cap and the allowances of the policy, for any number of        *)
(* employees, of creations in flight and of benefits.                      *)
(*                                                                         *)
(* A creation that has found a free seat holds a promise.  The employees   *)
(* that are active, those brought back left out, and the promises together *)
(* stay below the largest cap plus the number of callers: a promise is     *)
(* given only while the active employees are below a cap that was read,    *)
(* and an insertion turns one promise into one employee.                   *)
(*                                                                         *)
(* An employee that the syncs got to is paid each allowance as the policy  *)
(* says, or the one sync that runs has still to set it.  Where syncs        *)
(* overlap, the components of a name and the syncs that have found none     *)
(* stay together within the number of calls.                                *)
(***************************************************************************)
EXTENDS Benefits, FiniteSetTheorems, WellFoundedInduction, TLAPS

Promised == {c \in Callers : seat[c].pc = "free"}
Counted == active \ back

\* What each creation has read is no more than the largest cap.
ReadBelow == \A c \in Callers : seat[c].pc # "idle" => seat[c].cap <= highest

PromisesBounded ==
    Cardinality(Counted) + Cardinality(Promised) < highest + Cardinality(Callers)

Inv == SeatsTypeOK /\ ReadBelow /\ PromisesBounded

\* The sets that are counted are finite.
LEMMA FiniteSets_ == ASSUME SeatsTypeOK
    PROVE  /\ IsFiniteSet(Counted) /\ Cardinality(Counted) \in Nat
           /\ Cardinality(active) \in Nat /\ Cardinality(Counted) <= Cardinality(active)
           /\ IsFiniteSet(Promised) /\ Cardinality(Promised) \in Nat
           /\ Cardinality(Promised) <= Cardinality(Callers)
           /\ Cardinality(Callers) \in Nat
  <1>1. active \subseteq Employees /\ Counted \subseteq active BY DEF SeatsTypeOK, Counted
  <1>2. IsFiniteSet(active) /\ IsFiniteSet(Counted) /\ Cardinality(Counted) <= Cardinality(active)
    BY <1>1, FS_Subset, SeatsAssumption
  <1>3. Promised \subseteq Callers BY DEF Promised
  <1>4. IsFiniteSet(Promised) /\ Cardinality(Promised) <= Cardinality(Callers)
    BY <1>3, FS_Subset, SeatsAssumption
  <1> QED BY <1>2, <1>4, FS_CardinalityType, SeatsAssumption

\* Rows and creations are well formed, whatever is in flight.
LEMMA SeatsTypeStep == SeatsTypeOK /\ [SeatsNext]_seatVars => SeatsTypeOK'
  <1> SUFFICES ASSUME SeatsTypeOK, [SeatsNext]_seatVars PROVE SeatsTypeOK' OBVIOUS
  <1> USE SeatsAssumption DEF SeatsTypeOK, NoSeat
  <1>1. ASSUME NEW c \in Callers, ReadLimit(c) PROVE SeatsTypeOK' BY <1>1 DEF ReadLimit
  <1>2. ASSUME NEW c \in Callers, CountActive(c) PROVE SeatsTypeOK' BY <1>2 DEF CountActive
  <1>3. ASSUME NEW c \in Callers, CreateFails(c) PROVE SeatsTypeOK' BY <1>3 DEF CreateFails
  <1>4. ASSUME NEW c \in Callers, NEW e \in Employees, Insert(c, e) PROVE SeatsTypeOK' BY <1>4 DEF Insert
  <1>5. ASSUME NEW e \in Employees, Deactivate(e) PROVE SeatsTypeOK' BY <1>5 DEF Deactivate
  <1>6. ASSUME NEW e \in Employees, Activate(e) PROVE SeatsTypeOK' BY <1>6 DEF Activate
  <1>7. ASSUME NEW S \in SUBSET Employees, RemoveEmployees(S) PROVE SeatsTypeOK' BY <1>7 DEF RemoveEmployees
  <1>8. CASE ChangePlan
    <2>1. cap' \in Nat /\ cap' \in Caps BY <1>8 DEF ChangePlan
    <2>2. highest' \in Nat /\ cap' <= highest' BY <1>8, <2>1 DEF ChangePlan
    <2> QED BY <1>8, <2>1, <2>2 DEF ChangePlan
  <1>9. CASE UNCHANGED seatVars BY <1>9 DEF seatVars
  <1> QED BY <1>1, <1>2, <1>3, <1>4, <1>5, <1>6, <1>7, <1>8, <1>9 DEF SeatsNext

\* Rows and creations are well formed (the employees, the cap, assertCanAddEmployee).
THEOREM SeatsTyped == SeatsSpec => []SeatsTypeOK
  <1>1. SeatsInit => SeatsTypeOK BY SeatsAssumption DEF SeatsInit, SeatsTypeOK, NoSeat
  <1> QED BY <1>1, SeatsTypeStep, PTL DEF SeatsSpec

\* The largest cap only grows, and what is read is at most it.
LEMMA ReadBelowStep == SeatsTypeOK /\ ReadBelow /\ [SeatsNext]_seatVars => ReadBelow'
  <1> SUFFICES ASSUME SeatsTypeOK, ReadBelow, [SeatsNext]_seatVars PROVE ReadBelow' OBVIOUS
  <1> USE SeatsAssumption DEF SeatsTypeOK, ReadBelow, NoSeat
  <1>1. ASSUME NEW c \in Callers, ReadLimit(c) PROVE ReadBelow' BY <1>1 DEF ReadLimit
  <1>2. ASSUME NEW c \in Callers, CountActive(c) PROVE ReadBelow' BY <1>2 DEF CountActive
  <1>3. ASSUME NEW c \in Callers, CreateFails(c) PROVE ReadBelow' BY <1>3 DEF CreateFails
  <1>4. ASSUME NEW c \in Callers, NEW e \in Employees, Insert(c, e) PROVE ReadBelow' BY <1>4 DEF Insert
  <1>5. ASSUME NEW e \in Employees, Deactivate(e) \/ Activate(e) PROVE ReadBelow' BY <1>5 DEF Deactivate, Activate
  <1>6. ASSUME NEW S \in SUBSET Employees, RemoveEmployees(S) PROVE ReadBelow' BY <1>6 DEF RemoveEmployees
  <1>7. CASE ChangePlan
    <2>1. highest' \in Nat /\ highest <= highest' /\ seat' = seat BY <1>7 DEF ChangePlan
    <2> QED BY <2>1
  <1>8. CASE UNCHANGED seatVars BY <1>8 DEF seatVars
  <1> QED BY <1>1, <1>2, <1>3, <1>4, <1>5, <1>6, <1>7, <1>8 DEF SeatsNext

\* An insertion turns a promise into an employee.
LEMMA InsertKeeps == ASSUME Inv, NEW c \in Callers, NEW e \in Employees, Insert(c, e)
                     PROVE  PromisesBounded'
  <1> USE DEF Inv
  <1>1. c \in Promised /\ Promised' = Promised \ {c}
    BY DEF Insert, Promised, NoSeat, SeatsTypeOK
  <1>2. Cardinality(Promised') = Cardinality(Promised) - 1
    BY <1>1, FiniteSets_, FS_RemoveElement
  <1>3. Cardinality(Counted') = Cardinality(Counted) + 1
    <2>1. e \notin Counted /\ Counted' = Counted \cup {e}
      BY DEF Insert, SeatsTypeOK, Counted
    <2> QED BY <2>1, FiniteSets_, FS_AddElement
  <1>4. highest' = highest BY DEF Insert
  <1> QED BY <1>2, <1>3, <1>4, FiniteSets_ DEF PromisesBounded, SeatsTypeOK

\* A promise is given while there are fewer employees than a cap.
LEMMA CountKeeps == ASSUME Inv, NEW c \in Callers, CountActive(c) PROVE PromisesBounded'
  <1> USE DEF Inv
  <1>0. SeatsTypeOK' BY SeatsTypeStep DEF SeatsNext
  <1>1. Counted' = Counted /\ highest' = highest BY DEF CountActive, Counted
  <1>2. CASE Cardinality(active) >= seat[c].cap
    <2>1. Promised' = Promised
      BY <1>2 DEF CountActive, Promised, NoSeat, SeatsTypeOK
    <2> QED BY <2>1, <1>1 DEF PromisesBounded
  <1>3. CASE ~(Cardinality(active) >= seat[c].cap)
    <2>1. seat[c].cap <= highest /\ seat[c].cap \in Nat /\ highest \in Nat
      BY DEF CountActive, ReadBelow, SeatsTypeOK
    <2>2. Cardinality(Counted) < highest BY <1>3, <2>1, FiniteSets_
    <2>3. Cardinality(Promised') \in Nat /\ Cardinality(Promised') <= Cardinality(Callers)
      <3>1. Promised' \subseteq Callers BY DEF Promised
      <3> QED BY <3>1, FS_Subset, FS_CardinalityType, SeatsAssumption
    <2> QED BY <1>1, <2>1, <2>2, <2>3, FiniteSets_ DEF PromisesBounded
  <1> QED BY <1>2, <1>3

\* Every other step counts no more employees and no more promises.
LEMMA PromisesStep == Inv /\ [SeatsNext]_seatVars => PromisesBounded'
  <1> SUFFICES ASSUME Inv, [SeatsNext]_seatVars PROVE PromisesBounded' OBVIOUS
  <1> USE DEF Inv
  <1>0. /\ highest \in Nat /\ Cardinality(Counted) \in Nat /\ Cardinality(Promised) \in Nat
        /\ Cardinality(Callers) \in Nat
    BY FiniteSets_ DEF SeatsTypeOK
  <1>a. ASSUME Counted' \subseteq Counted, Promised' \subseteq Promised, highest' = highest
        PROVE  PromisesBounded'
    <2>1. Cardinality(Counted') \in Nat /\ Cardinality(Counted') <= Cardinality(Counted)
      BY <1>a, FiniteSets_, FS_Subset, FS_CardinalityType
    <2>2. Cardinality(Promised') \in Nat /\ Cardinality(Promised') <= Cardinality(Promised)
      BY <1>a, FiniteSets_, FS_Subset, FS_CardinalityType
    <2> QED BY <1>0, <1>a, <2>1, <2>2 DEF PromisesBounded
  <1>1. ASSUME NEW c \in Callers, ReadLimit(c) PROVE PromisesBounded'
    BY <1>1, <1>a DEF ReadLimit, Counted, Promised, SeatsTypeOK
  <1>2. ASSUME NEW c \in Callers, CreateFails(c) PROVE PromisesBounded'
    BY <1>2, <1>a DEF CreateFails, Counted, Promised, SeatsTypeOK, NoSeat
  <1>3. ASSUME NEW e \in Employees, Deactivate(e) PROVE PromisesBounded'
    BY <1>3, <1>a DEF Deactivate, Counted, Promised
  <1>4. ASSUME NEW e \in Employees, Activate(e) PROVE PromisesBounded'
    BY <1>4, <1>a DEF Activate, Promised, Counted
  <1>5. ASSUME NEW S \in SUBSET Employees, RemoveEmployees(S) PROVE PromisesBounded'
    BY <1>5, <1>a DEF RemoveEmployees, Counted, Promised
  <1>6. CASE ChangePlan
    <2>1. highest' \in Nat /\ highest <= highest'
      BY <1>6, <1>0, SeatsAssumption DEF ChangePlan
    <2>2. Counted' = Counted /\ Promised' = Promised BY <1>6 DEF ChangePlan, Promised, Counted
    <2> QED BY <1>0, <2>1, <2>2 DEF PromisesBounded
  <1>7. CASE UNCHANGED seatVars BY <1>7, <1>a DEF seatVars, Counted, Promised
  <1> QED BY <1>1, <1>2, <1>3, <1>4, <1>5, <1>6, <1>7, InsertKeeps, CountKeeps DEF SeatsNext

\* For any employees, callers and plans: the active employees that were not brought
\* back exceed the largest cap by less than the creations in flight.
THEOREM SeatsStayBounded == SeatsSpec => []SeatsBounded
  <1>1. SeatsInit => Inv
    <2> SUFFICES ASSUME SeatsInit PROVE Inv OBVIOUS
    <2>1. SeatsTypeOK /\ ReadBelow
      BY SeatsAssumption DEF SeatsInit, SeatsTypeOK, ReadBelow, NoSeat
    <2>2. Counted = {} /\ Promised = {} BY DEF SeatsInit, Promised, Counted, NoSeat
    <2>3. Cardinality(Callers) \in Nat /\ Cardinality(Callers) # 0
      BY SeatsAssumption, FS_CardinalityType, FS_EmptySet
    <2> QED BY <2>1, <2>2, <2>3, FS_EmptySet DEF Inv, PromisesBounded, SeatsTypeOK
  <1>2. Inv /\ [SeatsNext]_seatVars => Inv'
    BY SeatsTypeStep, ReadBelowStep, PromisesStep DEF Inv
  <1>3. Inv => SeatsBounded
    BY FiniteSets_ DEF Inv, PromisesBounded, SeatsBounded, SeatsTypeOK, Counted
  <1> QED BY <1>1, <1>2, <1>3, PTL DEF SeatsSpec

-----------------------------------------------------------------------------
(* Allowances *)

SyncRows ==
    [pc : {"idle", "read", "list", "next", "find", "apply"}, scope : SUBSET Employees,
     want : [Names -> Amounts \cup {None}], todo : SUBSET Employees,
     emp : Employees \cup {None}, name : Names, found : 0 .. Lost]

\* What a sync has found is still there, or it knows that it is gone.
FoundStays ==
    \A s \in Syncs : sync[s].pc = "apply" /\ sync[s].found \in 1 .. Slots =>
        sync[s].found \in Components(sync[s].emp, sync[s].name)

BenefitsTyped == SeatsTypeOK /\ BenefitsTypeOK /\ sync \in [Syncs -> SyncRows] /\ FoundStays

\* The numbers there are.
LEMMA Numbers ==
    /\ 1 \in Names /\ None \notin Amounts /\ Lost \notin 1 .. Slots /\ None \notin 1 .. Slots
    /\ None \in 0 .. Lost /\ Lost \in 0 .. Lost /\ 1 .. Slots \subseteq 0 .. Lost
    /\ \A n \in Names : n < Kinds => n + 1 \in Names
    /\ \A n \in Names : n < Kinds \/ n = Kinds
  BY BenefitsAssumption DEF Names, None, Lost

LEMMA NoSyncTyped == NoSync \in SyncRows /\ NoSync.pc = "idle" /\ NoRows \in [Names -> [1 .. Slots -> Amounts \cup {None}]]
  BY Numbers DEF NoSync, SyncRows, NoRows

\* A free slot of a name.
LEMMA FreeSlot == ASSUME NEW e, NEW n, Unused(e, n) # {} PROVE Min(Unused(e, n)) \in Unused(e, n)
  <1>1. Unused(e, n) \subseteq Nat BY BenefitsAssumption DEF Unused
  <1>2. PICK i \in Unused(e, n) : \A j \in Unused(e, n) : <<j, i>> \notin OpToRel(<, Nat)
    BY <1>1, NatLessThanWellFounded, WFMin, Zenon
  <1>3. \A j \in Unused(e, n) : i <= j
    <2> SUFFICES ASSUME NEW j \in Unused(e, n), j < i PROVE FALSE BY <1>1
    <2>1. i \in Nat /\ j \in Nat BY <1>1
    <2> QED BY <1>2, <2>1, Zenon DEF OpToRel
  <1> QED BY <1>3 DEF Min

LEMMA FurtherTyped == ASSUME NEW y \in SyncRows, y.emp \in Employees
                      PROVE  /\ Further(y) \in SyncRows /\ Further(y).pc # "apply"
                             /\ Further(y).pc = "find" => Further(y).emp \in Employees
  BY Numbers, NoSyncTyped DEF Further, SyncRows, NoSync

\* What a write does: it takes a slot that was found or is free, or there was nothing
\* to do.
LEMMA ApplyCases ==
    ASSUME NEW s \in Syncs, sync \in [Syncs -> SyncRows], Apply(s)
    PROVE  \/ \E k \in 1 .. Slots : Wrote(s, k, sync[s].want[sync[s].name]) /\ sync[s].found = k
           \/ \E k \in 1 .. Slots :
                /\ Wrote(s, k, sync[s].want[sync[s].name]) /\ sync[s].want[sync[s].name] # None
                /\ sync[s].found = None /\ sync[s].emp \in active \cup retired
                /\ k \in Unused(sync[s].emp, sync[s].name)
           \/ /\ sync[s].found = None /\ sync[s].want[sync[s].name] = None
              /\ sync' = [sync EXCEPT ![s] = Further(sync[s])]
              /\ missed' = IF sync[s].name = Kinds THEN missed \ {sync[s].emp} ELSE missed
              /\ UNCHANGED <<seatVars, policy, rows, byHand>>
  <1> DEFINE y == sync[s]
             a == y.want[y.name]
  <1>1. y.found \in 0 .. Lost /\ y.found # Lost BY DEF SyncRows, Apply
  <1>2. CASE y.found # None /\ Wrote(s, y.found, a)
    <2>1. y.found \in 1 .. Slots BY <1>1, <1>2, BenefitsAssumption DEF None, Lost
    <2> QED BY <1>2, <2>1
  <1>3. CASE /\ y.found = None /\ a # None /\ y.emp \in active \cup retired
             /\ Unused(y.emp, y.name) # {} /\ Wrote(s, Min(Unused(y.emp, y.name)), a)
    <2>1. Min(Unused(y.emp, y.name)) \in Unused(y.emp, y.name) BY <1>3, FreeSlot
    <2>2. Unused(y.emp, y.name) \subseteq 1 .. Slots BY DEF Unused
    <2> QED BY <1>3, <2>1, <2>2
  <1>4. CASE /\ y.found = None /\ a = None
             /\ sync' = [sync EXCEPT ![s] = Further(y)]
             /\ missed' = IF y.name = Kinds THEN missed \ {y.emp} ELSE missed
             /\ UNCHANGED <<seatVars, policy, rows, byHand>>
    BY <1>4
  <1>5. Apply(s) BY DEF Apply
  <1> QED BY <1>2, <1>3, <1>4, <1>5 DEF Apply

\* Rows and syncs are well formed after every step.
LEMMA BenefitsTypedStep ==
    ASSUME BenefitsTyped, [BenefitsNext]_<<seatVars, benefitVars>> PROVE BenefitsTyped'
  <1> USE BenefitsAssumption DEF BenefitsTyped
  <1>1. ASSUME NEW c \in Callers, NEW e \in Employees, Hire(c, e) PROVE BenefitsTyped'
    <2>1. SeatsTypeOK' BY <1>1, SeatsTypeStep DEF Hire, SeatsNext
    <2>2. sync' \in [Syncs -> SyncRows]
      BY <1>1, NoSyncTyped DEF Hire, Start, SyncRows
    <2>3. BenefitsTypeOK'
      BY <1>1, NoSyncTyped DEF Hire, Insert, Start, SyncRows, BenefitsTypeOK, SeatsTypeOK
    <2>4. FoundStays'
      BY <1>1 DEF Hire, Insert, Start, SyncRows, FoundStays, Components, Unused, BenefitsTypeOK, SeatsTypeOK, NoRows
    <2> QED BY <2>1, <2>2, <2>3, <2>4
  <1>2. ASSUME NEW s \in Syncs \ Callers, NEW n \in Names, NEW a \in Amounts \cup {None}, UpdatePolicy(s, n, a)
        PROVE  BenefitsTyped'
    <2>1. SeatsTypeOK' BY <1>2, SeatsTypeStep DEF UpdatePolicy
    <2>2. sync' \in [Syncs -> SyncRows]
      BY <1>2, NoSyncTyped DEF UpdatePolicy, Start, SyncRows
    <2>3. BenefitsTypeOK'
      BY <1>2, NoSyncTyped DEF UpdatePolicy, Start, SyncRows, BenefitsTypeOK, seatVars
    <2>4. FoundStays'
      BY <1>2 DEF UpdatePolicy, Start, SyncRows, FoundStays, Components, Unused
    <2> QED BY <2>1, <2>2, <2>3, <2>4
  <1>3. ASSUME NEW s \in Syncs, SyncRead(s) PROVE BenefitsTyped'
    <2>1. SeatsTypeOK' BY <1>3, SeatsTypeStep DEF SyncRead
    <2>2. sync' \in [Syncs -> SyncRows]
      <3>1. [sync[s] EXCEPT !.pc = "list", !.want = policy] \in SyncRows BY DEF SyncRows, BenefitsTypeOK
      <3>2. sync' = [sync EXCEPT ![s] = [sync[s] EXCEPT !.pc = "list", !.want = policy]] BY <1>3 DEF SyncRead
      <3> QED BY <3>1, <3>2
    <2>3. BenefitsTypeOK' BY <1>3 DEF SyncRead, SyncRows, BenefitsTypeOK, seatVars
    <2>4. FoundStays' BY <1>3 DEF SyncRead, SyncRows, FoundStays, Components, Unused
    <2> QED BY <2>1, <2>2, <2>3, <2>4
  <1>4. ASSUME NEW s \in Syncs, SyncList(s) PROVE BenefitsTyped'
    <2>1. SeatsTypeOK' BY <1>4, SeatsTypeStep DEF SyncList
    <2>2. sync' \in [Syncs -> SyncRows]
      BY <1>4, NoSyncTyped DEF SyncList, SyncRows, BenefitsTypeOK
    <2>3. BenefitsTypeOK' BY <1>4, NoSyncTyped DEF SyncList, SyncRows, BenefitsTypeOK, seatVars
    <2>4. FoundStays' BY <1>4, NoSyncTyped DEF SyncList, SyncRows, FoundStays, Components, Unused
    <2> QED BY <2>1, <2>2, <2>3, <2>4
  <1>5. ASSUME NEW s \in Syncs, NEW e \in Employees, SyncNext(s, e) PROVE BenefitsTyped'
    <2>1. SeatsTypeOK' BY <1>5, SeatsTypeStep DEF SyncNext
    <2>2. sync' \in [Syncs -> SyncRows]
      <3> DEFINE y == [sync[s] EXCEPT !.pc = "find", !.todo = @ \ {e}, !.emp = e, !.name = 1]
      <3>1. y \in SyncRows BY Numbers DEF SyncRows
      <3>2. sync' = [sync EXCEPT ![s] = y] BY <1>5 DEF SyncNext
      <3> QED BY <3>1, <3>2
    <2>3. BenefitsTypeOK' BY <1>5 DEF SyncNext, SyncRows, BenefitsTypeOK, seatVars
    <2>4. FoundStays' BY <1>5 DEF SyncNext, SyncRows, FoundStays, Components, Unused
    <2> QED BY <2>1, <2>2, <2>3, <2>4
  <1>6. ASSUME NEW s \in Syncs, Find(s) PROVE BenefitsTyped'
    <2>0. PICK k \in 0 .. Lost :
            /\ k = None \/ k \in Components(sync[s].emp, sync[s].name)
            /\ sync' = [sync EXCEPT ![s].pc = "apply", ![s].found = k]
      BY <1>6, Numbers DEF Find, Components
    <2>1. SeatsTypeOK' BY <1>6, SeatsTypeStep DEF Find
    <2>2. sync' \in [Syncs -> SyncRows] BY <2>0 DEF SyncRows
    <2>3. BenefitsTypeOK' BY <1>6, <2>0 DEF Find, SyncRows, BenefitsTypeOK, seatVars
    <2>4. FoundStays' BY <1>6, <2>0, Numbers DEF Find, SyncRows, FoundStays, Components, Unused
    <2> QED BY <2>1, <2>2, <2>3, <2>4
  <1>7. ASSUME NEW s \in Syncs, NEW k \in 1 .. Slots, Wrote(s, k, sync[s].want[sync[s].name]), sync[s].pc = "apply",
               \/ sync[s].found = k
               \/ sync[s].emp \in active \cup retired /\ k \in Unused(sync[s].emp, sync[s].name)
        PROVE  BenefitsTyped'
    <2> DEFINE a == sync[s].want[sync[s].name]
    <2>0. sync[s] \in SyncRows /\ sync[s].emp \in Employees /\ sync[s].name \in Names /\ a \in Amounts \cup {None}
      BY <1>7 DEF BenefitsTypeOK, SyncRows
    <2>1. SeatsTypeOK' BY <1>7, SeatsTypeStep DEF Wrote
    <2>2. /\ sync'[s] = Further(sync[s])
          /\ \A r \in Syncs \ {s} : sync'[r] =
               IF sync[r].pc = "apply" /\ sync[r].found \in 1 .. Slots /\ a = None
                  /\ sync[r].emp = sync[s].emp /\ sync[r].name = sync[s].name /\ sync[r].found = k
               THEN [sync[r] EXCEPT !.found = Lost] ELSE sync[r]
          /\ sync' = [r \in Syncs |-> sync'[r]]
      BY <1>7, <2>0, FurtherTyped DEF Wrote, Forget
    <2> HIDE DEF a
    <2>3. sync' \in [Syncs -> SyncRows]
      <3>1. sync'[s] \in SyncRows BY <2>0, <2>2, FurtherTyped
      <3>2. ASSUME NEW r \in Syncs \ {s} PROVE sync'[r] \in SyncRows
        BY <2>2, Numbers DEF SyncRows
      <3>3. \A r \in Syncs : sync'[r] \in SyncRows BY <3>1, <3>2
      <3> QED BY <2>2, <3>3
    <2>4. rows' = [rows EXCEPT ![sync[s].emp][sync[s].name][k] = a] /\ UNCHANGED <<seatVars, policy, byHand>>
          /\ missed' \subseteq missed
      BY <1>7 DEF Wrote, a
    <2>5. sync[s].emp \in active \cup retired
      BY <1>7, <2>0 DEF FoundStays, Components, Unused, BenefitsTypeOK, NoRows
    <2>6. BenefitsTypeOK'
      <3>1. rows' \in [Employees -> [Names -> [1 .. Slots -> Amounts \cup {None}]]]
        BY <2>0, <2>4 DEF BenefitsTypeOK
      <3>2. \A e \in Employees \ (active \cup retired)' : rows'[e] = NoRows
        BY <2>4, <2>5 DEF BenefitsTypeOK, seatVars
      <3>3. ASSUME NEW r \in Syncs, sync'[r].pc \in {"find", "apply"} PROVE sync'[r].emp \in Employees
        <4>1. CASE r = s BY <2>0, <2>2, <3>3, <4>1, FurtherTyped
        <4>2. CASE r # s
          <5>1. sync[r] \in SyncRows BY <3>3
          <5>2. sync'[r].pc = sync[r].pc /\ sync'[r].emp = sync[r].emp BY <2>2, <4>2, <5>1 DEF SyncRows
          <5> QED BY <3>3, <5>2 DEF BenefitsTypeOK
        <4> QED BY <4>1, <4>2
      <3> QED BY <2>4, <3>1, <3>2, <3>3 DEF BenefitsTypeOK, seatVars
    <2>7. FoundStays'
      <3> SUFFICES ASSUME NEW r \in Syncs, sync'[r].pc = "apply", sync'[r].found \in 1 .. Slots
                   PROVE  rows'[sync'[r].emp][sync'[r].name][sync'[r].found] # None
        BY DEF FoundStays, Components, Unused
      <3>1. r # s BY <2>0, <2>2, FurtherTyped
      <3>2. sync'[r] = sync[r]
        BY <2>2, <3>1, Numbers DEF SyncRows
      <3>3. rows[sync[r].emp][sync[r].name][sync[r].found] # None /\ sync[r].emp \in Employees /\ sync[r].name \in Names
        BY <3>2 DEF FoundStays, Components, Unused, BenefitsTypeOK, SyncRows
      <3>4. ~(a = None /\ sync[r].emp = sync[s].emp /\ sync[r].name = sync[s].name /\ sync[r].found = k)
        BY <2>2, <3>1, <3>2, Numbers DEF SyncRows
      <3> QED BY <2>0, <2>4, <3>2, <3>3, <3>4 DEF BenefitsTypeOK
    <2> QED BY <2>1, <2>3, <2>6, <2>7
  <1>8. ASSUME NEW s \in Syncs, sync[s].pc = "apply",
               sync' = [sync EXCEPT ![s] = Further(sync[s])],
               missed' \subseteq missed, UNCHANGED <<seatVars, policy, rows, byHand>>
        PROVE  BenefitsTyped'
    <2>0. sync[s] \in SyncRows /\ sync[s].emp \in Employees
      BY <1>8 DEF BenefitsTypeOK, SyncRows
    <2>1. SeatsTypeOK' BY <1>8, SeatsTypeStep
    <2>2. sync' \in [Syncs -> SyncRows] BY <1>8, <2>0, FurtherTyped
    <2>3. BenefitsTypeOK' BY <1>8, <2>0, FurtherTyped DEF BenefitsTypeOK, seatVars
    <2>4. FoundStays' BY <1>8, <2>0, FurtherTyped DEF FoundStays, Components, Unused
    <2> QED BY <2>1, <2>2, <2>3, <2>4
  <1>9. ASSUME NEW s \in Syncs, Apply(s) PROVE BenefitsTyped'
    <2>1. sync[s].pc = "apply" BY <1>9 DEF Apply
    <2> QED BY <1>7, <1>8, <1>9, <2>1, ApplyCases
  <1>10. ASSUME NEW s \in Syncs, SyncStops(s) PROVE BenefitsTyped'
    <2>1. SeatsTypeOK' BY <1>10, SeatsTypeStep DEF SyncStops
    <2>2. sync' \in [Syncs -> SyncRows] BY <1>10, NoSyncTyped DEF SyncStops
    <2>3. BenefitsTypeOK' BY <1>10, NoSyncTyped DEF SyncStops, SyncRows, BenefitsTypeOK, seatVars
    <2>4. FoundStays' BY <1>10, NoSyncTyped DEF SyncStops, FoundStays, Components, Unused
    <2> QED BY <2>1, <2>2, <2>3, <2>4
  <1>11. ASSUME NEW e \in Employees, NEW n \in Names, NEW k \in 1 .. Slots, NEW a \in Amounts \cup {None},
                SetComponent(e, n, k, a)
         PROVE  BenefitsTyped'
    <2>1. SeatsTypeOK' BY <1>11, SeatsTypeStep DEF SetComponent
    <2>2. \A r \in Syncs : sync'[r] =
               IF sync[r].pc = "apply" /\ sync[r].found \in 1 .. Slots /\ a = None
                  /\ sync[r].emp = e /\ sync[r].name = n /\ sync[r].found = k
               THEN [sync[r] EXCEPT !.found = Lost] ELSE sync[r]
      BY <1>11 DEF SetComponent, Forget
    <2>3. sync' \in [Syncs -> SyncRows]
      <3>1. sync' = [r \in Syncs |-> sync'[r]] BY <1>11 DEF SetComponent, Forget
      <3> QED BY <2>2, <3>1, Numbers DEF SyncRows
    <2>4. rows' = [rows EXCEPT ![e][n][k] = a] /\ UNCHANGED <<seatVars, policy, missed>>
          /\ byHand' = byHand \cup {e} /\ e \in active \cup retired
      BY <1>11 DEF SetComponent
    <2>6. BenefitsTypeOK'
      <3>1. rows' \in [Employees -> [Names -> [1 .. Slots -> Amounts \cup {None}]]]
        BY <2>4 DEF BenefitsTypeOK
      <3>2. \A x \in Employees \ (active \cup retired)' : rows'[x] = NoRows
        BY <2>4 DEF BenefitsTypeOK, seatVars
      <3>3. \A r \in Syncs : sync'[r].pc \in {"find", "apply"} => sync'[r].emp \in Employees
        BY <2>2 DEF BenefitsTypeOK, SyncRows
      <3> QED BY <2>4, <3>1, <3>2, <3>3 DEF BenefitsTypeOK, seatVars
    <2>7. FoundStays'
      <3> SUFFICES ASSUME NEW r \in Syncs, sync'[r].pc = "apply", sync'[r].found \in 1 .. Slots
                   PROVE  rows'[sync'[r].emp][sync'[r].name][sync'[r].found] # None
        BY DEF FoundStays, Components, Unused
      <3>2. sync'[r] = sync[r]
        BY <2>2, Numbers DEF SyncRows
      <3>3. rows[sync[r].emp][sync[r].name][sync[r].found] # None /\ sync[r].emp \in Employees /\ sync[r].name \in Names
        BY <3>2 DEF FoundStays, Components, Unused, BenefitsTypeOK, SyncRows
      <3>4. ~(a = None /\ sync[r].emp = e /\ sync[r].name = n /\ sync[r].found = k)
        BY <2>2, <3>2, Numbers DEF SyncRows
      <3> QED BY <2>4, <3>2, <3>3, <3>4 DEF BenefitsTypeOK
    <2> QED BY <2>1, <2>3, <2>6, <2>7
  <1>12. ASSUME NEW S \in SUBSET Employees, Leaves(S) PROVE BenefitsTyped'
    <2>1. SeatsTypeOK' BY <1>12, SeatsTypeStep DEF Leaves, SeatsNext
    <2>2. /\ \A r \in Syncs : sync'[r] =
               IF sync[r].pc = "apply" /\ sync[r].found \in 1 .. Slots /\ sync[r].emp \in S
               THEN [sync[r] EXCEPT !.found = Lost] ELSE sync[r]
          /\ sync' = [r \in Syncs |-> sync'[r]]
      BY <1>12 DEF Leaves, Forget
    <2>3. sync' \in [Syncs -> SyncRows] BY <2>2, Numbers DEF SyncRows
    <2>4. BenefitsTypeOK'
      BY <1>12, <2>2, NoSyncTyped DEF Leaves, RemoveEmployees, BenefitsTypeOK, SyncRows
    <2>5. FoundStays'
      <3> SUFFICES ASSUME NEW r \in Syncs, sync'[r].pc = "apply", sync'[r].found \in 1 .. Slots
                   PROVE  rows'[sync'[r].emp][sync'[r].name][sync'[r].found] # None
        BY DEF FoundStays, Components, Unused
      <3>1. sync'[r] = sync[r] BY <2>2, Numbers DEF SyncRows
      <3>2. rows[sync[r].emp][sync[r].name][sync[r].found] # None /\ sync[r].emp \in Employees
        BY <3>1 DEF FoundStays, Components, Unused, BenefitsTypeOK
      <3>3. sync[r].emp \notin S BY <2>2, <3>1, Numbers DEF SyncRows
      <3>4. rows'[sync[r].emp] = rows[sync[r].emp] BY <1>12, <3>2, <3>3 DEF Leaves
      <3> QED BY <3>1, <3>2, <3>4
    <2> QED BY <2>1, <2>3, <2>4, <2>5
  <1>13. CASE SeatStep
    <2>1. SeatsTypeOK' BY <1>13, SeatsTypeStep DEF SeatStep, SeatsNext
    <2>2. UNCHANGED benefitVars /\ active' \cup retired' = active \cup retired
      BY <1>13 DEF SeatStep, ReadLimit, CountActive, CreateFails, Deactivate, Activate, ChangePlan
    <2> QED BY <2>1, <2>2 DEF benefitVars, BenefitsTypeOK, FoundStays, Components, Unused
  <1>14. CASE UNCHANGED <<seatVars, benefitVars>>
    <2>1. SeatsTypeOK' BY <1>14, SeatsTypeStep
    <2> QED BY <1>14, <2>1 DEF seatVars, benefitVars, BenefitsTypeOK, FoundStays, Components, Unused
  <1> QED
    BY <1>1, <1>2, <1>3, <1>4, <1>5, <1>6, <1>9, <1>10, <1>11, <1>12, <1>13, <1>14 DEF BenefitsNext

-----------------------------------------------------------------------------
(* Syncs that do not overlap *)

OneSync == \A r, s \in Syncs : sync[r] # NoSync /\ sync[s] # NoSync => r = s

\* Where a sync found no component there is none, unless an administrator added it.
FoundNone ==
    \A s \in Syncs : sync[s].pc = "apply" /\ sync[s].found = None /\ sync[s].emp \notin byHand =>
        Components(sync[s].emp, sync[s].name) = {}

OneComponent ==
    \A e \in Employees \ byHand, n \in Names : \A j, k \in Components(e, n) : j = k

Paid(e, n) ==
    IF policy[n] = None THEN Components(e, n) = {}
    ELSE \E k \in 1 .. Slots : Components(e, n) = {k} /\ rows[e][n][k] = policy[n]

\* The sync y has still to set the component n of e.
Pending(y, e, n) ==
    \/ y.pc \in {"read", "list"} /\ e \in y.scope
    \/ y.pc \in {"next", "find", "apply"} /\ e \in y.todo
    \/ y.pc \in {"find", "apply"} /\ e = y.emp /\ n >= y.name

Employed == (active \cup retired) \ byHand
PaidOrPending ==
    \A e \in Employed \ missed, n \in Names : Paid(e, n) \/ \E s \in Syncs : Pending(sync[s], e, n)
PaidSoFar ==
    \A s \in Syncs : sync[s].pc \in {"find", "apply"} /\ sync[s].emp \in Employed =>
        \A n \in Names : n < sync[s].name => Paid(sync[s].emp, n)
WantsPolicy ==
    \A s \in Syncs : sync[s].pc \in {"list", "next", "find", "apply"} => sync[s].want = policy

AloneInv == OneSync /\ FoundNone /\ OneComponent /\ PaidOrPending /\ PaidSoFar /\ WantsPolicy

\* While one sync runs the others rest.
LEMMA OthersRest ==
    ASSUME OneSync, NEW s \in Syncs, sync[s] # NoSync \/ sync[s].pc # "idle"
    PROVE  sync[s] # NoSync /\ \A r \in Syncs \ {s} : sync[r] = NoSync
  BY NoSyncTyped DEF OneSync

LEMMA RestPends == ASSUME NEW e, NEW n PROVE ~Pending(NoSync, e, n)
  BY NoSyncTyped DEF Pending

\* A component that is set, and the next name, employee, or the end.
LEMMA FurtherKeeps ==
    ASSUME BenefitsTyped, AloneInv, NEW s \in Syncs, sync[s].pc = "apply",
           sync'[s] = Further(sync[s]), \A r \in Syncs \ {s} : sync'[r] = NoSync,
           missed' = IF sync[s].name = Kinds THEN missed \ {sync[s].emp} ELSE missed,
           UNCHANGED <<seatVars, policy, byHand>>,
           \A e \in Employees, n \in Names :
               e # sync[s].emp \/ n # sync[s].name => (Paid(e, n) => Paid(e, n)'),
           \A e \in Employed, n \in Names : e = sync[s].emp /\ n = sync[s].name => Paid(e, n)',
           OneComponent'
    PROVE  AloneInv'
  <1> DEFINE y == sync[s]
  <1> USE DEF AloneInv, BenefitsTyped
  <1>1. y \in SyncRows /\ y.emp \in Employees /\ y.name \in Names /\ y.name \in Nat /\ Kinds \in Nat
    BY BenefitsAssumption DEF BenefitsTypeOK, SyncRows, Names
  <1>2. y.want = policy BY DEF WantsPolicy
  <1>3. \A r \in Syncs \ {s} : sync[r] = NoSync
    <2>1. sync[s].pc # "idle" OBVIOUS
    <2> QED BY <2>1, OthersRest
  <1>4. Employed' = Employed BY DEF Employed, seatVars
  <1>5. OneSync' BY DEF OneSync
  <1>6. FoundNone' BY <1>1, FurtherTyped, NoSyncTyped DEF FoundNone
  <1>7. \A e \in Employed, n \in Names :
          (e \notin missed => Paid(e, n) \/ Pending(y, e, n))
          /\ (e = y.emp /\ n < y.name => Paid(e, n))
    BY <1>3, RestPends DEF PaidOrPending, PaidSoFar
  <1>8. CASE y.name < Kinds
    <2>1. /\ sync'[s] = [y EXCEPT !.pc = "find", !.name = y.name + 1, !.found = None] /\ missed' = missed
          /\ sync'[s].pc = "find" /\ sync'[s].emp = y.emp /\ sync'[s].todo = y.todo
          /\ sync'[s].name = y.name + 1 /\ sync'[s].want = y.want
      BY <1>1, <1>8 DEF Further, SyncRows
    <2>2. WantsPolicy'
      <3> SUFFICES ASSUME NEW r \in Syncs, sync'[r].pc # "idle" PROVE sync'[r].want = policy
        BY DEF WantsPolicy
      <3>1. r = s BY NoSyncTyped
      <3>2. sync'[s].want = policy BY <1>2, <2>1
      <3> QED BY <3>1, <3>2
    <2>3. PaidSoFar'
      <3> SUFFICES ASSUME NEW e \in Employed, NEW n \in Names, e = y.emp, n < y.name + 1 PROVE Paid(e, n)'
        BY <1>4, <2>1, NoSyncTyped DEF PaidSoFar
      <3>1. n \in Nat /\ (n < y.name \/ n = y.name) BY <1>1 DEF Names
      <3> QED BY <1>1, <1>7, <3>1
    <2>4. PaidOrPending'
      <3> SUFFICES ASSUME NEW e \in Employed \ missed, NEW n \in Names
                   PROVE  Paid(e, n)' \/ Pending(sync'[s], e, n)
        BY <1>4, <2>1 DEF PaidOrPending, Pending
      <3>1. e \in Employees BY DEF Employed, SeatsTypeOK
      <3>2. n \in Nat BY DEF Names
      <3>3. CASE e # y.emp \/ n # y.name
        <4>1. Paid(e, n) \/ Pending(y, e, n) BY <1>7
        <4>2. e = y.emp /\ n >= y.name => n >= y.name + 1 BY <1>1, <3>2, <3>3
        <4>3. y.pc = "apply" OBVIOUS
        <4>4. Pending(y, e, n) => Pending(sync'[s], e, n) BY <2>1, <4>2, <4>3 DEF Pending
        <4> QED BY <3>1, <3>3, <4>1, <4>4
      <3>4. CASE e = y.emp /\ n = y.name BY <3>4
      <3> QED BY <3>3, <3>4
    <2> QED BY <1>5, <1>6, <2>2, <2>3, <2>4
  <1>9. CASE ~(y.name < Kinds)
    <2>1. y.name = Kinds /\ missed' = missed \ {y.emp} BY <1>1, <1>9, Numbers
    <2>2. /\ sync'[s].pc \in {"next", "idle"} 
          /\ y.todo = {} \/ (sync'[s].pc = "next" /\ sync'[s].todo = y.todo /\ sync'[s].want = y.want)
          /\ sync'[s].pc = "next" => sync'[s].want = y.want
      BY <1>1, <1>9, NoSyncTyped DEF Further, SyncRows
    <2>3. WantsPolicy' BY <1>2, <2>2, NoSyncTyped DEF WantsPolicy
    <2>4. PaidSoFar' BY <2>2, NoSyncTyped DEF PaidSoFar
    <2>5. PaidOrPending'
      <3> SUFFICES ASSUME NEW e \in Employed \ missed', NEW n \in Names
                   PROVE  Paid(e, n)' \/ Pending(sync'[s], e, n)
        BY <1>4 DEF PaidOrPending, Pending
      <3>1. e \in Employees BY DEF Employed, SeatsTypeOK
      <3>2. n \in Nat /\ n <= y.name BY <2>1 DEF Names
      <3>3. CASE e = y.emp
        <4>1. n = y.name \/ (n < y.name /\ Paid(e, n)) BY <1>1, <1>7, <3>2, <3>3
        <4> QED BY <3>1, <3>3, <4>1
      <3>4. CASE e # y.emp
        <4>1. Paid(e, n) \/ Pending(y, e, n) BY <1>7, <2>1, <3>4
        <4>2. Pending(y, e, n) => e \in y.todo BY <3>4 DEF Pending
        <4>3. e \in y.todo => Pending(sync'[s], e, n) BY <2>2 DEF Pending
        <4> QED BY <3>1, <3>4, <4>1, <4>2, <4>3
      <3> QED BY <3>3, <3>4
    <2> QED BY <1>5, <1>6, <2>3, <2>4, <2>5
  <1> QED BY <1>8, <1>9

\* What is paid, when neither the rows nor the policy change.
LEMMA PaidStays ==
    ASSUME UNCHANGED <<rows, policy>>, NEW e, NEW n
    PROVE  Components(e, n)' = Components(e, n) /\ Paid(e, n)' = Paid(e, n)
  BY DEF Components, Unused, Paid

\* The employees before and after a step, and the only sync there is.
LEMMA Basics ==
    ASSUME BenefitsTyped, AloneInv, NEW s \in Syncs, sync[s] # NoSync \/ sync[s].pc # "idle"
    PROVE  /\ sync[s] \in SyncRows /\ sync[s] # NoSync /\ \A r \in Syncs \ {s} : sync[r] = NoSync
           /\ \A e \in Employed : e \in Employees /\ e \in active \cup retired /\ e \notin byHand
           /\ \A e \in Employed \ missed, n \in Names : Paid(e, n) \/ Pending(sync[s], e, n)
  <1>1. sync[s] # NoSync /\ \A r \in Syncs \ {s} : sync[r] = NoSync BY OthersRest DEF AloneInv
  <1>2. \A e \in Employed \ missed, n \in Names : Paid(e, n) \/ Pending(sync[s], e, n)
    BY <1>1, RestPends DEF AloneInv, PaidOrPending
  <1> QED BY <1>1, <1>2 DEF BenefitsTyped, SeatsTypeOK, Employed

\* A sync that starts: all those it is for are pending.
LEMMA StartKeeps ==
    ASSUME BenefitsTyped, AloneInv, NEW s \in Syncs, NEW S \in SUBSET Employees,
           \A r \in Syncs : sync[r] = NoSync, sync' = Start(s, S), UNCHANGED byHand,
           \A e \in Employed' : e \notin missed' /\ e \notin S =>
               e \in Employed /\ e \notin missed /\ \A n \in Names : Paid(e, n)' = Paid(e, n),
           OneComponent'
    PROVE  AloneInv'
  <1>1. /\ sync'[s].pc = "read" /\ sync'[s].scope = S
        /\ \A r \in Syncs \ {s} : sync'[r] = NoSync
    BY DEF Start, NoSync, BenefitsTyped
  <1>2. OneSync' BY <1>1 DEF OneSync
  <1>3. FoundNone' /\ PaidSoFar' /\ WantsPolicy'
    BY <1>1, NoSyncTyped DEF FoundNone, PaidSoFar, WantsPolicy
  <1>4. PaidOrPending'
    <2> SUFFICES ASSUME NEW e \in (Employed \ missed)', NEW n \in Names
                 PROVE  Paid(e, n)' \/ Pending(sync'[s], e, n)
      BY DEF PaidOrPending, Pending
    <2>1. CASE e \in S BY <1>1, <2>1 DEF Pending
    <2>2. CASE e \notin S
      <3>1. e \in Employed \ missed /\ Paid(e, n)' = Paid(e, n) BY <2>2
      <3>2. Paid(e, n) BY <3>1, RestPends DEF AloneInv, PaidOrPending
      <3> QED BY <3>1, <3>2
    <2> QED BY <2>1, <2>2
  <1> QED BY <1>2, <1>3, <1>4 DEF AloneInv

\* A step of a sync that writes no component.
LEMMA QuietKeeps ==
    ASSUME BenefitsTyped, AloneInv, NEW s \in Syncs, sync[s] # NoSync \/ sync[s].pc # "idle",
           NEW z, sync' = [sync EXCEPT ![s] = z],
           UNCHANGED <<rows, policy, byHand, active, retired>>,
           z.pc \in {"list", "next", "find", "apply"} => z.want = policy,
           z.pc \in {"find", "apply"} /\ z.emp \in Employed =>
               \A n \in Names : n < z.name => Paid(z.emp, n),
           z.pc = "apply" /\ z.found = None /\ z.emp \notin byHand => Components(z.emp, z.name) = {},
           \A e \in Employed, n \in Names : e \notin missed' /\ ~Pending(z, e, n) =>
               e \notin missed /\ ~Pending(sync[s], e, n)
    PROVE  AloneInv'
  <1>1. /\ sync'[s] = z /\ \A r \in Syncs \ {s} : sync'[r] = NoSync
        /\ Employed' = Employed
    BY Basics DEF BenefitsTyped, Employed
  <1>2. OneSync' BY <1>1 DEF OneSync
  <1>3. OneComponent' BY PaidStays DEF OneComponent, AloneInv
  <1>4. WantsPolicy'
    <2> SUFFICES ASSUME NEW r \in Syncs, sync'[r].pc \in {"list", "next", "find", "apply"}
                 PROVE  sync'[r].want = policy
      BY DEF WantsPolicy
    <2>1. r = s BY <1>1, NoSyncTyped
    <2> QED BY <1>1, <2>1
  <1>5. PaidSoFar'
    <2> SUFFICES ASSUME NEW r \in Syncs, sync'[r].pc \in {"find", "apply"},
                        NEW e \in Employed, e = sync'[r].emp, NEW n \in Names, n < sync'[r].name
                 PROVE  Paid(e, n)'
      BY <1>1 DEF PaidSoFar
    <2>1. r = s BY <1>1, NoSyncTyped
    <2>2. Paid(e, n) BY <1>1, <2>1
    <2> QED BY <2>2, PaidStays
  <1>6. FoundNone'
    <2> SUFFICES ASSUME NEW r \in Syncs, sync'[r].pc = "apply", sync'[r].found = None,
                        NEW e, e = sync'[r].emp, NEW n, n = sync'[r].name, e \notin byHand
                 PROVE  Components(e, n)' = {}
      BY DEF FoundNone
    <2>1. r = s BY <1>1, NoSyncTyped
    <2>2. Components(e, n) = {} BY <1>1, <2>1
    <2> QED BY <2>2, PaidStays
  <1>7. PaidOrPending'
    <2> SUFFICES ASSUME NEW e \in Employed, e \notin missed', NEW n \in Names, ~Pending(z, e, n)
                 PROVE  Paid(e, n)'
      BY <1>1 DEF PaidOrPending, Pending
    <2>1. e \notin missed /\ ~Pending(sync[s], e, n) OBVIOUS
    <2>2. Paid(e, n) BY <2>1, Basics
    <2> QED BY <2>2, PaidStays
  <1> QED BY <1>2, <1>3, <1>4, <1>5, <1>6, <1>7 DEF AloneInv

\* A sync sets a component that it found, or that no component had the name of.
LEMMA WriteKeeps ==
    ASSUME BenefitsTyped, AloneInv, NEW s \in Syncs, sync[s].pc = "apply", NEW k \in 1 .. Slots,
           Wrote(s, k, sync[s].want[sync[s].name]),
           \/ sync[s].found = k
           \/ sync[s].found = None /\ sync[s].want[sync[s].name] # None
    PROVE  AloneInv'
  <1> DEFINE x == sync[s].emp
             m == sync[s].name
             a == sync[s].want[sync[s].name]
  <1>1. /\ sync[s] \in SyncRows /\ sync[s].pc # "idle" /\ x \in Employees /\ m \in Names /\ k \in 1 .. Slots
        /\ a \in Amounts \cup {None}
        /\ \A r \in Syncs \ {s} : sync[r] = NoSync
    <2>1. sync[s].pc # "idle" OBVIOUS
    <2> QED BY <2>1, Basics DEF BenefitsTyped, BenefitsTypeOK, SyncRows
  <1>2. a = policy[m]
    BY DEF AloneInv, WantsPolicy
  <1>3. /\ rows' = [rows EXCEPT ![x][m][k] = a] /\ UNCHANGED <<seatVars, policy, byHand>>
        /\ missed' = IF m = Kinds THEN missed \ {x} ELSE missed
    BY DEF Wrote
  <1>4. sync'[s] = Further(sync[s]) /\ \A r \in Syncs \ {s} : sync'[r] = NoSync
    <2>1. /\ sync'[s] = Further(sync[s])
          /\ \A r \in Syncs \ {s} : sync[r].pc # "apply" => sync'[r] = sync[r]
      BY <1>1, FurtherTyped DEF Wrote, Forget, BenefitsTyped
    <2> QED BY <1>1, <2>1, NoSyncTyped
  <1>5. rows \in [Employees -> [Names -> [1 .. Slots -> Amounts \cup {None}]]]
    BY DEF BenefitsTyped, BenefitsTypeOK
  <1> HIDE DEF x, m, a
  <1>6. \A e \in Employees, n \in Names : e # x \/ n # m =>
          rows'[e][n] = rows[e][n]
    BY <1>1, <1>3, <1>5
  <1>7. \A e \in Employees, n \in Names : e # x \/ n # m =>
          Components(e, n)' = Components(e, n) /\ (Paid(e, n) => Paid(e, n)')
    BY <1>3, <1>6 DEF Components, Unused, Paid
  <1>8. x \notin byHand => \A j \in 1 .. Slots : j # k => rows[x][m][j] = None
    <2> SUFFICES ASSUME x \notin byHand, NEW j \in 1 .. Slots, j # k, rows[x][m][j] # None PROVE FALSE
      OBVIOUS
    <2>1. j \in Components(x, m) BY DEF Components, Unused
    <2>2. CASE sync[s].found = k
      <3>1. k \in Components(x, m) BY <1>1, <2>2 DEF BenefitsTyped, FoundStays, x, m
      <3> QED BY <1>1, <2>1, <3>1 DEF AloneInv, OneComponent
    <2>3. CASE sync[s].found = None
      <3>1. Components(x, m) = {} BY <1>1, <2>3 DEF AloneInv, FoundNone, x, m
      <3> QED BY <2>1, <3>1
    <2> QED BY <2>2, <2>3 DEF a, m
  <1>9. rows'[x][m][k] = a /\ \A j \in 1 .. Slots : j # k => rows'[x][m][j] = rows[x][m][j]
    <2>1. rows[x][m] \in [1 .. Slots -> Amounts \cup {None}] BY <1>1, <1>5
    <2>2. rows'[x][m] = [rows[x][m] EXCEPT ![k] = a] BY <1>1, <1>3, <1>5
    <2> QED BY <1>1, <2>1, <2>2
  <1>10. \A e \in Employees, n \in Names : e = x /\ n = m /\ e \notin byHand =>
           Components(e, n)' = (IF a = None THEN {} ELSE {k}) /\ rows'[e][n][k] = a
    BY <1>1, <1>8, <1>9 DEF Components, Unused
  <1>11. \A e \in Employed, n \in Names : e = x /\ n = m => Paid(e, n)'
    <2> SUFFICES ASSUME NEW e \in Employed, NEW n \in Names, e = x, n = m PROVE Paid(e, n)'
      OBVIOUS
    <2>1. e \in Employees /\ e \notin byHand BY <1>1 DEF Employed
    <2>2. policy'[n] = a BY <1>2, <1>3 DEF m
    <2>3. Components(e, n)' = (IF a = None THEN {} ELSE {k}) /\ rows'[e][n][k] = a BY <1>10, <2>1
    <2> QED BY <1>1, <2>2, <2>3 DEF Paid
  <1>12. OneComponent'
    <2> SUFFICES ASSUME NEW e \in Employees \ byHand, NEW n \in Names
                 PROVE  \A i, j \in Components(e, n)' : i = j
      BY <1>3 DEF OneComponent
    <2>1. CASE e = x /\ n = m BY <1>10, <2>1
    <2>2. CASE e # x \/ n # m BY <1>7, <2>2 DEF AloneInv, OneComponent
    <2> QED BY <2>1, <2>2
  <1>13. \A e \in Employees, n \in Names : e # x \/ n # m => (Paid(e, n) => Paid(e, n)') BY <1>7
  <1> QED BY <1>3, <1>4, <1>11, <1>12, <1>13, FurtherKeeps DEF x, m

\* The components of one employee, when they stay and when all of them go.
LEMMA RowStays ==
    ASSUME UNCHANGED policy, NEW e, NEW n, rows'[e] = rows[e]
    PROVE  Components(e, n)' = Components(e, n) /\ Paid(e, n)' = Paid(e, n)
  BY DEF Components, Unused, Paid
LEMMA RowGone == ASSUME NEW e, NEW n \in Names, rows'[e] = NoRows PROVE Components(e, n)' = {}
  BY DEF Components, Unused, NoRows

\* A step that does away with the components of some employees, or that makes
\* them an administrator's: those of the others stay, and a sync may have lost one.
LEMMA TouchKeeps ==
    ASSUME BenefitsTyped, AloneInv, NEW S \in SUBSET Employees,
           UNCHANGED <<policy, missed>>, byHand \subseteq byHand',
           Employed' \subseteq Employed \ S,
           \A e \in Employees \ S : rows'[e] = rows[e],
           \A e \in S : e \notin byHand' => rows'[e] = NoRows,
           \A r \in Syncs : sync'[r] = sync[r] \/ (sync[r].pc = "apply" /\ sync'[r] = [sync[r] EXCEPT !.found = Lost])
    PROVE  AloneInv'
  <1>1. \A r \in Syncs :
          /\ sync[r] = NoSync => sync'[r] = NoSync
          /\ sync'[r].pc = sync[r].pc /\ sync'[r].scope = sync[r].scope /\ sync'[r].want = sync[r].want
          /\ sync'[r].todo = sync[r].todo /\ sync'[r].emp = sync[r].emp /\ sync'[r].name = sync[r].name
          /\ sync'[r].found = None => sync[r].found = None
    <2> SUFFICES ASSUME NEW r \in Syncs
                 PROVE  /\ sync[r] = NoSync => sync'[r] = NoSync
                        /\ sync'[r].pc = sync[r].pc /\ sync'[r].scope = sync[r].scope /\ sync'[r].want = sync[r].want
                        /\ sync'[r].todo = sync[r].todo /\ sync'[r].emp = sync[r].emp /\ sync'[r].name = sync[r].name
                        /\ sync'[r].found = None => sync[r].found = None
      OBVIOUS
    <2>1. sync[r] \in SyncRows /\ Lost # None BY BenefitsAssumption DEF BenefitsTyped, Lost, None
    <2>2. CASE sync'[r] = sync[r] BY <2>2
    <2>3. CASE sync[r].pc = "apply" /\ sync'[r] = [sync[r] EXCEPT !.found = Lost]
      BY <2>1, <2>3, NoSyncTyped DEF SyncRows
    <2> QED BY <2>2, <2>3
  <1>2. \A e \in Employees \ S, n \in Names :
          Components(e, n)' = Components(e, n) /\ Paid(e, n)' = Paid(e, n)
    BY RowStays
  <1>3. \A e \in S, n \in Names : e \notin byHand' => Components(e, n)' = {}
    BY RowGone
  <1>4. OneSync' BY <1>1 DEF OneSync, AloneInv
  <1>5. FoundNone'
    <2> SUFFICES ASSUME NEW r \in Syncs, sync'[r].pc = "apply", sync'[r].found = None,
                        NEW e, e = sync'[r].emp, NEW n, n = sync'[r].name, e \notin byHand'
                 PROVE  Components(e, n)' = {}
      BY DEF FoundNone
    <2>1. e \in Employees /\ n \in Names /\ e = sync[r].emp /\ n = sync[r].name
          /\ sync[r].pc = "apply" /\ sync[r].found = None
      BY <1>1 DEF BenefitsTyped, BenefitsTypeOK, SyncRows
    <2>2. e \notin byHand OBVIOUS
    <2>3. Components(e, n) = {} BY <2>1, <2>2 DEF AloneInv, FoundNone
    <2> QED BY <1>2, <1>3, <2>1, <2>3
  <1>6. OneComponent'
    <2> SUFFICES ASSUME NEW e \in Employees, e \notin byHand', NEW n \in Names
                 PROVE  \A i, j \in Components(e, n)' : i = j
      BY DEF OneComponent
    <2>1. CASE e \in S BY <1>3, <2>1
    <2>2. CASE e \notin S BY <1>2, <2>2 DEF AloneInv, OneComponent
    <2> QED BY <2>1, <2>2
  <1>7. PaidOrPending'
    <2> SUFFICES ASSUME NEW e \in Employed', e \notin missed, NEW n \in Names
                 PROVE  Paid(e, n)' \/ \E r \in Syncs : Pending(sync'[r], e, n)
      BY DEF PaidOrPending, Pending
    <2>1. e \in Employed /\ e \in Employees \ S BY DEF BenefitsTyped, SeatsTypeOK, Employed
    <2>2. CASE Paid(e, n) BY <1>2, <2>1, <2>2
    <2>3. CASE \E r \in Syncs : Pending(sync[r], e, n) BY <1>1, <2>3 DEF Pending
    <2> QED BY <2>1, <2>2, <2>3 DEF AloneInv, PaidOrPending
  <1>8. PaidSoFar'
    <2> SUFFICES ASSUME NEW r \in Syncs, sync'[r].pc \in {"find", "apply"},
                        NEW e \in Employed', e = sync'[r].emp, NEW n \in Names, n < sync'[r].name
                 PROVE  Paid(e, n)'
      BY DEF PaidSoFar
    <2>1. e \in Employed /\ e \in Employees \ S BY DEF BenefitsTyped, SeatsTypeOK, Employed
    <2>2. sync[r].pc \in {"find", "apply"} /\ e = sync[r].emp /\ n < sync[r].name BY <1>1
    <2>3. Paid(e, n) BY <2>1, <2>2 DEF AloneInv, PaidSoFar
    <2> QED BY <1>2, <2>1, <2>3
  <1>9. WantsPolicy' BY <1>1 DEF WantsPolicy, AloneInv
  <1> QED BY <1>4, <1>5, <1>6, <1>7, <1>8, <1>9 DEF AloneInv

\* Syncs that do not overlap keep their promises, whatever else happens.
LEMMA AloneStep ==
    ASSUME SyncAlone, BenefitsTyped, AloneInv, [BenefitsNext]_<<seatVars, benefitVars>> PROVE AloneInv'
  <1>1. ASSUME NEW c \in Callers, NEW e \in Employees, Hire(c, e) PROVE AloneInv'
    <2>1. c \in Syncs /\ \A r \in Syncs : sync[r] = NoSync BY <1>1, BenefitsAssumption DEF Hire, MayStart
    <2>2. /\ UNCHANGED <<policy, byHand, missed>> /\ sync' = Start(c, {e})
          /\ \A x \in Employees \ {e} : rows'[x] = rows[x]
          /\ rows'[e] = NoRows /\ Employed' \subseteq Employed \cup {e}
      BY <1>1 DEF Hire, Insert, Employed, BenefitsTyped, BenefitsTypeOK
    <2>3. \A x \in Employed' : x \in Employees BY <2>2 DEF Employed, BenefitsTyped, SeatsTypeOK
    <2>4. \A x \in Employees \ {e}, n \in Names :
            Components(x, n)' = Components(x, n) /\ Paid(x, n)' = Paid(x, n)
      BY <2>2, RowStays
    <2>5. \A n \in Names : Components(e, n)' = {} BY <2>2, RowGone
    <2>6. OneComponent' BY <2>2, <2>4, <2>5 DEF AloneInv, OneComponent
    <2>7. \A x \in Employed' : x \notin missed' /\ x \notin {e} =>
            x \in Employed /\ x \notin missed /\ \A n \in Names : Paid(x, n)' = Paid(x, n)
      BY <2>2, <2>3, <2>4
    <2> QED BY <2>1, <2>2, <2>6, <2>7, StartKeeps
  <1>2. ASSUME NEW s \in Syncs \ Callers, NEW n \in Names, NEW a \in Amounts \cup {None}, UpdatePolicy(s, n, a)
        PROVE  AloneInv'
    <2>1. \A r \in Syncs : sync[r] = NoSync BY <1>2 DEF UpdatePolicy, MayStart
    <2>2. sync' = Start(s, Employees) /\ UNCHANGED <<seatVars, rows, byHand>> BY <1>2 DEF UpdatePolicy
    <2>3. Employed' \subseteq Employees BY <2>2 DEF Employed, BenefitsTyped, SeatsTypeOK, seatVars
    <2>4. OneComponent' BY <2>2 DEF AloneInv, OneComponent, Components, Unused
    <2>5. \A x \in Employed' : x \notin missed' /\ x \notin Employees =>
            x \in Employed /\ x \notin missed /\ \A m \in Names : Paid(x, m)' = Paid(x, m)
      BY <2>3
    <2> QED BY <2>1, <2>2, <2>4, <2>5, StartKeeps
  <1>3. ASSUME NEW s \in Syncs, SyncRead(s) PROVE AloneInv'
    <2> DEFINE z == [sync[s] EXCEPT !.pc = "list", !.want = policy]
    <2>1. /\ sync' = [sync EXCEPT ![s] = z] /\ sync[s].pc # "idle" /\ sync[s].pc = "read"
          /\ UNCHANGED <<rows, policy, byHand, active, retired>> /\ missed' = missed
      BY <1>3 DEF SyncRead, seatVars
    <2>2. z.pc = "list" /\ z.want = policy /\ z.scope = sync[s].scope BY DEF BenefitsTyped, SyncRows
    <2>3. \A e \in Employed, m \in Names : Pending(sync[s], e, m) => Pending(z, e, m)
      BY <2>1, <2>2 DEF Pending
    <2> HIDE DEF z
    <2> QED BY <2>1, <2>2, <2>3, QuietKeeps
  <1>4. ASSUME NEW s \in Syncs, SyncList(s) PROVE AloneInv'
    <2> DEFINE S == active \cap sync[s].scope
               z == IF S = {} THEN NoSync ELSE [sync[s] EXCEPT !.pc = "next", !.todo = S]
    <2>1. /\ sync' = [sync EXCEPT ![s] = z] /\ sync[s].pc # "idle" /\ sync[s].pc = "list"
          /\ UNCHANGED <<rows, policy, byHand, active, retired>>
          /\ missed' = missed \cup (sync[s].scope \ active)
      BY <1>4 DEF SyncList, seatVars
    <2>2. /\ z.pc \in {"idle", "next"} /\ (z.pc = "next" => z.want = policy)
          /\ S # {} => z.pc = "next" /\ z.todo = S
      BY <2>1, NoSyncTyped DEF BenefitsTyped, SyncRows, AloneInv, WantsPolicy
    <2>3. \A e \in Employed, m \in Names : Pending(sync[s], e, m) => Pending(z, e, m) \/ e \in missed'
      BY <2>1, <2>2 DEF Pending
    <2>4. missed \subseteq missed' BY <2>1
    <2> HIDE DEF z
    <2> QED BY <2>1, <2>2, <2>3, <2>4, QuietKeeps
  <1>5. ASSUME NEW s \in Syncs, NEW e \in Employees, SyncNext(s, e) PROVE AloneInv'
    <2> DEFINE z == [sync[s] EXCEPT !.pc = "find", !.todo = @ \ {e}, !.emp = e, !.name = 1]
    <2>1. /\ sync' = [sync EXCEPT ![s] = z] /\ sync[s].pc # "idle" /\ sync[s].pc = "next"
          /\ UNCHANGED <<rows, policy, byHand, active, retired>> /\ missed' = missed
      BY <1>5 DEF SyncNext, seatVars
    <2>2. /\ z.pc = "find" /\ z.want = policy /\ z.todo = sync[s].todo \ {e} /\ z.emp = e /\ z.name = 1
      BY <2>1 DEF BenefitsTyped, SyncRows, AloneInv, WantsPolicy
    <2>3. \A m \in Names : m >= 1 /\ ~(m < 1) BY DEF Names
    <2>4. \A x \in Employed, m \in Names : Pending(sync[s], x, m) => Pending(z, x, m)
      BY <2>1, <2>2, <2>3 DEF Pending
    <2> HIDE DEF z
    <2> QED BY <2>1, <2>2, <2>3, <2>4, QuietKeeps
  <1>6. ASSUME NEW s \in Syncs, Find(s) PROVE AloneInv'
    <2>1. PICK k \in 0 .. Lost :
            /\ k = None => Components(sync[s].emp, sync[s].name) = {}
            /\ sync' = [sync EXCEPT ![s] = [sync[s] EXCEPT !.pc = "apply", !.found = k]]
      <3>1. Components(sync[s].emp, sync[s].name) \subseteq 1 .. Slots BY DEF Components
      <3> QED BY <1>6, <3>1, Numbers DEF Find
    <2> DEFINE z == [sync[s] EXCEPT !.pc = "apply", !.found = k]
    <2>2. /\ sync[s].pc # "idle" /\ sync[s].pc = "find" /\ missed' = missed
          /\ UNCHANGED <<rows, policy, byHand, active, retired>>
      BY <1>6 DEF Find, seatVars
    <2>3. /\ z.pc = "apply" /\ z.want = policy /\ z.todo = sync[s].todo /\ z.emp = sync[s].emp
          /\ z.name = sync[s].name /\ z.found = k
      BY <2>2 DEF BenefitsTyped, SyncRows, AloneInv, WantsPolicy
    <2>4. \A x \in Employed, m \in Names : Pending(sync[s], x, m) => Pending(z, x, m)
      BY <2>2, <2>3 DEF Pending
    <2>5. z.emp \in Employed => \A m \in Names : m < z.name => Paid(z.emp, m)
      BY <2>2, <2>3 DEF AloneInv, PaidSoFar
    <2>6. sync' = [sync EXCEPT ![s] = z] BY <2>1
    <2> HIDE DEF z
    <2> QED BY <2>1, <2>2, <2>3, <2>4, <2>5, <2>6, QuietKeeps
  <1>7. ASSUME NEW s \in Syncs, Apply(s) PROVE AloneInv'
    <2>1. sync[s].pc = "apply" /\ sync \in [Syncs -> SyncRows] BY <1>7 DEF Apply, BenefitsTyped
    <2>2. CASE /\ sync[s].found = None /\ sync[s].want[sync[s].name] = None
               /\ sync' = [sync EXCEPT ![s] = Further(sync[s])]
               /\ missed' = IF sync[s].name = Kinds THEN missed \ {sync[s].emp} ELSE missed
               /\ UNCHANGED <<seatVars, policy, rows, byHand>>
      <3>0. sync[s].pc # "idle" BY <2>1
      <3>1. sync'[s] = Further(sync[s]) /\ \A r \in Syncs \ {s} : sync'[r] = NoSync
        BY <2>1, <2>2, <3>0, Basics
      <3>2. \A e \in Employees, n \in Names :
              Paid(e, n) = Paid(e, n)' /\ Components(e, n)' = Components(e, n)
        BY <2>2, PaidStays
      <3>3. \A e \in Employed, n \in Names : e = sync[s].emp /\ n = sync[s].name => Paid(e, n)'
        <4> SUFFICES ASSUME NEW e \in Employed, NEW n \in Names, e = sync[s].emp, n = sync[s].name
                     PROVE  Paid(e, n)
          BY <3>0, <3>2, Basics
        <4>1. e \notin byHand BY DEF Employed
        <4>2. Components(e, n) = {} BY <2>1, <2>2, <4>1 DEF AloneInv, FoundNone
        <4>3. policy[n] = None BY <2>1, <2>2 DEF AloneInv, WantsPolicy
        <4> QED BY <4>2, <4>3 DEF Paid
      <3>4. OneComponent' BY <2>2, <3>2 DEF AloneInv, OneComponent
      <3> QED BY <2>1, <2>2, <3>1, <3>2, <3>3, <3>4, FurtherKeeps
    <2> QED BY <1>7, <2>1, <2>2, ApplyCases, WriteKeeps
  <1>8. ASSUME NEW s \in Syncs, SyncStops(s) PROVE AloneInv'
    <2>1. /\ sync' = [sync EXCEPT ![s] = NoSync] /\ sync[s] # NoSync
          /\ UNCHANGED <<rows, policy, byHand, active, retired>>
          /\ missed' = missed \cup IF sync[s].pc \in {"read", "list"} THEN sync[s].scope
                                   ELSE sync[s].todo \cup ({sync[s].emp} \cap Employees)
      BY <1>8 DEF SyncStops, seatVars
    <2>2. \A e \in Employed, m \in Names : Pending(sync[s], e, m) => e \in missed'
      BY <2>1, Basics DEF Pending
    <2>3. NoSync.pc = "idle" /\ \A e \in Employed, m \in Names : e \notin missed' => e \notin missed
      BY <2>1, NoSyncTyped
    <2> QED BY <2>1, <2>2, <2>3, QuietKeeps
  <1>9. ASSUME NEW e \in Employees, NEW n \in Names, NEW k \in 1 .. Slots, NEW a \in Amounts \cup {None},
               SetComponent(e, n, k, a)
        PROVE  AloneInv'
    <2>1. /\ UNCHANGED <<policy, missed>> /\ byHand \subseteq byHand' /\ Employed' \subseteq Employed \ {e}
          /\ \A x \in Employees \ {e} : rows'[x] = rows[x]
          /\ \A x \in {e} : x \notin byHand' => rows'[x] = NoRows
      BY <1>9 DEF SetComponent, Employed, seatVars, BenefitsTyped, BenefitsTypeOK
    <2>2. \A r \in Syncs : sync'[r] = sync[r] \/ (sync[r].pc = "apply" /\ sync'[r] = [sync[r] EXCEPT !.found = Lost])
      BY <1>9 DEF SetComponent, Forget
    <2>3. {e} \in SUBSET Employees OBVIOUS
    <2> QED BY <2>1, <2>2, <2>3, TouchKeeps
  <1>10. ASSUME NEW S \in SUBSET Employees, Leaves(S) PROVE AloneInv'
    <2>1. /\ UNCHANGED <<policy, missed>> /\ byHand \subseteq byHand' /\ Employed' \subseteq Employed \ S
          /\ \A x \in Employees \ S : rows'[x] = rows[x]
          /\ \A x \in S : x \notin byHand' => rows'[x] = NoRows
      BY <1>10 DEF Leaves, RemoveEmployees, Employed
    <2>2. \A r \in Syncs : sync'[r] = sync[r] \/ (sync[r].pc = "apply" /\ sync'[r] = [sync[r] EXCEPT !.found = Lost])
      BY <1>10 DEF Leaves, Forget
    <2> QED BY <2>1, <2>2, TouchKeeps
  <1>11. ASSUME UNCHANGED benefitVars, active' \cup retired' = active \cup retired PROVE AloneInv'
    <2>1. {} \in SUBSET Employees OBVIOUS
    <2>2. Employed' \subseteq Employed \ {} BY <1>11 DEF Employed, benefitVars
    <2> QED BY <1>11, <2>1, <2>2, TouchKeeps DEF benefitVars
  <1>12. CASE SeatStep
    <2>1. UNCHANGED benefitVars /\ active' \cup retired' = active \cup retired
      BY <1>12 DEF SeatStep, ReadLimit, CountActive, CreateFails, Deactivate, Activate, ChangePlan
    <2> QED BY <1>11, <2>1
  <1>13. CASE UNCHANGED <<seatVars, benefitVars>> BY <1>11, <1>13 DEF seatVars
  <1> QED
    BY <1>1, <1>2, <1>3, <1>4, <1>5, <1>6, <1>7, <1>8, <1>9, <1>10, <1>12, <1>13 DEF BenefitsNext

\* What the syncs keep from the start on.
LEMMA BenefitsInvariant ==
    BenefitsSpec => [](BenefitsTyped /\ (SyncAlone => AloneInv))
  <1> DEFINE I == BenefitsTyped /\ (SyncAlone => AloneInv)
  <1>1. ASSUME BenefitsInit PROVE I
    <2>1. SeatsTypeOK BY <1>1, SeatsAssumption DEF BenefitsInit, SeatsInit, SeatsTypeOK, NoSeat
    <2>2. sync \in [Syncs -> SyncRows] /\ \A s \in Syncs : sync[s] = NoSync /\ sync[s].pc = "idle"
      BY <1>1, NoSyncTyped DEF BenefitsInit
    <2>3. BenefitsTypeOK /\ FoundStays
      BY <1>1, <2>2, NoSyncTyped DEF BenefitsInit, BenefitsTypeOK, FoundStays
    <2>4. \A e \in Employees, n \in Names : rows[e] = NoRows /\ Components(e, n) = {} /\ Paid(e, n)
      BY <1>1 DEF BenefitsInit, Components, Unused, Paid, NoRows
    <2>5. OneSync /\ FoundNone /\ OneComponent /\ PaidSoFar /\ WantsPolicy
      BY <2>2, <2>4 DEF OneSync, FoundNone, OneComponent, PaidSoFar, WantsPolicy
    <2>6. PaidOrPending BY <2>1, <2>4 DEF PaidOrPending, Employed, SeatsTypeOK
    <2> QED BY <2>1, <2>2, <2>3, <2>5, <2>6 DEF BenefitsTyped, AloneInv
  <1>2. I /\ [BenefitsNext]_<<seatVars, benefitVars>> => I' BY BenefitsTypedStep, AloneStep
  <1> QED BY <1>1, <1>2, PTL DEF BenefitsSpec

\* Policy, components and syncs are well formed, and who is not employed has no
\* component, whatever overlaps (syncEmployeeBenefits, the deletion's cascade).
THEOREM BenefitsTypedAlways == BenefitsSpec => []BenefitsTypeOK
  <1>1. BenefitsTyped => BenefitsTypeOK BY DEF BenefitsTyped
  <1> QED BY <1>1, BenefitsInvariant, PTL

-----------------------------------------------------------------------------
(* Syncs that overlap: those that found nothing may each add a component *)

Waiting(e, n) ==
    {s \in Syncs : sync[s].pc = "apply" /\ sync[s].emp = e /\ sync[s].name = n /\ sync[s].found = None}
Bound(e, n) == Cardinality(Components(e, n)) + Cardinality(Waiting(e, n)) <= Cardinality(Syncs)
BoundedSoFar == \A e \in Employees \ byHand, n \in Names : Bound(e, n)

LEMMA LostIsSome == Lost # None BY BenefitsAssumption DEF Lost, None

LEMMA CountsAreNat ==
    ASSUME NEW e, NEW n
    PROVE  /\ IsFiniteSet(Components(e, n)) /\ IsFiniteSet(Waiting(e, n)) /\ IsFiniteSet(Syncs)
           /\ Cardinality(Components(e, n)) \in Nat /\ Cardinality(Waiting(e, n)) \in Nat
           /\ Cardinality(Syncs) \in Nat /\ Cardinality(Waiting(e, n)) <= Cardinality(Syncs)
  <1>1. IsFiniteSet(1 .. Slots) /\ IsFiniteSet(Syncs) BY FS_Interval, BenefitsAssumption
  <1>2. Components(e, n) \subseteq 1 .. Slots /\ Waiting(e, n) \subseteq Syncs BY DEF Components, Waiting
  <1> QED BY <1>1, <1>2, FS_Subset, FS_CardinalityType

\* Nothing is added and nobody new waits.
LEMMA BoundStays ==
    ASSUME NEW C, NEW D, NEW W, NEW V, C \subseteq D, W \subseteq V, IsFiniteSet(D), IsFiniteSet(V),
           Cardinality(D) + Cardinality(V) <= Cardinality(Syncs)
    PROVE  Cardinality(C) + Cardinality(W) <= Cardinality(Syncs)
  <1>1. /\ Cardinality(C) <= Cardinality(D) /\ IsFiniteSet(C)
        /\ Cardinality(W) <= Cardinality(V) /\ IsFiniteSet(W)
    BY FS_Subset
  <1>2. /\ Cardinality(C) \in Nat /\ Cardinality(D) \in Nat /\ Cardinality(W) \in Nat
        /\ Cardinality(V) \in Nat /\ Cardinality(Syncs) \in Nat
    BY <1>1, FS_CardinalityType, BenefitsAssumption
  <1> QED BY <1>1, <1>2

\* A sync that waited adds one.
LEMMA BoundMoves ==
    ASSUME NEW C, NEW D, NEW W, NEW V, NEW k, NEW s \in V, C \subseteq D \cup {k}, W \subseteq V \ {s},
           IsFiniteSet(D), IsFiniteSet(V), Cardinality(D) + Cardinality(V) <= Cardinality(Syncs)
    PROVE  Cardinality(C) + Cardinality(W) <= Cardinality(Syncs)
  <1>1. IsFiniteSet(D \cup {k}) /\ Cardinality(D \cup {k}) <= Cardinality(D) + 1
    BY FS_AddElement, FS_CardinalityType
  <1>2. IsFiniteSet(V \ {s}) /\ Cardinality(V \ {s}) = Cardinality(V) - 1
    BY FS_RemoveElement
  <1>3. /\ Cardinality(D) \in Nat /\ Cardinality(V) \in Nat /\ Cardinality(Syncs) \in Nat
        /\ Cardinality(D \cup {k}) \in Nat /\ Cardinality(V \ {s}) \in Nat
    BY <1>1, <1>2, FS_CardinalityType, BenefitsAssumption
  <1>4. Cardinality(D \cup {k}) + Cardinality(V \ {s}) <= Cardinality(Syncs) BY <1>1, <1>2, <1>3
  <1> QED BY <1>1, <1>2, <1>4, BoundStays

\* No component at all, whoever waits.
LEMMA BoundEmpty ==
    ASSUME NEW W, W \subseteq Syncs PROVE Cardinality({}) + Cardinality(W) <= Cardinality(Syncs)
  <1>1. IsFiniteSet(Syncs) /\ IsFiniteSet({}) /\ Cardinality({}) = 0 BY BenefitsAssumption, FS_EmptySet
  <1>2. Cardinality(Syncs) \in Nat BY <1>1, FS_CardinalityType
  <1>3. Cardinality({}) + Cardinality(Syncs) <= Cardinality(Syncs) BY <1>1, <1>2
  <1>4. {} \subseteq {} OBVIOUS
  <1> QED BY <1>1, <1>3, <1>4, BoundStays

\* A step that adds no component and makes nobody wait.
LEMMA LessKeeps ==
    ASSUME BoundedSoFar, byHand \subseteq byHand',
           \A e \in Employees \ byHand', n \in Names :
             \/ Components(e, n)' = {}
             \/ Components(e, n)' \subseteq Components(e, n) /\ Waiting(e, n)' \subseteq Waiting(e, n)
    PROVE  BoundedSoFar'
  <1> SUFFICES ASSUME NEW e \in Employees \ byHand', NEW n \in Names PROVE Bound(e, n)'
    BY DEF BoundedSoFar
  <1>1. Bound(e, n) BY DEF BoundedSoFar
  <1>2. Waiting(e, n)' \subseteq Syncs BY DEF Waiting
  <1>3. CASE Components(e, n)' = {} BY <1>2, <1>3, BoundEmpty DEF Bound
  <1>4. CASE Components(e, n)' \subseteq Components(e, n) /\ Waiting(e, n)' \subseteq Waiting(e, n)
    BY <1>1, <1>4, BoundStays, CountsAreNat DEF Bound
  <1> QED BY <1>3, <1>4

\* A step of one sync that leaves it waiting for nothing, and no component added.
LEMMA OneMoves ==
    ASSUME BoundedSoFar, NEW s \in Syncs, sync \in [Syncs -> SyncRows],
           \A r \in Syncs \ {s} : sync'[r] = sync[r],
           sync'[s].pc # "apply", UNCHANGED <<rows, byHand>>
    PROVE  BoundedSoFar'
  <1>1. \A e \in Employees \ byHand', n \in Names :
          Components(e, n)' \subseteq Components(e, n) /\ Waiting(e, n)' \subseteq Waiting(e, n)
    BY DEF Components, Unused, Waiting
  <1> QED BY <1>1, LessKeeps

LEMMA BoundedStep ==
    ASSUME BenefitsTyped, BoundedSoFar, [BenefitsNext]_<<seatVars, benefitVars>> PROVE BoundedSoFar'
  <1> USE DEF BenefitsTyped
  <1>1. ASSUME NEW c \in Callers, NEW e \in Employees, Hire(c, e) PROVE BoundedSoFar'
    <2>1. sync'[c].pc = "read" /\ \A r \in Syncs \ {c} : sync'[r] = sync[r]
      BY <1>1, BenefitsAssumption, NoSyncTyped DEF Hire, Start, SyncRows
    <2>2. \A x, n : Waiting(x, n)' \subseteq Waiting(x, n) BY <2>1 DEF Waiting
    <2>3. \A x \in Employees, n \in Names : Components(x, n)' = {} \/ Components(x, n)' = Components(x, n)
      BY <1>1 DEF Hire, Components, Unused, NoRows, BenefitsTypeOK
    <2>4. byHand' = byHand BY <1>1 DEF Hire
    <2> QED BY <2>2, <2>3, <2>4, LessKeeps
  <1>2. ASSUME NEW s \in Syncs \ Callers, NEW n \in Names, NEW a \in Amounts \cup {None}, UpdatePolicy(s, n, a)
        PROVE  BoundedSoFar'
    <2>1. /\ sync'[s].pc = "read" /\ \A r \in Syncs \ {s} : sync'[r] = sync[r]
          /\ UNCHANGED <<rows, byHand>>
      BY <1>2, NoSyncTyped DEF UpdatePolicy, Start, SyncRows
    <2> QED BY <2>1, OneMoves
  <1>3. ASSUME NEW s \in Syncs, SyncRead(s) PROVE BoundedSoFar'
    <2>1. /\ sync'[s].pc = "list" /\ \A r \in Syncs \ {s} : sync'[r] = sync[r]
          /\ UNCHANGED <<rows, byHand>>
      BY <1>3 DEF SyncRead, SyncRows
    <2> QED BY <2>1, OneMoves
  <1>4. ASSUME NEW s \in Syncs, SyncList(s) PROVE BoundedSoFar'
    <2>1. /\ sync'[s].pc # "apply" /\ \A r \in Syncs \ {s} : sync'[r] = sync[r]
          /\ UNCHANGED <<rows, byHand>>
      BY <1>4, NoSyncTyped DEF SyncList, SyncRows
    <2> QED BY <2>1, OneMoves
  <1>5. ASSUME NEW s \in Syncs, NEW e \in Employees, SyncNext(s, e) PROVE BoundedSoFar'
    <2>1. /\ sync'[s].pc = "find" /\ \A r \in Syncs \ {s} : sync'[r] = sync[r]
          /\ UNCHANGED <<rows, byHand>>
      BY <1>5 DEF SyncNext, SyncRows
    <2> QED BY <2>1, OneMoves
  <1>6. ASSUME NEW s \in Syncs, Find(s) PROVE BoundedSoFar'
    <2>0. PICK k : /\ k = None => Components(sync[s].emp, sync[s].name) = {}
                   /\ sync' = [sync EXCEPT ![s].pc = "apply", ![s].found = k]
      BY <1>6, Numbers DEF Find, Components
    <2>1. /\ sync'[s].found = k /\ sync'[s].emp = sync[s].emp /\ sync'[s].name = sync[s].name
          /\ \A r \in Syncs \ {s} : sync'[r] = sync[r]
      BY <2>0 DEF SyncRows
    <2>2. UNCHANGED <<rows, byHand>> BY <1>6 DEF Find
    <2>3. ASSUME NEW e \in Employees \ byHand', NEW n \in Names
          PROVE  \/ Components(e, n)' = {}
                 \/ Components(e, n)' \subseteq Components(e, n) /\ Waiting(e, n)' \subseteq Waiting(e, n)
      <3>1. Components(e, n)' = Components(e, n) BY <2>2 DEF Components, Unused
      <3>2. CASE k = None /\ e = sync[s].emp /\ n = sync[s].name BY <2>0, <3>1, <3>2
      <3>3. CASE ~(k = None /\ e = sync[s].emp /\ n = sync[s].name)
        BY <2>1, <3>1, <3>3 DEF Waiting
      <3> QED BY <3>2, <3>3
    <2> QED BY <2>2, <2>3, LessKeeps
  <1>7. ASSUME NEW s \in Syncs, Apply(s) PROVE BoundedSoFar'
    <2> DEFINE y == sync[s]
               a == y.want[y.name]
    <2>0. /\ y \in SyncRows /\ y.emp \in Employees /\ y.name \in Names /\ a \in Amounts \cup {None}
          /\ y.pc = "apply" /\ Further(y).pc # "apply"
      <3>1. y.pc = "apply" BY <1>7 DEF Apply
      <3> QED BY <3>1, FurtherTyped DEF BenefitsTypeOK, SyncRows
    <2>1. ASSUME NEW k \in 1 .. Slots, Wrote(s, k, a), y.found = k \/ (y.found = None /\ a # None)
          PROVE  BoundedSoFar'
      <3>1. rows' = [rows EXCEPT ![y.emp][y.name][k] = a] /\ byHand' = byHand BY <2>1 DEF Wrote
      <3>2. /\ sync'[s] = Further(y)
            /\ \A r \in Syncs \ {s} : sync'[r] = sync[r] \/ sync'[r] = [sync[r] EXCEPT !.found = Lost]
        BY <2>0, <2>1 DEF Wrote, Forget
      <3>3. \A e, n : Waiting(e, n)' \subseteq Waiting(e, n) \ {s}
        <4> SUFFICES ASSUME NEW e, NEW n, NEW r \in Waiting(e, n)' PROVE r \in Waiting(e, n) \ {s} OBVIOUS
        <4>1. /\ r \in Syncs /\ sync'[r].pc = "apply" /\ sync'[r].emp = e /\ sync'[r].name = n
              /\ sync'[r].found = None
          BY DEF Waiting
        <4>2. r # s BY <2>0, <3>2, <4>1
        <4>3. Lost # None BY LostIsSome
        <4>4. [sync[r] EXCEPT !.found = Lost].found = Lost BY <4>1 DEF SyncRows
        <4>5. sync'[r] = sync[r] BY <3>2, <4>1, <4>2, <4>3, <4>4
        <4> QED BY <4>1, <4>2, <4>5 DEF Waiting
      <3>4. ASSUME NEW e \in Employees, NEW n \in Names
            PROVE  IF e = y.emp /\ n = y.name THEN Components(e, n)' \subseteq Components(e, n) \cup {k}
                   ELSE Components(e, n)' = Components(e, n)
        BY <2>0, <3>1 DEF Components, Unused, BenefitsTypeOK
      <3>5. ASSUME NEW e \in Employees \ byHand', NEW n \in Names PROVE Bound(e, n)'
        <4>1. Bound(e, n) BY <3>1 DEF BoundedSoFar
        <4>2. CASE e = y.emp /\ n = y.name
          <5>1. CASE y.found = k
            <6>1. k \in Components(e, n) BY <2>0, <4>2, <5>1 DEF FoundStays
            <6>2. Components(e, n)' \subseteq Components(e, n) BY <3>4, <4>2, <6>1
            <6>3. Waiting(e, n)' \subseteq Waiting(e, n) BY <3>3
            <6> QED BY <4>1, <6>2, <6>3, BoundStays, CountsAreNat DEF Bound
          <5>2. CASE y.found = None
            <6>1. s \in Waiting(e, n) BY <2>0, <4>2, <5>2 DEF Waiting
            <6>2. Components(e, n)' \subseteq Components(e, n) \cup {k} BY <3>4, <4>2
            <6>3. Waiting(e, n)' \subseteq Waiting(e, n) \ {s} BY <3>3
            <6>4. IsFiniteSet(Components(e, n)) /\ IsFiniteSet(Waiting(e, n)) BY CountsAreNat
            <6>5. Cardinality(Components(e, n)) + Cardinality(Waiting(e, n)) <= Cardinality(Syncs)
              BY <4>1 DEF Bound
            <6>6. ASSUME NEW C, NEW W, C \subseteq Components(e, n) \cup {k}, W \subseteq Waiting(e, n) \ {s}
                  PROVE  Cardinality(C) + Cardinality(W) <= Cardinality(Syncs)
              BY <6>1, <6>4, <6>5, <6>6, BoundMoves
            <6> QED BY <6>2, <6>3, <6>6 DEF Bound
          <5> QED BY <2>1, <5>1, <5>2
        <4>3. CASE ~(e = y.emp /\ n = y.name)
          <5>1. Components(e, n)' \subseteq Components(e, n) BY <3>4, <4>3
          <5>2. Waiting(e, n)' \subseteq Waiting(e, n) BY <3>3
          <5> QED BY <4>1, <5>1, <5>2, BoundStays, CountsAreNat DEF Bound
        <4> QED BY <4>2, <4>3
      <3> QED BY <3>5 DEF BoundedSoFar
    <2>2. ASSUME sync' = [sync EXCEPT ![s] = Further(y)], UNCHANGED <<seatVars, policy, rows, byHand>>
          PROVE  BoundedSoFar'
      <3>1. sync'[s].pc # "apply" /\ \A r \in Syncs \ {s} : sync'[r] = sync[r] BY <2>0, <2>2
      <3> QED BY <2>2, <3>1, OneMoves
    <2> QED BY <1>7, <2>1, <2>2, ApplyCases
  <1>8. ASSUME NEW s \in Syncs, SyncStops(s) PROVE BoundedSoFar'
    <2>1. /\ sync'[s].pc # "apply" /\ \A r \in Syncs \ {s} : sync'[r] = sync[r]
          /\ UNCHANGED <<rows, byHand>>
      BY <1>8, NoSyncTyped DEF SyncStops
    <2> QED BY <2>1, OneMoves
  <1>9. ASSUME \A r \in Syncs : sync'[r] = sync[r] \/ sync'[r] = [sync[r] EXCEPT !.found = Lost],
               byHand \subseteq byHand',
               \A e \in Employees \ byHand' : rows'[e] = rows[e] \/ rows'[e] = NoRows
        PROVE  BoundedSoFar'
    <2>1. \A e, n : Waiting(e, n)' \subseteq Waiting(e, n)
      <3> SUFFICES ASSUME NEW e, NEW n, NEW r \in Waiting(e, n)' PROVE r \in Waiting(e, n) OBVIOUS
      <3>1. r \in Syncs /\ sync'[r].found = None BY DEF Waiting
      <3>2. [sync[r] EXCEPT !.found = Lost].found = Lost /\ Lost # None BY <3>1, LostIsSome DEF SyncRows
      <3>3. sync'[r] = sync[r] BY <1>9, <3>1, <3>2
      <3> QED BY <3>3 DEF Waiting
    <2>2. \A e \in Employees \ byHand', n \in Names : Components(e, n)' = {} \/ Components(e, n)' = Components(e, n)
      <3> SUFFICES ASSUME NEW e \in Employees \ byHand', NEW n \in Names
                   PROVE  Components(e, n)' = {} \/ Components(e, n)' = Components(e, n)
        OBVIOUS
      <3>1. CASE rows'[e] = rows[e] BY <3>1 DEF Components, Unused
      <3>2. CASE rows'[e] = NoRows BY <3>2, RowGone
      <3> QED BY <1>9, <3>1, <3>2
    <2> QED BY <1>9, <2>1, <2>2, LessKeeps
  <1>10. ASSUME NEW e \in Employees, NEW n \in Names, NEW k \in 1 .. Slots, NEW a \in Amounts \cup {None},
                SetComponent(e, n, k, a)
         PROVE  BoundedSoFar'
    <2>1. \A r \in Syncs : sync'[r] = sync[r] \/ sync'[r] = [sync[r] EXCEPT !.found = Lost]
      BY <1>10 DEF SetComponent, Forget
    <2>2. byHand' = byHand \cup {e} /\ \A x \in Employees \ {e} : rows'[x] = rows[x]
      BY <1>10 DEF SetComponent, BenefitsTypeOK
    <2> QED BY <1>9, <2>1, <2>2
  <1>11. ASSUME NEW S \in SUBSET Employees, Leaves(S) PROVE BoundedSoFar'
    <2>1. \A r \in Syncs : sync'[r] = sync[r] \/ sync'[r] = [sync[r] EXCEPT !.found = Lost]
      BY <1>11 DEF Leaves, Forget
    <2>2. byHand' = byHand /\ \A x \in Employees : rows'[x] = rows[x] \/ rows'[x] = NoRows
      BY <1>11 DEF Leaves
    <2> QED BY <1>9, <2>1, <2>2
  <1>12. ASSUME UNCHANGED benefitVars PROVE BoundedSoFar'
    BY <1>12 DEF benefitVars, BoundedSoFar, Bound, Components, Unused, Waiting
  <1>13. CASE SeatStep BY <1>12, <1>13 DEF SeatStep
  <1>14. CASE UNCHANGED <<seatVars, benefitVars>> BY <1>12, <1>14
  <1> QED
    BY <1>1, <1>2, <1>3, <1>4, <1>5, <1>6, <1>7, <1>8, <1>10, <1>11, <1>13, <1>14 DEF BenefitsNext

\* For any employees, names, amounts and calls in flight, overlapping or not: an employee
\* whose components no administrator touched has no more of a name than there are calls.
THEOREM BenefitsBounded == BenefitsSpec => []AllowancesBounded
  <1> DEFINE I == BenefitsTyped /\ BoundedSoFar
  <1>1. ASSUME BenefitsInit PROVE BoundedSoFar
    <2> SUFFICES ASSUME NEW e \in Employees, NEW n \in Names PROVE Bound(e, n) BY DEF BoundedSoFar
    <2>1. Components(e, n) = {} BY <1>1 DEF BenefitsInit, Components, Unused, NoRows
    <2>2. Waiting(e, n) \subseteq Syncs BY DEF Waiting
    <2> QED BY <2>1, <2>2, BoundEmpty DEF Bound
  <1>2. BenefitsTyped /\ BoundedSoFar /\ [BenefitsNext]_<<seatVars, benefitVars>> => BoundedSoFar'
    BY BoundedStep
  <1>3. BoundedSoFar => AllowancesBounded
    <2> SUFFICES ASSUME BoundedSoFar, NEW e \in Employees \ byHand, NEW n \in Names
                 PROVE  Cardinality(Components(e, n)) <= Cardinality(Syncs)
      BY DEF AllowancesBounded
    <2>1. Bound(e, n) BY DEF BoundedSoFar
    <2> QED BY <2>1, CountsAreNat DEF Bound
  <1> QED BY <1>1, <1>2, <1>3, BenefitsInvariant, PTL DEF BenefitsSpec

-----------------------------------------------------------------------------
\* Between syncs that do not overlap an active employee that the last one got to is
\* paid what the policy says (syncEmployeeBenefits).
THEOREM BenefitsPolicyPaid == BenefitsSpec => []PolicyIsPaid
  <1>1. ASSUME BenefitsTyped, SyncAlone => AloneInv PROVE PolicyIsPaid
    <2> SUFFICES ASSUME SyncAlone, \A s \in Syncs : sync[s] = NoSync,
                        NEW e \in active \ (byHand \cup missed), NEW n \in Names
                 PROVE  Paid(e, n)
      BY DEF PolicyIsPaid, Paid
    <2>1. e \in Employed \ missed BY DEF Employed
    <2> QED BY <1>1, <2>1, RestPends DEF AloneInv, PaidOrPending
  <1> QED BY <1>1, BenefitsInvariant, PTL
=============================================================================
