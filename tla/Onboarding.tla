----------------------------- MODULE Onboarding -----------------------------
(***************************************************************************)
(* The setup wizard of one new owner: the step, the completion and the     *)
(* billing state the server keeps (backend/src/modules/onboarding, plans   *)
(* and the registration of auth), the browser's draft and local step       *)
(* (frontend/src/lib/onboarding/draft.ts), and, tab by tab, the page shown,*)
(* the user AuthProvider holds and the handler that runs                   *)
(* (frontend/src/app/(onboarding), components/onboarding/onboarding-guard).*)
(*                                                                         *)
(* A step of the database is named by its route (DB_TO_ROUTE).  A handler  *)
(* is a script of calls and local statements; a call that fails throws the *)
(* rest away, as the catch of the page does.  A tab runs one handler at a  *)
(* time.  Sessions do not expire here (module Sessions).                   *)
(***************************************************************************)
EXTENDS Naturals, Sequences

CONSTANTS
    Tabs,
    None,
    MaxFaults,     \* bound: calls that the network loses
    MaxDetours     \* bound: times that the owner leaves the main button

ASSUME OnboardingAssumption == MaxFaults \in Nat /\ MaxDetours \in Nat

VARIABLES
    step,       \* users.onboardingStep, by its route
    completed,  \* users.onboardingCompletedAt is set
    billing,    \* companies.subscriptionStatus
    chosen,     \* history: start-trial or subscribe has succeeded
    local,      \* localStorage: najaz_onboarding_step
    draft,      \* localStorage: which parts of the draft there are
    page,       \* tab -> the page it is on
    user,       \* tab -> AuthProvider's user: its step, or "done", or none
    ready,      \* tab -> OnboardingGuard has let a page through
    effect,     \* tab -> which effects of the page are still to run
    bag,        \* tab -> sessionStorage: a plan picked, a payment made
    script,     \* tab -> what is left of the handler that runs
    call,       \* tab -> how far the server is with the script's first call
    faults, detours

server == <<step, completed, billing, chosen>>
browser == <<local, draft>>
view == <<page, user, ready, effect>>
budget == <<faults, detours>>
vars == <<server, browser, view, bag, script, call, budget>>

ONBOARDING_STEP_GROUPS ==
    << {"welcome"}, {"company-profile"}, {"admin-account"}, {"pricing", "payment"},
       {"attendance"}, {"payroll"}, {"benefits"}, {"employees"}, {"complete"} >>
Wizard == UNION {ONBOARDING_STEP_GROUPS[i] : i \in 1..9}
PreAuth == {"welcome", "company-profile", "admin-account"}
DbSteps == Wizard \ (PreAuth \cup {"payment"})
Setup == DbSteps \ {"pricing"}
Pages == Wizard \cup {"login", "dashboard"}

\* No step, page or user of the browser is called None.
ASSUME NoneAssumption ==
    None \notin Pages \cup {"loading", "done", "company", "registered", "plan", "paid"}

groupIndex(p) == CHOOSE i \in 1..9 : p \in ONBOARDING_STEP_GROUPS[i]
Follows == [p \in {"attendance", "payroll", "benefits"} |->
              CASE p = "attendance" -> "payroll" [] p = "payroll" -> "benefits" [] OTHER -> "employees"]

\* What GET /auth/me says of the owner.
MeByStep == IF completed \/ step = "complete" THEN "done" ELSE step    \* variant
Me == IF completed THEN "done" ELSE step

-----------------------------------------------------------------------------
(***************************************************************************)
(* The server, one call of a tab at a time.  A call that has been answered *)
(* goes on with the script; or its answer is lost.                         *)
(***************************************************************************)
Idle == [pc |-> "idle", seen |-> None]
Head1(t) == Head(script[t])
Rest(t) == IF script[t] = <<>> THEN <<>> ELSE Tail(script[t])
Does(t, do) == script[t] # <<>> /\ Head1(t).do = do

\* The catch of the page; PATCH /company has one of its own, around it alone.
Caught(t) == IF Does(t, "patch") THEN Rest(t) ELSE <<>>

Returns(t) ==
    /\ call' = [call EXCEPT ![t] = Idle]
    /\ script' = [script EXCEPT ![t] = Rest(t)]
    /\ UNCHANGED budget
Fails(t) ==
    /\ faults < MaxFaults /\ faults' = faults + 1
    /\ call' = [call EXCEPT ![t] = Idle]
    /\ script' = [script EXCEPT ![t] = Caught(t)]
    /\ UNCHANGED detours
Answered(t) == Returns(t) \/ Fails(t)

Refused(t) ==
    /\ script' = [script EXCEPT ![t] = Caught(t)]
    /\ call' = [call EXCEPT ![t] = Idle]
    /\ UNCHANGED <<budget, server>>

\* AuthProvider has another user: the effects that depend on it run again.
NewUser(t, u) ==
    /\ user' = [user EXCEPT ![t] = u]
    /\ effect' = [effect EXCEPT ![t] = IF u # user[t] /\ @ = "none" THEN "guard" ELSE @]

\* updateState: read, compare, write.
UpdateStateRead(t) ==
    /\ Does(t, "state") /\ call[t].pc = "idle"
    /\ IF completed
       THEN Answered(t)
       ELSE /\ call' = [call EXCEPT ![t] = [pc |-> "read", seen |-> step]]
            /\ UNCHANGED <<script, budget>>
    /\ UNCHANGED <<server, browser, view, bag>>

UpdateStateAnyway(t) ==    \* variant: without comparing
    /\ Does(t, "state") /\ call[t].pc = "read"
    /\ step' = Head1(t).to
    /\ Answered(t)
    /\ UNCHANGED <<completed, billing, chosen, browser, view, bag>>
UpdateStateWrite(t) ==
    /\ Does(t, "state") /\ call[t].pc = "read"
    /\ step' = IF groupIndex(Head1(t).to) >= groupIndex(call[t].seen) THEN Head1(t).to ELSE call[t].seen
    /\ Answered(t)
    /\ UNCHANGED <<completed, billing, chosen, browser, view, bag>>

Complete(t) ==
    /\ Does(t, "finish")
    /\ step' = "complete" /\ completed' = TRUE
    /\ Answered(t)
    /\ UNCHANGED <<billing, chosen, browser, view, bag>>

\* startTrial looks at the company, then both it and subscribe update the
\* company's row, which the transaction holds, and read the owner.
StartTrial(t) ==
    /\ Does(t, "trial") /\ call[t].pc = "idle"
    /\ IF billing = "ACTIVE"
       THEN Refused(t)
       ELSE call' = [call EXCEPT ![t] = [pc |-> "begun", seen |-> None]] /\ UNCHANGED <<server, script, budget>>
    /\ UNCHANGED <<browser, view, bag>>

BillingBegin(t) ==
    /\ (Does(t, "trial") /\ call[t].pc = "begun") \/ (Does(t, "subscribe") /\ call[t].pc = "idle")
    /\ \A u \in Tabs : call[u].pc # "tx"
    /\ call' = [call EXCEPT ![t] = [pc |-> "tx", seen |-> Me]]
    /\ UNCHANGED <<server, browser, view, bag, script, budget>>

\* bumpPastPricing.
BumpNever(seen) == step                                             \* variant
Bump(seen) ==
    IF seen # "done" /\ groupIndex("attendance") >= groupIndex(seen) THEN "attendance" ELSE step

BillingCommit(t) ==
    /\ call[t].pc = "tx"
    /\ billing' = IF Does(t, "trial") THEN "TRIAL" ELSE "ACTIVE"
    /\ chosen' = TRUE
    /\ step' = Bump(call[t].seen)
    /\ Answered(t)
    /\ UNCHANGED <<completed, browser, view, bag>>

\* A card whose number ends in 0000.
Decline(t) ==
    /\ Does(t, "subscribe") /\ call[t].pc = "idle"
    /\ detours < MaxDetours /\ detours' = detours + 1
    /\ script' = [script EXCEPT ![t] = <<>>]
    /\ UNCHANGED <<server, browser, view, bag, call, faults>>

\* register, or login when the e-mail is taken.
SignIn(t) ==
    /\ Does(t, "register") \/ (Does(t, "login") /\ step # None)
    /\ IF step = None THEN step' = "pricing" /\ billing' = "TRIAL" ELSE UNCHANGED <<step, billing>>
    /\ \/ Returns(t) /\ NewUser(t, IF completed THEN "done" ELSE step')
       \/ Fails(t) /\ UNCHANGED <<user, effect>>
    /\ UNCHANGED <<completed, chosen, browser, page, ready, bag>>

\* The other calls of the pages (company, policy, shifts, import) leave this
\* state alone.
OtherCall(t) ==
    /\ Does(t, "save") \/ Does(t, "patch")
    /\ Answered(t)
    /\ UNCHANGED <<server, browser, view, bag>>

\* refreshSession: without a session, or when the network fails, nobody.
RefreshSession(t) ==
    /\ Does(t, "refresh")
    /\ \/ Returns(t) /\ NewUser(t, Me)
       \/ /\ faults < MaxFaults /\ faults' = faults + 1
          /\ script' = [script EXCEPT ![t] = Rest(t)]
          /\ NewUser(t, None)
          /\ UNCHANGED <<call, detours>>
    /\ UNCHANGED <<server, browser, page, ready, bag>>

\* The request is lost on its way.
Lost(t) ==
    /\ script[t] # <<>> /\ call[t].pc = "idle"
    /\ Head1(t).do \in {"state", "finish", "trial", "subscribe", "register", "login", "save", "patch"}
    /\ Fails(t)
    /\ UNCHANGED <<server, browser, view, bag>>

-----------------------------------------------------------------------------
(***************************************************************************)
(* The local statements of a script, and the scripts behind the buttons.   *)
(***************************************************************************)
Local == {"local", "draft", "clear", "bag", "push"}
Awaits(t) == script[t] # <<>> => Head1(t).do \notin Local

Statement(t) ==
    /\ ~Awaits(t)
    /\ script' = [script EXCEPT ![t] = Rest(t)]
    /\ LET s == Head1(t)
       IN  /\ local' = CASE s.do = "local" -> s.to [] s.do = "clear" -> None [] OTHER -> local
           /\ draft' = CASE s.do = "draft" -> draft \cup {s.to} [] s.do = "clear" -> {} [] OTHER -> draft
           /\ bag' = [bag EXCEPT ![t] = CASE s.do = "clear" -> None [] s.do = "bag" -> s.to [] OTHER -> @]
           /\ page' = [page EXCEPT ![t] = IF s.do = "push" THEN s.to ELSE @]
           /\ effect' = [effect EXCEPT ![t] = IF s.do = "push" /\ page[t] # s.to THEN "mount" ELSE @]
    /\ UNCHANGED <<server, user, ready, call, budget>>

Do(do, to) == << [do |-> do, to |-> to] >>
GoTo(p) == Do("local", p) \o Do("push", p)
AdvanceUnseen(p) == Do("state", p)    \* variant: the guard does not learn of it
advanceOnboardingTo(p) == Do("state", p) \o Do("local", p) \o Do("refresh", None)
Advance(p) == advanceOnboardingTo(p) \o Do("push", p)
Finish == Do("finish", None) \o Do("clear", None) \o Do("refresh", None) \o Do("push", "dashboard")

\* The main buttons of the page p as it is shown to the user u: the script of
\* the one called n, or none.
Names == {"next", "plan", "manual"}
Forward(p, u, picked) ==
    CASE p = "welcome" -> GoTo("company-profile")
      [] p = "company-profile" ->
           Do("draft", "company") \o (IF u # None \/ "registered" \in draft
                                     THEN Do("patch", None) \o GoTo("pricing") ELSE GoTo("admin-account"))
      [] p = "admin-account" -> Do("register", None) \o Do("patch", None) \o Do("draft", "registered") \o GoTo("pricing")
      [] p = "pricing" -> Do("trial", None) \o Advance("attendance")
      [] p = "payment" /\ picked = "plan" ->
           Do("subscribe", None) \o Do("bag", "paid") \o Do("local", "attendance") \o Do("refresh", None)
      [] p = "payment" /\ picked = "paid" -> Do("bag", "plan") \o Advance("attendance")
      [] p \in DOMAIN Follows -> Do("save", None) \o Advance(Follows[p])
      [] p = "employees" -> Do("save", None) \o Advance("complete")
      [] p = "complete" -> Finish
      [] p = "login" -> Do("login", None)
      [] OTHER -> <<>>
Button(n, p, u, picked) ==
    CASE n = "next" -> Forward(p, u, picked)
      [] n = "plan" /\ p = "pricing" -> Do("bag", "plan") \o GoTo("payment")
      [] n = "manual" /\ p = "employees" -> advanceOnboardingTo("complete") \o Finish
      [] OTHER -> <<>>

Shown(t) == script[t] = <<>> /\ effect[t] = "none" /\ user[t] # "loading" /\ (ready[t] \/ page[t] = "login")
Press(t, n) ==
    /\ Shown(t) /\ Button(n, page[t], user[t], bag[t]) # <<>>
    /\ script' = [script EXCEPT ![t] = Button(n, page[t], user[t], bag[t])]
    /\ UNCHANGED <<server, browser, view, bag, call, budget>>

\* The back button, and an address typed in: a page loaded anew.
Before == [p \in {"company-profile", "admin-account", "payment", "attendance", "payroll", "benefits", "employees"} |->
             CASE p = "company-profile" -> "welcome" [] p = "admin-account" -> "company-profile"
               [] p \in {"payment", "attendance"} -> "pricing" [] p = "payroll" -> "attendance"
               [] p = "benefits" -> "payroll" [] OTHER -> "benefits"]
Detour(t) ==
    /\ detours < MaxDetours /\ detours' = detours + 1
    /\ script[t] = <<>>
    /\ \/ /\ Shown(t) /\ page[t] \in DOMAIN Before
          /\ script' = [script EXCEPT ![t] =
               IF page[t] = "company-profile" THEN GoTo("welcome") ELSE Do("push", Before[page[t]])]
          /\ UNCHANGED view
       \/ \E p \in Pages :
            /\ page' = [page EXCEPT ![t] = p]
            /\ user' = [user EXCEPT ![t] = "loading"]
            /\ ready' = [ready EXCEPT ![t] = FALSE]
            /\ effect' = [effect EXCEPT ![t] = "mount"]
            /\ script' = [script EXCEPT ![t] = Do("refresh", None)]
    /\ UNCHANGED <<server, browser, bag, call, faults>>

-----------------------------------------------------------------------------
(***************************************************************************)
(* Effects.  React runs those of a page before those of the guard around   *)
(* it, and mounts a page only once the guard is ready.                     *)
(***************************************************************************)
PageLocal(t) ==
    IF ready[t] /\ effect[t] = "mount" /\
       (page[t] \in {"pricing", "complete"} \/ (page[t] = "payment" /\ bag[t] # None))
    THEN page[t] ELSE local

PageTarget(t) ==
    CASE ready[t] /\ page[t] = "payment" /\ effect[t] = "mount" /\ bag[t] = None -> "pricing"
      [] ready[t] /\ page[t] = "admin-account" /\ (user[t] # None \/ "registered" \in draft) -> "pricing"
      [] ready[t] /\ page[t] = "admin-account" /\ "company" \notin draft -> "company-profile"
      [] OTHER -> page[t]

\* The guard reads the local step after the page has set it.
allowedPostAuthStep(u, l) ==
    IF l # None /\ l \notin PreAuth /\ groupIndex(l) > groupIndex(u) THEN l ELSE u
GuardLetsAhead(p, u, l) ==    \* variant: the saved step is not looked at
    IF u = None THEN (IF p \in PreAuth THEN p ELSE "welcome")
    ELSE IF u = "done" THEN "dashboard" ELSE IF p \in PreAuth THEN u ELSE p
GuardAsksToRegister(p, u, l) ==    \* variant: to the registration instead of the start
    IF u = None THEN (IF p \in PreAuth THEN p ELSE "admin-account")
    ELSE IF u = "done" THEN "dashboard"
    ELSE IF p \in PreAuth \/ groupIndex(p) > groupIndex(allowedPostAuthStep(u, l))
         THEN allowedPostAuthStep(u, l) ELSE p
GuardTarget(p, u, l) ==
    IF u = None THEN (IF p \in PreAuth THEN p ELSE "welcome")
    ELSE IF u = "done" THEN "dashboard"
    ELSE IF p \in PreAuth \/ groupIndex(p) > groupIndex(allowedPostAuthStep(u, l))
         THEN allowedPostAuthStep(u, l) ELSE p

WizardEffects(t) ==
    /\ page[t] \in Wizard
    /\ LET l == PageLocal(t)
           target == GuardTarget(page[t], user[t], l)
           to == IF target # page[t] THEN target ELSE PageTarget(t)
       IN  /\ local' = IF page[t] \in PreAuth /\ user[t] # "done"
                          /\ (l = None \/ groupIndex(page[t]) >= groupIndex(l))
                       THEN page[t] ELSE l
           /\ page' = [page EXCEPT ![t] = to]
           /\ ready' = [ready EXCEPT ![t] = @ \/ target = page[t]]
           /\ effect' = [effect EXCEPT ![t] = IF to # page[t] \/ ready'[t] # ready[t] THEN "mount" ELSE "none"]

\* AuthGuard, and the login page.
OtherEffects(t) ==
    /\ page[t] \notin Wizard
    /\ LET to == CASE user[t] = None -> "login"
                   [] user[t] = "done" -> "dashboard"
                   [] OTHER -> user[t]
       IN  /\ page' = [page EXCEPT ![t] = to]
           /\ effect' = [effect EXCEPT ![t] = IF to # page[t] THEN "mount" ELSE "none"]
           /\ ready' = [ready EXCEPT ![t] = FALSE]
    /\ UNCHANGED local

Effects(t) ==
    /\ effect[t] # "none" /\ user[t] # "loading" /\ Awaits(t)
    /\ WizardEffects(t) \/ OtherEffects(t)
    /\ UNCHANGED <<server, draft, user, bag, script, call, budget>>

-----------------------------------------------------------------------------
\* Every tab has just loaded the first page.
Init ==
    /\ step = None /\ completed = FALSE /\ billing = "none" /\ chosen = FALSE
    /\ local = None /\ draft = {}
    /\ page = [t \in Tabs |-> "welcome"]
    /\ user = [t \in Tabs |-> "loading"]
    /\ ready = [t \in Tabs |-> FALSE]
    /\ effect = [t \in Tabs |-> "mount"]
    /\ bag = [t \in Tabs |-> None]
    /\ script = [t \in Tabs |-> Do("refresh", None)]
    /\ call = [t \in Tabs |-> Idle]
    /\ faults = 0 /\ detours = 0

Serve(t) ==
    \/ UpdateStateRead(t) \/ UpdateStateWrite(t) \/ Complete(t) \/ StartTrial(t)
    \/ BillingBegin(t) \/ BillingCommit(t) \/ SignIn(t) \/ OtherCall(t) \/ RefreshSession(t)
Proceed(t) == Serve(t) \/ Statement(t) \/ Effects(t)
Next ==
    \E t \in Tabs :
        \/ Proceed(t) \/ Lost(t) \/ Decline(t) \/ Detour(t)
        \/ \E n \in Names : Press(t, n)
Spec == Init /\ [][Next]_vars

\* Calls are served and effects run; the owner does not leave a page for good,
\* and tries each of its buttons.
Fairness ==
    \A t \in Tabs : WF_vars(Proceed(t)) /\ \A n \in Names : SF_vars(Press(t, n))
FairSpec == Spec /\ Fairness

-----------------------------------------------------------------------------
\* The rows, the browser and the tabs hold what the services and pages put there.
TypeOK ==
    /\ step \in DbSteps \cup {None} /\ completed \in BOOLEAN /\ chosen \in BOOLEAN
    /\ billing \in {"none", "TRIAL", "ACTIVE"}
    /\ local \in Wizard \cup {None} /\ draft \subseteq {"company", "registered"}
    /\ page \in [Tabs -> Pages]
    /\ user \in [Tabs -> DbSteps \cup {None, "loading", "done"}]
    /\ ready \in [Tabs -> BOOLEAN] /\ effect \in [Tabs -> {"mount", "guard", "none"}]
    /\ bag \in [Tabs -> {None, "plan", "paid"}]
    /\ \A t \in Tabs : /\ call[t].pc \in {"idle", "read", "begun", "tx"}
                       /\ call[t].seen \in DbSteps \cup {None, "done"}
    /\ faults \in 0..MaxFaults /\ detours \in 0..MaxDetours

Settled(t) == effect[t] = "none" /\ user[t] \notin {None, "loading"} /\ script[t] = <<>>

\* A company that has taken the trial or paid is past the billing gate, whatever
\* tabs do meanwhile: its owner is not asked to choose again (bumpPastPricing,
\* updateState).
PastBilling == chosen => step # "pricing"

\* "Lock dashboard until onboarding is finished", and never after: what a tab
\* takes for finished is finished (AuthGuard, OnboardingGuard, POST complete).
DashboardWhenCompleted == \A t \in Tabs : Settled(t) /\ page[t] = "dashboard" => completed

\* No page behind the billing gate is shown before the trial or a payment
\* (OnboardingGuard, the local step set by the pages).
BillingFirst ==
    \A t \in Tabs : Settled(t) /\ page[t] \in Setup => chosen

\* "Blocks jumping ahead of the saved high-water-mark": one tab shows no page
\* beyond the step stored, though it goes by the greater of that and its own.
NeverAhead ==
    \A t \in Tabs : Settled(t) /\ page[t] \in Wizard => groupIndex(page[t]) <= groupIndex(step)

\* The redirects of pages and guards come to rest.
RedirectsSettle == \A t \in Tabs : effect[t] # "none" ~> effect[t] = "none"

\* An owner who stays signed in and keeps pressing the buttons gets to the
\* dashboard with onboarding completed, whatever was lost or revisited before.
OwnerArrives ==
    (\A t \in Tabs : <>[](user[t] # None)) => <>[](completed /\ \A t \in Tabs : page[t] = "dashboard")

-----------------------------------------------------------------------------
(* What the repository says of onboarding and its code does not do.        *)

\* "Cannot move backward": the step stored never goes back (updateState, which compares with
\* the step it has read; another tab may store a later one in between).
HighWaterMark == [][step # None => groupIndex(step') >= groupIndex(step)]_step
=============================================================================
