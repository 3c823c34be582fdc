-------------------------- MODULE OnboardingProofs --------------------------
(***************************************************************************)
(* Proofs about Onboarding: for any number of tabs, faults and detours,    *)
(* its types and what the gates promise; for one tab, that progress stays  *)
(* and that nothing ahead of it is shown.                                  *)
(***************************************************************************)
EXTENDS Onboarding, SequenceTheorems, TLAPS

-----------------------------------------------------------------------------
(* Pages and scripts *)

Billing == {"trial", "subscribe"}

\* What a script is made of.
Commands ==
    [do : {"refresh", "save", "patch", "clear", "finish", "register", "login"} \cup Billing, to : {None}]
    \cup [do : {"local"}, to : Wizard] \cup [do : {"push"}, to : Pages]
    \cup [do : {"draft"}, to : {"company", "registered"}]
    \cup [do : {"bag"}, to : {"plan", "paid"}] \cup [do : {"state"}, to : Setup]

\* What a script without an account may have, and one before the billing gate.
Anyones == {c \in Commands : c.do \notin Billing \cup {"state", "finish"}}
Early == PreAuth \cup {"pricing", "payment", "login", "dashboard"}
Earlies ==
    {c \in Commands : /\ c.do \notin {"state", "finish"} /\ c.to # "paid"
                      /\ c.do \in {"local", "push"} => c.to \in Early}

LEMMA PagesAre ==
    /\ Wizard = {"welcome", "company-profile", "admin-account", "pricing", "payment", "attendance",
                 "payroll", "benefits", "employees", "complete"}
    /\ Pages = Wizard \cup {"login", "dashboard"} /\ DbSteps = Setup \cup {"pricing"}
    /\ Setup = {"attendance", "payroll", "benefits", "employees", "complete"}
    /\ PreAuth = {"welcome", "company-profile", "admin-account"}
    /\ None \notin Pages \cup {"loading", "done", "company", "registered", "plan", "paid"}
  <1>1. Wizard = {"welcome", "company-profile", "admin-account", "pricing", "payment", "attendance",
                  "payroll", "benefits", "employees", "complete"}
    BY DEF Wizard, ONBOARDING_STEP_GROUPS
  <1> QED BY <1>1, NoneAssumption DEF Pages, DbSteps, Setup, PreAuth

LEMMA Groups ==
    /\ groupIndex("welcome") = 1 /\ groupIndex("company-profile") = 2 /\ groupIndex("admin-account") = 3
    /\ groupIndex("pricing") = 4 /\ groupIndex("payment") = 4 /\ groupIndex("attendance") = 5
    /\ groupIndex("payroll") = 6 /\ groupIndex("benefits") = 7 /\ groupIndex("employees") = 8
    /\ groupIndex("complete") = 9
  <1>1. groupIndex("welcome") = 1 /\ groupIndex("company-profile") = 2 /\ groupIndex("admin-account") = 3
    BY DEF groupIndex, ONBOARDING_STEP_GROUPS
  <1>2. groupIndex("pricing") = 4 /\ groupIndex("payment") = 4 /\ groupIndex("attendance") = 5
    BY DEF groupIndex, ONBOARDING_STEP_GROUPS
  <1>3. groupIndex("payroll") = 6 /\ groupIndex("benefits") = 7 /\ groupIndex("employees") = 8
    BY DEF groupIndex, ONBOARDING_STEP_GROUPS
  <1>4. groupIndex("complete") = 9 BY DEF groupIndex, ONBOARDING_STEP_GROUPS
  <1> QED BY <1>1, <1>2, <1>3, <1>4

\* Scripts over a set of commands.
LEMMA OneCommand == ASSUME NEW S, NEW d, NEW x, [do |-> d, to |-> x] \in S PROVE Do(d, x) \in Seq(S)
  BY DEF Do
LEMMA Joined == ASSUME NEW S, NEW a \in Seq(S), NEW b \in Seq(S) PROVE a \o b \in Seq(S)
  OBVIOUS
LEMMA Wider == ASSUME NEW S, NEW T, S \subseteq T, NEW a \in Seq(S) PROVE a \in Seq(T)
  OBVIOUS
LEMMA Shorter ==
    ASSUME NEW S, NEW t, script[t] \in Seq(S)
    PROVE  /\ Rest(t) \in Seq(S) /\ <<>> \in Seq(S) /\ (script[t] # <<>> => Head1(t) \in S)
           /\ Caught(t) \in {Rest(t), <<>>}
  BY DEF Rest, Head1, Caught

\* The scripts behind the buttons of page p, for the user u and the bag b.
ScriptOf(p, u, b, s) ==
    \/ p = "welcome" /\ s = GoTo("company-profile")
    \/ /\ p = "company-profile" /\ (u # None \/ "registered" \in draft)
       /\ s = Do("draft", "company") \o (Do("patch", None) \o GoTo("pricing"))
    \/ p = "company-profile" /\ s = Do("draft", "company") \o GoTo("admin-account")
    \/ /\ p = "admin-account"
       /\ s = Do("register", None) \o Do("patch", None) \o Do("draft", "registered") \o GoTo("pricing")
    \/ p = "pricing" /\ s = Do("trial", None) \o Advance("attendance")
    \/ p = "pricing" /\ s = Do("bag", "plan") \o GoTo("payment")
    \/ /\ p = "payment" /\ b = "plan"
       /\ s = Do("subscribe", None) \o Do("bag", "paid") \o Do("local", "attendance") \o Do("refresh", None)
    \/ p = "payment" /\ b = "paid" /\ s = Do("bag", "plan") \o Advance("attendance")
    \/ \E q \in Setup : p \in Setup /\ s = Do("save", None) \o Advance(q)
    \/ p = "employees" /\ s = advanceOnboardingTo("complete") \o Finish
    \/ p = "complete" /\ s = Finish
    \/ p = "login" /\ s = Do("login", None)
LEMMA ButtonCases ==
    ASSUME NEW n, NEW p \in Pages, NEW u, NEW b, Button(n, p, u, b) # <<>>
    PROVE  ScriptOf(p, u, b, Button(n, p, u, b))
  <1> USE DEF ScriptOf
  <1>1. CASE n = "next"
    <2>1. Button(n, p, u, b) = Forward(p, u, b) BY <1>1 DEF Button
    <2>2. CASE p \in DOMAIN Follows
      BY <1>1, <2>1, <2>2, PagesAre DEF Forward, Follows
    <2>3. CASE p \notin DOMAIN Follows
      BY <1>1, <2>1, <2>3, PagesAre DEF Forward
    <2> QED BY <2>2, <2>3
  <1>2. CASE n # "next"
    BY <1>2 DEF Button
  <1> QED BY <1>1, <1>2

LEMMA GoToOf ==
    ASSUME NEW S, NEW p, [do |-> "local", to |-> p] \in S, [do |-> "push", to |-> p] \in S
    PROVE  GoTo(p) \in Seq(S)
  BY OneCommand, Joined DEF GoTo
LEMMA AdvanceOf == ASSUME NEW p \in Setup PROVE Advance(p) \in Seq(Commands) /\ advanceOnboardingTo(p) \in Seq(Commands)
  <1>1. /\ [do |-> "state", to |-> p] \in Commands /\ [do |-> "local", to |-> p] \in Commands
        /\ [do |-> "push", to |-> p] \in Commands /\ [do |-> "refresh", to |-> None] \in Commands
    BY PagesAre DEF Commands
  <1>2. /\ Do("state", p) \in Seq(Commands) /\ Do("local", p) \in Seq(Commands)
        /\ Do("push", p) \in Seq(Commands) /\ Do("refresh", None) \in Seq(Commands)
    BY <1>1, OneCommand
  <1>3. advanceOnboardingTo(p) \in Seq(Commands) BY <1>2, Joined DEF advanceOnboardingTo
  <1> QED BY <1>2, <1>3, Joined DEF Advance
LEMMA FinishOf == Finish \in Seq(Commands)
  <1>1. /\ [do |-> "finish", to |-> None] \in Commands /\ [do |-> "clear", to |-> None] \in Commands
        /\ [do |-> "push", to |-> "dashboard"] \in Commands /\ [do |-> "refresh", to |-> None] \in Commands
    BY PagesAre DEF Commands
  <1>2. /\ Do("finish", None) \in Seq(Commands) /\ Do("clear", None) \in Seq(Commands)
        /\ Do("push", "dashboard") \in Seq(Commands) /\ Do("refresh", None) \in Seq(Commands)
    BY <1>1, OneCommand
  <1> QED BY <1>2, Joined DEF Finish

LEMMA CommandsAre ==
    /\ Anyones \subseteq Commands /\ Earlies \subseteq Commands
    /\ \A d \in {"refresh", "save", "patch", "register", "login"} :
         [do |-> d, to |-> None] \in Anyones \cap Earlies
    /\ \A d \in {"trial", "subscribe"} : [do |-> d, to |-> None] \in Commands
    /\ \A p \in PreAuth \cup {"pricing", "payment"} :
         [do |-> "local", to |-> p] \in Anyones \cap Earlies /\ [do |-> "push", to |-> p] \in Anyones \cap Earlies
    /\ \A d \in {"company", "registered"} : [do |-> "draft", to |-> d] \in Anyones \cap Earlies
    /\ [do |-> "bag", to |-> "plan"] \in Earlies /\ [do |-> "bag", to |-> "paid"] \in Commands
    /\ [do |-> "local", to |-> "attendance"] \in Commands
  BY PagesAre DEF Anyones, Earlies, Commands, Early, Billing

\* What a button's script may have, by the page and the bag.
LEMMA ButtonScripts ==
    ASSUME NEW p \in Pages, NEW u, NEW b, NEW s, ScriptOf(p, u, b, s)
    PROVE  /\ s \in Seq(Commands)
           /\ p \in PreAuth \cup {"login"} => s \in Seq(Anyones)
           /\ p \in Early /\ b # "paid" => s \in Seq(Earlies) \/ Head(s).do \in Billing
  <1> DEFINE B == Anyones \cap Earlies
  <1>1. ASSUME s \in Seq(B) PROVE s \in Seq(Commands) /\ s \in Seq(Anyones) /\ s \in Seq(Earlies)
    <2>1. B \subseteq Commands /\ B \subseteq Anyones /\ B \subseteq Earlies BY CommandsAre
    <2> HIDE DEF B
    <2> QED BY <1>1, <2>1, Wider
  <1>2. \A d \in {"refresh", "save", "patch", "register", "login"} : Do(d, None) \in Seq(B)
    BY CommandsAre, OneCommand
  <1>3. \A d \in {"company", "registered"} : Do("draft", d) \in Seq(B)
    BY CommandsAre, OneCommand
  <1>4. \A q \in PreAuth \cup {"pricing", "payment"} : GoTo(q) \in Seq(B)
    BY CommandsAre, GoToOf
  <1>5. CASE s = GoTo("company-profile")
    <2>1. s \in Seq(B) BY <1>4, <1>5, PagesAre
    <2> QED BY <1>1, <2>1
  <1>6. CASE s = Do("draft", "company") \o (Do("patch", None) \o GoTo("pricing"))
    <2>1. s \in Seq(B) BY <1>2, <1>3, <1>4, <1>6, Joined
    <2> QED BY <1>1, <2>1
  <1>7. CASE s = Do("draft", "company") \o GoTo("admin-account")
    <2>1. s \in Seq(B) BY <1>3, <1>4, <1>7, Joined, PagesAre
    <2> QED BY <1>1, <2>1
  <1>8. CASE s = Do("register", None) \o Do("patch", None) \o Do("draft", "registered") \o GoTo("pricing")
    <2>1. s \in Seq(B) BY <1>2, <1>3, <1>4, <1>8, Joined
    <2> QED BY <1>1, <2>1
  <1>9. CASE p = "pricing" /\ s = Do("trial", None) \o Advance("attendance")
    <2>1. Do("trial", None) \in Seq(Commands) BY CommandsAre, OneCommand
    <2>0. Advance("attendance") \in Seq(Commands) BY AdvanceOf, PagesAre
    <2>2. s \in Seq(Commands) BY <1>9, <2>0, <2>1, Joined
    <2>3. Head(s) = [do |-> "trial", to |-> None] BY <1>9, AdvanceOf, PagesAre DEF Do
    <2> QED BY <1>9, <2>2, <2>3, PagesAre DEF Billing
  <1>10. CASE p = "pricing" /\ s = Do("bag", "plan") \o GoTo("payment")
    <2>1. Do("bag", "plan") \in Seq(Earlies) BY CommandsAre, OneCommand
    <2>2. GoTo("payment") \in Seq(Earlies) BY CommandsAre, GoToOf
    <2>3. s \in Seq(Earlies) BY <1>10, <2>1, <2>2, Joined
    <2> QED BY <1>10, <2>3, CommandsAre, Wider, PagesAre
  <1>11. CASE p = "payment" /\ s = Do("subscribe", None) \o Do("bag", "paid") \o Do("local", "attendance") \o Do("refresh", None)
    <2>1. /\ Do("subscribe", None) \in Seq(Commands) /\ Do("bag", "paid") \in Seq(Commands)
          /\ Do("local", "attendance") \in Seq(Commands) /\ Do("refresh", None) \in Seq(Commands)
      BY CommandsAre, OneCommand
    <2>2. s \in Seq(Commands) BY <1>11, <2>1, Joined
    <2>3. Head(s) = [do |-> "subscribe", to |-> None] BY <1>11 DEF Do
    <2> QED BY <1>11, <2>2, <2>3, PagesAre DEF Billing
  <1>12. CASE p = "payment" /\ b = "paid" /\ s = Do("bag", "plan") \o Advance("attendance")
    <2>1. Do("bag", "plan") \in Seq(Commands) BY CommandsAre, OneCommand
    <2>0. Advance("attendance") \in Seq(Commands) BY AdvanceOf, PagesAre
    <2>2. s \in Seq(Commands) BY <1>12, <2>0, <2>1, Joined
    <2> QED BY <1>12, <2>2, PagesAre
  <1>13. CASE \E q \in Setup : p \in Setup /\ s = Do("save", None) \o Advance(q)
    <2>1. Do("save", None) \in Seq(Commands) BY CommandsAre, OneCommand
    <2>2. s \in Seq(Commands) /\ p \in Setup BY <1>13, <2>1, AdvanceOf, Joined
    <2> QED BY <2>2, PagesAre DEF Early
  <1>14. CASE p = "employees" /\ s = advanceOnboardingTo("complete") \o Finish
    <2>0. advanceOnboardingTo("complete") \in Seq(Commands) BY AdvanceOf, PagesAre
    <2>1. s \in Seq(Commands) BY <1>14, <2>0, FinishOf, Joined
    <2> QED BY <1>14, <2>1, PagesAre DEF Early
  <1>15. CASE p = "complete" /\ s = Finish
    BY <1>15, FinishOf, PagesAre DEF Early
  <1>16. CASE s = Do("login", None)
    <2>1. s \in Seq(B) BY <1>2, <1>16
    <2> QED BY <1>1, <2>1
  <1> QED
    BY <1>5, <1>6, <1>7, <1>8, <1>9, <1>10, <1>11, <1>12, <1>13, <1>14, <1>15, <1>16 DEF ScriptOf

-----------------------------------------------------------------------------
(* The invariant, for any number of tabs.  A tab's user, page and script    *)
(* may be behind the rows, never ahead: what a tab was told stays true,     *)
(* because owners are not deleted, plans not undone and completion final.   *)

\* What one tab knows and does, the rows of the server beside it.
TabOK(u) ==
    /\ user[u] \notin {None, "loading"} => step # None
    /\ user[u] = "done" => completed
    /\ effect[u] = "none" => /\ user[u] # "loading"
                             /\ page[u] = "dashboard" => user[u] = "done"
                             /\ (ready[u] /\ user[u] = None) => page[u] \in PreAuth
    /\ step = None => script[u] \in Seq(Anyones)
    /\ call[u].pc = "idle" => call[u] = Idle
    /\ call[u].pc = "read" => Does(u, "state") /\ call[u].seen \in DbSteps
    /\ call[u].pc = "begun" => Does(u, "trial")
    /\ call[u].pc = "tx" => /\ Does(u, "trial") \/ Does(u, "subscribe")
                            /\ call[u].seen \in DbSteps \cup {"done"}
                            /\ call[u].seen # "pricing" => step \in Setup

\* One tab before anybody has chosen a plan.
Unpaid(u) ==
    ~chosen =>
        /\ user[u] \in {None, "loading", "pricing"} /\ bag[u] # "paid"
        /\ page[u] \in Setup => ~ready[u] /\ effect[u] # "none"
        /\ script[u] \in Seq(Earlies) \/ (script[u] # <<>> /\ Head1(u).do \in Billing)

\* The rows: who has chosen or completed is past the gate, and before anybody has
\* chosen neither the rows nor the browser hold a step behind it.
World ==
    /\ completed \/ chosen => step \in Setup
    /\ ~chosen => /\ step \in {None, "pricing"} /\ ~completed /\ billing # "ACTIVE"
                  /\ local \in Early \cup {None}

\* TypeOK, and scripts of the commands that there are.
OwnerTyped ==
    /\ step \in DbSteps \cup {None} /\ completed \in BOOLEAN /\ chosen \in BOOLEAN
    /\ billing \in {"none", "TRIAL", "ACTIVE"}
    /\ local \in Wizard \cup {None} /\ draft \subseteq {"company", "registered"}
    /\ page \in [Tabs -> Pages]
    /\ user \in [Tabs -> DbSteps \cup {None, "loading", "done"}]
    /\ ready \in [Tabs -> BOOLEAN] /\ effect \in [Tabs -> {"mount", "guard", "none"}]
    /\ bag \in [Tabs -> {None, "plan", "paid"}]
    /\ script \in [Tabs -> Seq(Commands)]
    /\ call \in [Tabs -> [pc : {"idle", "read", "begun", "tx"}, seen : DbSteps \cup {None, "done"}]]
    /\ faults \in 0..MaxFaults /\ detours \in 0..MaxDetours

OwnerInv == OwnerTyped /\ World /\ \A u \in Tabs : TabOK(u) /\ Unpaid(u)

\* The other tabs: their own state is kept, and the rows only go on.
AwayFrom(t) ==
    \A u \in Tabs \ {t} :
        /\ page'[u] = page[u] /\ user'[u] = user[u] /\ ready'[u] = ready[u] /\ effect'[u] = effect[u]
        /\ bag'[u] = bag[u] /\ script'[u] = script[u] /\ call'[u] = call[u]
Onward ==
    /\ step # None => step' # None
    /\ step \in Setup => step' \in Setup
    /\ completed => completed'
    /\ chosen => chosen'

LEMMA Elsewhere ==
    ASSUME OwnerInv, NEW t \in Tabs, AwayFrom(t), Onward, OwnerTyped', World', TabOK(t)', Unpaid(t)'
    PROVE  OwnerInv'
  <1>1. ASSUME NEW u \in Tabs, u # t PROVE TabOK(u)' /\ Unpaid(u)'
    <2>1. /\ page'[u] = page[u] /\ user'[u] = user[u] /\ ready'[u] = ready[u] /\ effect'[u] = effect[u]
          /\ bag'[u] = bag[u] /\ script'[u] = script[u] /\ call'[u] = call[u]
      BY <1>1 DEF AwayFrom
    <2>2. TabOK(u) /\ Unpaid(u) BY DEF OwnerInv
    <2>3. TabOK(u)' BY <2>1, <2>2 DEF TabOK, Onward, Does, Head1
    <2>4. Unpaid(u)' BY <2>1, <2>2 DEF Unpaid, Onward, Head1
    <2> QED BY <2>3, <2>4
  <1>2. \A u \in Tabs : TabOK(u)' /\ Unpaid(u)' BY <1>1
  <1> QED BY <1>2 DEF OwnerInv

\* An answer, a refusal or a loss leaves a rest of the script, or nothing.
After(t, z) ==
    /\ z \in {Rest(t), <<>>}
    /\ script' = [script EXCEPT ![t] = z]
    /\ call' = [call EXCEPT ![t] = Idle]
LEMMA AnswerOf ==
    ASSUME OwnerTyped, NEW t \in Tabs, Answered(t)
    PROVE  /\ \E z : After(t, z)
           /\ faults' \in 0..MaxFaults /\ detours' \in 0..MaxDetours
  <1>1. CASE Returns(t)
    <2>1. After(t, Rest(t)) BY <1>1 DEF Returns, After
    <2> QED BY <1>1, <2>1 DEF Returns, budget, OwnerTyped
  <1>2. CASE Fails(t)
    <2>1. After(t, Caught(t)) BY <1>2 DEF Fails, After, Caught
    <2> QED BY <1>2, <2>1, OnboardingAssumption DEF Fails, OwnerTyped
  <1> QED BY <1>1, <1>2 DEF Answered
LEMMA AfterOf ==
    ASSUME OwnerInv, NEW t \in Tabs, NEW z, After(t, z)
    PROVE  /\ script' \in [Tabs -> Seq(Commands)] /\ script'[t] = z
           /\ call' \in [Tabs -> [pc : {"idle", "read", "begun", "tx"}, seen : DbSteps \cup {None, "done"}]]
           /\ call'[t] = Idle
           /\ step = None => z \in Seq(Anyones)
           /\ ~chosen /\ (z = <<>> \/ Head1(t).do \notin Billing) => z \in Seq(Earlies)
           /\ \A u \in Tabs \ {t} : script'[u] = script[u] /\ call'[u] = call[u]
  <1>1. z \in Seq(Commands)
    <2>1. script[t] \in Seq(Commands) BY DEF OwnerInv, OwnerTyped
    <2>2. Rest(t) \in Seq(Commands) /\ <<>> \in Seq(Commands) BY <2>1, Shorter
    <2> QED BY <2>2 DEF After
  <1>2. Idle \in [pc : {"idle", "read", "begun", "tx"}, seen : DbSteps \cup {None, "done"}]
    BY DEF Idle
  <1>3. ASSUME step = None PROVE z \in Seq(Anyones)
    <2>1. script[t] \in Seq(Anyones) BY <1>3 DEF OwnerInv, TabOK
    <2>2. Rest(t) \in Seq(Anyones) /\ <<>> \in Seq(Anyones) BY <2>1, Shorter
    <2> QED BY <2>2 DEF After
  <1>4. ASSUME ~chosen, z = <<>> \/ Head1(t).do \notin Billing PROVE z \in Seq(Earlies)
    <2>1. CASE z = <<>> BY <2>1
    <2>2. CASE z # <<>>
      <3>1. script[t] \in Seq(Earlies) BY <1>4, <2>2 DEF OwnerInv, Unpaid
      <3>2. Rest(t) \in Seq(Earlies) BY <3>1, Shorter
      <3> QED BY <2>2, <3>2 DEF After
    <2> QED BY <2>1, <2>2
  <1>5. script \in [Tabs -> Seq(Commands)] /\ call \in [Tabs -> [pc : {"idle", "read", "begun", "tx"}, seen : DbSteps \cup {None, "done"}]]
    BY DEF OwnerInv, OwnerTyped
  <1>6. script' \in [Tabs -> Seq(Commands)] /\ script'[t] = z /\ \A u \in Tabs \ {t} : script'[u] = script[u]
    BY <1>1, <1>5 DEF After
  <1>7. /\ call' \in [Tabs -> [pc : {"idle", "read", "begun", "tx"}, seen : DbSteps \cup {None, "done"}]]
        /\ call'[t] = Idle /\ \A u \in Tabs \ {t} : call'[u] = call[u]
    BY <1>2, <1>5 DEF After
  <1> QED BY <1>3, <1>4, <1>6, <1>7

\* A call whose answer changes no view: only the rows are still to be seen to.
LEMMA Answering ==
    ASSUME OwnerInv, NEW t \in Tabs, NEW z, After(t, z), UNCHANGED <<view, bag>>, Onward,
           ~chosen' => ~chosen /\ (z = <<>> \/ Head1(t).do \notin Billing)
    PROVE  TabOK(t)' /\ Unpaid(t)' /\ AwayFrom(t)
  <1>1. TabOK(t) /\ Unpaid(t) BY DEF OwnerInv
  <1>2. script'[t] = z /\ call'[t] = Idle BY AfterOf
  <1>3. page' = page /\ user' = user /\ ready' = ready /\ effect' = effect /\ bag' = bag
    BY DEF view
  <1>4. step' = None => script'[t] \in Seq(Anyones)
    BY <1>2, AfterOf DEF Onward
  <1>5. TabOK(t)'
    BY <1>1, <1>2, <1>3, <1>4 DEF TabOK, Onward, Idle
  <1>6. ~chosen' => script'[t] \in Seq(Earlies)
    BY <1>2, AfterOf
  <1>7. Unpaid(t)'
    BY <1>1, <1>3, <1>6 DEF Unpaid
  <1>8. AwayFrom(t)
    BY <1>3, AfterOf DEF AwayFrom
  <1> QED BY <1>5, <1>7, <1>8

-----------------------------------------------------------------------------
(* One lemma for each action *)

\* A state command is only sent by an owner, to a page of the setup.
LEMMA StateCommand ==
    ASSUME OwnerInv, NEW t \in Tabs, Does(t, "state")
    PROVE  /\ Head1(t).to \in Setup /\ step # None /\ chosen /\ Head1(t).do \notin Billing
  <1>1. script[t] # <<>> /\ Head1(t).do = "state" BY DEF Does
  <1>2. script[t] \in Seq(Commands) BY DEF OwnerInv, OwnerTyped
  <1>3. Head1(t) \in Commands BY <1>1, <1>2, Shorter
  <1>4. Head1(t).to \in Setup BY <1>1, <1>3 DEF Commands, Billing
  <1>5. step # None
    <2>1. SUFFICES ASSUME step = None PROVE FALSE OBVIOUS
    <2>2. script[t] \in Seq(Anyones) BY <2>1 DEF OwnerInv, TabOK
    <2>3. Head1(t) \in Anyones BY <1>1, <2>2, Shorter
    <2> QED BY <1>1, <2>3 DEF Anyones
  <1>6. chosen
    <2>1. SUFFICES ASSUME ~chosen PROVE FALSE OBVIOUS
    <2>2. script[t] \in Seq(Earlies) BY <1>1, <2>1 DEF OwnerInv, Unpaid, Billing
    <2>3. Head1(t) \in Earlies BY <1>1, <2>2, Shorter
    <2> QED BY <1>1, <2>3 DEF Earlies
  <1> QED BY <1>1, <1>4, <1>5, <1>6 DEF Billing

LEMMA IdleCall ==
    ASSUME OwnerInv, NEW t \in Tabs, ~Does(t, "state"), ~Does(t, "trial"), ~Does(t, "subscribe")
    PROVE  call[t] = Idle /\ call = [call EXCEPT ![t] = Idle]
  <1>1. call[t].pc = "idle" BY DEF OwnerInv, OwnerTyped, TabOK
  <1>2. call[t] = Idle BY <1>1 DEF OwnerInv, TabOK
  <1> QED BY <1>2 DEF OwnerInv, OwnerTyped

LEMMA ReadStep ==
    ASSUME OwnerInv, NEW t \in Tabs, UpdateStateRead(t)
    PROVE  OwnerInv'
  <1>1. UNCHANGED <<server, browser, view, bag>> /\ Onward BY DEF UpdateStateRead, server, Onward
  <1>2. World' BY <1>1 DEF World, server, browser, OwnerInv
  <1>3. CASE Answered(t)
    <2>1. PICK z : After(t, z) BY <1>3, AnswerOf DEF OwnerInv
    <2>2. OwnerTyped'
      BY <1>1, <1>3, <2>1, AnswerOf, AfterOf DEF OwnerInv, OwnerTyped, server, browser, view
    <2>3. Does(t, "state") BY DEF UpdateStateRead
    <2>4. TabOK(t)' /\ Unpaid(t)' /\ AwayFrom(t)
      BY <1>1, <2>1, <2>3, StateCommand, Answering DEF server
    <2> QED BY <1>1, <1>2, <2>2, <2>4, Elsewhere
  <1>4. CASE call' = [call EXCEPT ![t] = [pc |-> "read", seen |-> step]] /\ UNCHANGED <<script, budget>>
    <2>1. Does(t, "state") BY DEF UpdateStateRead
    <2>2. step \in DbSteps BY <2>1, StateCommand DEF OwnerInv, OwnerTyped
    <2>3. [pc |-> "read", seen |-> step] \in [pc : {"idle", "read", "begun", "tx"}, seen : DbSteps \cup {None, "done"}]
      BY <2>2
    <2>4. /\ call' \in [Tabs -> [pc : {"idle", "read", "begun", "tx"}, seen : DbSteps \cup {None, "done"}]]
          /\ call'[t] = [pc |-> "read", seen |-> step] /\ \A u \in Tabs \ {t} : call'[u] = call[u]
      BY <1>4, <2>3 DEF OwnerInv, OwnerTyped
    <2>5. OwnerTyped'
      BY <1>1, <1>4, <2>4 DEF OwnerInv, OwnerTyped, server, browser, view, budget
    <2>6. TabOK(t) /\ Unpaid(t) BY DEF OwnerInv
    <2>7. TabOK(t)'
      BY <1>1, <1>4, <2>1, <2>2, <2>4, <2>6 DEF TabOK, server, view, Does, Head1
    <2>8. Unpaid(t)'
      BY <1>1, <1>4, <2>6 DEF Unpaid, server, view, Head1
    <2>9. AwayFrom(t)
      BY <1>1, <1>4, <2>4 DEF AwayFrom, view
    <2> QED BY <1>1, <1>2, <2>5, <2>7, <2>8, <2>9, Elsewhere
  <1> QED BY <1>3, <1>4 DEF UpdateStateRead

LEMMA WriteStep ==
    ASSUME OwnerInv, NEW t \in Tabs, UpdateStateWrite(t)
    PROVE  OwnerInv'
  <1>1. Does(t, "state") /\ call[t].pc = "read" /\ Answered(t)
        /\ UNCHANGED <<completed, billing, chosen, browser, view, bag>>
    BY DEF UpdateStateWrite
  <1>2. Head1(t).to \in Setup /\ step # None /\ chosen /\ Head1(t).do \notin Billing
    BY <1>1, StateCommand
  <1>3. call[t].seen \in DbSteps BY <1>1 DEF OwnerInv, TabOK
  <1>4. step' \in Setup
    <2>1. step' = Head1(t).to
          \/ (step' = call[t].seen /\ ~(groupIndex(Head1(t).to) >= groupIndex(call[t].seen)))
      BY DEF UpdateStateWrite
    <2>2. \A p \in Setup : groupIndex(p) >= groupIndex("pricing")
      BY PagesAre, Groups
    <2>3. call[t].seen = "pricing" => groupIndex(Head1(t).to) >= groupIndex(call[t].seen)
      BY <1>2, <2>2
    <2> QED BY <1>2, <1>3, <2>1, <2>3, PagesAre
  <1>5. step' # None /\ step' \in DbSteps BY <1>4, PagesAre
  <1>6. Onward BY <1>1, <1>4, <1>5 DEF Onward
  <1>7. World' BY <1>1, <1>2, <1>4 DEF World
  <1>8. PICK z : After(t, z) BY <1>1, AnswerOf DEF OwnerInv
  <1>9. OwnerTyped'
    BY <1>1, <1>5, <1>8, AnswerOf, AfterOf DEF OwnerInv, OwnerTyped, browser, view
  <1>10. TabOK(t)' /\ Unpaid(t)' /\ AwayFrom(t)
    BY <1>1, <1>2, <1>6, <1>8, Answering
  <1> QED BY <1>6, <1>7, <1>9, <1>10, Elsewhere

LEMMA CompleteStep ==
    ASSUME OwnerInv, NEW t \in Tabs, Complete(t)
    PROVE  OwnerInv'
  <1>1. /\ Does(t, "finish") /\ step' = "complete" /\ completed' = TRUE /\ Answered(t)
        /\ UNCHANGED <<billing, chosen, browser, view, bag>>
    BY DEF Complete
  <1>2. chosen /\ Head1(t).do \notin Billing
    <2>1. script[t] # <<>> /\ Head1(t).do = "finish" BY <1>1 DEF Does
    <2>2. ASSUME ~chosen PROVE FALSE
      <3>1. script[t] \in Seq(Earlies) BY <2>1, <2>2 DEF OwnerInv, Unpaid, Billing
      <3>2. Head1(t) \in Earlies BY <2>1, <3>1, Shorter
      <3> QED BY <2>1, <3>2 DEF Earlies
    <2> QED BY <2>1, <2>2 DEF Billing
  <1>3. step' \in Setup /\ step' # None /\ step' \in DbSteps BY <1>1, PagesAre
  <1>4. Onward BY <1>1, <1>3 DEF Onward
  <1>5. World' BY <1>1, <1>2, <1>3 DEF World
  <1>6. PICK z : After(t, z) BY <1>1, AnswerOf DEF OwnerInv
  <1>7. OwnerTyped'
    BY <1>1, <1>3, <1>6, AnswerOf, AfterOf DEF OwnerInv, OwnerTyped, browser, view
  <1>8. TabOK(t)' /\ Unpaid(t)' /\ AwayFrom(t)
    BY <1>1, <1>2, <1>4, <1>6, Answering
  <1> QED BY <1>4, <1>5, <1>7, <1>8, Elsewhere

LEMMA BillingCommand ==
    ASSUME OwnerInv, NEW t \in Tabs, Does(t, "trial") \/ Does(t, "subscribe")
    PROVE  step \in DbSteps /\ Caught(t) = <<>> /\ Head1(t).do \in Billing /\ script[t] # <<>>
  <1>1. script[t] # <<>> /\ Head1(t).do \in Billing BY DEF Does, Billing
  <1>2. ASSUME step = None PROVE FALSE
    <2>1. script[t] \in Seq(Anyones) BY <1>2 DEF OwnerInv, TabOK
    <2>2. Head1(t) \in Anyones BY <1>1, <2>1, Shorter
    <2> QED BY <1>1, <2>2 DEF Anyones
  <1> QED BY <1>1, <1>2 DEF OwnerInv, OwnerTyped, Caught, Does, Billing

LEMMA TrialStep ==
    ASSUME OwnerInv, NEW t \in Tabs, StartTrial(t)
    PROVE  OwnerInv'
  <1>1. Does(t, "trial") /\ UNCHANGED <<browser, view, bag>> BY DEF StartTrial
  <1>2. CASE billing = "ACTIVE" /\ Refused(t)
    <2>1. After(t, Caught(t)) BY <1>2 DEF Refused, After, Caught
    <2>2. UNCHANGED <<server, budget>> BY <1>2 DEF Refused
    <2>3. Onward /\ World' BY <1>1, <2>2 DEF server, Onward, World, OwnerInv, browser
    <2>4. OwnerTyped'
      BY <1>1, <2>1, <2>2, AfterOf DEF OwnerInv, OwnerTyped, server, browser, view, budget
    <2>5. chosen BY <1>2 DEF OwnerInv, World
    <2>6. TabOK(t)' /\ Unpaid(t)' /\ AwayFrom(t)
      BY <1>1, <2>1, <2>2, <2>3, <2>5, Answering DEF server
    <2> QED BY <2>3, <2>4, <2>6, Elsewhere
  <1>3. CASE /\ call' = [call EXCEPT ![t] = [pc |-> "begun", seen |-> None]]
             /\ UNCHANGED <<server, script, budget>>
    <2>1. Onward /\ World' BY <1>1, <1>3 DEF server, Onward, World, OwnerInv, browser
    <2>2. [pc |-> "begun", seen |-> None] \in [pc : {"idle", "read", "begun", "tx"}, seen : DbSteps \cup {None, "done"}]
      OBVIOUS
    <2>3. /\ call' \in [Tabs -> [pc : {"idle", "read", "begun", "tx"}, seen : DbSteps \cup {None, "done"}]]
          /\ call'[t] = [pc |-> "begun", seen |-> None] /\ \A u \in Tabs \ {t} : call'[u] = call[u]
      BY <1>3, <2>2 DEF OwnerInv, OwnerTyped
    <2>4. OwnerTyped'
      BY <1>1, <1>3, <2>3 DEF OwnerInv, OwnerTyped, server, browser, view, budget
    <2>5. TabOK(t) /\ Unpaid(t) BY DEF OwnerInv
    <2>6. TabOK(t)'
      BY <1>1, <1>3, <2>3, <2>5 DEF TabOK, server, view, Does, Head1
    <2>7. Unpaid(t)'
      BY <1>1, <1>3, <2>5 DEF Unpaid, server, view, Head1
    <2>8. AwayFrom(t)
      BY <1>1, <1>3, <2>3 DEF AwayFrom, view
    <2> QED BY <2>1, <2>4, <2>6, <2>7, <2>8, Elsewhere
  <1> QED BY <1>2, <1>3 DEF StartTrial

LEMMA BeginStep ==
    ASSUME OwnerInv, NEW t \in Tabs, BillingBegin(t)
    PROVE  OwnerInv'
  <1>1. /\ call' = [call EXCEPT ![t] = [pc |-> "tx", seen |-> Me]]
        /\ UNCHANGED <<server, browser, view, bag, script, budget>>
        /\ Does(t, "trial") \/ Does(t, "subscribe")
    BY DEF BillingBegin
  <1>2. Onward /\ World' BY <1>1 DEF server, Onward, World, OwnerInv, browser
  <1>3. Me \in DbSteps \cup {"done"} /\ (Me # "pricing" => step \in Setup)
    BY <1>1, BillingCommand, PagesAre DEF Me, OwnerInv, World
  <1> HIDE DEF Me
  <1>4. [pc |-> "tx", seen |-> Me] \in [pc : {"idle", "read", "begun", "tx"}, seen : DbSteps \cup {None, "done"}]
    BY <1>3
  <1>5. /\ call' \in [Tabs -> [pc : {"idle", "read", "begun", "tx"}, seen : DbSteps \cup {None, "done"}]]
        /\ call'[t] = [pc |-> "tx", seen |-> Me] /\ \A u \in Tabs \ {t} : call'[u] = call[u]
    BY <1>1, <1>4 DEF OwnerInv, OwnerTyped
  <1>6. OwnerTyped'
    BY <1>1, <1>5 DEF OwnerInv, OwnerTyped, server, browser, view, budget
  <1>7. TabOK(t) /\ Unpaid(t) BY DEF OwnerInv
  <1>8. TabOK(t)'
    BY <1>1, <1>3, <1>5, <1>7 DEF TabOK, server, view, Does, Head1
  <1>9. Unpaid(t)'
    BY <1>1, <1>7 DEF Unpaid, server, view, Head1
  <1>10. AwayFrom(t)
    BY <1>1, <1>5 DEF AwayFrom, view
  <1> QED BY <1>2, <1>6, <1>8, <1>9, <1>10, Elsewhere

LEMMA CommitStep ==
    ASSUME OwnerInv, NEW t \in Tabs, BillingCommit(t)
    PROVE  OwnerInv'
  <1>1. /\ call[t].pc = "tx" /\ billing' \in {"TRIAL", "ACTIVE"} /\ chosen' = TRUE
        /\ step' = Bump(call[t].seen) /\ Answered(t)
        /\ UNCHANGED <<completed, browser, view, bag>>
    BY DEF BillingCommit
  <1>2. call[t].seen # "pricing" => step \in Setup
    BY <1>1 DEF OwnerInv, TabOK
  <1>3. step' \in Setup /\ step' # None /\ step' \in DbSteps
    <2>1. step' = "attendance" \/ (step' = step /\ call[t].seen # "pricing")
      <3>1. CASE call[t].seen = "pricing"
        BY <1>1, <3>1, Groups DEF Bump
      <3>2. CASE call[t].seen # "pricing"
        BY <1>1, <3>2 DEF Bump
      <3> QED BY <3>1, <3>2
    <2> QED BY <1>2, <2>1, PagesAre
  <1>4. Onward BY <1>1, <1>3 DEF Onward
  <1>5. World' BY <1>1, <1>3 DEF World
  <1>6. PICK z : After(t, z) BY <1>1, AnswerOf DEF OwnerInv
  <1>7. OwnerTyped'
    BY <1>1, <1>3, <1>6, AnswerOf, AfterOf DEF OwnerInv, OwnerTyped, browser, view
  <1>8. TabOK(t)' /\ Unpaid(t)' /\ AwayFrom(t)
    BY <1>1, <1>4, <1>6, Answering
  <1> QED BY <1>4, <1>5, <1>7, <1>8, Elsewhere

\* AuthProvider has another user.
LEMMA NewUserOf ==
    ASSUME OwnerInv, NEW t \in Tabs, NEW z, NEW v \in DbSteps \cup {None, "done"}, After(t, z), NewUser(t, v),
           UNCHANGED <<page, ready, bag>>, Onward, v # None => step' # None, v = "done" => completed',
           ~chosen' => ~chosen /\ v \in {None, "pricing"} /\ (z = <<>> \/ Head1(t).do \notin Billing)
    PROVE  /\ TabOK(t)' /\ Unpaid(t)' /\ AwayFrom(t)
           /\ user' \in [Tabs -> DbSteps \cup {None, "loading", "done"}]
           /\ effect' \in [Tabs -> {"mount", "guard", "none"}]
  <1>1. TabOK(t) /\ Unpaid(t) BY DEF OwnerInv
  <1>2. script'[t] = z /\ call'[t] = Idle BY AfterOf
  <1>3. user \in [Tabs -> DbSteps \cup {None, "loading", "done"}] /\ effect \in [Tabs -> {"mount", "guard", "none"}]
    BY DEF OwnerInv, OwnerTyped
  <1>4. /\ user' \in [Tabs -> DbSteps \cup {None, "loading", "done"}] /\ user'[t] = v
        /\ \A u \in Tabs \ {t} : user'[u] = user[u]
    BY <1>3 DEF NewUser
  <1>5. /\ effect' \in [Tabs -> {"mount", "guard", "none"}]
        /\ effect'[t] = "none" => effect[t] = "none" /\ v = user[t]
        /\ effect[t] # "none" => effect'[t] # "none"
        /\ \A u \in Tabs \ {t} : effect'[u] = effect[u]
    BY <1>3 DEF NewUser
  <1>6. step' = None => script'[t] \in Seq(Anyones)
    BY <1>2, AfterOf DEF Onward
  <1>7. TabOK(t)'
    <2>1. v # "loading" BY PagesAre
    <2> QED BY <1>1, <1>2, <1>4, <1>5, <1>6, <2>1 DEF TabOK, Onward, Idle
  <1>8. ~chosen' => script'[t] \in Seq(Earlies)
    BY <1>2, AfterOf
  <1>9. Unpaid(t)'
    BY <1>1, <1>4, <1>5, <1>8 DEF Unpaid
  <1>10. AwayFrom(t)
    BY <1>4, <1>5, AfterOf DEF AwayFrom
  <1> QED BY <1>4, <1>5, <1>7, <1>9, <1>10

LEMMA SignInStep ==
    ASSUME OwnerInv, NEW t \in Tabs, SignIn(t)
    PROVE  OwnerInv'
  <1>1. /\ Does(t, "register") \/ (Does(t, "login") /\ step # None)
        /\ (step = None /\ step' = "pricing" /\ billing' = "TRIAL") \/ (step # None /\ UNCHANGED <<step, billing>>)
        /\ UNCHANGED <<completed, chosen, browser, page, ready, bag>>
    BY DEF SignIn
  <1>2. step' \in DbSteps /\ step' # None /\ billing' \in {"none", "TRIAL", "ACTIVE"}
    BY <1>1, PagesAre DEF OwnerInv, OwnerTyped
  <1>3. Onward BY <1>1, <1>2, PagesAre DEF Onward
  <1>4. World'
    BY <1>1, <1>3, PagesAre DEF World, browser, OwnerInv, Onward
  <1>5. Head1(t).do \notin Billing BY <1>1 DEF Does, Billing
  <1>6. CASE Returns(t) /\ NewUser(t, IF completed THEN "done" ELSE step')
    <2>1. After(t, Rest(t)) BY <1>6 DEF Returns, After
    <2> DEFINE v == IF completed THEN "done" ELSE step'
    <2>3. v = "done" => completed'
      BY <1>1, <1>2, PagesAre
    <2>4. v \in DbSteps \cup {None, "done"} /\ (~chosen' => ~chosen /\ v \in {None, "pricing"})
      BY <1>1, <1>2, <1>4 DEF World
    <2>5. NewUser(t, v) BY <1>6
    <2> HIDE DEF v
    <2>6. /\ TabOK(t)' /\ Unpaid(t)' /\ AwayFrom(t)
          /\ user' \in [Tabs -> DbSteps \cup {None, "loading", "done"}]
          /\ effect' \in [Tabs -> {"mount", "guard", "none"}]
      BY <1>1, <1>2, <1>3, <1>5, <2>1, <2>3, <2>4, <2>5, NewUserOf
    <2>7. faults' \in 0..MaxFaults /\ detours' \in 0..MaxDetours
      BY <1>6 DEF Returns, budget, OwnerInv, OwnerTyped
    <2>8. OwnerTyped'
      BY <1>1, <1>2, <2>1, <2>6, <2>7, AfterOf DEF OwnerInv, OwnerTyped, browser
    <2> QED BY <1>3, <1>4, <2>6, <2>8, Elsewhere
  <1>7. CASE Fails(t) /\ UNCHANGED <<user, effect>>
    <2>1. Answered(t) BY <1>7 DEF Answered
    <2>2. PICK z : After(t, z) BY <2>1, AnswerOf DEF OwnerInv
    <2>3. OwnerTyped'
      BY <1>1, <1>2, <1>7, <2>1, <2>2, AnswerOf, AfterOf DEF OwnerInv, OwnerTyped, browser
    <2>4. TabOK(t)' /\ Unpaid(t)' /\ AwayFrom(t)
      BY <1>1, <1>3, <1>5, <1>7, <2>2, Answering DEF view
    <2> QED BY <1>3, <1>4, <2>3, <2>4, Elsewhere
  <1> QED BY <1>6, <1>7 DEF SignIn

LEMMA OtherCallStep ==
    ASSUME OwnerInv, NEW t \in Tabs, OtherCall(t)
    PROVE  OwnerInv'
  <1>1. /\ Does(t, "save") \/ Does(t, "patch")
        /\ Answered(t) /\ UNCHANGED <<server, browser, view, bag>>
    BY DEF OtherCall
  <1>2. Onward /\ World' BY <1>1 DEF server, Onward, World, OwnerInv, browser
  <1>3. Head1(t).do \notin Billing BY <1>1 DEF Does, Billing
  <1>4. PICK z : After(t, z) BY <1>1, AnswerOf DEF OwnerInv
  <1>5. OwnerTyped'
    BY <1>1, <1>4, AnswerOf, AfterOf DEF OwnerInv, OwnerTyped, server, browser, view
  <1>6. TabOK(t)' /\ Unpaid(t)' /\ AwayFrom(t)
    BY <1>1, <1>2, <1>3, <1>4, Answering DEF server
  <1> QED BY <1>2, <1>5, <1>6, Elsewhere

LEMMA RefreshStep ==
    ASSUME OwnerInv, NEW t \in Tabs, RefreshSession(t)
    PROVE  OwnerInv'
  <1>1. Does(t, "refresh") /\ UNCHANGED <<server, browser, page, ready, bag>>
    BY DEF RefreshSession
  <1>2. Onward /\ World' BY <1>1 DEF server, Onward, World, OwnerInv, browser
  <1>3. Head1(t).do \notin Billing BY <1>1 DEF Does, Billing
  <1>4. \E v \in {Me, None} : After(t, Rest(t)) /\ NewUser(t, v)
    <2>1. CASE Returns(t) /\ NewUser(t, Me)
      BY <2>1 DEF Returns, After
    <2>2. CASE script' = [script EXCEPT ![t] = Rest(t)] /\ NewUser(t, None) /\ UNCHANGED call
      <3>1. call = [call EXCEPT ![t] = Idle] BY <1>1, IdleCall DEF Does
      <3> QED BY <2>2, <3>1 DEF After
    <2> QED BY <2>1, <2>2 DEF RefreshSession
  <1>5. faults' \in 0..MaxFaults /\ detours' \in 0..MaxDetours
    BY OnboardingAssumption DEF RefreshSession, Returns, budget, OwnerInv, OwnerTyped
  <1>6. PICK v \in {Me, None} : NewUser(t, v) BY <1>4
  <1>7. /\ v \in DbSteps \cup {None, "done"} /\ (v # None => step # None) /\ (v = "done" => completed)
        /\ ~chosen => v \in {None, "pricing"}
    BY PagesAre DEF Me, OwnerInv, OwnerTyped, World
  <1>8. After(t, Rest(t)) BY <1>4
  <1>9. /\ TabOK(t)' /\ Unpaid(t)' /\ AwayFrom(t)
        /\ user' \in [Tabs -> DbSteps \cup {None, "loading", "done"}]
        /\ effect' \in [Tabs -> {"mount", "guard", "none"}]
    <2>1. step' = step /\ completed' = completed /\ chosen' = chosen BY <1>1 DEF server
    <2> QED BY <1>1, <1>2, <1>3, <1>6, <1>7, <1>8, <2>1, NewUserOf
  <1>10. OwnerTyped'
    BY <1>1, <1>5, <1>8, <1>9, AfterOf DEF OwnerInv, OwnerTyped, server, browser
  <1> QED BY <1>2, <1>9, <1>10, Elsewhere

LEMMA LostStep ==
    ASSUME OwnerInv, NEW t \in Tabs, Lost(t)
    PROVE  OwnerInv'
  <1>1. /\ script[t] # <<>> /\ Fails(t) /\ UNCHANGED <<server, browser, view, bag>>
    BY DEF Lost
  <1>2. Onward /\ World' BY <1>1 DEF server, Onward, World, OwnerInv, browser
  <1>3. After(t, Caught(t)) BY <1>1 DEF Fails, After, Caught
  <1>4. Caught(t) = <<>> \/ Head1(t).do \notin Billing BY DEF Caught, Does, Billing
  <1>5. Answered(t) BY <1>1 DEF Answered
  <1>6. OwnerTyped'
    BY <1>1, <1>3, <1>5, AnswerOf, AfterOf DEF OwnerInv, OwnerTyped, server, browser, view
  <1>7. TabOK(t)' /\ Unpaid(t)' /\ AwayFrom(t)
    BY <1>1, <1>2, <1>3, <1>4, Answering DEF server
  <1> QED BY <1>2, <1>6, <1>7, Elsewhere

LEMMA DeclineStep ==
    ASSUME OwnerInv, NEW t \in Tabs, Decline(t)
    PROVE  OwnerInv'
  <1>1. /\ Does(t, "subscribe") /\ call[t].pc = "idle"
        /\ script' = [script EXCEPT ![t] = <<>>]
        /\ UNCHANGED <<server, browser, view, bag, call, faults>>
    BY DEF Decline
  <1>2. Onward /\ World' BY <1>1 DEF server, Onward, World, OwnerInv, browser
  <1>3. After(t, <<>>)
    <2>1. call[t] = Idle BY <1>1 DEF OwnerInv, TabOK
    <2>2. call' = [call EXCEPT ![t] = Idle] BY <1>1, <2>1 DEF OwnerInv, OwnerTyped
    <2> QED BY <1>1, <2>2 DEF After
  <1>4. detours' \in 0..MaxDetours
    BY OnboardingAssumption DEF Decline, OwnerInv, OwnerTyped
  <1>5. OwnerTyped'
    BY <1>1, <1>3, <1>4, AfterOf DEF OwnerInv, OwnerTyped, server, browser, view
  <1>6. TabOK(t)' /\ Unpaid(t)' /\ AwayFrom(t)
    BY <1>1, <1>2, <1>3, Answering DEF server
  <1> QED BY <1>2, <1>5, <1>6, Elsewhere

LEMMA StatementStep ==
    ASSUME OwnerInv, NEW t \in Tabs, Statement(t)
    PROVE  OwnerInv'
  <1> DEFINE s == Head1(t)
  <1>1. /\ script[t] # <<>> /\ s.do \in Local
        /\ script' = [script EXCEPT ![t] = Rest(t)]
        /\ UNCHANGED <<server, user, ready, call, budget>>
    BY DEF Statement, Awaits
  <1>2. s \in Commands
    <2>1. script[t] \in Seq(Commands) BY DEF OwnerInv, OwnerTyped
    <2> QED BY <1>1, <2>1, Shorter
  <1>3. ~chosen => s \in Earlies
    <2>1. SUFFICES ASSUME ~chosen PROVE s \in Earlies OBVIOUS
    <2>2. script[t] \in Seq(Earlies) BY <1>1, <2>1 DEF OwnerInv, Unpaid, Billing, Local
    <2> QED BY <1>1, <2>2, Shorter
  <1>4. /\ local' = CASE s.do = "local" -> s.to [] s.do = "clear" -> None [] OTHER -> local
        /\ draft' = CASE s.do = "draft" -> draft \cup {s.to} [] s.do = "clear" -> {} [] OTHER -> draft
        /\ bag' = [bag EXCEPT ![t] = CASE s.do = "clear" -> None [] s.do = "bag" -> s.to [] OTHER -> bag[t]]
        /\ page' = [page EXCEPT ![t] = IF s.do = "push" THEN s.to ELSE page[t]]
        /\ effect' = [effect EXCEPT ![t] = IF s.do = "push" /\ page[t] # s.to THEN "mount" ELSE effect[t]]
    BY DEF Statement
  <1> HIDE DEF s
  <1>5. /\ local' \in Wizard \cup {None} /\ draft' \subseteq {"company", "registered"}
        /\ ~chosen => local' \in Early \cup {None}
    <2>1. local \in Wizard \cup {None} /\ draft \subseteq {"company", "registered"}
          /\ (~chosen => local \in Early \cup {None})
      BY DEF OwnerInv, OwnerTyped, World
    <2>2. local' = None \/ local' = local \/ (local' = s.to /\ s.do = "local")
      BY <1>4
    <2>3. draft' = {} \/ draft' = draft \/ (draft' = draft \cup {s.to} /\ s.do = "draft")
      BY <1>4
    <2>4. s.do = "local" => s.to \in Wizard /\ (~chosen => s.to \in Early)
      BY <1>2, <1>3 DEF Commands, Earlies, Billing
    <2>5. s.do = "draft" => s.to \in {"company", "registered"}
      BY <1>2 DEF Commands, Billing
    <2> QED BY <2>1, <2>2, <2>3, <2>4, <2>5
  <1>6. /\ bag' \in [Tabs -> {None, "plan", "paid"}]
        /\ ~chosen /\ bag[t] # "paid" => bag'[t] # "paid"
        /\ \A u \in Tabs \ {t} : bag'[u] = bag[u]
    <2>1. bag \in [Tabs -> {None, "plan", "paid"}] BY DEF OwnerInv, OwnerTyped
    <2>2. /\ s.do = "bag" => s.to \in {"plan", "paid"} /\ (~chosen => s.to # "paid")
      BY <1>2, <1>3 DEF Commands, Earlies, Billing
    <2> DEFINE b == CASE s.do = "clear" -> None [] s.do = "bag" -> s.to [] OTHER -> bag[t]
    <2>3. b \in {None, "plan", "paid"} /\ (~chosen /\ bag[t] # "paid" => b # "paid")
      BY <2>1, <2>2, PagesAre
    <2>4. bag' = [bag EXCEPT ![t] = b] BY <1>4
    <2> HIDE DEF b
    <2> QED BY <2>1, <2>3, <2>4
  <1>7. /\ page' \in [Tabs -> Pages] /\ effect' \in [Tabs -> {"mount", "guard", "none"}]
        /\ \/ effect'[t] = effect[t] /\ page'[t] = page[t]
           \/ effect'[t] = "mount" /\ (~chosen => page'[t] \in Early)
        /\ \A u \in Tabs \ {t} : page'[u] = page[u] /\ effect'[u] = effect[u]
    <2>1. page \in [Tabs -> Pages] /\ effect \in [Tabs -> {"mount", "guard", "none"}] BY DEF OwnerInv, OwnerTyped
    <2>2. s.do = "push" => s.to \in Pages /\ (~chosen => s.to \in Early)
      BY <1>2, <1>3 DEF Commands, Earlies, Billing
    <2>3. CASE s.do = "push" /\ page[t] # s.to
      <3>1. page' = [page EXCEPT ![t] = s.to] /\ effect' = [effect EXCEPT ![t] = "mount"]
        BY <1>4, <2>3
      <3> QED BY <2>1, <2>2, <2>3, <3>1
    <2>4. CASE ~(s.do = "push" /\ page[t] # s.to)
      <3>1. page' = [page EXCEPT ![t] = page[t]] /\ effect' = [effect EXCEPT ![t] = effect[t]]
        BY <1>4, <2>4
      <3>2. page' = page /\ effect' = effect BY <2>1, <3>1
      <3> QED BY <2>1, <3>2
    <2> QED BY <2>3, <2>4
  <1>8. After(t, Rest(t))
    <2>1. call[t].pc = "idle"
      BY <1>1 DEF OwnerInv, OwnerTyped, TabOK, Does, s, Local
    <2>2. call[t] = Idle BY <2>1 DEF OwnerInv, TabOK
    <2>3. call' = [call EXCEPT ![t] = Idle] BY <1>1, <2>2 DEF OwnerInv, OwnerTyped
    <2> QED BY <1>1, <2>3 DEF After
  <1>9. OwnerTyped'
    BY <1>1, <1>5, <1>6, <1>7, <1>8, AfterOf DEF OwnerInv, OwnerTyped, server, budget
  <1>10. World' /\ Onward
    BY <1>1, <1>5 DEF World, Onward, OwnerInv, server
  <1>11. AwayFrom(t)
    BY <1>1, <1>6, <1>7, <1>8, AfterOf DEF AwayFrom
  <1>12. TabOK(t) /\ Unpaid(t) BY DEF OwnerInv
  <1>13. user'[t] = user[t] /\ ready'[t] = ready[t] /\ step' = step /\ completed' = completed /\ chosen' = chosen
    BY <1>1 DEF server
  <1>14. TabOK(t)'
    <2>1. script'[t] = Rest(t) /\ call'[t] = Idle /\ (step = None => Rest(t) \in Seq(Anyones))
      BY <1>8, AfterOf
    <2> QED BY <1>7, <1>12, <1>13, <2>1 DEF TabOK, Idle
  <1>15. Unpaid(t)'
    <2>1. s.do \notin Billing BY <1>1 DEF Billing, Local
    <2>2. script'[t] = Rest(t) /\ (~chosen => Rest(t) \in Seq(Earlies))
      BY <1>8, <2>1, AfterOf DEF s
    <2>3. \A p \in Early : p \notin Setup BY PagesAre DEF Early
    <2> QED BY <1>6, <1>7, <1>12, <1>13, <2>2, <2>3 DEF Unpaid
  <1> QED BY <1>9, <1>10, <1>11, <1>14, <1>15, Elsewhere

LEMMA PressStep ==
    ASSUME OwnerInv, NEW t \in Tabs, NEW n, Press(t, n)
    PROVE  OwnerInv'
  <1> DEFINE z == Button(n, page[t], user[t], bag[t])
  <1>1. /\ Shown(t) /\ z # <<>> /\ script' = [script EXCEPT ![t] = z]
        /\ UNCHANGED <<server, browser, view, bag, call, budget>>
    BY DEF Press
  <1>2. page[t] \in Pages BY DEF OwnerInv, OwnerTyped
  <1>3. ScriptOf(page[t], user[t], bag[t], z) BY <1>1, <1>2, ButtonCases
  <1> HIDE DEF z
  <1>4. /\ z \in Seq(Commands)
        /\ page[t] \in PreAuth \cup {"login"} => z \in Seq(Anyones)
        /\ page[t] \in Early /\ bag[t] # "paid" => z \in Seq(Earlies) \/ Head(z).do \in Billing
    BY <1>2, <1>3, ButtonScripts
  <1>5. TabOK(t) /\ Unpaid(t) BY DEF OwnerInv
  <1>6. step = None => z \in Seq(Anyones)
    BY <1>1, <1>4, <1>5 DEF TabOK, Shown
  <1>7. ~chosen => z \in Seq(Earlies) \/ Head(z).do \in Billing
    <2>1. page[t] \in Setup \cup Early BY <1>2, PagesAre DEF Early
    <2> QED BY <1>1, <1>4, <1>5, <2>1 DEF Unpaid, Shown
  <1>8. script' \in [Tabs -> Seq(Commands)] /\ script'[t] = z /\ \A u \in Tabs \ {t} : script'[u] = script[u]
    BY <1>1, <1>4 DEF OwnerInv, OwnerTyped
  <1>9. OwnerTyped'
    BY <1>1, <1>8 DEF OwnerInv, OwnerTyped, server, browser, view, budget
  <1>10. World' /\ Onward BY <1>1 DEF World, Onward, OwnerInv, server, browser
  <1>11. AwayFrom(t) BY <1>1, <1>8 DEF AwayFrom, view
  <1>12. call[t] = Idle BY <1>1, <1>5 DEF OwnerInv, OwnerTyped, TabOK, Does, Shown
  <1>13. TabOK(t)'
    BY <1>1, <1>5, <1>6, <1>8, <1>12 DEF TabOK, Idle, server, view
  <1>14. Unpaid(t)'
    BY <1>1, <1>5, <1>7, <1>8 DEF Unpaid, server, view, Head1
  <1> QED BY <1>9, <1>10, <1>11, <1>13, <1>14, Elsewhere

\* What the effects of a wizard page come to.
LEMMA WizardTarget ==
    ASSUME OwnerInv, NEW t \in Tabs, page[t] \in Wizard, user[t] # "loading",
           NEW l, l = PageLocal(t), NEW target, target = GuardTarget(page[t], user[t], l)
    PROVE  /\ l \in Wizard \cup {None} /\ target \in Pages /\ PageTarget(t) \in Pages
           /\ target = page[t] /\ user[t] = None => page[t] \in PreAuth
           /\ ~chosen => /\ l \in Early \cup {None} /\ target \notin Setup
                         /\ PageTarget(t) = page[t] \/ PageTarget(t) \notin Setup
  <1> DEFINE p == page[t]
             u == user[t]
  <1>1. /\ p \in Wizard /\ u \in DbSteps \cup {None, "done"} /\ local \in Wizard \cup {None}
        /\ ~chosen => u \in {None, "pricing"} /\ local \in Early \cup {None} /\ (p \in Setup => ~ready[t])
    BY DEF OwnerInv, OwnerTyped, World, Unpaid
  <1>2. l \in Wizard \cup {None} /\ (~chosen => l \in Early \cup {None})
    <2>1. l = local \/ (l = p /\ ready[t]) BY DEF PageLocal
    <2>2. p \in Setup \cup Early BY <1>1, PagesAre DEF Early
    <2> QED BY <1>1, <2>1, <2>2
  <1>3. PageTarget(t) \in {p, "pricing", "company-profile"} BY DEF PageTarget
  <1>4. allowedPostAuthStep(u, l) \in {u, l} BY DEF allowedPostAuthStep
  <1>5. l = None => allowedPostAuthStep(u, l) = u BY DEF allowedPostAuthStep
  <1>6. target = GuardTarget(p, u, l) OBVIOUS
  <1> HIDE DEF p, u
  <1>7. target \in Pages /\ (target = p /\ u = None => p \in PreAuth)
    <2>1. CASE u = None BY <1>6, <2>1, PagesAre DEF GuardTarget
    <2>2. CASE u = "done" BY <1>6, <2>2, PagesAre DEF GuardTarget
    <2>3. CASE u \in DbSteps
      <3>1. target \in {u, l, p} /\ (target = l => l # None \/ l = u \/ l = p)
        BY <1>4, <1>5, <1>6, <2>3, PagesAre DEF GuardTarget
      <3> QED BY <1>1, <1>2, <2>3, <3>1, PagesAre
    <2> QED BY <1>1, <2>1, <2>2, <2>3
  <1>8. ASSUME ~chosen PROVE target \notin Setup
    <2>1. CASE u = None BY <1>6, <2>1, PagesAre DEF GuardTarget
    <2>2. CASE u = "pricing"
      <3>1. allowedPostAuthStep(u, l) = "pricing"
        <4>1. l \in PreAuth \cup {None, "pricing", "payment"} BY <1>2, <1>8, PagesAre DEF Early
        <4> QED BY <2>2, <4>1, Groups DEF allowedPostAuthStep
      <3>2. p \in Setup => groupIndex(p) > groupIndex("pricing") BY PagesAre, Groups
      <3> QED BY <1>6, <2>2, <3>1, <3>2, PagesAre DEF GuardTarget
    <2> QED BY <1>1, <1>8, <2>1, <2>2
  <1>9. {p, "pricing", "company-profile"} \subseteq Pages /\ {"pricing", "company-profile"} \cap Setup = {}
    BY <1>1, PagesAre
  <1>10. PageTarget(t) \in Pages /\ (PageTarget(t) = page[t] \/ PageTarget(t) \notin Setup)
    BY <1>3, <1>9 DEF p
  <1> QED BY <1>2, <1>7, <1>8, <1>10 DEF p, u

LEMMA EffectsStep ==
    ASSUME OwnerInv, NEW t \in Tabs, Effects(t)
    PROVE  OwnerInv'
  <1>1. /\ user[t] # "loading" /\ UNCHANGED <<server, draft, user, bag, script, call, budget>>
    BY DEF Effects
  <1>2. TabOK(t) /\ Unpaid(t) /\ OwnerTyped /\ World BY DEF OwnerInv
  <1>3. \E to \in Pages, r \in BOOLEAN, e \in {"mount", "none"}, l \in Wizard \cup {None} :
          /\ page' = [page EXCEPT ![t] = to] /\ ready' = [ready EXCEPT ![t] = r]
          /\ effect' = [effect EXCEPT ![t] = e] /\ local' = l
          /\ ~chosen => l \in Early \cup {None} /\ to \notin Setup
          /\ e = "none" => /\ to = "dashboard" => user[t] = "done"
                           /\ (r /\ user[t] = None) => to \in PreAuth
    <2>1. CASE WizardEffects(t)
      <3> DEFINE l == PageLocal(t)
                 target == GuardTarget(page[t], user[t], l)
                 to == IF target # page[t] THEN target ELSE PageTarget(t)
                 r == ready[t] \/ target = page[t]
                 e == IF to # page[t] \/ r # ready[t] THEN "mount" ELSE "none"
                 k == IF page[t] \in PreAuth /\ user[t] # "done"
                         /\ (l = None \/ groupIndex(page[t]) >= groupIndex(l))
                      THEN page[t] ELSE l
      <3>1. page[t] \in Wizard BY <2>1 DEF WizardEffects
      <3>2. /\ l \in Wizard \cup {None} /\ target \in Pages /\ PageTarget(t) \in Pages
            /\ target = page[t] /\ user[t] = None => page[t] \in PreAuth
            /\ ~chosen => /\ l \in Early \cup {None} /\ target \notin Setup
                          /\ PageTarget(t) = page[t] \/ PageTarget(t) \notin Setup
        BY <1>1, <3>1, WizardTarget
      <3>3. local' = k BY <2>1 DEF WizardEffects
      <3>4. page' = [page EXCEPT ![t] = to] BY <2>1 DEF WizardEffects
      <3>5. ready' = [ready EXCEPT ![t] = r] BY <2>1 DEF WizardEffects
      <3>6. r \in BOOLEAN /\ ready'[t] = r BY <1>2, <3>5 DEF OwnerTyped
      <3>7. effect' = [effect EXCEPT ![t] = e] BY <2>1, <3>6 DEF WizardEffects
      <3>8. to \in Pages /\ (~chosen => to \notin Setup) BY <3>2
      <3>9. k \in Wizard \cup {None} /\ (~chosen => k \in Early \cup {None})
        BY <3>1, <3>2, PagesAre DEF Early
      <3>10. ASSUME e = "none"
             PROVE  to # "dashboard" /\ (r /\ user[t] = None => to \in PreAuth)
        <4>1. to = page[t] /\ target = page[t] BY <3>10
        <4> QED BY <3>1, <3>2, <4>1, PagesAre
      <3> HIDE DEF to, r, e, k
      <3>11. e \in {"mount", "none"} BY DEF e
      <3> QED BY <3>3, <3>4, <3>5, <3>6, <3>7, <3>8, <3>9, <3>10, <3>11
    <2>2. CASE OtherEffects(t)
      <3> DEFINE to == CASE user[t] = None -> "login"
                         [] user[t] = "done" -> "dashboard"
                         [] OTHER -> user[t]
                 e == IF to # page[t] THEN "mount" ELSE "none"
      <3>1. /\ page' = [page EXCEPT ![t] = to] /\ effect' = [effect EXCEPT ![t] = e]
            /\ ready' = [ready EXCEPT ![t] = FALSE] /\ local' = local
        BY <2>2 DEF OtherEffects
      <3>2. user[t] \in DbSteps \cup {None, "done"} BY <1>1, <1>2 DEF OwnerTyped
      <3>3. to \in Pages /\ (to = "dashboard" => user[t] = "done") /\ (~chosen => to \notin Setup)
        BY <1>2, <3>2, PagesAre DEF Unpaid
      <3>4. local \in Wizard \cup {None} /\ (~chosen => local \in Early \cup {None})
        BY <1>2 DEF OwnerTyped, World
      <3> HIDE DEF to
      <3>5. e \in {"mount", "none"} OBVIOUS
      <3> HIDE DEF e
      <3> QED BY <3>1, <3>3, <3>4, <3>5
    <2> QED BY <2>1, <2>2 DEF Effects
  <1>4. PICK to \in Pages, r \in BOOLEAN, e \in {"mount", "none"}, l \in Wizard \cup {None} :
          /\ page' = [page EXCEPT ![t] = to] /\ ready' = [ready EXCEPT ![t] = r]
          /\ effect' = [effect EXCEPT ![t] = e] /\ local' = l
          /\ ~chosen => l \in Early \cup {None} /\ to \notin Setup
          /\ e = "none" => /\ to = "dashboard" => user[t] = "done"
                           /\ (r /\ user[t] = None) => to \in PreAuth
    BY <1>3
  <1>5. /\ page' \in [Tabs -> Pages] /\ page'[t] = to /\ \A u \in Tabs \ {t} : page'[u] = page[u]
    BY <1>2, <1>4 DEF OwnerTyped
  <1>6. /\ ready' \in [Tabs -> BOOLEAN] /\ ready'[t] = r /\ \A u \in Tabs \ {t} : ready'[u] = ready[u]
    BY <1>2, <1>4 DEF OwnerTyped
  <1>7. /\ effect' \in [Tabs -> {"mount", "guard", "none"}] /\ effect'[t] = e
        /\ \A u \in Tabs \ {t} : effect'[u] = effect[u]
    BY <1>2, <1>4 DEF OwnerTyped
  <1>8. OwnerTyped'
    BY <1>1, <1>2, <1>4, <1>5, <1>6, <1>7 DEF OwnerTyped, server, budget
  <1>9. World' /\ Onward BY <1>1, <1>2, <1>4 DEF World, Onward, server
  <1>10. AwayFrom(t) BY <1>1, <1>5, <1>6, <1>7 DEF AwayFrom
  <1>11. TabOK(t)'
    BY <1>1, <1>2, <1>4, <1>5, <1>6, <1>7 DEF TabOK, server, Does, Head1
  <1>12. Unpaid(t)'
    BY <1>1, <1>2, <1>4, <1>5 DEF Unpaid, server, Head1
  <1> QED BY <1>8, <1>9, <1>10, <1>11, <1>12, Elsewhere

LEMMA DetourStep ==
    ASSUME OwnerInv, NEW t \in Tabs, Detour(t)
    PROVE  OwnerInv'
  <1>1. script[t] = <<>> /\ UNCHANGED <<server, browser, bag, call, faults>> BY DEF Detour
  <1>2. TabOK(t) /\ Unpaid(t) /\ OwnerTyped /\ World BY DEF OwnerInv
  <1>3. detours' \in 0..MaxDetours BY <1>2, OnboardingAssumption DEF Detour, OwnerTyped
  <1>4. World' /\ Onward BY <1>1, <1>2 DEF World, Onward, server, browser
  <1>5. call[t] = Idle BY <1>1, <1>2 DEF OwnerTyped, TabOK, Does
  <1>6. \A z \in Seq(Commands) : script' = [script EXCEPT ![t] = z] =>
          /\ script' \in [Tabs -> Seq(Commands)] /\ script'[t] = z
          /\ \A u \in Tabs \ {t} : script'[u] = script[u]
    BY <1>2 DEF OwnerTyped
  <1>7. \A d, p : Do(d, p) = <<[do |-> d, to |-> p]>> BY DEF Do
  <1>8. CASE /\ Shown(t) /\ page[t] \in DOMAIN Before /\ UNCHANGED view
             /\ script' = [script EXCEPT ![t] =
                  IF page[t] = "company-profile" THEN GoTo("welcome") ELSE Do("push", Before[page[t]])]
    <2> DEFINE z == IF page[t] = "company-profile" THEN GoTo("welcome") ELSE Do("push", Before[page[t]])
    <2>1. /\ Before[page[t]] \in Pages
          /\ page[t] \notin Setup => Before[page[t]] \in PreAuth \cup {"pricing"}
      BY <1>8, PagesAre DEF Before
    <2>2. z \in Seq(Commands) /\ z \in Seq(Anyones) /\ (page[t] \notin Setup => z \in Seq(Earlies))
      <3>1. CASE page[t] = "company-profile"
        <4>1. /\ [do |-> "local", to |-> "welcome"] \in Anyones \cap Earlies
              /\ [do |-> "push", to |-> "welcome"] \in Anyones \cap Earlies
          BY CommandsAre, PagesAre
        <4>2. GoTo("welcome") \in Seq(Anyones \cap Earlies)
          BY <4>1, GoToOf
        <4>3. GoTo("welcome") \in Seq(Commands) /\ GoTo("welcome") \in Seq(Anyones) /\ GoTo("welcome") \in Seq(Earlies)
          <5>1. /\ Anyones \cap Earlies \subseteq Commands /\ Anyones \cap Earlies \subseteq Anyones
                /\ Anyones \cap Earlies \subseteq Earlies
            BY CommandsAre
          <5> QED BY <4>2, <5>1, Wider
        <4> QED BY <3>1, <4>3
      <3>2. CASE page[t] # "company-profile"
        <4>1. [do |-> "push", to |-> Before[page[t]]] \in Commands
          BY <2>1 DEF Commands
        <4>2. [do |-> "push", to |-> Before[page[t]]] \in Anyones
          BY <4>1 DEF Anyones, Billing
        <4>3. page[t] \notin Setup => [do |-> "push", to |-> Before[page[t]]] \in Earlies
          BY <2>1, CommandsAre
        <4> QED BY <3>2, <4>1, <4>2, <4>3, OneCommand
      <3> QED BY <3>1, <3>2
    <2>3. script' = [script EXCEPT ![t] = z] BY <1>8
    <2> HIDE DEF z
    <2>4. /\ script' \in [Tabs -> Seq(Commands)] /\ script'[t] = z
          /\ \A u \in Tabs \ {t} : script'[u] = script[u]
      BY <1>6, <2>2, <2>3
    <2>5. page[t] \in Setup => chosen BY <1>2, <1>8 DEF Unpaid, Shown
    <2>6. OwnerTyped'
      BY <1>1, <1>2, <1>3, <1>8, <2>4 DEF OwnerTyped, server, browser, view
    <2>7. AwayFrom(t) BY <1>1, <1>8, <2>4 DEF AwayFrom, view
    <2>8. TabOK(t)'
      BY <1>1, <1>2, <1>5, <1>8, <2>2, <2>4 DEF TabOK, Idle, server, view
    <2>9. Unpaid(t)'
      BY <1>1, <1>2, <1>8, <2>2, <2>4, <2>5 DEF Unpaid, server, view
    <2> QED BY <1>4, <2>6, <2>7, <2>8, <2>9, Elsewhere
  <1>9. ASSUME NEW p \in Pages,
               page' = [page EXCEPT ![t] = p], user' = [user EXCEPT ![t] = "loading"],
               ready' = [ready EXCEPT ![t] = FALSE], effect' = [effect EXCEPT ![t] = "mount"],
               script' = [script EXCEPT ![t] = Do("refresh", None)]
        PROVE  OwnerInv'
    <2>1. /\ Do("refresh", None) \in Seq(Commands) /\ Do("refresh", None) \in Seq(Anyones)
          /\ Do("refresh", None) \in Seq(Earlies)
      <3>1. /\ [do |-> "refresh", to |-> None] \in Commands /\ [do |-> "refresh", to |-> None] \in Anyones
            /\ [do |-> "refresh", to |-> None] \in Earlies
        BY CommandsAre
      <3> QED BY <3>1, OneCommand
    <2>2. /\ script' \in [Tabs -> Seq(Commands)] /\ script'[t] = Do("refresh", None)
          /\ \A u \in Tabs \ {t} : script'[u] = script[u]
      BY <1>6, <1>9, <2>1
    <2>3. /\ page' \in [Tabs -> Pages] /\ \A u \in Tabs \ {t} : page'[u] = page[u]
      BY <1>2, <1>9 DEF OwnerTyped
    <2>4. /\ user' \in [Tabs -> DbSteps \cup {None, "loading", "done"}] /\ user'[t] = "loading"
          /\ \A u \in Tabs \ {t} : user'[u] = user[u]
      BY <1>2, <1>9 DEF OwnerTyped
    <2>5. /\ ready' \in [Tabs -> BOOLEAN] /\ ready'[t] = FALSE /\ \A u \in Tabs \ {t} : ready'[u] = ready[u]
      BY <1>2, <1>9 DEF OwnerTyped
    <2>6. /\ effect' \in [Tabs -> {"mount", "guard", "none"}] /\ effect'[t] = "mount"
          /\ \A u \in Tabs \ {t} : effect'[u] = effect[u]
      BY <1>2, <1>9 DEF OwnerTyped
    <2>7. OwnerTyped'
      BY <1>1, <1>2, <1>3, <2>2, <2>3, <2>4, <2>5, <2>6 DEF OwnerTyped, server, browser
    <2>8. AwayFrom(t) BY <1>1, <2>2, <2>3, <2>4, <2>5, <2>6 DEF AwayFrom
    <2>9. TabOK(t)'
      BY <1>1, <1>2, <1>5, <2>1, <2>2, <2>4, <2>6 DEF TabOK, Idle, server
    <2>10. Unpaid(t)'
      BY <1>1, <1>2, <2>1, <2>2, <2>4, <2>5, <2>6 DEF Unpaid, server
    <2> QED BY <1>4, <2>7, <2>8, <2>9, <2>10, Elsewhere
  <1> QED BY <1>8, <1>9 DEF Detour

LEMMA OwnerInitially == Init => OwnerInv
  <1> SUFFICES ASSUME Init PROVE OwnerInv OBVIOUS
  <1>1. /\ [do |-> "refresh", to |-> None] \in Commands /\ [do |-> "refresh", to |-> None] \in Anyones
        /\ [do |-> "refresh", to |-> None] \in Earlies
    BY CommandsAre
  <1>2. /\ Do("refresh", None) \in Seq(Commands) /\ Do("refresh", None) \in Seq(Anyones)
        /\ Do("refresh", None) \in Seq(Earlies)
    BY <1>1, OneCommand
  <1>3. Idle \in [pc : {"idle", "read", "begun", "tx"}, seen : DbSteps \cup {None, "done"}] BY DEF Idle
  <1>4. "welcome" \in Pages \ Setup BY PagesAre
  <1>5. OwnerTyped
    <2>1. 0 \in 0..MaxFaults /\ 0 \in 0..MaxDetours BY OnboardingAssumption
    <2>2. script \in [Tabs -> Seq(Commands)] BY <1>2 DEF Init
    <2>3. call \in [Tabs -> [pc : {"idle", "read", "begun", "tx"}, seen : DbSteps \cup {None, "done"}]]
      BY <1>3 DEF Init
    <2> QED BY <1>4, <2>1, <2>2, <2>3 DEF Init, OwnerTyped
  <1>6. World BY DEF Init, World
  <1>7. ASSUME NEW u \in Tabs PROVE TabOK(u) /\ Unpaid(u)
    BY <1>2, <1>4, PagesAre DEF Init, TabOK, Unpaid, Idle
  <1> QED BY <1>5, <1>6, <1>7 DEF OwnerInv

LEMMA OwnerStep == OwnerInv /\ [Next]_vars => OwnerInv'
  <1> SUFFICES ASSUME OwnerInv, [Next]_vars PROVE OwnerInv' OBVIOUS
  <1>1. ASSUME UNCHANGED vars PROVE OwnerInv'
    BY <1>1 DEF OwnerInv, OwnerTyped, World, TabOK, Unpaid, Does, Head1, vars, server, browser, view, budget
  <1>2. ASSUME NEW t \in Tabs, Proceed(t) PROVE OwnerInv'
    BY <1>2, ReadStep, WriteStep, CompleteStep, TrialStep, BeginStep, CommitStep, SignInStep, OtherCallStep,
       RefreshStep, StatementStep, EffectsStep DEF Proceed, Serve
  <1>3. ASSUME NEW t \in Tabs, Lost(t) \/ Decline(t) \/ Detour(t) PROVE OwnerInv'
    BY <1>3, LostStep, DeclineStep, DetourStep
  <1>4. ASSUME NEW t \in Tabs, NEW n \in Names, Press(t, n) PROVE OwnerInv'
    BY <1>4, PressStep
  <1> QED BY <1>1, <1>2, <1>3, <1>4 DEF Next

LEMMA OwnerAlways == Spec => []OwnerInv
  BY OwnerInitially, OwnerStep, PTL DEF Spec

\* What the rows, the browser and the tabs hold, for every number of tabs: the
\* services and pages put nothing else there.
THEOREM OnboardingTypeOK == Spec => []TypeOK
  <1>1. OwnerInv => TypeOK
    BY DEF OwnerInv, OwnerTyped, TypeOK
  <1> QED BY <1>1, OwnerAlways, PTL

\* Whatever the tabs of the owner interleave and the network loses, a company
\* that has taken the trial or paid is not put back before the billing gate.
THEOREM OnboardingPastBilling == Spec => []PastBilling
  <1>1. OwnerInv => PastBilling
    BY PagesAre DEF OwnerInv, World, PastBilling
  <1> QED BY <1>1, OwnerAlways, PTL

\* A tab that rests on the dashboard belongs to an owner whose completion is stored.
THEOREM OnboardingDashboardWhenCompleted == Spec => []DashboardWhenCompleted
  <1>1. OwnerInv => DashboardWhenCompleted
    BY DEF OwnerInv, TabOK, DashboardWhenCompleted, Settled
  <1> QED BY <1>1, OwnerAlways, PTL

\* No tab rests on a page of the setup before a trial or a payment, whatever
\* addresses are typed in and whatever other tabs left in the browser.
THEOREM OnboardingBillingFirst == Spec => []BillingFirst
  <1>1. OwnerInv => BillingFirst
    BY DEF OwnerInv, Unpaid, BillingFirst, Settled
  <1> QED BY <1>1, OwnerAlways, PTL

-----------------------------------------------------------------------------
(* One tab.  A script is covered by a level when each of its commands that  *)
(* writes or pushes a page needs no more than that level, or comes after a  *)
(* call whose answer gives what it needs.                                   *)

\* How far the owner may be shown: to the step stored; without one, to the registration.
Level == IF step = None THEN 3 ELSE groupIndex(step)

\* The level that a command needs, and the one that its answer gives.
Needs(c) ==
    CASE c.do \in {"local", "push"} /\ c.to \in Wizard -> groupIndex(c.to)
      [] c.do = "draft" /\ c.to = "registered" -> 4
      [] OTHER -> 0
Gives(c) ==
    CASE c.do = "state" -> groupIndex(c.to)
      [] c.do \in Billing -> 5
      [] c.do \in {"register", "login"} -> 4
      [] c.do = "finish" -> 9
      [] OTHER -> 0
Reaches(s, m) == \E j \in 1..Len(s) : Gives(s[j]) >= m
Covered(s, m) ==
    \A i \in 1..Len(s) : Needs(s[i]) <= m \/ \E j \in 1..(i - 1) : Gives(s[j]) >= Needs(s[i])

\* The only tab, and nobody else writes between its statements.
Solo(t) ==
    /\ call[t].pc = "read" => call[t].seen = step
    /\ call[t].pc = "tx" => call[t].seen = Me
    /\ completed => step = "complete"
    /\ local # None => groupIndex(local) <= Level
    /\ user[t] \in DbSteps => groupIndex(user[t]) <= Level
    /\ (ready[t] \/ effect[t] = "none") /\ page[t] \in Wizard => groupIndex(page[t]) <= Level
    /\ Covered(script[t], Level)
    /\ "registered" \in draft => step # None

LEMMA NeedsNat == \A c \in Commands : Needs(c) \in Nat /\ Gives(c) \in Nat
  <1>1. \A p \in Wizard : groupIndex(p) \in Nat BY PagesAre, Groups
  <1>2. Setup \subseteq Wizard BY PagesAre
  <1> SUFFICES ASSUME NEW c \in Commands PROVE Needs(c) \in Nat /\ Gives(c) \in Nat OBVIOUS
  <1>3. Needs(c) \in Nat BY <1>1 DEF Needs
  <1>4. c.do = "state" => c.to \in Setup BY DEF Commands, Billing
  <1>5. Gives(c) \in Nat BY <1>1, <1>2, <1>4 DEF Gives
  <1> QED BY <1>3, <1>5

\* Scripts put together.
LEMMA CoveredOne ==
    ASSUME NEW d, NEW x, NEW m \in Nat, Needs([do |-> d, to |-> x]) <= m
    PROVE  Covered(Do(d, x), m)
  BY DEF Covered, Do
LEMMA CoveredJoined ==
    ASSUME NEW a \in Seq(Commands), NEW b \in Seq(Commands), NEW m \in Nat, NEW k \in Nat,
           Covered(a, m), Covered(b, k), k <= m \/ Reaches(a, k)
    PROVE  Covered(a \o b, m)
  <1> SUFFICES ASSUME NEW i \in 1..Len(a \o b), ~(Needs((a \o b)[i]) <= m)
               PROVE  \E j \in 1..(i - 1) : Gives((a \o b)[j]) >= Needs((a \o b)[i])
    BY DEF Covered
  <1>1. Len(a) \in Nat /\ Len(b) \in Nat /\ Len(a \o b) = Len(a) + Len(b) OBVIOUS
  <1>2. CASE i <= Len(a)
    <2>1. i \in 1..Len(a) /\ (a \o b)[i] = a[i] BY <1>1, <1>2
    <2>2. PICK j \in 1..(i - 1) : Gives(a[j]) >= Needs(a[i]) BY <2>1 DEF Covered
    <2>3. (a \o b)[j] = a[j] BY <1>1, <2>1, <2>2
    <2> QED BY <2>1, <2>2, <2>3
  <1>3. CASE i > Len(a)
    <2>1. i - Len(a) \in 1..Len(b) /\ (a \o b)[i] = b[i - Len(a)] BY <1>1, <1>3
    <2> DEFINE n == Needs(b[i - Len(a)])
    <2>2. n \in Nat
      <3>1. b[i - Len(a)] \in Commands BY <2>1
      <3> QED BY <3>1, NeedsNat
    <2>3. CASE n <= k
      <3>1. Reaches(a, k) BY <1>3, <2>1, <2>2, <2>3
      <3>2. PICK j \in 1..Len(a) : Gives(a[j]) >= k BY <3>1 DEF Reaches
      <3>3. a[j] \in Commands /\ (a \o b)[j] = a[j] BY <1>1, <3>2
      <3>4. Gives(a[j]) \in Nat BY <3>3, NeedsNat
      <3>5. j \in 1..(i - 1) BY <1>1, <1>3, <3>2
      <3> QED BY <2>1, <2>2, <2>3, <3>2, <3>3, <3>4, <3>5
    <2>4. CASE ~(n <= k)
      <3>1. PICK j \in 1..(i - Len(a) - 1) : Gives(b[j]) >= n BY <2>1, <2>4 DEF Covered
      <3>2. j + Len(a) \in 1..(i - 1) /\ (a \o b)[j + Len(a)] = b[j] BY <1>1, <1>3, <2>1, <3>1
      <3> QED BY <2>1, <3>1, <3>2
    <2> QED BY <2>3, <2>4
  <1> QED BY <1>1, <1>2, <1>3
LEMMA ReachesOne == ASSUME NEW d, NEW x, NEW m, Gives([do |-> d, to |-> x]) >= m PROVE Reaches(Do(d, x), m)
  BY DEF Reaches, Do
LEMMA ReachesLeft ==
    ASSUME NEW a \in Seq(Commands), NEW b \in Seq(Commands), NEW m, Reaches(a, m) PROVE Reaches(a \o b, m)
  BY DEF Reaches

\* The rest of a script once its first command has been answered.
LEMMA CoveredRest ==
    ASSUME NEW s \in Seq(Commands), s # <<>>, NEW m \in Nat, NEW k \in Nat, Covered(s, m), m <= k, Gives(Head(s)) <= k
    PROVE  Covered(Tail(s), k)
  <1> SUFFICES ASSUME NEW i \in 1..Len(Tail(s)), ~(Needs(Tail(s)[i]) <= k)
               PROVE  \E j \in 1..(i - 1) : Gives(Tail(s)[j]) >= Needs(Tail(s)[i])
    BY DEF Covered
  <1>1. Len(s) \in Nat /\ Len(Tail(s)) = Len(s) - 1 /\ Tail(s)[i] = s[i + 1] /\ i + 1 \in 1..Len(s) OBVIOUS
  <1>2. Head(s) = s[1] OBVIOUS
  <1>3. s[i + 1] \in Commands BY <1>1
  <1>4. Needs(s[i + 1]) \in Nat BY <1>3, NeedsNat
  <1>5. ~(Needs(s[i + 1]) <= m) BY <1>1, <1>4
  <1>6. PICK j \in 1..i : Gives(s[j]) >= Needs(s[i + 1]) BY <1>1, <1>5 DEF Covered
  <1>7. s[j] \in Commands BY <1>1, <1>6
  <1>8. Gives(s[j]) \in Nat BY <1>7, NeedsNat
  <1>9. j # 1
    <2>1. ASSUME j = 1 PROVE FALSE
      <3>1. Gives(s[1]) >= Needs(s[i + 1]) /\ Gives(s[1]) <= k /\ Gives(s[1]) \in Nat
        BY <1>2, <1>6, <1>8, <2>1
      <3> QED BY <1>1, <1>4, <3>1
    <2> QED BY <2>1
  <1>10. j - 1 \in 1..(i - 1) /\ Tail(s)[j - 1] = s[j] BY <1>1, <1>6, <1>9
  <1> QED BY <1>1, <1>6, <1>10

LEMMA CoveredNow ==
    ASSUME NEW s \in Seq(Commands), s # <<>>, NEW m, Covered(s, m)
    PROVE  Needs(Head(s)) <= m
  <1>1. 1 \in 1..Len(s) /\ Head(s) = s[1] OBVIOUS
  <1> QED BY <1>1 DEF Covered

LEMMA LevelOf ==
    ASSUME OwnerTyped
    PROVE  /\ Level \in 3..9 /\ (step # None => Level = groupIndex(step) /\ Level >= 4)
           /\ \A p \in PreAuth : groupIndex(p) <= Level
           /\ step # None => groupIndex("pricing") <= Level
  <1>1. step \in DbSteps \cup {None} BY DEF OwnerTyped
  <1>2. \A p \in DbSteps : groupIndex(p) \in 4..9 BY PagesAre, Groups
  <1>3. \A p \in PreAuth : groupIndex(p) \in 1..3 BY PagesAre, Groups
  <1>4. groupIndex("pricing") = 4 BY Groups
  <1> QED BY <1>1, <1>2, <1>3, <1>4 DEF Level

Higher == step # None => step' # None /\ groupIndex(step') >= groupIndex(step)
LEMMA HigherLevel == ASSUME OwnerTyped, OwnerTyped', Higher PROVE Level <= Level'
  <1>1. step \in DbSteps \cup {None} /\ step' \in DbSteps \cup {None} BY DEF OwnerTyped
  <1>2. \A p \in DbSteps : groupIndex(p) \in 4..9 BY PagesAre, Groups
  <1> QED BY <1>1, <1>2 DEF Level, Higher

\* An answer that raises the level by what its command gives, or ends the script.
LEMMA SoloAfter ==
    ASSUME OwnerInv, OwnerInv', NEW t \in Tabs, Solo(t), NEW z, After(t, z), UNCHANGED <<local, draft, page, ready>>,
           Higher, user'[t] \in DbSteps => groupIndex(user'[t]) <= Level',
           effect'[t] = "none" => effect[t] = "none", completed' => step' = "complete",
           z = <<>> \/ Gives(Head1(t)) <= Level'
    PROVE  Solo(t)'
  <1>1. OwnerTyped /\ OwnerTyped' BY DEF OwnerInv
  <1>2. Level \in 3..9 BY <1>1, LevelOf
  <1>3. Level' \in 3..9
    <2>1. step' \in DbSteps \cup {None} BY <1>1 DEF OwnerTyped
    <2>2. \A p \in DbSteps : groupIndex(p) \in 4..9 BY PagesAre, Groups
    <2> QED BY <2>1, <2>2 DEF Level
  <1>4. Level <= Level' BY <1>1, HigherLevel
  <1>5. script'[t] = z /\ call'[t] = Idle BY AfterOf
  <1> DEFINE m == Level
             k == Level'
  <1>6. Covered(z, k)
    <2>1. CASE z = <<>> BY <2>1 DEF Covered
    <2>2. CASE z # <<>>
      <3>1. z = Tail(script[t]) /\ script[t] # <<>> BY <2>2 DEF After, Rest
      <3>2. script[t] \in Seq(Commands) BY <1>1 DEF OwnerTyped
      <3>3. Covered(script[t], m) BY DEF Solo
      <3>4. m \in Nat /\ k \in Nat /\ m <= k /\ Gives(Head(script[t])) <= k
        BY <1>2, <1>3, <1>4, <2>2 DEF Head1
      <3> HIDE DEF m, k
      <3> QED BY <3>1, <3>2, <3>3, <3>4, CoveredRest
    <2> QED BY <2>1, <2>2
  <1>7. Covered(script[t], Level)' BY <1>5, <1>6
  <1>8. local' # None => groupIndex(local') <= Level'
    <2>1. local \in Wizard \cup {None} BY <1>1 DEF OwnerTyped
    <2>2. \A p \in Wizard : groupIndex(p) \in 1..9 BY PagesAre, Groups
    <2> QED BY <1>2, <1>3, <1>4, <2>1, <2>2 DEF Solo
  <1>9. (ready'[t] \/ effect'[t] = "none") /\ page'[t] \in Wizard => groupIndex(page'[t]) <= Level'
    <2>1. \A p \in Wizard : groupIndex(p) \in 1..9 BY PagesAre, Groups
    <2> QED BY <1>2, <1>3, <1>4, <2>1 DEF Solo
  <1>10. "registered" \in draft' => step' # None BY DEF Solo, Higher
  <1> QED BY <1>5, <1>7, <1>8, <1>9, <1>10 DEF Solo, Idle

LEMMA GivesOf ==
    ASSUME NEW t
    PROVE  /\ Does(t, "state") => Gives(Head1(t)) = groupIndex(Head1(t).to)
           /\ Does(t, "trial") \/ Does(t, "subscribe") => Gives(Head1(t)) = 5
           /\ Does(t, "register") \/ Does(t, "login") => Gives(Head1(t)) = 4
           /\ Does(t, "finish") => Gives(Head1(t)) = 9
           /\ Does(t, "save") \/ Does(t, "patch") \/ Does(t, "refresh") => Gives(Head1(t)) = 0
  BY DEF Does, Gives, Billing

LEMMA SameRows ==
    ASSUME OwnerInv, NEW t \in Tabs, Solo(t), UNCHANGED server
    PROVE  /\ Higher /\ Level' = Level /\ (completed' => step' = "complete")
           /\ user[t] \in DbSteps => groupIndex(user[t]) <= Level'
  <1>1. step' = step /\ completed' = completed BY DEF server
  <1>2. \A p \in Wizard : groupIndex(p) \in 1..9 BY PagesAre, Groups
  <1>3. step \in DbSteps \cup {None} BY DEF OwnerInv, OwnerTyped
  <1>4. Higher BY <1>1, <1>2, <1>3, PagesAre DEF Higher
  <1>5. Level' = Level BY <1>1 DEF Level
  <1> QED BY <1>1, <1>4, <1>5 DEF Solo

LEMMA SoloRead ==
    ASSUME OwnerInv, OwnerInv', NEW t \in Tabs, Solo(t), UpdateStateRead(t)
    PROVE  Solo(t)' /\ Higher
  <1>1. Does(t, "state") /\ UNCHANGED <<server, browser, view, bag>> BY DEF UpdateStateRead
  <1>2. Higher /\ Level' = Level /\ (completed' => step' = "complete")
        /\ (user[t] \in DbSteps => groupIndex(user[t]) <= Level')
    BY <1>1, SameRows
  <1>3. UNCHANGED <<local, draft, page, ready, user, effect>> BY <1>1 DEF browser, view
  <1>4. CASE completed /\ Answered(t)
    <2>1. PICK z : After(t, z) BY <1>4, AnswerOf DEF OwnerInv
    <2>2. Gives(Head1(t)) <= Level
      <3>1. step = "complete" BY <1>4 DEF Solo
      <3>2. Level = 9 BY <3>1, Groups, PagesAre DEF Level
      <3>3. Head1(t).to \in Setup BY <1>1, StateCommand
      <3>4. \A p \in Setup : groupIndex(p) <= 9 BY PagesAre, Groups
      <3> QED BY <1>1, <3>2, <3>3, <3>4, GivesOf
    <2> QED BY <1>2, <1>3, <2>1, <2>2, SoloAfter
  <1>5. CASE call' = [call EXCEPT ![t] = [pc |-> "read", seen |-> step]] /\ UNCHANGED <<script, budget>>
    <2>1. call'[t] = [pc |-> "read", seen |-> step] BY <1>5 DEF OwnerInv, OwnerTyped
    <2>2. step' = step /\ completed' = completed BY <1>1 DEF server
    <2>3. Covered(script[t], Level)' BY <1>2, <1>5 DEF Solo
    <2> QED BY <1>2, <1>3, <2>1, <2>2, <2>3 DEF Solo
  <1> QED BY <1>4, <1>5 DEF UpdateStateRead

LEMMA SoloWrite ==
    ASSUME OwnerInv, OwnerInv', NEW t \in Tabs, Solo(t), UpdateStateWrite(t)
    PROVE  Solo(t)' /\ Higher
  <1>1. /\ Does(t, "state") /\ call[t].pc = "read" /\ Answered(t)
        /\ UNCHANGED <<completed, billing, chosen, browser, view, bag>>
    BY DEF UpdateStateWrite
  <1>2. Head1(t).to \in Setup /\ step # None BY <1>1, StateCommand
  <1>3. step \in DbSteps BY <1>2 DEF OwnerInv, OwnerTyped
  <1>4. step' = IF groupIndex(Head1(t).to) >= groupIndex(step) THEN Head1(t).to ELSE step
    BY <1>1 DEF UpdateStateWrite, Solo
  <1>5. /\ \A p \in DbSteps : groupIndex(p) \in 4..9 /\ p # None
        /\ \A p \in DbSteps : groupIndex(p) >= 9 => p = "complete"
        /\ Setup \subseteq DbSteps /\ groupIndex("complete") = 9
    BY PagesAre, Groups
  <1>6. Higher /\ Level' = groupIndex(step') /\ groupIndex(Head1(t).to) <= Level'
    BY <1>2, <1>3, <1>4, <1>5 DEF Higher, Level
  <1>7. completed' => step' = "complete"
    <2>1. completed' = completed BY <1>1
    <2>2. ASSUME step = "complete" PROVE step' = "complete" BY <1>2, <1>4, <1>5, <2>2
    <2> QED BY <2>1, <2>2 DEF Solo
  <1>8. PICK z : After(t, z) BY <1>1, AnswerOf DEF OwnerInv
  <1>9. user'[t] \in DbSteps => groupIndex(user'[t]) <= Level'
    <2>1. Level <= Level' BY <1>6, HigherLevel DEF OwnerInv
    <2>2. Level \in 3..9 /\ Level' \in 4..9 BY <1>2, <1>3, <1>4, <1>5, <1>6, LevelOf DEF OwnerInv
    <2> QED BY <1>1, <1>5, <2>1, <2>2 DEF Solo, view
  <1>10. UNCHANGED <<local, draft, page, ready, user, effect>> BY <1>1 DEF browser, view
  <1>11. Gives(Head1(t)) <= Level' BY <1>1, <1>6, GivesOf
  <1> QED BY <1>6, <1>7, <1>8, <1>9, <1>10, <1>11, SoloAfter

\* An answer after which the owner is at least at step p.
LEMMA SoloRaised ==
    ASSUME OwnerInv, OwnerInv', NEW t \in Tabs, Solo(t), Answered(t), UNCHANGED <<browser, view>>,
           Higher, step' # None, completed' => step' = "complete", Gives(Head1(t)) <= groupIndex(step')
    PROVE  Solo(t)'
  <1>1. PICK z : After(t, z) BY AnswerOf DEF OwnerInv
  <1>2. UNCHANGED <<local, draft, page, ready, user, effect>> BY DEF browser, view
  <1>3. Level' = groupIndex(step') BY DEF Level
  <1>4. Level <= Level' /\ Level \in 3..9 BY HigherLevel, LevelOf DEF OwnerInv
  <1>5. Level' \in 4..9
    <2>1. step' \in DbSteps BY DEF OwnerInv, OwnerTyped
    <2>2. \A p \in DbSteps : groupIndex(p) \in 4..9 BY PagesAre, Groups
    <2> QED BY <1>3, <2>1, <2>2
  <1>6. user'[t] \in DbSteps => groupIndex(user'[t]) <= Level'
    <2>1. \A p \in DbSteps : groupIndex(p) \in 4..9 BY PagesAre, Groups
    <2> QED BY <1>2, <1>4, <1>5, <2>1 DEF Solo
  <1>7. Gives(Head1(t)) <= Level' BY <1>3
  <1> QED BY <1>1, <1>2, <1>6, <1>7, SoloAfter

LEMMA SoloComplete ==
    ASSUME OwnerInv, OwnerInv', NEW t \in Tabs, Solo(t), Complete(t)
    PROVE  Solo(t)' /\ Higher
  <1>1. /\ Does(t, "finish") /\ step' = "complete" /\ Answered(t) /\ UNCHANGED <<browser, view>>
    BY DEF Complete
  <1>2. step' # None /\ groupIndex(step') = 9 BY <1>1, PagesAre, Groups
  <1>3. Higher
    <2>1. step \in DbSteps \cup {None} BY DEF OwnerInv, OwnerTyped
    <2>2. \A p \in DbSteps : groupIndex(p) \in 4..9 BY PagesAre, Groups
    <2> QED BY <1>2, <2>1, <2>2 DEF Higher
  <1>4. Gives(Head1(t)) <= groupIndex(step') BY <1>1, <1>2, GivesOf
  <1> QED BY <1>1, <1>2, <1>3, <1>4, SoloRaised

LEMMA SoloCommit ==
    ASSUME OwnerInv, OwnerInv', NEW t \in Tabs, Solo(t), BillingCommit(t)
    PROVE  Solo(t)' /\ Higher
  <1>1. /\ call[t].pc = "tx" /\ step' = Bump(call[t].seen) /\ Answered(t)
        /\ UNCHANGED <<completed, browser, view>>
    BY DEF BillingCommit
  <1>2. Does(t, "trial") \/ Does(t, "subscribe") BY <1>1 DEF OwnerInv, TabOK
  <1>3. step \in DbSteps BY <1>2, BillingCommand
  <1>4. step' = Bump(Me) BY <1>1 DEF Solo
  <1>5. \A p \in DbSteps : groupIndex(p) \in 4..9 /\ p # None /\ p # "done" BY PagesAre, Groups
  <1>6. CASE completed
    <2>1. step' = step /\ step = "complete" BY <1>4, <1>6 DEF Bump, Me, Solo
    <2>2. groupIndex(step') = 9 /\ step' # None BY <2>1, Groups, PagesAre
    <2>3. Higher BY <2>1, <2>2 DEF Higher
    <2>4. Gives(Head1(t)) <= groupIndex(step') BY <1>2, <2>2, GivesOf
    <2> QED BY <1>1, <2>1, <2>2, <2>3, <2>4, SoloRaised
  <1>7. CASE ~completed
    <2>1. Me = step /\ step # "done" BY <1>3, <1>5, <1>7 DEF Me
    <2>2. step' = IF groupIndex("attendance") >= groupIndex(step) THEN "attendance" ELSE step
      BY <1>4, <2>1 DEF Bump
    <2>3. step' \in DbSteps /\ groupIndex(step') >= groupIndex(step) /\ groupIndex(step') >= 5
      BY <1>3, <1>5, <2>2, Groups, PagesAre
    <2>4. Higher /\ step' # None BY <1>5, <2>3 DEF Higher
    <2>5. Gives(Head1(t)) <= groupIndex(step') BY <1>2, <1>5, <2>3, GivesOf
    <2>6. completed' => step' = "complete" BY <1>1, <1>7
    <2> QED BY <1>1, <2>4, <2>5, <2>6, SoloRaised
  <1> QED BY <1>6, <1>7

\* An answer, a refusal or a loss that leaves the rows alone.
LEMMA SoloSame ==
    ASSUME OwnerInv, OwnerInv', NEW t \in Tabs, Solo(t), NEW z, After(t, z), UNCHANGED <<server, browser, view>>,
           z = <<>> \/ Gives(Head1(t)) = 0
    PROVE  Solo(t)' /\ Higher
  <1>1. Higher /\ Level' = Level /\ (completed' => step' = "complete")
        /\ (user[t] \in DbSteps => groupIndex(user[t]) <= Level')
    BY SameRows
  <1>2. UNCHANGED <<local, draft, page, ready, user, effect>> BY DEF browser, view
  <1>3. Level \in 3..9 BY LevelOf DEF OwnerInv
  <1>4. z = <<>> \/ Gives(Head1(t)) <= Level' BY <1>1, <1>3
  <1> QED BY <1>1, <1>2, <1>4, SoloAfter

LEMMA SoloTrial ==
    ASSUME OwnerInv, OwnerInv', NEW t \in Tabs, Solo(t), StartTrial(t)
    PROVE  Solo(t)' /\ Higher
  <1>1. Does(t, "trial") /\ UNCHANGED <<browser, view, bag>> BY DEF StartTrial
  <1>2. CASE Refused(t)
    <2>1. Caught(t) = <<>> BY <1>1, BillingCommand
    <2>2. After(t, <<>>) /\ UNCHANGED server BY <1>2, <2>1 DEF Refused, After
    <2> QED BY <1>1, <2>2, SoloSame
  <1>3. CASE /\ call' = [call EXCEPT ![t] = [pc |-> "begun", seen |-> None]]
             /\ UNCHANGED <<server, script, budget>>
    <2>1. Higher /\ Level' = Level /\ (completed' => step' = "complete")
      BY <1>3, SameRows
    <2>2. call'[t] = [pc |-> "begun", seen |-> None] BY <1>3 DEF OwnerInv, OwnerTyped
    <2>3. UNCHANGED <<local, draft, page, ready, user, effect, step>> BY <1>1, <1>3 DEF browser, view, server
    <2>4. Covered(script[t], Level)' BY <1>3, <2>1 DEF Solo
    <2> QED BY <2>1, <2>2, <2>3, <2>4 DEF Solo
  <1> QED BY <1>2, <1>3 DEF StartTrial

LEMMA SoloBegin ==
    ASSUME OwnerInv, OwnerInv', NEW t \in Tabs, Solo(t), BillingBegin(t)
    PROVE  Solo(t)' /\ Higher
  <1>1. /\ call' = [call EXCEPT ![t] = [pc |-> "tx", seen |-> Me]]
        /\ UNCHANGED <<server, browser, view, bag, script, budget>>
    BY DEF BillingBegin
  <1>2. Higher /\ Level' = Level /\ (completed' => step' = "complete")
    BY <1>1, SameRows
  <1>3. call'[t].pc = "tx" /\ call'[t].seen = Me BY <1>1 DEF OwnerInv, OwnerTyped
  <1>4. Me' = Me BY <1>1 DEF Me, server
  <1>5. UNCHANGED <<local, draft, page, ready, user, effect, step>> BY <1>1 DEF browser, view, server
  <1>6. Covered(script[t], Level)' BY <1>1, <1>2 DEF Solo
  <1> QED BY <1>2, <1>3, <1>4, <1>5, <1>6 DEF Solo

LEMMA SoloSignIn ==
    ASSUME OwnerInv, OwnerInv', NEW t \in Tabs, Solo(t), SignIn(t)
    PROVE  Solo(t)' /\ Higher
  <1>1. /\ Does(t, "register") \/ Does(t, "login")
        /\ (step = None /\ step' = "pricing") \/ (step # None /\ step' = step)
        /\ UNCHANGED <<completed, browser, page, ready, bag>>
    BY DEF SignIn
  <1>2. step' # None /\ step' \in DbSteps BY <1>1, PagesAre DEF OwnerInv, OwnerTyped
  <1>3. \A p \in DbSteps : groupIndex(p) \in 4..9 BY PagesAre, Groups
  <1>4. Higher BY <1>1, <1>2, <1>3 DEF Higher
  <1>5. completed' => step' = "complete" BY <1>1, PagesAre DEF Solo
  <1>6. Level' = groupIndex(step') /\ Level' >= 4 BY <1>2, <1>3 DEF Level
  <1>7. Gives(Head1(t)) <= groupIndex(step') BY <1>1, <1>2, <1>3, GivesOf
  <1>8. CASE Returns(t) /\ NewUser(t, IF completed THEN "done" ELSE step')
    <2>1. After(t, Rest(t)) BY <1>8 DEF Returns, After
    <2>2. user'[t] \in {"done", step'} BY <1>8 DEF NewUser, OwnerInv, OwnerTyped
    <2>3. user'[t] \in DbSteps => groupIndex(user'[t]) <= Level'
      BY <1>2, <1>3, <1>6, <2>2, PagesAre
    <2>4. effect'[t] = "none" => effect[t] = "none"
      BY <1>8 DEF NewUser, OwnerInv, OwnerTyped
    <2>5. UNCHANGED <<local, draft, page, ready>> BY <1>1 DEF browser
    <2> QED BY <1>4, <1>5, <1>6, <1>7, <2>1, <2>3, <2>4, <2>5, SoloAfter
  <1>9. CASE Fails(t) /\ UNCHANGED <<user, effect>>
    <2>1. Answered(t) BY <1>9 DEF Answered
    <2>2. UNCHANGED <<browser, view>> BY <1>1, <1>9 DEF view
    <2> QED BY <1>2, <1>4, <1>5, <1>7, <2>1, <2>2, SoloRaised
  <1> QED BY <1>8, <1>9 DEF SignIn

LEMMA SoloOther ==
    ASSUME OwnerInv, OwnerInv', NEW t \in Tabs, Solo(t), OtherCall(t)
    PROVE  Solo(t)' /\ Higher
  <1>1. /\ Does(t, "save") \/ Does(t, "patch")
        /\ Answered(t) /\ UNCHANGED <<server, browser, view>>
    BY DEF OtherCall
  <1>2. Gives(Head1(t)) = 0 BY <1>1, GivesOf
  <1>3. PICK z : After(t, z) BY <1>1, AnswerOf DEF OwnerInv
  <1> QED BY <1>1, <1>2, <1>3, SoloSame

LEMMA SoloRefresh ==
    ASSUME OwnerInv, OwnerInv', NEW t \in Tabs, Solo(t), RefreshSession(t)
    PROVE  Solo(t)' /\ Higher
  <1>1. Does(t, "refresh") /\ UNCHANGED <<server, browser, page, ready, bag>>
    BY DEF RefreshSession
  <1>2. Higher /\ Level' = Level /\ (completed' => step' = "complete")
    BY <1>1, SameRows
  <1>3. After(t, Rest(t)) /\ \E v \in {Me, None} : NewUser(t, v)
    <2>1. CASE Returns(t) /\ NewUser(t, Me)
      BY <2>1 DEF Returns, After
    <2>2. CASE script' = [script EXCEPT ![t] = Rest(t)] /\ NewUser(t, None) /\ UNCHANGED call
      <3>1. call = [call EXCEPT ![t] = Idle] BY <1>1, IdleCall DEF Does
      <3> QED BY <2>2, <3>1 DEF After
    <2> QED BY <2>1, <2>2 DEF RefreshSession
  <1>4. PICK v \in {Me, None} : NewUser(t, v) BY <1>3
  <1>5. user'[t] = v /\ (effect'[t] = "none" => effect[t] = "none")
    BY <1>4 DEF NewUser, OwnerInv, OwnerTyped
  <1>6. v \in DbSteps => groupIndex(v) <= Level'
    <2>1. v \in DbSteps => v = step /\ step # None BY PagesAre DEF Me
    <2>2. Level \in 3..9 /\ (step # None => Level = groupIndex(step)) BY LevelOf DEF OwnerInv
    <2> QED BY <1>2, <2>1, <2>2
  <1>7. Gives(Head1(t)) <= Level'
    <2>1. Level \in 3..9 BY LevelOf DEF OwnerInv
    <2> QED BY <1>1, <1>2, <2>1, GivesOf
  <1>8. UNCHANGED <<local, draft, page, ready>> BY <1>1 DEF browser
  <1> QED BY <1>2, <1>3, <1>5, <1>6, <1>7, <1>8, SoloAfter

LEMMA SoloLost ==
    ASSUME OwnerInv, OwnerInv', NEW t \in Tabs, Solo(t), Lost(t)
    PROVE  Solo(t)' /\ Higher
  <1>1. Fails(t) /\ UNCHANGED <<server, browser, view>> BY DEF Lost
  <1>2. After(t, Caught(t)) BY <1>1 DEF Fails, After, Caught
  <1>3. Caught(t) = <<>> \/ Gives(Head1(t)) = 0 BY GivesOf DEF Caught
  <1> QED BY <1>1, <1>2, <1>3, SoloSame

LEMMA SoloDecline ==
    ASSUME OwnerInv, OwnerInv', NEW t \in Tabs, Solo(t), Decline(t)
    PROVE  Solo(t)' /\ Higher
  <1>1. /\ call[t].pc = "idle" /\ script' = [script EXCEPT ![t] = <<>>]
        /\ UNCHANGED <<server, browser, view, call>>
    BY DEF Decline
  <1>2. After(t, <<>>)
    <2>1. call[t] = Idle BY <1>1 DEF OwnerInv, TabOK
    <2>2. call' = [call EXCEPT ![t] = Idle] BY <1>1, <2>1 DEF OwnerInv, OwnerTyped
    <2> QED BY <1>1, <2>2 DEF After
  <1> QED BY <1>1, <1>2, SoloSame

LEMMA SoloStatement ==
    ASSUME OwnerInv, OwnerInv', NEW t \in Tabs, Solo(t), Statement(t)
    PROVE  Solo(t)' /\ Higher
  <1> DEFINE s == Head1(t)
  <1>1. /\ script[t] # <<>> /\ s.do \in Local
        /\ script' = [script EXCEPT ![t] = Rest(t)]
        /\ UNCHANGED <<server, user, ready, call, budget>>
    BY DEF Statement, Awaits
  <1>2. /\ local' = CASE s.do = "local" -> s.to [] s.do = "clear" -> None [] OTHER -> local
        /\ draft' = CASE s.do = "draft" -> draft \cup {s.to} [] s.do = "clear" -> {} [] OTHER -> draft
        /\ page' = [page EXCEPT ![t] = IF s.do = "push" THEN s.to ELSE page[t]]
        /\ effect' = [effect EXCEPT ![t] = IF s.do = "push" /\ page[t] # s.to THEN "mount" ELSE effect[t]]
    BY DEF Statement
  <1>3. Higher /\ Level' = Level /\ (completed' => step' = "complete")
        /\ (user[t] \in DbSteps => groupIndex(user[t]) <= Level')
    BY <1>1, SameRows
  <1>4. script[t] \in Seq(Commands) /\ Level \in 3..9 /\ (step = None => Level = 3)
    BY LevelOf DEF OwnerInv, OwnerTyped, Level
  <1>5. Needs(s) <= Level /\ Gives(s) = 0
    <2>1. Covered(script[t], Level) BY DEF Solo
    <2>2. Needs(Head(script[t])) <= Level BY <1>1, <1>4, <2>1, CoveredNow
    <2>3. Gives(s) = 0 BY <1>1 DEF Gives, Local, Billing
    <2> QED BY <2>2, <2>3 DEF Head1
  <1>6. Covered(script[t], Level)'
    <2> DEFINE m == Level
    <2>1. Covered(script[t], m) BY DEF Solo
    <2>2. m \in Nat /\ m <= m /\ Gives(Head(script[t])) <= m BY <1>4, <1>5 DEF Head1
    <2> HIDE DEF m
    <2>3. Covered(Tail(script[t]), m) BY <1>1, <1>4, <2>1, <2>2, CoveredRest
    <2>4. script'[t] = Tail(script[t]) BY <1>1 DEF OwnerInv, OwnerTyped, Rest
    <2>5. Level' = m BY <1>3 DEF m
    <2> QED BY <2>3, <2>4, <2>5
  <1>7. local' # None => groupIndex(local') <= Level'
    <2>1. s.do = "local" => s.to \in Wizard
      <3>1. s \in Commands BY <1>1, <1>4, Shorter
      <3> QED BY <3>1 DEF Commands, Billing
    <2>2. s.do = "local" => groupIndex(s.to) <= Level BY <1>5, <2>1 DEF Needs
    <2>3. local' = None \/ local' = local \/ (s.do = "local" /\ local' = s.to) BY <1>2
    <2> QED BY <1>3, <2>2, <2>3 DEF Solo
  <1>8. (ready'[t] \/ effect'[t] = "none") /\ page'[t] \in Wizard => groupIndex(page'[t]) <= Level'
    <2>1. \/ page'[t] = page[t] /\ effect'[t] = effect[t]
          \/ s.do = "push" /\ page'[t] = s.to
      BY <1>2 DEF OwnerInv, OwnerTyped
    <2>2. s.do = "push" /\ s.to \in Wizard => groupIndex(s.to) <= Level BY <1>5 DEF Needs
    <2> QED BY <1>1, <1>3, <2>1, <2>2 DEF Solo
  <1>9. "registered" \in draft' => step' # None
    <2>1. s.do = "draft" /\ s.to = "registered" => step # None
      BY <1>4, <1>5 DEF Needs
    <2>2. step' = step BY <1>1 DEF server
    <2>3. draft' = {} \/ draft' = draft \/ (s.do = "draft" /\ draft' = draft \cup {s.to}) BY <1>2
    <2> QED BY <2>1, <2>2, <2>3 DEF Solo
  <1>10. call' = call /\ step' = step /\ Me' = Me /\ user' = user BY <1>1 DEF server, Me
  <1> HIDE DEF s
  <1> QED BY <1>3, <1>6, <1>7, <1>8, <1>9, <1>10 DEF Solo

\* What the commands of the buttons need and give.
LEMMA NeedsAre ==
    /\ \A p \in Wizard : /\ Needs([do |-> "local", to |-> p]) = groupIndex(p)
                         /\ Needs([do |-> "push", to |-> p]) = groupIndex(p)
    /\ \A p \in Setup : /\ Needs([do |-> "state", to |-> p]) = 0
                        /\ Gives([do |-> "state", to |-> p]) = groupIndex(p)
    /\ \A d \in {"refresh", "save", "patch", "register", "login", "trial", "subscribe", "finish", "clear"} :
         Needs([do |-> d, to |-> None]) = 0
    /\ Needs([do |-> "push", to |-> "dashboard"]) = 0
    /\ Needs([do |-> "draft", to |-> "company"]) = 0 /\ Needs([do |-> "draft", to |-> "registered"]) = 4
    /\ \A x \in {"plan", "paid"} : Needs([do |-> "bag", to |-> x]) = 0
    /\ \A d \in {"trial", "subscribe"} : Gives([do |-> d, to |-> None]) = 5
    /\ \A d \in {"register", "login"} : Gives([do |-> d, to |-> None]) = 4
  BY PagesAre DEF Needs, Gives, Billing

LEMMA CommandScripts ==
    /\ \A d \in {"refresh", "save", "patch", "register", "login", "trial", "subscribe", "finish", "clear"} :
         Do(d, None) \in Seq(Commands)
    /\ \A p \in Wizard : Do("local", p) \in Seq(Commands) /\ Do("push", p) \in Seq(Commands)
    /\ Do("push", "dashboard") \in Seq(Commands)
    /\ \A p \in Setup : Do("state", p) \in Seq(Commands)
    /\ \A d \in {"company", "registered"} : Do("draft", d) \in Seq(Commands)
    /\ \A x \in {"plan", "paid"} : Do("bag", x) \in Seq(Commands)
  <1>1. /\ \A d \in {"refresh", "save", "patch", "register", "login", "trial", "subscribe", "finish", "clear"} :
             [do |-> d, to |-> None] \in Commands
        /\ \A p \in Wizard : [do |-> "local", to |-> p] \in Commands /\ [do |-> "push", to |-> p] \in Commands
        /\ [do |-> "push", to |-> "dashboard"] \in Commands
        /\ \A p \in Setup : [do |-> "state", to |-> p] \in Commands
        /\ \A d \in {"company", "registered"} : [do |-> "draft", to |-> d] \in Commands
        /\ \A x \in {"plan", "paid"} : [do |-> "bag", to |-> x] \in Commands
    BY PagesAre DEF Commands, Billing
  <1> QED BY <1>1, OneCommand

LEMMA GoToCovered ==
    ASSUME NEW p \in Wizard, NEW m \in Nat, groupIndex(p) <= m
    PROVE  Covered(GoTo(p), m) /\ GoTo(p) \in Seq(Commands)
  <1>1. Covered(Do("local", p), m) /\ Covered(Do("push", p), m)
    BY NeedsAre, CoveredOne
  <1>2. Do("local", p) \in Seq(Commands) /\ Do("push", p) \in Seq(Commands) BY CommandScripts
  <1>3. Covered(Do("local", p) \o Do("push", p), m)
    <2>1. m <= m OBVIOUS
    <2> QED BY <1>1, <1>2, <2>1, CoveredJoined
  <1>4. Do("local", p) \o Do("push", p) \in Seq(Commands) BY <1>2, Joined
  <1> QED BY <1>3, <1>4 DEF GoTo

\* A step is saved before the page goes there.
LEMMA AdvanceCovered ==
    ASSUME NEW p \in Setup, NEW m \in Nat
    PROVE  /\ Covered(advanceOnboardingTo(p), m) /\ advanceOnboardingTo(p) \in Seq(Commands)
           /\ Covered(Advance(p), m) /\ Advance(p) \in Seq(Commands)
  <1> DEFINE k == groupIndex(p)
             a == Do("state", p)
             b == Do("local", p)
             c == Do("refresh", None)
             d == Do("push", p)
  <1>1. p \in Wizard /\ k \in Nat /\ 0 <= m BY PagesAre, Groups
  <1>2. /\ a \in Seq(Commands) /\ b \in Seq(Commands) /\ c \in Seq(Commands) /\ d \in Seq(Commands)
    BY <1>1, CommandScripts
  <1>3. Covered(a, m) /\ Covered(c, m)
    <2>1. Needs([do |-> "state", to |-> p]) <= m /\ Needs([do |-> "refresh", to |-> None]) <= m
      BY <1>1, NeedsAre
    <2> QED BY <2>1, CoveredOne
  <1>4. Covered(b, k) /\ Covered(d, k)
    <2>1. Needs([do |-> "local", to |-> p]) <= k /\ Needs([do |-> "push", to |-> p]) <= k
      BY <1>1, NeedsAre
    <2> QED BY <1>1, <2>1, CoveredOne
  <1>5. Reaches(a, k)
    <2>1. Gives([do |-> "state", to |-> p]) >= k BY <1>1, NeedsAre
    <2> QED BY <2>1, ReachesOne
  <1>6. advanceOnboardingTo(p) = (a \o b) \o c /\ Advance(p) = ((a \o b) \o c) \o d
    BY DEF advanceOnboardingTo, Advance
  <1>7. m <= m OBVIOUS
  <1> HIDE DEF k, a, b, c, d
  <1>8. a \o b \in Seq(Commands) /\ Covered(a \o b, m) /\ Reaches(a \o b, k)
    BY <1>1, <1>2, <1>3, <1>4, <1>5, CoveredJoined, ReachesLeft, Joined
  <1>9. (a \o b) \o c \in Seq(Commands) /\ Covered((a \o b) \o c, m) /\ Reaches((a \o b) \o c, k)
    BY <1>2, <1>3, <1>7, <1>8, CoveredJoined, ReachesLeft, Joined
  <1>10. ((a \o b) \o c) \o d \in Seq(Commands) /\ Covered(((a \o b) \o c) \o d, m)
    BY <1>1, <1>2, <1>4, <1>9, CoveredJoined, Joined
  <1> QED BY <1>6, <1>9, <1>10
LEMMA FinishCovered == ASSUME NEW m \in Nat PROVE Covered(Finish, m)
  <1> DEFINE a == Do("finish", None)
             b == Do("clear", None)
             c == Do("refresh", None)
             d == Do("push", "dashboard")
  <1>1. a \in Seq(Commands) /\ b \in Seq(Commands) /\ c \in Seq(Commands) /\ d \in Seq(Commands)
    BY CommandScripts
  <1>2. Covered(a, m) /\ Covered(b, m) /\ Covered(c, m) /\ Covered(d, m)
    <2>1. 0 <= m OBVIOUS
    <2>2. /\ Needs([do |-> "finish", to |-> None]) <= m /\ Needs([do |-> "clear", to |-> None]) <= m
          /\ Needs([do |-> "refresh", to |-> None]) <= m /\ Needs([do |-> "push", to |-> "dashboard"]) <= m
      BY <2>1, NeedsAre
    <2> QED BY <2>2, CoveredOne
  <1>3. Finish = ((a \o b) \o c) \o d BY DEF Finish
  <1>4. m <= m OBVIOUS
  <1> HIDE DEF a, b, c, d
  <1>5. a \o b \in Seq(Commands) /\ Covered(a \o b, m) BY <1>1, <1>2, <1>4, CoveredJoined, Joined
  <1>6. (a \o b) \o c \in Seq(Commands) /\ Covered((a \o b) \o c, m) BY <1>1, <1>2, <1>4, <1>5, CoveredJoined, Joined
  <1> QED BY <1>1, <1>2, <1>3, <1>4, <1>6, CoveredJoined

\* Two scripts one after the other, neither with a need that is not met already.
LEMMA BothCovered ==
    ASSUME NEW a \in Seq(Commands), NEW b \in Seq(Commands), NEW m \in Nat, Covered(a, m), Covered(b, m)
    PROVE  Covered(a \o b, m) /\ a \o b \in Seq(Commands)
  <1>1. m <= m OBVIOUS
  <1> QED BY <1>1, CoveredJoined, Joined
\* The first command of a script gives what the rest needs.
LEMMA FirstCovers ==
    ASSUME NEW a \in Seq(Commands), NEW b \in Seq(Commands), NEW m \in Nat, NEW k \in Nat,
           Covered(a, m), Reaches(a, k), Covered(b, k)
    PROVE  Covered(a \o b, m) /\ Reaches(a \o b, k) /\ a \o b \in Seq(Commands)
  BY CoveredJoined, ReachesLeft, Joined

LEMMA ButtonCovered ==
    ASSUME NEW p \in Pages, NEW u, NEW b, NEW s, ScriptOf(p, u, b, s), NEW m \in 3..9,
           p \in Wizard => groupIndex(p) <= m,
           u # None \/ "registered" \in draft => 4 <= m
    PROVE  Covered(s, m)
  <1>1. m \in Nat /\ 0 <= m BY SMT
  <1>2. \A d \in {"refresh", "save", "patch", "register", "login", "trial", "subscribe", "finish", "clear"} :
          \A k \in Nat : Covered(Do(d, None), k) /\ Do(d, None) \in Seq(Commands)
    <2>1. SUFFICES ASSUME NEW d \in {"refresh", "save", "patch", "register", "login", "trial", "subscribe", "finish", "clear"},
                          NEW k \in Nat
                   PROVE  Covered(Do(d, None), k) /\ Do(d, None) \in Seq(Commands)
      OBVIOUS
    <2>2. Needs([do |-> d, to |-> None]) <= k BY NeedsAre
    <2> QED BY <2>2, CoveredOne, CommandScripts
  <1>3. \A x \in {"plan", "paid"} : \A k \in Nat : Covered(Do("bag", x), k) /\ Do("bag", x) \in Seq(Commands)
    <2>1. SUFFICES ASSUME NEW x \in {"plan", "paid"}, NEW k \in Nat
                   PROVE  Covered(Do("bag", x), k) /\ Do("bag", x) \in Seq(Commands)
      OBVIOUS
    <2>2. Needs([do |-> "bag", to |-> x]) <= k BY NeedsAre
    <2> QED BY <2>2, CoveredOne, CommandScripts
  <1>4. Covered(Do("draft", "company"), m) /\ Do("draft", "company") \in Seq(Commands)
    <2>1. Needs([do |-> "draft", to |-> "company"]) <= m BY <1>1, NeedsAre
    <2> QED BY <1>1, <2>1, CoveredOne, CommandScripts
  <1>5. CASE p = "welcome" /\ s = GoTo("company-profile")
    BY <1>1, <1>5, GoToCovered, PagesAre, Groups
  <1>6. CASE /\ u # None \/ "registered" \in draft
             /\ s = Do("draft", "company") \o (Do("patch", None) \o GoTo("pricing"))
    <2>1. groupIndex("pricing") <= m /\ "pricing" \in Wizard BY <1>6, Groups, PagesAre
    <2>2. Covered(GoTo("pricing"), m) /\ GoTo("pricing") \in Seq(Commands) BY <1>1, <2>1, GoToCovered
    <2>3. Covered(Do("patch", None), m) /\ Do("patch", None) \in Seq(Commands) BY <1>1, <1>2
    <2>4. Covered(Do("patch", None) \o GoTo("pricing"), m) /\ Do("patch", None) \o GoTo("pricing") \in Seq(Commands)
      BY <1>1, <2>2, <2>3, BothCovered
    <2> QED BY <1>1, <1>4, <1>6, <2>4, BothCovered
  <1>7. CASE s = Do("draft", "company") \o GoTo("admin-account")
    <2>1. groupIndex("admin-account") <= m /\ "admin-account" \in Wizard BY Groups, PagesAre
    <2>2. Covered(GoTo("admin-account"), m) /\ GoTo("admin-account") \in Seq(Commands) BY <1>1, <2>1, GoToCovered
    <2> QED BY <1>1, <1>4, <1>7, <2>2, BothCovered
  <1>8. CASE s = Do("register", None) \o Do("patch", None) \o Do("draft", "registered") \o GoTo("pricing")
    <2> DEFINE a == Do("register", None)
               d == Do("draft", "registered")
    <2>1. Covered(a, m) /\ a \in Seq(Commands) BY <1>1, <1>2
    <2>2. Reaches(a, 4)
      <3>1. Gives([do |-> "register", to |-> None]) >= 4 BY NeedsAre
      <3> QED BY <3>1, ReachesOne
    <2>3. Covered(Do("patch", None), 4) /\ Do("patch", None) \in Seq(Commands) BY <1>2
    <2>4. Covered(d, 4) /\ d \in Seq(Commands)
      <3>1. Needs([do |-> "draft", to |-> "registered"]) <= 4 BY NeedsAre
      <3> QED BY <3>1, CoveredOne, CommandScripts
    <2>5. Covered(GoTo("pricing"), 4) /\ GoTo("pricing") \in Seq(Commands)
      <3>1. groupIndex("pricing") <= 4 /\ "pricing" \in Wizard BY Groups, PagesAre
      <3> QED BY <3>1, GoToCovered
    <2> HIDE DEF a, d
    <2>6. LET x == a \o Do("patch", None) IN Covered(x, m) /\ Reaches(x, 4) /\ x \in Seq(Commands)
      BY <1>1, <2>1, <2>2, <2>3, FirstCovers
    <2>7. LET x == (a \o Do("patch", None)) \o d IN Covered(x, m) /\ Reaches(x, 4) /\ x \in Seq(Commands)
      BY <1>1, <2>4, <2>6, FirstCovers
    <2>8. Covered(((a \o Do("patch", None)) \o d) \o GoTo("pricing"), m)
      BY <1>1, <2>5, <2>7, FirstCovers
    <2> QED BY <1>8, <2>8 DEF a, d
  <1>9. CASE s = Do("trial", None) \o Advance("attendance")
    <2>1. Covered(Advance("attendance"), m) /\ Advance("attendance") \in Seq(Commands)
      BY <1>1, AdvanceCovered, PagesAre
    <2>2. Covered(Do("trial", None), m) /\ Do("trial", None) \in Seq(Commands) BY <1>1, <1>2
    <2> QED BY <1>1, <1>9, <2>1, <2>2, BothCovered
  <1>10. CASE p = "pricing" /\ s = Do("bag", "plan") \o GoTo("payment")
    <2>1. groupIndex("payment") <= m /\ "payment" \in Wizard BY <1>10, Groups, PagesAre
    <2>2. Covered(GoTo("payment"), m) /\ GoTo("payment") \in Seq(Commands) BY <1>1, <2>1, GoToCovered
    <2>3. Covered(Do("bag", "plan"), m) /\ Do("bag", "plan") \in Seq(Commands) BY <1>1, <1>3
    <2> QED BY <1>1, <1>10, <2>2, <2>3, BothCovered
  <1>11. CASE s = Do("subscribe", None) \o Do("bag", "paid") \o Do("local", "attendance") \o Do("refresh", None)
    <2> DEFINE a == Do("subscribe", None)
               d == Do("local", "attendance")
    <2>1. Covered(a, m) /\ a \in Seq(Commands) BY <1>1, <1>2
    <2>2. Reaches(a, 5)
      <3>1. Gives([do |-> "subscribe", to |-> None]) >= 5 BY NeedsAre
      <3> QED BY <3>1, ReachesOne
    <2>3. Covered(Do("bag", "paid"), 5) /\ Do("bag", "paid") \in Seq(Commands) BY <1>3
    <2>4. Covered(d, 5) /\ d \in Seq(Commands)
      <3>1. Needs([do |-> "local", to |-> "attendance"]) <= 5 /\ "attendance" \in Wizard
        BY NeedsAre, Groups, PagesAre
      <3> QED BY <3>1, CoveredOne, CommandScripts
    <2>5. Covered(Do("refresh", None), 5) /\ Do("refresh", None) \in Seq(Commands) BY <1>2
    <2> HIDE DEF a, d
    <2>6. LET x == a \o Do("bag", "paid") IN Covered(x, m) /\ Reaches(x, 5) /\ x \in Seq(Commands)
      BY <1>1, <2>1, <2>2, <2>3, FirstCovers
    <2>7. LET x == (a \o Do("bag", "paid")) \o d IN Covered(x, m) /\ Reaches(x, 5) /\ x \in Seq(Commands)
      BY <1>1, <2>4, <2>6, FirstCovers
    <2>8. Covered(((a \o Do("bag", "paid")) \o d) \o Do("refresh", None), m)
      BY <1>1, <2>5, <2>7, FirstCovers
    <2> QED BY <1>11, <2>8 DEF a, d
  <1>12. CASE s = Do("bag", "plan") \o Advance("attendance")
    <2>1. Covered(Advance("attendance"), m) /\ Advance("attendance") \in Seq(Commands)
      BY <1>1, AdvanceCovered, PagesAre
    <2>2. Covered(Do("bag", "plan"), m) /\ Do("bag", "plan") \in Seq(Commands) BY <1>1, <1>3
    <2> QED BY <1>1, <1>12, <2>1, <2>2, BothCovered
  <1>13. CASE \E q \in Setup : s = Do("save", None) \o Advance(q)
    <2>1. PICK q \in Setup : s = Do("save", None) \o Advance(q) BY <1>13
    <2>2. Covered(Advance(q), m) /\ Advance(q) \in Seq(Commands) BY <1>1, AdvanceCovered
    <2>3. Covered(Do("save", None), m) /\ Do("save", None) \in Seq(Commands) BY <1>1, <1>2
    <2> QED BY <1>1, <2>1, <2>2, <2>3, BothCovered
  <1>14. CASE s = advanceOnboardingTo("complete") \o Finish
    <2>1. Covered(advanceOnboardingTo("complete"), m) /\ advanceOnboardingTo("complete") \in Seq(Commands)
      BY <1>1, AdvanceCovered, PagesAre
    <2>2. Covered(Finish, m) /\ Finish \in Seq(Commands) BY <1>1, FinishCovered, FinishOf
    <2> QED BY <1>1, <1>14, <2>1, <2>2, BothCovered
  <1>15. CASE s = Finish BY <1>1, <1>15, FinishCovered
  <1>16. CASE s = Do("login", None) BY <1>1, <1>2, <1>16
  <1> QED
    BY <1>5, <1>6, <1>7, <1>8, <1>9, <1>10, <1>11, <1>12, <1>13, <1>14, <1>15, <1>16 DEF ScriptOf

\* Another script and nothing else.
LEMMA SoloScript ==
    ASSUME OwnerInv, NEW t \in Tabs, Solo(t), NEW z, script' = [script EXCEPT ![t] = z], script[t] = <<>>,
           Covered(z, Level), UNCHANGED <<server, browser, view, call>>
    PROVE  Solo(t)' /\ Higher
  <1>1. Higher /\ Level' = Level /\ (completed' => step' = "complete")
        /\ (user[t] \in DbSteps => groupIndex(user[t]) <= Level')
    BY SameRows
  <1>2. script'[t] = z BY DEF OwnerInv, OwnerTyped
  <1>3. Covered(script[t], Level)' BY <1>1, <1>2
  <1>4. call' = call /\ step' = step /\ Me' = Me BY DEF server, Me
  <1>5. UNCHANGED <<local, draft, page, ready, user, effect>> BY DEF browser, view
  <1> QED BY <1>1, <1>3, <1>4, <1>5 DEF Solo

LEMMA SoloPress ==
    ASSUME OwnerInv, NEW t \in Tabs, Solo(t), NEW n, Press(t, n)
    PROVE  Solo(t)' /\ Higher
  <1> DEFINE z == Button(n, page[t], user[t], bag[t])
  <1>1. /\ Shown(t) /\ z # <<>> /\ script' = [script EXCEPT ![t] = z]
        /\ UNCHANGED <<server, browser, view, call>>
    BY DEF Press
  <1>2. page[t] \in Pages /\ OwnerTyped /\ TabOK(t) BY DEF OwnerInv, OwnerTyped
  <1>3. ScriptOf(page[t], user[t], bag[t], z) BY <1>1, <1>2, ButtonCases
  <1> HIDE DEF z
  <1>4. page[t] \in Wizard => groupIndex(page[t]) <= Level BY <1>1 DEF Shown, Solo
  <1>5. user[t] # None \/ "registered" \in draft => 4 <= Level
    <2>1. user[t] # None => step # None BY <1>1, <1>2 DEF Shown, TabOK
    <2> QED BY <1>2, <2>1, LevelOf DEF Solo
  <1> DEFINE m == Level
  <1>6. m \in 3..9 BY <1>2, LevelOf
  <1>7. Covered(z, m)
    <2> HIDE DEF m
    <2>1. (page[t] \in Wizard => groupIndex(page[t]) <= m) /\ (user[t] # None \/ "registered" \in draft => 4 <= m)
      BY <1>4, <1>5 DEF m
    <2> QED BY <1>2, <1>3, <1>6, <2>1, ButtonCovered
  <1>8. script[t] = <<>> BY <1>1 DEF Shown
  <1> QED BY <1>1, <1>7, <1>8, SoloScript

LEMMA SoloEffects ==
    ASSUME OwnerInv, OwnerInv', NEW t \in Tabs, Solo(t), Effects(t)
    PROVE  Solo(t)' /\ Higher
  <1>1. /\ user[t] # "loading" /\ UNCHANGED <<server, draft, user, bag, script, call, budget>>
    BY DEF Effects
  <1>2. OwnerTyped /\ TabOK(t) BY DEF OwnerInv
  <1> DEFINE m == Level
  <1>3. m \in 3..9 /\ (step # None => m >= 4) /\ (\A p \in PreAuth : groupIndex(p) <= m)
        /\ (step # None => groupIndex("pricing") <= m)
    BY <1>2, LevelOf
  <1>4. Higher /\ Level' = m /\ (completed' => step' = "complete")
        /\ (user[t] \in DbSteps => groupIndex(user[t]) <= Level')
    BY <1>1, SameRows
  <1>5. /\ local # None => groupIndex(local) <= m
        /\ user[t] \in DbSteps => groupIndex(user[t]) <= m
        /\ (ready[t] \/ effect[t] = "none") /\ page[t] \in Wizard => groupIndex(page[t]) <= m
        /\ "registered" \in draft => step # None
    BY DEF Solo
  <1> HIDE DEF m
  <1>6. user[t] \in DbSteps \cup {None, "done"} /\ (user[t] # None => step # None) /\ local \in Wizard \cup {None}
    BY <1>1, <1>2 DEF OwnerTyped, TabOK
  <1>7. /\ local' # None => groupIndex(local') <= m
        /\ (ready'[t] \/ effect'[t] = "none") /\ page'[t] \in Wizard => groupIndex(page'[t]) <= m
    <2>1. CASE WizardEffects(t)
      <3> DEFINE p == page[t]
                 u == user[t]
                 l == PageLocal(t)
                 a == allowedPostAuthStep(u, l)
                 target == GuardTarget(p, u, l)
                 to == IF target # p THEN target ELSE PageTarget(t)
      <3>1. p \in Wizard BY <2>1 DEF WizardEffects
      <3>2. page'[t] = to /\ local' \in {p, l} /\ (local' = p /\ p # l => p \in PreAuth)
        BY <1>2, <2>1, <3>1 DEF WizardEffects, OwnerTyped
      <3>3. l \in Wizard \cup {None} /\ (l # None => groupIndex(l) <= m)
        <4>1. l = local \/ (ready[t] /\ l = p) BY DEF PageLocal
        <4> QED BY <1>5, <1>6, <3>1, <4>1
      <3>4. u \in DbSteps => a \in Wizard /\ groupIndex(a) <= m
        <4>1. a = u \/ (a = l /\ l # None) BY DEF allowedPostAuthStep
        <4> QED BY <1>5, <3>3, <4>1, PagesAre
      <3>5. target = GuardTarget(p, u, l) OBVIOUS
      <3> HIDE DEF p, u, l, a, target
      <3>6. target \in Wizard => groupIndex(target) <= m
        <4>1. CASE u = None
          <5>1. target \in PreAuth BY <3>5, <4>1, PagesAre DEF GuardTarget
          <5> QED BY <1>3, <5>1
        <4>2. CASE u = "done"
          <5>1. target = "dashboard" BY <3>5, <4>2, PagesAre DEF GuardTarget
          <5> QED BY <5>1, PagesAre
        <4>3. CASE u \in DbSteps
          <5>1. u # None /\ u # "done" BY <4>3, PagesAre
          <5>2. target = a \/ (target = p /\ ~(groupIndex(p) > groupIndex(a)))
            BY <3>5, <5>1 DEF GuardTarget, a
          <5>3. groupIndex(p) \in Nat /\ groupIndex(a) \in Nat /\ groupIndex(a) <= m
            BY <3>1, <3>4, <4>3, PagesAre, Groups
          <5> QED BY <1>3, <5>2, <5>3
        <4> QED BY <1>6, <4>1, <4>2, <4>3 DEF u
      <3>7. target = p => PageTarget(t) \in Wizard /\ groupIndex(PageTarget(t)) <= m
        <4>1. \/ PageTarget(t) = p
              \/ PageTarget(t) = "pricing" /\ (p = "payment" \/ u # None \/ "registered" \in draft)
              \/ PageTarget(t) = "company-profile"
          BY DEF PageTarget, p, u
        <4>2. target = p /\ p = "payment" => groupIndex("pricing") <= m
          BY <3>1, <3>6, Groups
        <4>3. groupIndex("company-profile") <= m /\ {"pricing", "company-profile"} \subseteq Wizard
          BY <1>3, PagesAre
        <4> QED BY <1>3, <1>5, <1>6, <3>1, <3>6, <4>1, <4>2, <4>3 DEF u
      <3>8. to \in Wizard => groupIndex(to) <= m BY <3>6, <3>7
      <3> QED BY <1>3, <3>2, <3>3, <3>8
    <2>2. CASE OtherEffects(t)
      <3>1. /\ ready'[t] = FALSE /\ local' = local
            /\ page'[t] \in {"login", "dashboard", user[t]} /\ (page'[t] = user[t] => user[t] \in DbSteps \/ page'[t] \notin Wizard)
        BY <1>2, <1>6, <2>2, PagesAre DEF OtherEffects, OwnerTyped
      <3> QED BY <1>5, <3>1, PagesAre
    <2> QED BY <2>1, <2>2 DEF Effects
  <1>8. Covered(script[t], Level)' BY <1>1, <1>4 DEF Solo, m
  <1>9. UNCHANGED <<call, step, user, Me, draft>> BY <1>1 DEF server, Me
  <1> QED BY <1>4, <1>5, <1>7, <1>8, <1>9 DEF Solo

LEMMA SoloDetour ==
    ASSUME OwnerInv, OwnerInv', NEW t \in Tabs, Solo(t), Detour(t)
    PROVE  Solo(t)' /\ Higher
  <1>1. script[t] = <<>> /\ UNCHANGED <<server, browser, bag, call, faults>> BY DEF Detour
  <1> DEFINE m == Level
  <1>2. m \in 3..9 /\ (\A p \in PreAuth : groupIndex(p) <= m) BY LevelOf DEF OwnerInv
  <1>3. CASE /\ Shown(t) /\ page[t] \in DOMAIN Before /\ UNCHANGED view
             /\ script' = [script EXCEPT ![t] =
                  IF page[t] = "company-profile" THEN GoTo("welcome") ELSE Do("push", Before[page[t]])]
    <2> DEFINE z == IF page[t] = "company-profile" THEN GoTo("welcome") ELSE Do("push", Before[page[t]])
    <2>1. page[t] \in Wizard /\ groupIndex(page[t]) <= m
      BY <1>3, PagesAre DEF Shown, Solo, Before
    <2>2. Before[page[t]] \in Wizard /\ groupIndex(Before[page[t]]) <= groupIndex(page[t])
      BY <1>3, PagesAre, Groups DEF Before
    <2>3. groupIndex(Before[page[t]]) \in Nat /\ groupIndex(page[t]) \in Nat BY <2>1, <2>2, PagesAre, Groups
    <2> HIDE DEF m
    <2>4. Covered(GoTo("welcome"), m) BY <1>2, GoToCovered, PagesAre
    <2>5. Covered(Do("push", Before[page[t]]), m)
      <3>1. m \in Nat /\ groupIndex(Before[page[t]]) <= m BY <1>2, <2>1, <2>2, <2>3
      <3>2. Needs([do |-> "push", to |-> Before[page[t]]]) = groupIndex(Before[page[t]])
        BY <2>2, NeedsAre
      <3> QED BY <3>1, <3>2, CoveredOne
    <2>6. Covered(z, m) BY <2>4, <2>5
    <2>7. script' = [script EXCEPT ![t] = z] BY <1>3
    <2> HIDE DEF z
    <2> QED BY <1>1, <1>3, <2>6, <2>7, SoloScript DEF m
  <1>4. ASSUME NEW p \in Pages,
               page' = [page EXCEPT ![t] = p], user' = [user EXCEPT ![t] = "loading"],
               ready' = [ready EXCEPT ![t] = FALSE], effect' = [effect EXCEPT ![t] = "mount"],
               script' = [script EXCEPT ![t] = Do("refresh", None)]
        PROVE  Solo(t)' /\ Higher
    <2>1. Higher /\ Level' = m /\ (completed' => step' = "complete") BY <1>1, SameRows
    <2>2. /\ user'[t] = "loading" /\ ready'[t] = FALSE /\ effect'[t] = "mount" /\ script'[t] = Do("refresh", None)
      BY <1>4 DEF OwnerInv, OwnerTyped
    <2>3. "loading" \notin DbSteps BY PagesAre
    <2>4. Covered(Do("refresh", None), m)
      <3>1. m \in Nat /\ Needs([do |-> "refresh", to |-> None]) <= m BY <1>2, NeedsAre
      <3> HIDE DEF m
      <3> QED BY <3>1, CoveredOne
    <2>5. Covered(script[t], Level)' BY <2>1, <2>2, <2>4
    <2>6. UNCHANGED <<call, step, Me, local, draft>> BY <1>1 DEF server, Me, browser
    <2> QED BY <2>1, <2>2, <2>3, <2>5, <2>6 DEF Solo
  <1> QED BY <1>3, <1>4 DEF Detour

LEMMA SoloInitially ==
    ASSUME Init, NEW t \in Tabs
    PROVE  Solo(t)
  <1>1. OwnerInv BY OwnerInitially
  <1> DEFINE m == Level
  <1>2. m = 3 BY DEF Init, Level
  <1>3. groupIndex("welcome") = 1 /\ "loading" \notin DbSteps BY Groups, PagesAre
  <1>4. Covered(Do("refresh", None), m)
    <2>1. m \in Nat /\ Needs([do |-> "refresh", to |-> None]) <= m BY <1>2, NeedsAre
    <2> HIDE DEF m
    <2> QED BY <2>1, CoveredOne
  <1>5. /\ script[t] = Do("refresh", None) /\ call[t] = Idle /\ user[t] = "loading" /\ page[t] = "welcome"
        /\ ready[t] = FALSE /\ effect[t] = "mount" /\ local = None /\ draft = {} /\ completed = FALSE
    BY DEF Init
  <1> QED BY <1>3, <1>4, <1>5 DEF Solo, Idle

\* What the only tab does.
Acts(t) == Proceed(t) \/ Lost(t) \/ Decline(t) \/ Detour(t) \/ \E n \in Names : Press(t, n)
LEMMA SoloStep ==
    ASSUME OwnerInv, OwnerInv', NEW t \in Tabs, Solo(t), Acts(t)
    PROVE  Solo(t)' /\ Higher
  <1>1. CASE Serve(t)
    BY <1>1, SoloRead, SoloWrite, SoloComplete, SoloTrial, SoloBegin, SoloCommit, SoloSignIn, SoloOther, SoloRefresh
    DEF Serve
  <1>2. CASE Statement(t) \/ Effects(t) BY <1>2, SoloStatement, SoloEffects
  <1>3. CASE Lost(t) \/ Decline(t) \/ Detour(t) BY <1>3, SoloLost, SoloDecline, SoloDetour
  <1>4. ASSUME NEW n \in Names, Press(t, n) PROVE Solo(t)' /\ Higher BY <1>4, SoloPress
  <1> QED BY <1>1, <1>2, <1>3, <1>4 DEF Acts, Proceed

LEMMA SoloKept ==
    ASSUME NEW t, Tabs = {t}, OwnerInv, Solo(t), [Next]_vars
    PROVE  Solo(t)' /\ [Higher]_step
  <1>1. t \in Tabs OBVIOUS
  <1>2. OwnerInv' BY OwnerStep
  <1>3. CASE Next
    <2>1. Acts(t) BY <1>3 DEF Next, Acts
    <2> QED BY <1>1, <1>2, <2>1, SoloStep
  <1>4. CASE UNCHANGED vars
    <2>1. UNCHANGED <<server, browser, view, script, call>> BY <1>4 DEF vars
    <2>2. Higher /\ Level' = Level BY <1>1, <2>1, SameRows
    <2>3. Me' = Me /\ UNCHANGED <<step, completed, local, draft, page, user, ready, effect>>
      BY <2>1 DEF Me, server, browser, view
    <2>4. Covered(script[t], Level)' BY <2>1, <2>2 DEF Solo
    <2> QED BY <2>1, <2>2, <2>3, <2>4 DEF Solo
  <1> QED BY <1>3, <1>4

\* The tab of an owner with one tab never rests on a page beyond the step stored: what its
\* handlers and guards write in the browser and push is covered by an answer of
\* the server, whatever calls are lost and whatever addresses are typed in.
THEOREM OnboardingNeverAhead == ASSUME NEW t, Tabs = {t} PROVE Spec => []NeverAhead
  <1>1. Init => Solo(t) BY SoloInitially
  <1>2. OwnerInv /\ Solo(t) /\ [Next]_vars => Solo(t)' BY SoloKept
  <1>3. OwnerInv /\ Solo(t) => NeverAhead
    <2>1. SUFFICES ASSUME OwnerInv, Solo(t), Settled(t), page[t] \in Wizard
                   PROVE  groupIndex(page[t]) <= groupIndex(step)
      BY DEF NeverAhead
    <2>2. step # None BY <2>1 DEF Settled, OwnerInv, TabOK
    <2> QED BY <2>1, <2>2 DEF Settled, Solo, Level
  <1> QED BY <1>1, <1>2, <1>3, OwnerAlways, PTL DEF Spec
=============================================================================
