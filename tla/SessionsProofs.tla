--------------------------- MODULE SessionsProofs ---------------------------
(***************************************************************************)
(* Proofs about Sessions, for any number of tabs, browsers and desks and   *)
(* whatever fetches fail.                                                  *)
(***************************************************************************)
EXTENDS Sessions, TLAPS

Rest == Answers \cup {"none", "sent", "waiting"}

LEMMA Ageing == /\ Older \in [Token -> Token] /\ Dead \in [Token -> Token]
                /\ \A k \in Token : Dead[k] \notin {"latest", "earlier"}
                /\ "latest" \in Token /\ "latest" # None
  BY SessionsAssumption DEF Older, Dead, Token, Tokens

LEMMA AgedRefresh ==
  ASSUME NEW f \in [Token -> Token], refresh \in [Tabs -> RefreshFetch]
  PROVE  /\ InRefresh(f) \in [Tabs -> RefreshFetch]
         /\ \A t \in Tabs : /\ InRefresh(f)[t].pc = refresh[t].pc
                            /\ InRefresh(f)[t].cookie = f[refresh[t].cookie]
                            /\ InRefresh(f)[t].new = f[refresh[t].new]
  BY DEF InRefresh, RefreshFetch

LEMMA Overtaken ==
  ASSUME NEW r \in RefreshFetch
  PROVE  /\ Overtake(r) \in RefreshFetch /\ Overtake(r).pc # "checked"
         /\ Overtake(r).cookie = r.cookie /\ Overtake(r).new = r.new
  BY DEF Overtake, RefreshFetch, Phase

LEMMA RevokeType ==
  ASSUME refresh \in [Tabs -> RefreshFetch], Revoke
  PROVE  refresh' \in [Tabs -> RefreshFetch]
  <1>1. InRefresh(Dead) \in [Tabs -> RefreshFetch]
    BY Ageing, AgedRefresh
  <1>2. refresh' = [t \in Tabs |-> Overtake(InRefresh(Dead)[t])]
    BY DEF Revoke
  <1>3. \A t \in Tabs : Overtake(InRefresh(Dead)[t]) \in RefreshFetch
    BY <1>1, Overtaken
  <1> QED
    BY <1>2, <1>3

LEMMA AgedMain ==
  ASSUME NEW f \in [Token -> Token], main \in [Tabs -> MainFetch]
  PROVE  /\ InMain(f) \in [Tabs -> MainFetch]
         /\ \A t \in Tabs : /\ InMain(f)[t].op = main[t].op /\ InMain(f)[t].pc = main[t].pc
                            /\ InMain(f)[t].runs = main[t].runs
                            /\ InMain(f)[t].new = f[main[t].new]
  BY DEF InMain, MainFetch

LEMMA AgedCookies ==
  ASSUME NEW f \in [Token -> Token], cookie \in [Browsers -> Token]
  PROVE  InCookies(f) \in [Browsers -> Token]
  BY DEF InCookies

LEMMA Blank == NoRefresh \in RefreshFetch /\ NoMain \in MainFetch
  BY DEF NoRefresh, RefreshFetch, NoMain, MainFetch, Phase, Answers, Token, Bearer

LEMMA SentRefresh ==
  ASSUME NEW k \in Token
  PROVE  LET r == [NoRefresh EXCEPT !.pc = "sent", !.cookie = k]
         IN  r \in RefreshFetch /\ r.pc = "sent" /\ r.cookie = k /\ r.new = None
  BY DEF NoRefresh, RefreshFetch, Phase, Token

LEMMA WithRefreshType ==
  ASSUME TypeOK, NEW t \in Tabs
  PROVE  /\ WithRefresh(t) \in [Tabs -> RefreshFetch]
         /\ \A u \in Tabs : \/ WithRefresh(t)[u] = refresh[u]
                            \/ /\ WithRefresh(t)[u].pc = "sent"
                               /\ WithRefresh(t)[u].cookie = cookie[BrowserOf[u]]
                               /\ WithRefresh(t)[u].new = None
  <1>1. /\ refresh \in [Tabs -> RefreshFetch] /\ cookie[BrowserOf[t]] \in Token
    BY SessionsAssumption DEF TypeOK
  <1> DEFINE r == [NoRefresh EXCEPT !.pc = "sent", !.cookie = cookie[BrowserOf[t]]]
  <1>2. r \in RefreshFetch /\ r.pc = "sent" /\ r.cookie = cookie[BrowserOf[t]] /\ r.new = None
    BY <1>1, SentRefresh
  <1> HIDE DEF r
  <1> QED
    BY <1>1, <1>2 DEF WithRefresh, r

-----------------------------------------------------------------------------
(* Types.                                                                  *)

LEMMA InitType == Init => TypeOK
  <1> SUFFICES ASSUME Init PROVE TypeOK
    OBVIOUS
  <1> DEFINE r == [NoRefresh EXCEPT !.pc = "sent"]
  <1>1. r \in RefreshFetch
    BY DEF NoRefresh, RefreshFetch, Phase, Token
  <1>2. refresh = [t \in Tabs |-> r] /\ main = [t \in Tabs |-> NoMain]
    BY DEF Init
  <1> HIDE DEF r
  <1>3. refresh \in [Tabs -> RefreshFetch] /\ main \in [Tabs -> MainFetch]
    BY <1>1, <1>2, Blank
  <1>4. cookie \in [Browsers -> Token] /\ mem \in [Tabs -> Bearer]
    BY DEF Init, Token, Bearer
  <1>5. /\ hash \in {None, "set"} /\ code \in {None, "set"} /\ grants \in 0..2
        /\ desk \in [Desks -> {"idle", "read", "stale"}]
    BY DEF Init
  <1>7. ticket \in BOOLEAN /\ revoked \in BOOLEAN
    BY DEF Init
  <1>6. /\ status \in [Tabs -> {"loading", "in", "out"}]
        /\ restore \in [Tabs -> {"none", "refresh", "me"}]
        /\ left \in [Browsers -> BOOLEAN]
    BY DEF Init
  <1> QED
    BY <1>3, <1>4, <1>5, <1>6, <1>7 DEF TypeOK

LEMMA RefreshType ==
  ASSUME TypeOK, NEW t \in Tabs, RefreshGuard(t) \/ RefreshIssue(t) \/ RefreshSettled(t)
  PROVE  TypeOK'
  <1>t. /\ refresh \in [Tabs -> RefreshFetch] /\ main \in [Tabs -> MainFetch]
        /\ cookie \in [Browsers -> Token] /\ BrowserOf[t] \in Browsers
    BY SessionsAssumption DEF TypeOK
  <1>p. \A r \in RefreshFetch, x \in Phase, k \in Token :
           [r EXCEPT !.pc = x] \in RefreshFetch /\ [r EXCEPT !.pc = x, !.new = k] \in RefreshFetch
    BY DEF RefreshFetch
  <1>1. CASE RefreshGuard(t)
    <2> DEFINE x == IF Accepted(refresh[t].cookie) THEN "checked" ELSE "401"
    <2>1. refresh' = [refresh EXCEPT ![t].pc = x] /\ x \in Phase
      BY <1>1 DEF RefreshGuard, Phase, Answers
    <2> HIDE DEF x
    <2>2. refresh' \in [Tabs -> RefreshFetch]
      BY <1>t, <1>p, <2>1
    <2> QED
      BY <1>1, <2>2 DEF RefreshGuard, TypeOK, server, reset
  <1>2. CASE RefreshIssue(t)
    <2>1. /\ InRefresh(Older) \in [Tabs -> RefreshFetch] /\ InMain(Older) \in [Tabs -> MainFetch]
          /\ InCookies(Older) \in [Browsers -> Token] /\ "latest" \in Token
      BY <1>t, Ageing, AgedRefresh, AgedMain, AgedCookies
    <2>2. refresh' = [InRefresh(Older) EXCEPT ![t] = [@ EXCEPT !.pc = "ok", !.new = "latest"]]
      BY <1>2 DEF RefreshIssue
    <2>3. refresh' \in [Tabs -> RefreshFetch]
      BY <1>p, <2>1, <2>2 DEF Phase, Answers
    <2> QED
      BY <1>2, <2>1, <2>3 DEF RefreshIssue, TypeOK, server, reset
  <1>3. CASE RefreshSettled(t)
    <2>1. refresh[t].new \in Token
      BY <1>t DEF RefreshFetch
    <2>2. refresh' \in [Tabs -> RefreshFetch] /\ cookie' \in [Browsers -> Token]
      BY <1>3, <1>t, <2>1, Blank DEF RefreshSettled
    <2>3. main' \in [Tabs -> MainFetch]
      <3>1. \A m \in MainFetch : [m EXCEPT !.pc = "sent", !.bearer = "live", !.final = TRUE] \in MainFetch
        BY DEF MainFetch, Phase, Bearer
      <3> QED
        BY <1>3, <1>t, <3>1, Blank DEF RefreshSettled, Resume
    <2>4. mem' \in [Tabs -> Bearer]
      BY <1>3 DEF RefreshSettled, TypeOK, Bearer
    <2>5. restore' \in [Tabs -> {"none", "refresh", "me"}] /\ status' \in [Tabs -> {"loading", "in", "out"}]
      BY <1>3 DEF RefreshSettled, Resume, TypeOK
    <2> QED
      BY <1>3, <2>2, <2>3, <2>4, <2>5 DEF RefreshSettled, TypeOK, server, reset
  <1> QED
    BY <1>1, <1>2, <1>3

LEMMA MainType ==
  ASSUME TypeOK, NEW t \in Tabs,
         MainGuard(t) \/ MainIssue(t) \/ LogoutClear(t) \/ Execute(t) \/ AwaitRefresh(t) \/ MainSettled(t),
         \A u \in Tabs : main[u].runs <= 1
  PROVE  TypeOK'
  <1>t. /\ refresh \in [Tabs -> RefreshFetch] /\ main \in [Tabs -> MainFetch]
        /\ cookie \in [Browsers -> Token] /\ BrowserOf[t] \in Browsers
    BY SessionsAssumption DEF TypeOK
  <1>p. \A m \in MainFetch, x \in Phase \cup {"waiting"}, k \in Token :
           [m EXCEPT !.pc = x] \in MainFetch /\ [m EXCEPT !.pc = x, !.new = k] \in MainFetch
    BY DEF MainFetch
  <1>o. {"ok", "401", "error", "checked"} \subseteq Phase
    BY DEF Phase, Answers
  <1>1. CASE MainGuard(t)
    <2>1. PICK x \in {"checked", "401", "error"} : main' = [main EXCEPT ![t].pc = x]
      BY <1>1 DEF MainGuard
    <2>2. main' \in [Tabs -> MainFetch]
      BY <1>t, <1>p, <1>o, <2>1
    <2> QED
      BY <1>1, <2>2 DEF MainGuard, TypeOK, server, reset
  <1>2. CASE MainIssue(t)
    <2>1. /\ InRefresh(Older) \in [Tabs -> RefreshFetch] /\ InMain(Older) \in [Tabs -> MainFetch]
          /\ InCookies(Older) \in [Browsers -> Token] /\ "latest" \in Token
      BY <1>t, Ageing, AgedRefresh, AgedMain, AgedCookies
    <2>2. main' = [InMain(Older) EXCEPT ![t] = [@ EXCEPT !.pc = "ok", !.new = "latest"]]
      BY <1>2 DEF MainIssue
    <2>3. main' \in [Tabs -> MainFetch]
      BY <1>p, <1>o, <2>1, <2>2
    <2> QED
      BY <1>2, <2>1, <2>3 DEF MainIssue, TypeOK, server, reset
  <1>3. CASE LogoutClear(t)
    <2>1. /\ refresh' \in [Tabs -> RefreshFetch] /\ InMain(Dead) \in [Tabs -> MainFetch]
          /\ InCookies(Dead) \in [Browsers -> Token]
      BY <1>3, <1>t, Ageing, RevokeType, AgedMain, AgedCookies DEF LogoutClear
    <2>2. main' = [InMain(Dead) EXCEPT ![t] = [@ EXCEPT !.pc = "ok"]]
      BY <1>3 DEF LogoutClear
    <2>3. \A m \in MainFetch : [m EXCEPT !.pc = "ok"] \in MainFetch
      BY <1>o DEF MainFetch
    <2>4. main' \in [Tabs -> MainFetch]
      BY <2>1, <2>2, <2>3
    <2> QED
      BY <1>3, <2>1, <2>4 DEF LogoutClear, Revoke, TypeOK, server, reset
  <1>4. CASE Execute(t)
    <2>1. PICK x \in {"ok", "error"} : main' = [main EXCEPT ![t].pc = x, ![t].runs = @ + 1]
      BY <1>4 DEF Execute
    <2>2. [main[t] EXCEPT !.pc = x, !.runs = @ + 1] \in MainFetch
      <3>1. main[t] \in MainFetch /\ main[t].runs + 1 \in 0..2 /\ x \in Phase
        BY <1>t, <1>o DEF MainFetch
      <3> QED
        BY <3>1 DEF MainFetch
    <2>3. main' \in [Tabs -> MainFetch]
      BY <1>t, <2>1, <2>2
    <2> QED
      BY <1>4, <2>3 DEF Execute, TypeOK, server, reset
  <1>5. CASE AwaitRefresh(t)
    <2>1. main' = [main EXCEPT ![t] = [@ EXCEPT !.pc = "waiting"]] /\ refresh' = WithRefresh(t)
      BY <1>5 DEF AwaitRefresh
    <2>2. main' \in [Tabs -> MainFetch] /\ refresh' \in [Tabs -> RefreshFetch]
      BY <1>t, <1>p, <2>1, WithRefreshType
    <2> QED
      BY <1>5, <2>2 DEF AwaitRefresh, TypeOK, server, reset
  <1>6. CASE MainSettled(t)
    <2>1. main[t].new \in Token /\ None \in Token
      BY <1>t DEF MainFetch, Token
    <2>2. main' \in [Tabs -> MainFetch]
      BY <1>6, <1>t, Blank DEF MainSettled
    <2>3. cookie' \in [Browsers -> Token]
      BY <1>6, <1>t, <2>1 DEF MainSettled
    <2>4. mem' \in [Tabs -> Bearer]
      BY <1>6 DEF MainSettled, TypeOK, Bearer
    <2>5. status' \in [Tabs -> {"loading", "in", "out"}]
      BY <1>6 DEF MainSettled, TypeOK
    <2>6. left' \in [Browsers -> BOOLEAN]
      BY <1>6 DEF MainSettled, TypeOK
    <2> QED
      BY <1>6, <2>2, <2>3, <2>4, <2>5, <2>6 DEF MainSettled, TypeOK, server, reset
  <1> QED
    BY <1>1, <1>2, <1>3, <1>4, <1>5, <1>6

LEMMA TabType ==
  ASSUME TypeOK, NEW t \in Tabs, MeSettled(t) \/ Ask(t) \/ TokenExpires(t) \/ FetchFails(t)
  PROVE  TypeOK'
  <1>t. /\ refresh \in [Tabs -> RefreshFetch] /\ main \in [Tabs -> MainFetch]
    BY DEF TypeOK
  <1>1. CASE MeSettled(t)
    BY <1>1 DEF MeSettled, TypeOK, server, reset, Bearer
  <1>2. CASE RefreshSession(t)
    <2>1. refresh' \in [Tabs -> RefreshFetch]
      BY <1>2, WithRefreshType DEF RefreshSession
    <2>2. /\ mem' \in [Tabs -> Bearer] /\ status' \in [Tabs -> {"loading", "in", "out"}]
          /\ restore' \in [Tabs -> {"none", "refresh", "me"}]
      BY <1>2 DEF RefreshSession, TypeOK, Bearer
    <2> QED
      BY <1>2, <2>1, <2>2 DEF RefreshSession, TypeOK, server, reset
  <1>3. ASSUME NEW op \in Ops, Call(t, op)
        PROVE  TypeOK'
    <2> DEFINE m == [NoMain EXCEPT !.op = op, !.pc = "sent",
                       !.bearer = IF op = "login" THEN "none" ELSE mem[t],
                       !.final = op \in {"login", "logout"}]
    <2>1. (IF op = "login" THEN "none" ELSE mem[t]) \in Bearer
      BY DEF TypeOK, Bearer
    <2> DEFINE who == IF op = "login" THEN "none" ELSE mem[t]
               last == op \in {"login", "logout"}
    <2> HIDE DEF who, last
    <2>2. [NoMain EXCEPT !.op = op, !.pc = "sent", !.bearer = who, !.final = last] \in MainFetch
      <3>1. who \in Bearer /\ last \in BOOLEAN
        BY <2>1 DEF who, last
      <3>2. NoMain \in MainFetch /\ op \in Ops \cup {"none"} /\ "sent" \in Phase \cup {"waiting"}
        BY Blank DEF Phase
      <3> QED
        BY <3>1, <3>2 DEF MainFetch
    <2>3. main' = [main EXCEPT ![t] = m]
      BY <1>3 DEF Call
    <2>4. main' \in [Tabs -> MainFetch]
      BY <1>t, <2>2, <2>3 DEF who, last
    <2> QED
      BY <1>3, <2>4 DEF Call, TypeOK, server, reset
  <1>4. CASE TokenExpires(t)
    BY <1>4 DEF TokenExpires, TypeOK, server, reset, Bearer
  <1>5. CASE FetchFails(t)
    <2>1. refresh' = [refresh EXCEPT ![t] = [@ EXCEPT !.pc = "error", !.new = None]] \/ UNCHANGED refresh
      BY <1>5 DEF FetchFails
    <2>2. main' = [main EXCEPT ![t] = [@ EXCEPT !.pc = "error", !.new = None]] \/ UNCHANGED main
      BY <1>5 DEF FetchFails
    <2>3. \A r \in RefreshFetch : [r EXCEPT !.pc = "error", !.new = None] \in RefreshFetch
      BY DEF RefreshFetch, Phase, Answers, Token
    <2>4. \A m \in MainFetch : [m EXCEPT !.pc = "error", !.new = None] \in MainFetch
      BY DEF MainFetch, Phase, Answers, Token
    <2>5. refresh' \in [Tabs -> RefreshFetch] /\ main' \in [Tabs -> MainFetch]
      BY <1>t, <2>1, <2>2, <2>3, <2>4
    <2> QED
      BY <1>5, <2>5 DEF FetchFails, TypeOK, server, reset
  <1> QED
    BY <1>1, <1>2, <1>3, <1>4, <1>5 DEF Ask

LEMMA ResetType ==
  ASSUME TypeOK, ResetCalls
  PROVE  TypeOK'
  <1>1. CASE ForgotPassword
    BY <1>1 DEF ForgotPassword, TypeOK, client
  <1>2. ASSUME NEW d \in Desks, VerifyRead(d)
        PROVE  TypeOK'
    BY <1>2 DEF VerifyRead, TypeOK, client
  <1>3. ASSUME NEW d \in Desks, VerifyConsume(d)
        PROVE  TypeOK'
    BY <1>3 DEF VerifyConsume, TypeOK, client
  <1>4. CASE ResetPassword
    <2>1. /\ refresh \in [Tabs -> RefreshFetch] /\ main \in [Tabs -> MainFetch]
          /\ cookie \in [Browsers -> Token]
      BY DEF TypeOK
    <2>2. /\ refresh' \in [Tabs -> RefreshFetch] /\ InMain(Dead) \in [Tabs -> MainFetch]
          /\ InCookies(Dead) \in [Browsers -> Token]
      BY <1>4, <2>1, Ageing, RevokeType, AgedMain, AgedCookies DEF ResetPassword
    <2> QED
      BY <1>4, <2>2 DEF ResetPassword, Revoke, TypeOK
  <1>5. CASE CodeExpires \/ TicketExpires
    BY <1>5 DEF CodeExpires, TicketExpires, TypeOK, client
  <1> QED
    BY <1>1, <1>2, <1>3, <1>4, <1>5 DEF ResetCalls

-----------------------------------------------------------------------------
(* A call is executed once.                                                *)

\* A call that was executed has an answer, not a refusal.
Once == \A t \in Tabs : main[t].runs = 0 \/ (main[t].runs = 1 /\ main[t].pc \in {"ok", "error"})

TInv == TypeOK /\ Once

LEMMA SameRuns ==
  ASSUME Once, NEW t \in Tabs, \A u \in Tabs \ {t} : main'[u].runs = main[u].runs /\ main'[u].pc = main[u].pc,
         main'[t].runs = 0 \/ (main'[t].runs = 1 /\ main'[t].pc \in {"ok", "error"})
  PROVE  Once'
  BY DEF Once

LEMMA OnceStep == TypeOK /\ Once /\ [Next]_vars => Once'
  <1> SUFFICES ASSUME TypeOK, Once, [Next]_vars PROVE Once'
    OBVIOUS
  <1>t. refresh \in [Tabs -> RefreshFetch] /\ main \in [Tabs -> MainFetch]
    BY DEF TypeOK
  <1>u. ASSUME UNCHANGED main
        PROVE  Once'
    BY <1>u DEF Once
  <1>a. ASSUME NEW f \in [Token -> Token], main' = InMain(f)
        PROVE  Once'
    BY <1>a, <1>t, AgedMain DEF Once
  <1>1. ASSUME NEW t \in Tabs, RefreshIssue(t)
        PROVE  Once'
    BY <1>1, <1>a, Ageing DEF RefreshIssue
  <1>2. ASSUME NEW t \in Tabs, RefreshSettled(t)
        PROVE  Once'
    <2> DEFINE got == refresh[t].pc = "ok"
    <2>1. main' = [main EXCEPT ![t] =
                     IF main[t].pc # "waiting" THEN main[t]
                     ELSE IF got THEN [main[t] EXCEPT !.pc = "sent", !.bearer = "live", !.final = TRUE]
                     ELSE NoMain]
      BY <1>2 DEF RefreshSettled, Resume
    <2> HIDE DEF got
    <2>2. [main[t] EXCEPT !.pc = "sent", !.bearer = "live", !.final = TRUE].runs = main[t].runs
      BY <1>t DEF MainFetch
    <2>3. main[t].pc = "waiting" => main[t].runs = 0
      BY DEF Once
    <2>4. main'[t].runs = 0 \/ (main'[t].runs = 1 /\ main'[t].pc \in {"ok", "error"})
      BY <1>t, <2>1, <2>2, <2>3 DEF Once, NoMain
    <2> QED
      BY <1>t, <2>1, <2>4, SameRuns
  <1>3. ASSUME NEW t \in Tabs, MainGuard(t)
        PROVE  Once'
    <2>1. main[t].pc = "sent" /\ \E x \in {"checked", "401", "error"} : main' = [main EXCEPT ![t].pc = x]
      BY <1>3 DEF MainGuard
    <2>2. main'[t].runs = 0
      BY <1>t, <2>1 DEF Once, MainFetch
    <2> QED
      BY <1>t, <2>1, <2>2, SameRuns
  <1>4. ASSUME NEW t \in Tabs, MainIssue(t) \/ LogoutClear(t)
        PROVE  Once'
    <2>1. PICK f \in [Token -> Token] :
            \/ main' = [InMain(f) EXCEPT ![t] = [@ EXCEPT !.pc = "ok", !.new = "latest"]]
            \/ main' = [InMain(f) EXCEPT ![t] = [@ EXCEPT !.pc = "ok"]]
      BY <1>4, Ageing DEF MainIssue, LogoutClear
    <2>2. InMain(f) \in [Tabs -> MainFetch]
          /\ \A u \in Tabs : InMain(f)[u].runs = main[u].runs /\ InMain(f)[u].pc = main[u].pc
      BY <1>t, AgedMain
    <2>3. main'[t].runs = main[t].runs /\ main'[t].pc = "ok"
      <3>1. \A m \in MainFetch : /\ [m EXCEPT !.pc = "ok", !.new = "latest"].runs = m.runs
                                 /\ [m EXCEPT !.pc = "ok", !.new = "latest"].pc = "ok"
                                 /\ [m EXCEPT !.pc = "ok"].runs = m.runs
                                 /\ [m EXCEPT !.pc = "ok"].pc = "ok"
        BY DEF MainFetch
      <3>2. main'[t] \in {[InMain(f)[t] EXCEPT !.pc = "ok", !.new = "latest"], [InMain(f)[t] EXCEPT !.pc = "ok"]}
        BY <2>1, <2>2
      <3>3. InMain(f)[t] \in MainFetch /\ InMain(f)[t].runs = main[t].runs
        BY <2>2
      <3> QED
        BY <3>1, <3>2, <3>3
    <2>4. \A u \in Tabs \ {t} : main'[u].runs = main[u].runs /\ main'[u].pc = main[u].pc
      BY <2>1, <2>2
    <2> QED
      BY <2>3, <2>4, SameRuns DEF Once
  <1>5. ASSUME NEW t \in Tabs, Execute(t)
        PROVE  Once'
    <2>1. PICK x \in {"ok", "error"} : main' = [main EXCEPT ![t].pc = x, ![t].runs = @ + 1]
      BY <1>5 DEF Execute
    <2>2. main[t].runs = 0
      BY <1>5 DEF Execute, Once
    <2>3. main'[t].runs = 1 /\ main'[t].pc = x
      BY <1>t, <2>1, <2>2 DEF MainFetch
    <2>4. \A u \in Tabs \ {t} : main'[u] = main[u]
      BY <1>t, <2>1
    <2> QED
      BY <2>3, <2>4, SameRuns
  <1>6. ASSUME NEW t \in Tabs, AwaitRefresh(t)
        PROVE  Once'
    <2>1. main[t].pc = "401" /\ main' = [main EXCEPT ![t] = [@ EXCEPT !.pc = "waiting"]]
      BY <1>6 DEF AwaitRefresh, Retries
    <2>2. main'[t].runs = 0
      BY <1>t, <2>1 DEF Once, MainFetch
    <2> QED
      BY <1>t, <2>1, <2>2, SameRuns
  <1>7. ASSUME NEW t \in Tabs, MainSettled(t)
        PROVE  Once'
    BY <1>7, <1>t, SameRuns DEF MainSettled, NoMain
  <1>8. ASSUME NEW t \in Tabs, NEW op \in Ops, Call(t, op)
        PROVE  Once'
    <2> DEFINE m == [NoMain EXCEPT !.op = op, !.pc = "sent",
                       !.bearer = IF op = "login" THEN "none" ELSE mem[t],
                       !.final = op \in {"login", "logout"}]
    <2>1. m.runs = 0
      BY DEF NoMain
    <2>2. main' = [main EXCEPT ![t] = m]
      BY <1>8 DEF Call
    <2> HIDE DEF m
    <2> QED
      BY <1>t, <2>1, <2>2, SameRuns
  <1>9. ASSUME NEW t \in Tabs, FetchFails(t)
        PROVE  Once'
    <2>1. CASE UNCHANGED main
      BY <2>1, <1>u
    <2>2. CASE main' = [main EXCEPT ![t] = [@ EXCEPT !.pc = "error", !.new = None]]
      <3>1. main'[t].runs = main[t].runs /\ main'[t].pc = "error"
        BY <1>t, <2>2 DEF MainFetch
      <3> QED
        BY <1>t, <2>2, <3>1, SameRuns DEF Once
    <2> QED
      BY <1>9, <2>1, <2>2 DEF FetchFails
  <1>10. CASE ResetPassword
    BY <1>10, <1>a, Ageing DEF ResetPassword
  <1>11. ASSUME NEW t \in Tabs, RefreshGuard(t) \/ MeSettled(t) \/ RefreshSession(t) \/ TokenExpires(t)
         PROVE  UNCHANGED main
    BY <1>11 DEF RefreshGuard, MeSettled, RefreshSession, TokenExpires
  <1>12. CASE \/ ForgotPassword \/ CodeExpires \/ TicketExpires
              \/ \E d \in Desks : VerifyRead(d) \/ VerifyConsume(d)
    BY <1>12, <1>u DEF ForgotPassword, CodeExpires, TicketExpires, VerifyRead, VerifyConsume, client
  <1>13. CASE UNCHANGED vars
    BY <1>13, <1>u DEF vars
  <1> QED
    BY <1>u, <1>1, <1>2, <1>3, <1>4, <1>5, <1>6, <1>7, <1>8, <1>9, <1>10, <1>11, <1>12, <1>13
    DEF Next, Proceed, Ask, ResetCalls

LEMMA TInvStep == TInv /\ [Next]_vars => TInv'
  <1> SUFFICES ASSUME TInv, [Next]_vars PROVE TInv'
    OBVIOUS
  <1>1. Once'
    BY OnceStep DEF TInv
  <1>2. \A t \in Tabs : main[t].runs <= 1
    BY DEF TInv, Once
  <1>3. CASE UNCHANGED vars
    BY <1>3 DEF vars, server, reset, TInv, TypeOK, Once
  <1>4. CASE Next
    <2>1. TypeOK'
      BY <1>2, <1>4, RefreshType, MainType, TabType, ResetType DEF Next, Proceed, TInv
    <2> QED
      BY <1>1, <2>1 DEF TInv
  <1> QED
    BY <1>3, <1>4

LEMMA InitTInv == Init => TInv
  BY InitType DEF Init, TInv, Once, NoMain

\* The row, the cookies and the tabs hold what the services and the client put there.
THEOREM SessionsTypeOK == Spec => []TypeOK
  <1>1. TInv => TypeOK
    BY DEF TInv
  <1> QED
    BY <1>1, InitTInv, TInvStep, PTL DEF Spec

\* Whatever is lost, refreshed and sent again: no call is executed twice.
THEOREM SessionsExecutedOnce == Spec => []ExecutedOnce
  <1>1. ASSUME TInv PROVE ExecutedOnce
    <2> SUFFICES ASSUME NEW t \in Tabs PROVE main[t].runs <= 1
      BY DEF ExecutedOnce
    <2>1. main[t].runs = 0 \/ main[t].runs = 1
      BY <1>1 DEF TInv, Once
    <2> QED
      BY <2>1
  <1> QED
    BY <1>1, InitTInv, TInvStep, PTL DEF Spec

-----------------------------------------------------------------------------
(* A session that is revoked.                                              *)

\* No refresh but one that was past its guard when the session was revoked is about
\* to issue tokens.
RevokedInv == revoked => hash = None /\ \A t \in Tabs : refresh[t].pc # "checked"

LEMMA PhaseKept ==
  ASSUME TypeOK, NEW t \in Tabs
  PROVE  /\ RefreshSettled(t) => \A u \in Tabs : refresh'[u].pc = "checked" => refresh[u].pc = "checked"
         /\ RefreshSession(t) \/ AwaitRefresh(t) \/ FetchFails(t)
              => \A u \in Tabs : refresh'[u].pc = "checked" => refresh[u].pc = "checked"
  <1>t. refresh \in [Tabs -> RefreshFetch]
    BY DEF TypeOK
  <1>1. ASSUME RefreshSettled(t)
        PROVE  \A u \in Tabs : refresh'[u].pc = "checked" => refresh[u].pc = "checked"
    <2>1. refresh' = [refresh EXCEPT ![t] = NoRefresh]
      BY <1>1 DEF RefreshSettled
    <2> QED
      BY <1>t, <2>1 DEF NoRefresh
  <1>2. ASSUME RefreshSession(t) \/ AwaitRefresh(t)
        PROVE  \A u \in Tabs : refresh'[u].pc = "checked" => refresh[u].pc = "checked"
    <2>1. refresh' = WithRefresh(t)
      BY <1>2 DEF RefreshSession, AwaitRefresh
    <2> QED
      BY <2>1, WithRefreshType
  <1>3. ASSUME FetchFails(t)
        PROVE  \A u \in Tabs : refresh'[u].pc = "checked" => refresh[u].pc = "checked"
    <2>1. refresh' = [refresh EXCEPT ![t].pc = "error", ![t].new = None] \/ UNCHANGED refresh
      BY <1>3 DEF FetchFails
    <2> QED
      BY <1>t, <2>1 DEF RefreshFetch
  <1> QED
    BY <1>1, <1>2, <1>3

LEMMA RevokedStep == TypeOK /\ RevokedInv /\ [Next]_vars => RevokedInv'
  <1> SUFFICES ASSUME TypeOK, RevokedInv, [Next]_vars PROVE RevokedInv'
    OBVIOUS
  <1>t. refresh \in [Tabs -> RefreshFetch]
    BY DEF TypeOK
  <1>1. ASSUME UNCHANGED <<hash, revoked>>,
               \A u \in Tabs : refresh'[u].pc = "checked" => refresh[u].pc = "checked"
        PROVE  RevokedInv'
    BY <1>1 DEF RevokedInv
  <1>2. ASSUME NEW t \in Tabs, RefreshGuard(t)
        PROVE  RevokedInv'
    <2>1. CASE Accepted(refresh[t].cookie)
      <3>1. ~revoked
        BY <2>1 DEF Accepted, RevokedInv
      <3> QED
        BY <1>2, <3>1 DEF RefreshGuard, server, RevokedInv
    <2>2. CASE ~Accepted(refresh[t].cookie)
      <3>1. refresh' = [refresh EXCEPT ![t].pc = "401"] /\ UNCHANGED <<hash, revoked>>
        BY <1>2, <2>2 DEF RefreshGuard, server
      <3> QED
        BY <1>t, <1>1, <3>1 DEF RefreshFetch
    <2> QED
      BY <2>1, <2>2
  <1>3. ASSUME NEW t \in Tabs, RefreshIssue(t)
        PROVE  RevokedInv'
    BY <1>3 DEF RefreshIssue, RevokedInv
  <1>4. ASSUME NEW t \in Tabs, MainIssue(t)
        PROVE  RevokedInv'
    BY <1>4 DEF MainIssue, RevokedInv
  <1>5. ASSUME Revoke
        PROVE  RevokedInv'
    <2>1. hash' = None /\ \A u \in Tabs : refresh'[u] = Overtake(InRefresh(Dead)[u])
      BY <1>5 DEF Revoke
    <2>2. InRefresh(Dead) \in [Tabs -> RefreshFetch]
      BY <1>t, Ageing, AgedRefresh
    <2>3. \A u \in Tabs : refresh'[u].pc # "checked"
      BY <2>1, <2>2, Overtaken
    <2> QED
      BY <2>1, <2>3 DEF RevokedInv
  <1>6. ASSUME NEW t \in Tabs, \/ RefreshSettled(t) \/ RefreshSession(t) \/ AwaitRefresh(t) \/ FetchFails(t)
        PROVE  RevokedInv'
    <2>1. UNCHANGED <<hash, revoked>>
      BY <1>6 DEF RefreshSettled, RefreshSession, AwaitRefresh, FetchFails, server
    <2> QED
      BY <1>1, <1>6, <2>1, PhaseKept
  <1>7. CASE \/ \E t \in Tabs : \/ MainGuard(t) \/ Execute(t) \/ MainSettled(t) \/ MeSettled(t) \/ TokenExpires(t)
                                \/ \E op \in Ops : Call(t, op)
             \/ ForgotPassword \/ CodeExpires \/ TicketExpires
             \/ \E d \in Desks : VerifyRead(d) \/ VerifyConsume(d)
             \/ UNCHANGED vars
    <2>1. UNCHANGED <<hash, revoked, refresh>>
      BY <1>7 DEF MainGuard, Execute, MainSettled, MeSettled, TokenExpires, Call, ForgotPassword, CodeExpires,
                  TicketExpires, VerifyRead, VerifyConsume, client, vars, server
    <2> QED
      BY <1>1, <2>1
  <1>8. (\E t \in Tabs : LogoutClear(t)) \/ ResetPassword => Revoke
    BY DEF LogoutClear, ResetPassword
  <1> QED
    BY <1>2, <1>3, <1>4, <1>5, <1>6, <1>7, <1>8 DEF Next, Proceed, Ask, ResetCalls

\* However handlers interleave and whatever fetches are lost: once logout or a
\* reset has revoked the session, a password opens it or a refresh that was past its
\* guard by then, and nothing else.
THEOREM SessionsRevokedStaysRevoked == Spec => []RevokedStaysRevoked
  <1>1. Init => RevokedInv
    BY DEF Init, RevokedInv
  <1>2. RevokedInv => RevokedStaysRevoked
    BY DEF RevokedInv, RevokedStaysRevoked
  <1>3. TInv => TypeOK
    BY DEF TInv
  <1> QED
    BY <1>1, <1>2, <1>3, InitTInv, TInvStep, RevokedStep, PTL DEF Spec
=============================================================================
