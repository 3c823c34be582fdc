------------------------------ MODULE Sessions ------------------------------
(***************************************************************************)
(* The session of one account: the row the server keeps of it              *)
(* (backend/src/modules/auth), the refresh cookie of each browser, and the *)
(* access token each tab holds in memory                                   *)
(* (frontend/src/lib/api-client.ts, frontend/src/providers/auth-provider).  *)
(*                                                                         *)
(* A fetch is sent, checked by its guard, executed, and settled when the   *)
(* tab reads its answer; with Faults it fails before the server sees it or *)
(* after it answered.  A refresh token is known by what became of it: it is*)
(* the latest one signed, an earlier one, or one signed before the last    *)
(* time the session was revoked.  Expiry is a step of its own; the 30 days *)
(* of a refresh token are not modelled.                                    *)
(***************************************************************************)
EXTENDS Naturals

CONSTANTS
    Tabs, Browsers,
    BrowserOf,   \* tab -> the browser whose cookie it sends
    None,
    Ops,         \* the calls that tabs make, besides refreshing
    Desks,       \* verify-reset-otp calls that may be in flight together
    Faults       \* TRUE: a fetch may fail, a handler may be cut short

ASSUME SessionsAssumption ==
    /\ BrowserOf \in [Tabs -> Browsers]
    /\ Ops \subseteq {"login", "logout", "change", "call"}
    /\ None \notin {"set", "latest", "earlier", "dead"}
    /\ Faults \in BOOLEAN

VARIABLES
    hash,     \* users.refreshTokenHash
    code,     \* users.passwordResetOtpHash
    cookie,   \* browser -> its refresh cookie
    mem,      \* tab -> accessToken of api-client.ts
    status,   \* tab -> AuthStatus
    restore,  \* tab -> the step of refreshSession it is in
    refresh,  \* tab -> the fetch behind refreshPromise
    main,     \* tab -> the other call it has in flight
    desk,     \* verify-reset-otp call -> whether it has read the code there is
    grants,   \* history: reset tokens signed for the last code sent
    ticket,   \* a reset token has not expired
    revoked,  \* history: revoked, and neither a password nor a refresh that was
              \* past its guard by then has opened the session since
    left      \* history: browser -> its owner has logged out of it

reset == <<code, desk, grants, ticket>>
server == <<hash, reset, revoked>>
vars == <<server, cookie, mem, status, restore, refresh, main, left>>

Tokens == {"latest", "earlier", "dead"}
Token == Tokens \cup {None}
Bearer == {"none", "live"}    \* a guard refuses an expired token as it refuses none
Answers == {"ok", "401", "error"}
Phase == {"none", "sent", "checked", "overtaken"} \cup Answers

RefreshFetch == [pc: Phase, cookie: Token, new: Token]
NoRefresh == [pc |-> "none", cookie |-> None, new |-> None]
MainFetch == [op: Ops \cup {"none"}, pc: Phase \cup {"waiting"}, bearer: Bearer,
              final: BOOLEAN, new: Token, runs: 0..2]
NoMain == [op |-> "none", pc |-> "none", bearer |-> "none", final |-> FALSE,
           new |-> None, runs |-> 0]

(***************************************************************************)
(* What signing a pair and what clearing the hash do to the tokens that are*)
(* about, wherever they are.                                               *)
(***************************************************************************)
Older == [k \in Token |-> IF k = "latest" THEN "earlier" ELSE k]
Dead == [k \in Token |-> IF k = None THEN None ELSE "dead"]
InCookies(f) == [b \in Browsers |-> f[cookie[b]]]
InRefresh(f) == [t \in Tabs |-> [refresh[t] EXCEPT !.cookie = f[@], !.new = f[@]]]
InMain(f) == [t \in Tabs |-> [main[t] EXCEPT !.new = f[@]]]

\* bcrypt.compare: bcrypt reads 72 bytes, and those of a refresh token end inside
\* the claim sub, which every token of the account shares.
Matches(token) == token \in Tokens

\* RefreshTokenStrategy.validate.
Accepted(token) == hash # None /\ Matches(token)

(***************************************************************************)
(* POST /auth/refresh: the guard, then refreshTokens.                      *)
(***************************************************************************)
RefreshGuardLenient(t) ==    \* variant: a cleared hash is not looked at
    /\ refresh[t].pc = "sent"
    /\ refresh' = [refresh EXCEPT ![t].pc = IF Matches(refresh[t].cookie) THEN "checked" ELSE "401"]
    /\ UNCHANGED <<server, cookie, mem, status, restore, main, left>>
RefreshGuard(t) ==
    /\ refresh[t].pc = "sent"
    /\ refresh' = [refresh EXCEPT ![t].pc = IF Accepted(refresh[t].cookie) THEN "checked" ELSE "401"]
    /\ UNCHANGED <<server, cookie, mem, status, restore, main, left>>

\* A refresh is "overtaken" when the session was revoked after its guard; the
\* handler does not look again.
RefreshIssue(t) ==
    /\ refresh[t].pc \in {"checked", "overtaken"}
    /\ hash' = "set"
    /\ cookie' = InCookies(Older)
    /\ main' = InMain(Older)
    /\ refresh' = [InRefresh(Older) EXCEPT ![t].pc = "ok", ![t].new = "latest"]
    /\ revoked' = (revoked /\ refresh[t].pc = "checked")
    /\ UNCHANGED <<reset, mem, status, restore, left>>

(***************************************************************************)
(* The other calls.  login compares the password, changePassword compares  *)
(* and stores it, and both then issue tokens; logout and any other call are*)
(* one statement as far as the session goes.                               *)
(***************************************************************************)
Guarded(t) == main[t].op # "login"
Unauthorized(t) == Guarded(t) /\ main[t].bearer # "live"

MainGuard(t) ==
    /\ main[t].pc = "sent"
    /\ \/ Unauthorized(t) /\ main' = [main EXCEPT ![t].pc = "401"]
       \/ /\ ~Unauthorized(t) /\ main[t].op \in {"login", "change"}
          /\ \/ main' = [main EXCEPT ![t].pc = "checked"]
             \/ main' = [main EXCEPT ![t].pc = "error"]    \* not the password
    /\ UNCHANGED <<server, cookie, mem, status, restore, refresh, left>>

MainIssue(t) ==
    /\ main[t].pc = "checked"
    /\ hash' = "set"
    /\ revoked' = FALSE
    /\ cookie' = InCookies(Older)
    /\ refresh' = InRefresh(Older)
    /\ main' = [InMain(Older) EXCEPT ![t].pc = "ok", ![t].new = "latest"]
    /\ UNCHANGED <<reset, mem, status, restore, left>>

Overtake(r) == IF r.pc = "checked" THEN [r EXCEPT !.pc = "overtaken"] ELSE r

Revoke ==
    /\ hash' = None
    /\ revoked' = TRUE
    /\ cookie' = InCookies(Dead)
    /\ refresh' = [t \in Tabs |-> Overtake(InRefresh(Dead)[t])]

LogoutClear(t) ==
    /\ main[t].op = "logout" /\ main[t].pc = "sent"
    /\ ~Unauthorized(t)
    /\ Revoke
    /\ main' = [InMain(Dead) EXCEPT ![t].pc = "ok"]
    /\ UNCHANGED <<reset, mem, status, restore, left>>

Execute(t) ==
    /\ main[t].op = "call" /\ main[t].pc = "sent"
    /\ ~Unauthorized(t)
    /\ \E answer \in {"ok", "error"} :
         main' = [main EXCEPT ![t].pc = answer, ![t].runs = @ + 1]
    /\ UNCHANGED <<server, cookie, mem, status, restore, refresh, left>>

(***************************************************************************)
(* Forgotten password.  A reset token is a signed statement that nothing   *)
(* stores: until it expires it can be used again.                          *)
(***************************************************************************)
client == <<cookie, mem, status, restore, refresh, main, left>>

ForgotPassword ==
    /\ code' = "set" /\ grants' = 0
    /\ desk' = [d \in Desks |-> IF desk[d] = "read" THEN "stale" ELSE desk[d]]
    /\ UNCHANGED <<hash, ticket, revoked, client>>

VerifyRead(d) ==
    /\ desk[d] = "idle"
    /\ code # None
    /\ desk' = [desk EXCEPT ![d] = "read"]
    /\ UNCHANGED <<hash, code, grants, ticket, revoked, client>>

VerifyConsume(d) ==
    /\ desk[d] # "idle"
    /\ code' = None
    /\ grants' = IF desk[d] = "read" /\ grants < 2 THEN grants + 1 ELSE grants
    /\ ticket' = TRUE
    /\ desk' = [desk EXCEPT ![d] = "idle"]
    /\ UNCHANGED <<hash, revoked, client>>

ResetKeepsSession ==    \* variant: the refresh token outlives the password
    /\ ticket
    /\ code' = None /\ revoked' = TRUE
    /\ UNCHANGED <<hash, desk, grants, ticket, client>>
ResetPassword ==
    /\ ticket
    /\ code' = None
    /\ Revoke
    /\ main' = InMain(Dead)
    /\ UNCHANGED <<desk, grants, ticket, mem, status, restore, left>>

\* The code's ten minutes and the reset token's fifteen.
CodeExpires == code' = None /\ UNCHANGED <<hash, desk, grants, ticket, revoked, client>>
TicketExpires == ticket' = FALSE /\ UNCHANGED <<hash, code, desk, grants, revoked, client>>

(***************************************************************************)
(* The tab.  refreshAccessToken: whoever asks while refreshPromise is there*)
(* waits for it.                                                           *)
(***************************************************************************)
WithRefresh(t) ==
    IF refresh[t].pc # "none" THEN refresh
    ELSE [refresh EXCEPT ![t] = [NoRefresh EXCEPT !.pc = "sent", !.cookie = cookie[BrowserOf[t]]]]

\* refreshSession, by a page that is shown or by the mount of a reload.
RefreshSession(t) ==
    /\ restore[t] = "none"
    /\ \/ status[t] = "in" /\ UNCHANGED <<mem, status>>
       \/ /\ refresh[t].pc = "none" /\ main[t].op = "none"
          /\ mem' = [mem EXCEPT ![t] = "none"]
          /\ status' = [status EXCEPT ![t] = "loading"]
    /\ restore' = [restore EXCEPT ![t] = "refresh"]
    /\ refresh' = WithRefresh(t)
    /\ UNCHANGED <<server, cookie, main, left>>

\* What a settled refresh sends on: GET /auth/me for refreshSession, and the
\* call that met a 401 a second time.
ResumeOnToken(t, got) ==    \* variant: a failed refresh wakes nobody
    /\ restore' = [restore EXCEPT ![t] = IF @ = "refresh" /\ got THEN "me" ELSE @]
    /\ UNCHANGED status
    /\ main' = [main EXCEPT ![t] =
                  IF @.pc = "waiting" /\ got
                  THEN [@ EXCEPT !.pc = "sent", !.bearer = "live", !.final = TRUE] ELSE @]
Resume(t, got) ==
    /\ restore' = [restore EXCEPT ![t] = IF @ = "refresh" THEN (IF got THEN "me" ELSE "none") ELSE @]
    /\ status' = [status EXCEPT ![t] = IF restore[t] = "refresh" /\ ~got THEN "out" ELSE @]
    /\ main' = [main EXCEPT ![t] =
                  IF @.pc # "waiting" THEN @
                  ELSE IF got THEN [@ EXCEPT !.pc = "sent", !.bearer = "live", !.final = TRUE]
                  ELSE NoMain]

RefreshSettled(t) ==
    LET got == refresh[t].pc = "ok"
    IN  /\ refresh[t].pc \in Answers
        /\ refresh' = [refresh EXCEPT ![t] = NoRefresh]
        /\ cookie' = IF got THEN [cookie EXCEPT ![BrowserOf[t]] = refresh[t].new] ELSE cookie
        /\ mem' = [mem EXCEPT ![t] = IF got THEN "live" ELSE "none"]
        /\ Resume(t, got)
        /\ UNCHANGED <<server, left>>

\* GET /auth/me of refreshSession: an error of any kind ends the session here.
MeSettled(t) ==
    /\ restore[t] = "me"
    /\ restore' = [restore EXCEPT ![t] = "none"]
    /\ \/ mem[t] = "live" /\ status' = [status EXCEPT ![t] = "in"] /\ UNCHANGED mem
       \/ /\ Faults \/ mem[t] # "live"
          /\ status' = [status EXCEPT ![t] = "out"]
          /\ mem' = [mem EXCEPT ![t] = "none"]
    /\ UNCHANGED <<server, cookie, refresh, main, left>>

\* apiFetch; login and logout do not refresh.
Call(t, op) ==
    /\ main[t].op = "none"
    /\ IF op = "login" THEN status[t] = "out" ELSE status[t] = "in"
    /\ main' = [main EXCEPT ![t] = [NoMain EXCEPT !.op = op, !.pc = "sent",
                   !.bearer = IF op = "login" THEN "none" ELSE mem[t],
                   !.final = op \in {"login", "logout"}]]
    /\ UNCHANGED <<server, cookie, mem, status, restore, refresh, left>>

RetriesErrors(t) == main[t].pc \in {"401", "error"} /\ ~main[t].final    \* variant
Retries(t) == main[t].pc = "401" /\ ~main[t].final

AwaitRefresh(t) ==
    /\ Retries(t)
    /\ main' = [main EXCEPT ![t].pc = "waiting"]
    /\ refresh' = WithRefresh(t)
    /\ UNCHANGED <<server, cookie, mem, status, restore, left>>

\* The answer is read.  logout forgets the session whatever the answer was.
MainSettled(t) ==
    LET b == BrowserOf[t]
        ok == main[t].pc = "ok"
    IN  /\ main[t].pc \in Answers /\ ~Retries(t)
        /\ main' = [main EXCEPT ![t] = NoMain]
        /\ cookie' = [cookie EXCEPT ![b] = IF ~ok \/ main[t].op = "call" THEN @
                                           ELSE IF main[t].op = "logout" THEN None ELSE main[t].new]
        /\ mem' = [mem EXCEPT ![t] = IF main[t].op = "logout" THEN "none"
                                     ELSE IF ok /\ main[t].op \in {"login", "change"} THEN "live" ELSE @]
        /\ status' = [status EXCEPT ![t] = IF main[t].op = "logout" THEN "out"
                                           ELSE IF ok /\ main[t].op = "login" THEN "in" ELSE @]
        /\ left' = [left EXCEPT ![b] = IF main[t].op = "logout" THEN TRUE
                                       ELSE IF ok /\ main[t].op = "login" THEN FALSE ELSE @]
        /\ UNCHANGED <<server, restore, refresh>>

\* JWT_EXPIRY.
TokenExpires(t) ==
    /\ mem[t] = "live"
    /\ mem' = [mem EXCEPT ![t] = "none"]
    /\ UNCHANGED <<server, cookie, status, restore, refresh, main, left>>

\* The network loses a request or an answer, or the handler is cut short.
FetchFails(t) ==
    /\ Faults
    /\ \/ /\ refresh[t].pc \in {"sent", "checked", "overtaken", "ok"}
          /\ refresh' = [refresh EXCEPT ![t].pc = "error", ![t].new = None]
          /\ UNCHANGED main
       \/ /\ main[t].pc \in {"sent", "checked", "ok"}
          /\ main' = [main EXCEPT ![t].pc = "error", ![t].new = None]
          /\ UNCHANGED refresh
    /\ UNCHANGED <<server, cookie, mem, status, restore, left>>

-----------------------------------------------------------------------------
\* Every tab has just been opened, in a browser without a cookie.
Init ==
    /\ hash = None /\ code = None
    /\ desk = [d \in Desks |-> "idle"] /\ grants = 0 /\ ticket = FALSE
    /\ cookie = [b \in Browsers |-> None]
    /\ mem = [t \in Tabs |-> "none"]
    /\ status = [t \in Tabs |-> "loading"]
    /\ restore = [t \in Tabs |-> "refresh"]
    /\ refresh = [t \in Tabs |-> [NoRefresh EXCEPT !.pc = "sent"]]
    /\ main = [t \in Tabs |-> NoMain]
    /\ revoked = FALSE
    /\ left = [b \in Browsers |-> FALSE]

\* What the server and the tabs do by themselves, and what people and clocks do.
Proceed(t) ==
    \/ RefreshGuard(t) \/ RefreshIssue(t) \/ RefreshSettled(t) \/ MeSettled(t)
    \/ MainGuard(t) \/ MainIssue(t) \/ LogoutClear(t) \/ Execute(t)
    \/ AwaitRefresh(t) \/ MainSettled(t)
Ask(t) == RefreshSession(t) \/ \E op \in Ops : Call(t, op)
ResetCalls ==
    \/ ForgotPassword \/ ResetPassword \/ CodeExpires \/ TicketExpires
    \/ \E d \in Desks : VerifyRead(d) \/ VerifyConsume(d)

Next == (\E t \in Tabs : Proceed(t) \/ Ask(t) \/ TokenExpires(t) \/ FetchFails(t)) \/ ResetCalls
Spec == Init /\ [][Next]_vars

\* Requests are served, answers are read, tokens expire; nobody has to ask.
Fairness ==
    /\ \A t \in Tabs : SF_vars(RefreshGuard(t) \/ RefreshIssue(t)) /\ WF_vars(RefreshSettled(t))
    /\ \A t \in Tabs : SF_vars(MainGuard(t) \/ MainIssue(t) \/ LogoutClear(t) \/ Execute(t))
    /\ \A t \in Tabs : WF_vars(AwaitRefresh(t) \/ MainSettled(t)) /\ WF_vars(MeSettled(t))
    /\ \A t \in Tabs : WF_vars(TokenExpires(t))
    /\ \A d \in Desks : WF_vars(VerifyConsume(d))
FairSpec == Spec /\ Fairness

-----------------------------------------------------------------------------
\* The row, the cookies and the tabs hold what the services and the client put
\* there.
TypeOK ==
    /\ hash \in {None, "set"} /\ code \in {None, "set"}
    /\ desk \in [Desks -> {"idle", "read", "stale"}]
    /\ grants \in 0..2 /\ ticket \in BOOLEAN /\ revoked \in BOOLEAN
    /\ cookie \in [Browsers -> Token]
    /\ mem \in [Tabs -> Bearer]
    /\ status \in [Tabs -> {"loading", "in", "out"}]
    /\ restore \in [Tabs -> {"none", "refresh", "me"}]
    /\ refresh \in [Tabs -> RefreshFetch]
    /\ main \in [Tabs -> MainFetch]
    /\ left \in [Browsers -> BOOLEAN]

\* After logout or a password reset the session is opened by a password, or by a
\* refresh that had passed its guard before; a refresh that arrives later cannot
\* (RefreshTokenStrategy.validate, logout and resetPassword, however they
\* interleave).
RevokedStaysRevoked == revoked => hash = None

\* "Revokes the session by clearing the stored refresh-token hash": what puts a
\* hash back is a password.
OnlyPasswordOpens ==
    [][hash = None /\ hash' # None => \E t \in Tabs : main[t].pc = "checked" /\ main'[t].pc = "ok"]_vars

\* "so the previous refresh token can no longer be used": the guard passes the
\* token that was signed last, and none that a rotation has replaced.
RotatedIsRejected ==
    [][\A t \in Tabs : refresh[t].pc = "sent" /\ refresh'[t].pc = "checked"
                         => refresh[t].cookie = "latest"]_vars

\* apiFetch sends a call again only when its guard refused it, so that the server
\* executes it at most once, whatever is lost on the way.
ExecutedOnce == \A t \in Tabs : main[t].runs <= 1

\* "Consumes the OTP so it cannot be replayed": a code yields one reset token
\* (verifyResetOtp).
CodeConsumed == grants <= 1

\* Whoever waits for refreshPromise is woken: a tab that loads gets to know
\* whether it is signed in, and a call returns (refreshAccessToken, apiFetch).
EveryWaitEnds ==
    \A t \in Tabs : /\ status[t] = "loading" ~> status[t] # "loading"
                    /\ main[t].op # "none" ~> main[t].op = "none"

\* A session that stays revoked ends in every tab: from some time on none of
\* them holds an access token that still works, whatever was in flight when it
\* was revoked (validate, JWT_EXPIRY).
RevocationReachesTabs == <>[]revoked => <>[](\A t \in Tabs : mem[t] # "live")

\* "Revoke the refresh token (server-side) and clear the cookie": a browser whose
\* owner has logged out holds no cookie that the server accepts (AuthProvider's
\* logout and POST /auth/logout).
LoggedOutStaysOut == \A b \in Browsers : left[b] => ~Accepted(cookie[b])
=============================================================================
