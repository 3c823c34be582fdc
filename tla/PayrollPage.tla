---------------------------- MODULE PayrollPage -----------------------------
(***************************************************************************)
(* The payroll page of the client                                          *)
(* (frontend/src/app/(dashboard)/payroll/page.tsx): the cycle that is      *)
(* selected, its header with the buttons, and the table of its payslips.   *)
(* Header and table are fetched by an effect each; an effect that runs     *)
(* again cancels the fetch it has started, whose answer is then ignored.   *)
(* Answers come in any order, and a fetch may fail.                        *)
(*                                                                         *)
(* The page number stands for all that the table depends on besides the    *)
(* cycle: page size, search and department.  Only the buttons are disabled *)
(* while one of them acts, and the table's pages while it loads; selector, *)
(* filter and creation are not.  A step is what is done in one go, with    *)
(* the effects React runs for it.  Which cycle a list begins with is left  *)
(* open.                                                                   *)
(***************************************************************************)
EXTENDS Naturals

CONSTANTS
    PageCycles,   \* cycles there may be
    NoCycle,
    Filters,      \* the status filters that are used
    Opening,      \* the statuses cycles have when the page is opened
    MaxActs       \* bound: how often buttons change a cycle

ASSUME PageAssumption ==
    /\ NoCycle \notin PageCycles
    /\ Filters \subseteq {"ALL", "DRAFT", "REVIEW", "APPROVED", "CLOSED"}
    /\ Opening \subseteq {"none", "DRAFT", "REVIEW", "APPROVED", "CLOSED"}
    /\ MaxActs \in Nat

VARIABLES
    ledger,     \* the server: cycle -> its status, and how often it was changed
    cycles,     \* the list of the selector: cycle -> status, "none" if not listed
    selectedId,
    selected,   \* the header: a cycle and its status
    slipRows,   \* rows of the table: a page of the payslips of a cycle
    filter,     \* statusFilter
    page,
    loading,    \* loadingSlips
    astray,     \* history: the header is that of a button whose answer came for another
                \* cycle, or with a fetch of the header under way, and nothing was
                \* selected since
    lists,      \* who called loadCycles -> its fetch
    headers,    \* fetches of the header that are not cancelled
    tables,     \* fetches of the table that are not cancelled
    acting,     \* the button that acts
    creating,   \* onCreate
    unheard     \* history: cycles changed by a button whose answer was lost

shown == <<selectedId, selected, slipRows, page, loading, astray>>
pageVars == <<ledger, cycles, shown, filter, lists, headers, tables, acting, creating, unheard>>

Status == {"none", "DRAFT", "REVIEW", "APPROVED", "CLOSED"}
NoHeader == [cycle |-> NoCycle, status |-> "none"]
EmptyTable == [cycle |-> NoCycle, page |-> 0, ver |-> 0]
NoList == [c \in PageCycles |-> "none"]
Header(c) == [cycle |-> c, status |-> ledger[c].status]
Table(c, p) == [cycle |-> c, page |-> p, ver |-> ledger[c].ver]

\* A fetch: whether the server has read the rows, and what it found.
Sent(nothing) == [pc |-> "sent", got |-> nothing]
Resting(nothing) == [pc |-> "idle", got |-> nothing]
AnswerOf(found) == [pc |-> "read", got |-> found]
Rest == [pc |-> "idle", cycle |-> NoCycle, to |-> "none", got |-> NoHeader]

-----------------------------------------------------------------------------
(* The effects.                                                            *)

Visible(list, f) == {c \in PageCycles : list[c] # "none" /\ (f = "ALL" \/ list[c] = f)}
FirstOf(S) == IF S = {} THEN {NoCycle} ELSE S

\* The selection after the effect that keeps it within the filter.
Kept(s, list, f) ==
    IF s = NoCycle \/ f = "ALL" \/ s \in Visible(list, f) THEN {s} ELSE FirstOf(Visible(list, f))

CancelledNever(fetches) == fetches    \* variant: no clean-up function
Cancelled(fetches) == {}

\* Selection s, page p and header h, after a change that makes the table stale or not.
Effects(s, p, h, stale) ==
    LET moved == s # selectedId
        q == IF moved THEN 1 ELSE p
        again == moved \/ stale \/ q # page
    IN  /\ selectedId' = s /\ page' = q
        /\ selected' = IF s = NoCycle THEN NoHeader ELSE h
        /\ slipRows' = IF moved /\ s = NoCycle THEN EmptyTable ELSE slipRows
        /\ headers' = IF ~moved THEN headers
                      ELSE Cancelled(headers) \cup
                           IF s = NoCycle THEN {} ELSE {[cycle |-> s, fetch |-> Sent(NoHeader)]}
        /\ tables' = IF ~again THEN tables
                     ELSE Cancelled(tables) \cup
                          IF s = NoCycle THEN {} ELSE {[cycle |-> s, page |-> q, fetch |-> Sent(EmptyTable)]}
        /\ astray' = (~moved /\ IF stale THEN acting.cycle # selectedId \/ headers # {} ELSE astray)
        /\ loading' = (loading \/ (again /\ s # NoCycle) \/ (stale /\ selectedId # NoCycle))

-----------------------------------------------------------------------------
(* loadCycles.                                                             *)

ListRead(who) ==
    /\ lists[who].pc = "sent"
    /\ lists' = [lists EXCEPT ![who] = AnswerOf([c \in PageCycles |-> ledger[c].status])]
    /\ UNCHANGED <<ledger, cycles, shown, filter, headers, tables, acting, creating, unheard>>

\* The list is there, or the fetch has failed and leaves none; the selection is one of
\* choices, within the filter.
Loaded(who, list, choices) ==
    /\ cycles' = list
    /\ lists' = [lists EXCEPT ![who] = Resting(NoList)]
    /\ \E x \in choices : \E s \in Kept(x, list, filter) : Effects(s, page, selected, FALSE)
    /\ UNCHANGED <<ledger, filter, acting, unheard>>

Default(list) ==
    IF selectedId # NoCycle /\ list[selectedId] # "none" THEN {selectedId}
    ELSE FirstOf(Visible(list, "ALL"))

Mounted ==
    /\ \/ lists["mount"].pc = "read" /\ Loaded("mount", lists["mount"].got, Default(lists["mount"].got))
       \/ lists["mount"].pc \in {"sent", "read"} /\ Loaded("mount", NoList, {selectedId})
    /\ UNCHANGED creating

(***************************************************************************)
(* onCreate: the call, loadCycles, and the selection of what was created.  *)
(***************************************************************************)
OnCreate ==
    /\ creating.pc = "idle"
    /\ creating' = [creating EXCEPT !.pc = "call"]
    /\ UNCHANGED <<ledger, cycles, shown, filter, lists, headers, tables, acting, unheard>>

OnCreateExecute ==
    /\ creating.pc = "call"
    /\ \E c \in PageCycles :
         /\ ledger[c].status = "none"
         /\ ledger' = [ledger EXCEPT ![c].status = "DRAFT"]
         /\ creating' = [creating EXCEPT !.pc = "list", !.cycle = c]
    /\ lists' = [lists EXCEPT !["create"] = Sent(NoList)]
    /\ UNCHANGED <<cycles, shown, filter, headers, tables, acting, unheard>>

OnCreateListed ==
    /\ creating.pc = "list"
    /\ \/ lists["create"].pc = "read" /\ Loaded("create", lists["create"].got, {creating.cycle})
       \/ lists["create"].pc \in {"sent", "read"} /\ Loaded("create", NoList, {creating.cycle})
    /\ creating' = Rest

\* Refused, or its answer is lost.
OnCreateFails ==
    /\ creating.pc = "call"
    /\ creating' = Rest
    /\ \/ UNCHANGED ledger
       \/ \E c \in PageCycles : /\ ledger[c].status = "none"
                                /\ ledger' = [ledger EXCEPT ![c].status = "DRAFT"]
    /\ UNCHANGED <<cycles, shown, filter, lists, headers, tables, acting, unheard>>

(***************************************************************************)
(* Selector, filter and pages of the table; the answers for them.          *)
(***************************************************************************)
Settled == UNCHANGED <<ledger, cycles, lists, acting, creating, unheard>>

Select(c) ==
    /\ c \in Visible(cycles, filter) /\ c # selectedId
    /\ Effects(c, page, selected, FALSE)
    /\ Settled /\ UNCHANGED filter

SetFilter(f) ==
    /\ f # filter
    /\ filter' = f
    /\ \E s \in Kept(selectedId, cycles, f) : Effects(s, page, selected, FALSE)
    /\ Settled

Turn ==
    /\ selectedId # NoCycle
    /\ Effects(selectedId, 3 - page, selected, FALSE)
    /\ Settled /\ UNCHANGED filter

HeaderRead(h) ==
    /\ h.fetch.pc = "sent"
    /\ headers' = (headers \ {h}) \cup {[h EXCEPT !.fetch = AnswerOf(Header(h.cycle))]}
    /\ Settled /\ UNCHANGED <<shown, filter, tables>>
HeaderArrives(h) ==
    /\ selected' \in {NoHeader} \cup (IF h.fetch.pc = "read" THEN {h.fetch.got} ELSE {})
    /\ headers' = headers \ {h}
    /\ Settled /\ UNCHANGED <<selectedId, slipRows, page, loading, astray, filter, tables>>

TableRead(w) ==
    /\ w.fetch.pc = "sent"
    /\ tables' = (tables \ {w}) \cup {[w EXCEPT !.fetch = AnswerOf(Table(w.cycle, w.page))]}
    /\ Settled /\ UNCHANGED <<shown, filter, headers>>
TableArrives(w) ==
    /\ slipRows' \in {EmptyTable} \cup (IF w.fetch.pc = "read" THEN {w.fetch.got} ELSE {})
    /\ loading' = FALSE
    /\ tables' = tables \ {w}
    /\ Settled /\ UNCHANGED <<selectedId, selected, page, astray, filter, headers>>

(***************************************************************************)
(* act: the call about the cycle of the header, then that cycle again.     *)
(***************************************************************************)
Buttons == {<<"DRAFT", "DRAFT">>, <<"DRAFT", "REVIEW">>, <<"REVIEW", "DRAFT">>,
            <<"REVIEW", "APPROVED">>, <<"APPROVED", "CLOSED">>}

Quiet == headers = {} /\ tables = {} /\ acting.pc = "idle" /\ creating.pc = "idle"

Press(to) ==
    /\ acting.pc = "idle" /\ <<selected.status, to>> \in Buttons
    /\ acting' = [Rest EXCEPT !.pc = "call", !.cycle = selected.cycle, !.to = to]
    /\ UNCHANGED <<ledger, cycles, shown, filter, lists, headers, tables, creating, unheard>>

\* The handlers assert the status.
ActExecute ==
    /\ acting.pc = "call"
    /\ LET c == acting.cycle
       IN  /\ <<ledger[c].status, acting.to>> \in Buttons /\ ledger[c].ver < MaxActs
           /\ ledger' = [ledger EXCEPT ![c] = [status |-> acting.to, ver |-> @.ver + 1]]
    /\ acting' = [acting EXCEPT !.pc = "sent"]
    /\ UNCHANGED <<cycles, shown, filter, lists, headers, tables, creating, unheard>>

ActRead ==
    /\ acting.pc = "sent"
    /\ acting' = [acting EXCEPT !.pc = "read", !.got = Header(acting.cycle)]
    /\ UNCHANGED <<ledger, cycles, shown, filter, lists, headers, tables, creating, unheard>>

ActArrives ==
    /\ acting.pc = "read"
    /\ cycles' = [cycles EXCEPT ![acting.cycle] = IF @ = "none" THEN @ ELSE acting.got.status]
    /\ \E s \in Kept(selectedId, cycles', filter) : Effects(s, page, acting.got, TRUE)
    /\ acting' = Rest
    /\ UNCHANGED <<ledger, filter, lists, creating, unheard>>

\* The call is refused, or an answer is lost.
ActFails ==
    /\ acting.pc # "idle"
    /\ unheard' = IF acting.pc = "call" THEN unheard ELSE unheard \cup {acting.cycle}
    /\ acting' = Rest
    /\ UNCHANGED <<ledger, cycles, shown, filter, lists, headers, tables, creating>>

-----------------------------------------------------------------------------
\* The page has just been opened.
PageInit ==
    /\ ledger \in [PageCycles -> [status : Opening, ver : {0}]]
    /\ cycles = NoList
    /\ selectedId = NoCycle /\ selected = NoHeader /\ slipRows = EmptyTable
    /\ filter = "ALL" /\ page = 1 /\ loading = FALSE /\ astray = FALSE
    /\ lists = [mount |-> Sent(NoList), create |-> Resting(NoList)]
    /\ headers = {} /\ tables = {}
    /\ acting = Rest /\ creating = Rest /\ unheard = {}

PageNext ==
    \/ \E who \in {"mount", "create"} : ListRead(who)
    \/ Mounted \/ OnCreate \/ OnCreateExecute \/ OnCreateListed \/ OnCreateFails
    \/ \E c \in PageCycles : Select(c)
    \/ \E f \in Filters : SetFilter(f)
    \/ Turn
    \/ \E h \in headers : HeaderRead(h) \/ HeaderArrives(h)
    \/ \E w \in tables : TableRead(w) \/ TableArrives(w)
    \/ \E to \in Status : Press(to)
    \/ ActExecute \/ ActRead \/ ActArrives \/ ActFails
PageSpec == PageInit /\ [][PageNext]_pageVars

-----------------------------------------------------------------------------
\* Once nothing is under way the table shows the selected cycle and page, and the
\* header, whose buttons act on its own cycle, the selected cycle, both up to date unless
\* an answer was lost: whatever was selected, filtered, created or pressed meanwhile, a
\* header that a button's late answer has put there aside (the effects on selectedId
\* and slipsTick, act).
ShowsSelected ==
    Quiet =>
        IF selectedId = NoCycle THEN selected = NoHeader /\ slipRows = EmptyTable
        ELSE /\ ~loading
             /\ slipRows # EmptyTable => slipRows.cycle = selectedId /\ slipRows.page = page
             /\ ~astray /\ selected # NoHeader => selected.cycle = selectedId
             /\ selectedId \notin unheard =>
                  /\ slipRows \in {EmptyTable, Table(selectedId, page)}
                  /\ astray \/ selected \in {NoHeader, Header(selectedId)}
=============================================================================
