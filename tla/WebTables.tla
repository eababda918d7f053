------------------------------ MODULE WebTables ------------------------------
(***************************************************************************)
(* The paged tables of the web console (web/src/hooks): tokens, users,     *)
(* redemption codes, models, deployments, channels, usage logs and task    *)
(* logs.  One table is on the screen; `hook` says which.  The actors are   *)
(* the user, who clicks while requests are under way, the browser, which   *)
(* shares identical GETs and lets replies overtake each other, and the     *)
(* server.  A handler runs with the values of the render it was made in    *)
(* (its closure), so what it does after an await may be stale.             *)
(***************************************************************************)
EXTENDS Naturals, FiniteSets

CONSTANTS Hooks,       \* the tables this run looks at
          Rows,        \* ids of the rows of the server's table
          Found,       \* the rows the keyword finds
          MaxPage,     \* pages the user clicks on: 1..MaxPage
          MaxClicks,   \* bound on the user's clicks
          MaxFaults    \* bound on failing requests

AllHooks == {"tokens", "users", "redemptions", "models", "deployments",
             "channels", "usageLogs", "taskLogs"}

ASSUME TablesAssumption ==
  /\ Hooks \subseteq AllHooks
  /\ Rows \subseteq Nat /\ IsFiniteSet(Rows) /\ Found \subseteq Rows
  /\ MaxPage \in Nat \ {0} /\ MaxClicks \in Nat /\ MaxFaults \in Nat

Sizes == {1, 2}

\* A request: without a filter or with the keyword, and which page of which size.
\* Page 0 stands for a p the server cannot use: 0, or text that is no number.
Url == [q : {"all", "kw"}, p : 0..MaxPage, s : Sizes]
U(q, p, s) == [q |-> q, p |-> p, s |-> s]

VARIABLES
  hook,       \* the table on the screen
  form,       \* the search box, live: "" or "kw"
  table,      \* the state of the hook
  shown,      \* the rows on the screen and the request they answer
  flights,    \* inFlightGetRequests: url -> its reply and who awaits it
  latest,     \* requestSeq / requestCounter: the url of the last counted request
  ops,        \* mutating requests under way, with their closures
  store,      \* the rows the server has
  clicks, faults,
  disturbed,  \* history: requests overlapped or failed since the last lone one
  rejected,   \* history: a request was rejected (no reply)
  stale,      \* history: the last request used an outdated size or query
  shared,     \* history: the last request joined a GET answered earlier
  sizeRace    \* history: GETs of two page sizes were under way at once

counters == <<clicks, faults>>
history == <<disturbed, rejected, stale, shared, sizeRace>>
vars == <<hook, form, table, shown, flights, latest, ops, store, counters, history>>

Unserved == [rows |-> {}, served |-> FALSE]
Nothing == [ok |-> FALSE, rows |-> {}, u |-> U("all", 1, 1)]

Quiet == DOMAIN flights = {} /\ ops = {}

(***************************************************************************)
(* The server                                                              *)
(***************************************************************************)

\* Mutant: the page is echoed as it came.
ServerPageRaw(p) == p

\* GetPageQuery: a page below 1 counts as 1.
ServerPage(p) == IF p = 0 THEN 1 ELSE p

\* The rows of a page, in the order of their ids.
PageOf(S, p, s) ==
  {r \in S : LET before == Cardinality({x \in S : x < r})
             IN  (p - 1) * s <= before /\ before < p * s}

Answer(u) == PageOf(IF u.q = "kw" THEN store \cap Found ELSE store, ServerPage(u.p), u.s)

(***************************************************************************)
(* helpers/api.js: a GET whose url is under way already shares its promise *)
(***************************************************************************)

\* gets is a set of pairs of a url and the continuation that awaits it.
Send(fl, gets) ==
  [u \in DOMAIN fl \cup {g[1] : g \in gets} |->
     [reply |-> IF u \in DOMAIN fl THEN fl[u].reply ELSE Unserved,
      conts |-> (IF u \in DOMAIN fl THEN fl[u].conts ELSE {})
                  \cup {g[2] : g \in {x \in gets : x[1] = u}}]]

Landed(u) == [v \in DOMAIN flights \ {u} |-> flights[v]]

\* What a piece of a handler does: the state it leaves and the GETs it starts.
Get(T, u, conts) == [t |-> T, gets |-> {<<u, c>> : c \in conts}]
Stay(T) == [t |-> T, gets |-> {}]
Then(e, f) == [t |-> f.t, gets |-> e.gets \cup f.gets]

Loading(T)   == [T EXCEPT !.loading = TRUE]
Searching(T) == [T EXCEPT !.searching = TRUE]

(***************************************************************************)
(* useTokensData.  T is the state so far, c the closure of the handler.    *)
(***************************************************************************)

LoadTokens(T, p, s) ==
  Get([Loading(T) EXCEPT !.mode = FALSE], U("all", p, s), {"load"})

\* A blank form loads page 1 with the page size of the closure.
SearchTokens(T, c, p, s) ==
  IF form = "" THEN LoadTokens(T, 1, c.size)
  ELSE Get(Searching(T), U("kw", p, s), {"search"})

PageTokens(T, p) ==
  IF T.mode THEN SearchTokens(T, T, p, T.size) ELSE LoadTokens(T, p, T.size)

\* The handler, and then the effect on [pageSize], which loads without a filter.
SizeTokens(T, s) ==
  LET N == [T EXCEPT !.size = s]
      e == IF T.mode THEN SearchTokens(N, T, 1, s) ELSE LoadTokens(N, 1, s)
  IN  Then(e, LoadTokens(e.t, 1, s))

\* syncPageData takes page and page size from the reply; a new page size runs
\* the effect.  A rejected promise leaves the flags as they are.
ReplyTokens(T, u, how) ==
  LET D == IF how # "ok" THEN T
           ELSE [T EXCEPT !.page = ServerPage(u.p), !.size = u.s, !.mode = @ \/ u.q = "kw"]
      F == IF how = "rejected" THEN D
           ELSE IF u.q = "all" THEN [D EXCEPT !.loading = FALSE]
                               ELSE [D EXCEPT !.searching = FALSE]
  IN  IF F.size # T.size THEN LoadTokens(F, 1, F.size) ELSE Stay(F)

(***************************************************************************)
(* useUsersData                                                            *)
(***************************************************************************)

LoadUsers(T, p, s) == Get(Loading(T), U("all", p, s), {"load"})

SearchUsers(T, p, s) ==
  IF form = "" THEN LoadUsers(T, p, s)
  ELSE Get(Searching(T), U("kw", p, s), {"search"})

PageUsers(T, p) == SearchUsers([T EXCEPT !.page = p], p, T.size)

\* setActivePage(1), but the page of the closure is loaded, without the filter.
SizeUsers(T, s) == LoadUsers([T EXCEPT !.size = s, !.page = 1], T.page, s)

\* Mutant: the page number is not taken from the reply.
ReplyUsersNoPage(T, u, how) ==
  Stay(IF how = "rejected" THEN T
       ELSE IF u.q = "all" THEN [T EXCEPT !.loading = FALSE]
                           ELSE [T EXCEPT !.searching = FALSE])

ReplyUsers(T, u, how) ==
  LET D == IF how = "ok" THEN [T EXCEPT !.page = ServerPage(u.p)] ELSE T
  IN  Stay(IF how = "rejected" THEN D
           ELSE IF u.q = "all" THEN [D EXCEPT !.loading = FALSE]
                               ELSE [D EXCEPT !.searching = FALSE])

(***************************************************************************)
(* useRedemptionsData                                                      *)
(***************************************************************************)

LoadRedemptions(T, p, s) == Get(Loading(T), U("all", p, s), {"load"})

\* Always page 1, with the page size of the closure.
SearchRedemptions(T, c) ==
  IF form = "" THEN LoadRedemptions(T, 1, c.size)
  ELSE Get(Searching(T), U("kw", 1, c.size), {"search"})

PageRedemptions(T, p) ==
  LET N == [T EXCEPT !.page = p]
  IN  IF form = "" THEN LoadRedemptions(N, p, T.size) ELSE SearchRedemptions(N, T)

\* The handler and the effect on [pageSize].
SizeRedemptions(T, s) ==
  LET N == [T EXCEPT !.size = s, !.page = 1]
      e == IF form = "" THEN LoadRedemptions(N, 1, s) ELSE SearchRedemptions(N, T)
  IN  Then(e, LoadRedemptions(e.t, 1, s))

\* Mutant: the page size is taken from the reply too, as the tokens table does.
ReplyRedemptionsSize(T, u, how) ==
  LET F == [T EXCEPT !.page = IF how = "ok" THEN ServerPage(u.p) ELSE @,
                     !.size = IF how = "ok" THEN u.s ELSE @,
                     !.loading = @ /\ u.q # "all", !.searching = @ /\ u.q # "kw"]
  IN  IF F.size # T.size THEN LoadRedemptions(F, 1, F.size) ELSE Stay(F)

\* Errors are caught, so the flags are reset whatever happens.
ReplyRedemptions(T, u, how) ==
  Stay([T EXCEPT !.page = IF how = "ok" THEN ServerPage(u.p) ELSE @,
                 !.loading = @ /\ u.q # "all", !.searching = @ /\ u.q # "kw"])

(***************************************************************************)
(* useModelsData                                                           *)
(***************************************************************************)

LoadModels(T, p, s) == Get(Loading(T), U("all", p, s), {"load"})

SearchModels(T) ==
  IF form = "" THEN LoadModels(T, 1, T.size)
  ELSE Get(Searching(T), U("kw", 1, T.size), {"search"})

PageModels(T, p) == LoadModels([T EXCEPT !.page = p], p, T.size)
SizeModels(T, s) == LoadModels([T EXCEPT !.page = 1, !.size = s], 1, s)

\* manageModel refreshes after a deletion, and the button that called it once more
\* when that GET has ended, well or not: "again" awaits it too.
RefreshModelsTwice(T, c) == Get(Loading(T), U("all", c.page, c.size), {"load", "again"})

ReplyModels(T, u, conts, how) ==
  LET F == [T EXCEPT !.page = IF how = "ok" THEN ServerPage(u.p) ELSE @,
                     !.loading = @ /\ u.q # "all", !.searching = @ /\ u.q # "kw"]
  IN  IF "again" \in conts THEN LoadModels(F, u.p, u.s) ELSE Stay(F)

(***************************************************************************)
(* useDeploymentsData                                                      *)
(***************************************************************************)

\* One request function; the query is kept in the state, not read from the form.
FetchDeployments(T, p, s, q) ==
  Get(IF q = "kw" THEN Searching(T) ELSE Loading(T), U(q, p, s), {"load"})

PageDeployments(T, p) == FetchDeployments([T EXCEPT !.page = p], p, T.size, T.query)
SizeDeployments(T, s) ==
  FetchDeployments([T EXCEPT !.size = s, !.page = 1], 1, s, T.query)

SearchDeployments(T) ==
  LET q == IF form = "" THEN "all" ELSE "kw"
  IN  FetchDeployments([T EXCEPT !.query = q, !.page = 1], 1, T.size, q)

RefreshDeployments(T, c) == FetchDeployments(T, c.page, c.size, c.query)

\* A reply whose sequence number is not the last is dropped, with its flags.
ReplyDeployments(T, u, how) ==
  IF latest # u THEN Stay(T)
  ELSE Stay([T EXCEPT !.page = IF how = "ok" THEN ServerPage(u.p) ELSE @,
                      !.loading = FALSE, !.searching = FALSE])

(***************************************************************************)
(* useChannelsData                                                         *)
(***************************************************************************)

LoadChannels(T, p, s) == Get(Loading(T), U("all", p, s), {"load"})

\* A blank form loads, inside the try ... finally of the search.
SearchChannels(T, p, s) ==
  IF form = "" THEN Get(Loading(Searching(T)), U("all", p, s), {"load", "search"})
  ELSE Get(Searching(T), U("kw", p, s), {"search"})

RefreshChannels(T, p, s) ==
  IF form = "" THEN LoadChannels(T, p, s) ELSE SearchChannels(T, p, s)

PageChannels(T, p) == RefreshChannels([T EXCEPT !.page = p], p, T.size)
SizeChannels(T, s) == RefreshChannels([T EXCEPT !.size = s, !.page = 1], 1, s)

\* Only a search sets the page, to the one asked for; a load that is not the last
\* returns before it resets the flag; nothing catches a rejected load.
ReplyChannels(T, u, conts, how) ==
  Stay([T EXCEPT
    !.page = IF how = "ok" /\ u.q = "kw" THEN u.p ELSE @,
    !.loading = @ /\ ~("load" \in conts /\ how # "rejected" /\ latest = u),
    !.searching = @ /\ "search" \notin conts])

(***************************************************************************)
(* useUsageLogsData, useTaskLogsData: the form filters every request       *)
(***************************************************************************)

LoadLogs(T, p, s) == Get(Loading(T), U(IF form = "" THEN "all" ELSE "kw", p, s), {"load"})

PageUsageLogs(T, p) == LoadLogs([T EXCEPT !.page = p], p, T.size)
SizeUsageLogs(T, s) == LoadLogs([T EXCEPT !.size = s, !.page = 1], T.page, s)
RefreshUsageLogs(T) == LoadLogs([T EXCEPT !.page = 1], 1, T.size)

PageTaskLogs(T, p) == LoadLogs(T, p, T.size)
SizeTaskLogs(T, s) == LoadLogs(T, 1, s)
RefreshTaskLogs(T) == LoadLogs(T, 1, T.size)

\* Page and page size are taken from the reply.
ReplyLogs(T, u, how) ==
  Stay([T EXCEPT !.page = IF how = "ok" THEN ServerPage(u.p) ELSE @,
                 !.size = IF how = "ok" THEN u.s ELSE @,
                 !.loading = @ /\ how = "rejected"])

(***************************************************************************)
(* The tables under one roof                                               *)
(***************************************************************************)

OnPage(T, p) ==
  CASE hook = "tokens" -> PageTokens(T, p)   [] hook = "users" -> PageUsers(T, p)
    [] hook = "redemptions" -> PageRedemptions(T, p) [] hook = "models" -> PageModels(T, p)
    [] hook = "deployments" -> PageDeployments(T, p) [] hook = "channels" -> PageChannels(T, p)
    [] hook = "usageLogs" -> PageUsageLogs(T, p) [] hook = "taskLogs" -> PageTaskLogs(T, p)

OnSize(T, s) ==
  CASE hook = "tokens" -> SizeTokens(T, s)   [] hook = "users" -> SizeUsers(T, s)
    [] hook = "redemptions" -> SizeRedemptions(T, s) [] hook = "models" -> SizeModels(T, s)
    [] hook = "deployments" -> SizeDeployments(T, s) [] hook = "channels" -> SizeChannels(T, s)
    [] hook = "usageLogs" -> SizeUsageLogs(T, s) [] hook = "taskLogs" -> SizeTaskLogs(T, s)

\* The search button; on the log pages it is their refresh.
OnSearch(T) ==
  CASE hook = "tokens" -> SearchTokens(T, T, 1, T.size)
    [] hook = "users" -> SearchUsers(T, 1, T.size)
    [] hook = "redemptions" -> SearchRedemptions(T, T) [] hook = "models" -> SearchModels(T)
    [] hook = "deployments" -> SearchDeployments(T)
    [] hook = "channels" -> SearchChannels(T, 1, T.size)
    [] hook = "usageLogs" -> RefreshUsageLogs(T) [] hook = "taskLogs" -> RefreshTaskLogs(T)

\* refresh(), with the closure c, after an operation on a row.
OnRefresh(T, c) ==
  CASE hook = "tokens" -> LoadTokens(T, c.page, c.size)
    [] hook = "users" -> SearchUsers(T, c.page, c.size)
    [] hook = "redemptions" ->
         IF form = "" THEN LoadRedemptions(T, c.page, c.size) ELSE SearchRedemptions(T, c)
    [] hook = "models" -> LoadModels(T, c.page, c.size)
    [] hook = "deployments" -> RefreshDeployments(T, c)
    [] hook = "channels" -> RefreshChannels(T, c.page, c.size)
    [] OTHER -> Stay(T)

OnReply(T, u, how) ==
  CASE hook = "tokens" -> ReplyTokens(T, u, how)   [] hook = "users" -> ReplyUsers(T, u, how)
    [] hook = "redemptions" -> ReplyRedemptions(T, u, how)
    [] hook = "models" -> ReplyModels(T, u, flights[u].conts, how)
    [] hook = "deployments" -> ReplyDeployments(T, u, how)
    [] hook = "channels" -> ReplyChannels(T, u, flights[u].conts, how)
    [] hook \in {"usageLogs", "taskLogs"} -> ReplyLogs(T, u, how)

\* Mutant: the searches count as well.
CountedAll(gets) == {g[1] : g \in gets}

\* The urls that take a new sequence number: every fetch of the deployments, the
\* plain loads of the channels, nothing elsewhere.
Counted(gets) ==
  {g[1] : g \in {x \in gets : hook = "deployments" \/ (hook = "channels" /\ x[1].q = "all")}}

\* Mutant: sequence numbers are not compared.
AppliesAlways(u) == TRUE

\* Whether the rows of a reply are put on the screen.
Applies(u) ==
  CASE hook = "deployments" -> latest = u
    [] hook = "channels" -> latest = u \/ u.q = "kw"
    [] OTHER -> TRUE

\* Everything a handler changes; fl and os are what is under way without it.
Run(e, fl, os) ==
  /\ table' = e.t
  /\ flights' = Send(fl, e.gets)
  /\ ops' = os
  /\ latest' = IF Counted(e.gets) = {} THEN latest ELSE CHOOSE u \in Counted(e.gets) : TRUE
  /\ shared' = IF e.gets = {} THEN shared
               ELSE \E g \in e.gets : g[1] \in DOMAIN fl /\ fl[g[1]].reply.served
  /\ sizeRace' = (sizeRace \/ \E u, v \in DOMAIN flights' : u.s # v.s)

Overlap ==
  IF Cardinality(DOMAIN flights') + Cardinality(ops') > 1 THEN TRUE
  ELSE IF Quiet /\ DOMAIN flights' # {} THEN FALSE
  ELSE disturbed

(***************************************************************************)
(* The user                                                                *)
(***************************************************************************)

Click == clicks < MaxClicks /\ clicks' = clicks + 1

UserGets(e) ==
  /\ Click /\ Run(e, flights, ops)
  /\ disturbed' = Overlap /\ stale' = FALSE
  /\ UNCHANGED <<hook, form, shown, store, faults, rejected>>

GoToPage(p) == UserGets(OnPage(table, p))
ChangeSize(s) == s # table.size /\ UserGets(OnSize(table, s))
Search == UserGets(OnSearch(table))

\* The refresh button of the channels hands its click event to refresh as the page.
ChannelsRefresh == hook = "channels" /\ UserGets(RefreshChannels(table, 0, table.size))

Type ==
  /\ form' = IF form = "" THEN "kw" ELSE ""
  /\ Click
  /\ UNCHANGED <<hook, table, shown, flights, latest, ops, store, faults, history>>

\* An operation on a row: "delete", or a "toggle" that keeps the row (enable,
\* disable, start, restart).  The request carries the closure of the render.
Operate(kind, r) ==
  /\ hook \notin {"usageLogs", "taskLogs"}
  /\ r \in shown.rows /\ Click
  /\ \A o \in ops : o.row # r
  /\ ops' = ops \cup {[kind |-> kind, row |-> r, c |-> table, rows |-> shown]}
  /\ table' = IF hook \in {"tokens", "users", "redemptions"} THEN Loading(table) ELSE table
  /\ UNCHANGED <<hook, form, shown, flights, latest, store, faults, rejected, stale, shared, sizeRace>>
  /\ disturbed' = Overlap

(***************************************************************************)
(* The server answers, replies arrive                                      *)
(***************************************************************************)

Serve(u) ==
  /\ u \in DOMAIN flights /\ ~flights[u].reply.served
  /\ flights' = [flights EXCEPT ![u].reply = [rows |-> Answer(u), served |-> TRUE]]
  /\ UNCHANGED <<hook, form, table, shown, latest, ops, store, counters, history>>

\* The reply reaches everybody who awaits it.  (The selection of rows, which some
\* tables clear then, is left out.)
Deliver(u) ==
  /\ u \in DOMAIN flights /\ flights[u].reply.served
  /\ Run(OnReply(table, u, "ok"), Landed(u), ops)
  /\ shown' = IF Applies(u)
              THEN [ok |-> TRUE, rows |-> flights[u].reply.rows, u |-> U(u.q, ServerPage(u.p), u.s)]
              ELSE shown
  /\ disturbed' = Overlap
  /\ UNCHANGED <<hook, form, store, counters, rejected, stale>>

\* success = false ("refused") or no usable reply ("rejected"): the models and the
\* deployments empty their rows.
FailGet(u, how) ==
  /\ u \in DOMAIN flights /\ faults < MaxFaults
  /\ faults' = faults + 1
  /\ Run(OnReply(table, u, how), Landed(u), ops)
  /\ shown' = IF hook \in {"models", "deployments"} /\ Applies(u) THEN Nothing ELSE shown
  /\ disturbed' = TRUE
  /\ rejected' = (rejected \/ how = "rejected")
  /\ UNCHANGED <<hook, form, store, clicks, stale>>

\* Mutant: only the tables other than the models refresh after a deletion.
RefreshesLess(o, how) == hook # "models" /\ o.kind = "delete" /\ how = "ok"

\* Whether refresh() follows an operation.  manageRedemption catches everything
\* and its modal refreshes in any case; the models and deployments refresh after a
\* success, the models' delete button also after a refusal.
Refreshes(o, how) ==
  CASE hook = "tokens" -> how # "rejected"
    [] hook \in {"users", "channels"} -> o.kind = "delete" /\ how # "rejected"
    [] hook = "redemptions" -> o.kind = "delete"
    [] hook = "models" -> o.kind = "delete" /\ how # "rejected"
    [] hook = "deployments" -> how = "ok"

\* What the hook does with its own state before the refresh.
AfterOp(how) ==
  CASE hook \in {"tokens", "users"} /\ how # "rejected" -> [table EXCEPT !.loading = FALSE]
    [] hook = "redemptions" -> [table EXCEPT !.loading = FALSE]
    [] OTHER -> table

OpRuns(o, how) ==
  LET T == AfterOp(how)
      e == IF ~Refreshes(o, how) THEN Stay(T)
           ELSE IF hook = "models" /\ how = "ok" THEN RefreshModelsTwice(T, o.c)
           ELSE OnRefresh(T, o.c)
  IN  /\ Run(e, flights, ops \ {o})
      /\ stale' = IF e.gets = {} THEN stale
                  ELSE o.c.size # table.size \/ o.c.query # table.query
      /\ shown' = IF how = "ok" /\ hook \in {"tokens", "users", "redemptions", "channels"}
                  THEN o.rows ELSE shown

\* A success: four tables put the rows of the closure back on the screen.  Users
\* are deleted softly and stay listed.  The code that would go back a page when the
\* page became empty tests the rows of the closure, which hold the deleted row.
OpDone(o) ==
  /\ o \in ops
  /\ store' = IF o.kind = "delete" /\ hook # "users" THEN store \ {o.row} ELSE store
  /\ OpRuns(o, "ok")
  /\ disturbed' = Overlap
  /\ UNCHANGED <<hook, form, counters, rejected>>

\* A refusal changes nothing on the server; when the reply is lost it may have.
OpFails(o, how) ==
  /\ o \in ops /\ faults < MaxFaults
  /\ faults' = faults + 1
  /\ store' \in {store} \cup (IF how = "rejected" /\ o.kind = "delete" /\ hook # "users"
                              THEN {store \ {o.row}} ELSE {})
  /\ OpRuns(o, how)
  /\ disturbed' = TRUE
  /\ rejected' = (rejected \/ how = "rejected")
  /\ UNCHANGED <<hook, form, clicks>>

(***************************************************************************)

\* The page is mounted: the first load is under way (the users ask for page 0).
Init ==
  /\ hook \in Hooks
  /\ form = "" /\ shown = Nothing /\ ops = {} /\ store = Rows
  /\ table = [page |-> 1, size |-> 1, loading |-> TRUE, searching |-> FALSE,
              mode |-> FALSE, query |-> "all"]
  /\ LET first == U("all", IF hook = "users" THEN 0 ELSE 1, 1)
     IN  /\ flights = Send([u \in {} |-> Unserved], {<<first, "load">>})
         /\ latest = first
  /\ clicks = 0 /\ faults = 0
  /\ disturbed = FALSE /\ rejected = FALSE /\ stale = FALSE
  /\ shared = FALSE /\ sizeRace = FALSE

Next ==
  \/ \E p \in 1..MaxPage : GoToPage(p)
  \/ \E s \in Sizes : ChangeSize(s)
  \/ Search \/ ChannelsRefresh \/ Type
  \/ \E r \in Rows, kind \in {"delete", "toggle"} : Operate(kind, r)
  \/ \E u \in DOMAIN flights : Serve(u) \/ Deliver(u)
                               \/ \E how \in {"refused", "rejected"} : FailGet(u, how)
  \/ \E o \in ops : OpDone(o) \/ \E how \in {"refused", "rejected"} : OpFails(o, how)

Spec == Init /\ [][Next]_vars

\* Requests come to an end: each one is answered and its reply arrives.
Fairness ==
  /\ \A u \in Url : WF_vars(Serve(u)) /\ WF_vars(Deliver(u))
  /\ WF_vars(\E o \in ops : OpDone(o))

FairSpec == Spec /\ Fairness

(***************************************************************************)
(* Properties                                                              *)
(***************************************************************************)

\* The variables have their types, and the pager of every table but the channels'
\* is always on a page that exists, page 1 at least.
TypeOK ==
  /\ hook \in Hooks /\ form \in {"", "kw"} /\ store \subseteq Rows
  /\ table \in [page : 0..MaxPage, size : Sizes, loading : BOOLEAN, searching : BOOLEAN,
                mode : BOOLEAN, query : {"all", "kw"}]
  /\ hook # "channels" => table.page > 0
  /\ shown \in [ok : BOOLEAN, rows : SUBSET Rows, u : Url]
  /\ DOMAIN flights \subseteq Url /\ latest \in Url
  /\ \A u \in DOMAIN flights : flights[u].conts \subseteq {"load", "search", "again"}
                               /\ flights[u].conts # {}
  /\ disturbed \in BOOLEAN /\ rejected \in BOOLEAN /\ stale \in BOOLEAN
  /\ shared \in BOOLEAN /\ sizeRace \in BOOLEAN

\* Once a request has run alone and everything has settled, page number and page
\* size on the pager are those of the rows on the screen, whatever overlaps and
\* failures came before it.  The channels are weaker: a search with a blank form
\* and the refresh button show page 1 under any page number.
PagerAgrees ==
  Quiet /\ ~disturbed /\ shown.ok =>
    /\ table.size = shown.u.s
    /\ IF hook = "channels" THEN shown.u.p \in {table.page, 1} ELSE shown.u.p = table.page

\* The sequence number of the deployments makes the last request win through any
\* overlap: when all is quiet, pager and query are those of the rows, unless a row
\* operation refreshed with a page size or a query the user has left meanwhile.
LatestWins ==
  hook = "deployments" /\ Quiet /\ shown.ok /\ ~stale =>
    table.page = shown.u.p /\ table.size = shown.u.s /\ table.query = shown.u.q

\* No spinner stays on when nothing is under way; the tables that do not catch a
\* rejected request are excused once one was rejected.
SpinnersEnd ==
  Quiet /\ (rejected => hook \in {"redemptions", "models", "deployments"}) =>
    ~table.loading /\ ~table.searching

\* A row deleted on the page is gone from the screen when all is quiet.  A table
\* without sequence numbers needs an undisturbed request for it; the deployments
\* only that their last GET did not join one answered before the deletion.
DeletedRowGone ==
  /\ Quiet /\ ~rejected /\ shown.ok
  /\ IF hook = "deployments" THEN ~shared ELSE ~disturbed
  => shown.rows \subseteq store

\* When the user stops clicking, requests come to an end.  The tokens table is
\* excused once GETs of two page sizes were under way: each reply sets its page
\* size, and the effect on the page size sends the other request again.
TablesSettle == <>[]Quiet \/ (hook = "tokens" /\ <>sizeRace)
==============================================================================
