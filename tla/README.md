# TLA+ verification of the nomoapi gateway

nomoapi stands between API clients and LLM providers. A request carries a
token; the gateway authenticates it, picks an upstream channel, holds quota,
relays the request with retries, and settles or refunds the hold. Video and
music requests become tasks that are polled and billed later. Users buy quota
and subscriptions from payment providers that report back by webhook. The
gateway may run as several processes over one database. It is administered
from a web console, and can be run on a desktop inside an Electron shell.

This directory models two groups of parts. The first moves quota (`Billing`,
`TaskPolling`, `Payments`): there a mistake costs somebody money, and
interleavings, failing writes, restarts and repeated messages are out of the
reach of the repository's unit tests. The second is the client side
(`DesktopShell`, `WebTables`, `OptionForms`, `RecordDialogs`): event-driven
JavaScript without any tests, in which clicks, timers, replies and process
events meet in every order.

| module | what it is |
|---|---|
| `Billing` | the billing of concurrent requests of one user |
| `MCBilling`, `Billing*.cfg` | its TLC instances |
| `BillingProofs` | its theorems |
| `TaskPolling` | the life and the billing of asynchronous tasks |
| `TaskContract` | what the gateway promises about a task's cost (abstract) |
| `MCTaskPolling`, `Task*.cfg` | TLC instances |
| `TaskPollingProofs` | its theorems, the refinement of `TaskContract` among them |
| `TaskLedgerProofs` | further theorems, about what a task has cost |
| `Payments` | orders, notifications and their completion |
| `MCPayments`, `Payments*.cfg` | TLC instances |
| `PaymentsProofs` | its theorems |
| `DesktopShell`, `DesktopShell.cfg` | the Electron shell and the server it spawns |
| `DesktopShellProofs` | its theorems |
| `WebTables`, `WebTables.cfg` | the eight paged tables of the console |
| `WebTablesProofs` | its theorems |
| `OptionForms`, `OptionForms.cfg` | the settings pages of the console |
| `OptionFormsProofs` | its theorems |
| `RecordDialogs`, `RecordDialogs.cfg` | fourteen edit dialogs of the console |
| `RecordDialogsProofs` | its theorems |

## 1. Inventory

`PROJECT.json` lists every component with its sources. The ones with logic of
their own:

**Billing session** (`service/billing_session.go`, `funding_source.go`,
`billing.go`). State: per request, the funding source, the amounts held on it
and on the token, and the flags `settled`, `fundingSettled`, `refunded`;
shared, `users.quota`, `tokens.remain_quota` and the subscription rows.
Operations: open (with the preference's fallback and the trust bypass), settle
to the actual quota, refund in a goroutine. Called by `controller/relay.go`
and by `relay/relay_task.go`. Hard: several requests on one balance, two
balances changed one after the other, the asynchronous refund and its retries.
Correct if each request ends up costing what its outcome says, once, on source
and token, and never gets back more than it paid.

**Subscriptions** (`model/subscription.go`). State: plans, orders, the users'
subscriptions with `amount_used` and reset times, and one pre-consumption
record per request. Operations: order, complete, expire, pre-consume,
adjust, refund, reset. Hard: nested transactions, row locks that are asked for
and not taken, resets between a hold and its refund. Correct if `amount_used`
is what the requests booked and never exceeds the total.

**Asynchronous tasks** (`service/task_polling.go`, `task_billing.go`,
`model/task.go`, `relay/relay_task.go`). State: the tasks table; per master,
the round under way. Operations: submit, sweep what timed out, poll, bill,
refresh on a client's fetch. Hard: several masters and clients on one row,
late answers, failing saves. Correct if a task is closed once, and at the cost
its outcome calls for.

**Payments** (`controller/topup*.go`, `subscription_payment_*.go`,
`model/topup.go`). State: orders and their status; per process, a mutex per
order. Operations: create, be notified, complete by hand, expire. Hard:
duplicate and late notifications, several processes, failure between two
writes. Correct if an order is made good exactly once when it was paid.

**Quota caches and batch update** (`model/user_cache.go`, `token_cache.go`,
`utils.go`). State: a Redis hash per user and token, deltas waiting in memory.
Hard: asynchronous increments against rewrites from a stale read; what a
restart forgets. Correct if cache and database agree when nothing is pending.

**Redemption codes, check-in** (`model/redemption.go`, `checkin.go`): a code
is redeemed once, a day is awarded once.

**Midjourney** (`controller/midjourney.go`, `relay/mjproxy_handler.go`): a
second task machine with its own poller and a notify handler.

**Channels** (`model/channel*.go`, `ability.go`, `service/channel_select.go`,
`channel_affinity.go`). State: the memory cache of channels by group and
model, key status of multi-key channels, affinities. Hard: cache against
database, disabling while selecting. Correct if a retry visits the priorities
in order and a disabled channel or key is not chosen after synchronisation.

**Rate limiters** (`common/rate-limit.go`, `common/limiter`,
`middleware/*rate-limit.go`): at most n requests in a window, checked and
recorded at different moments.

**Stream scanner** (`relay/helper/stream_scanner.go`): a scanner, a data
handler, a ping and a main goroutine with timeouts; all must end, and what was
read must be handled.

**Realtime relay** (`relay/websocket.go`, `relay/channel/openai`): two message
pumps that charge turn by turn.

**Desktop shell** (`electron/main.js`). State: the child process and its
events, the probes of its port, windows, tray, dialogs, the flags of quitting.
Operations: start and probe, open, hide and restore windows, report a crash,
quit. Hard: every handler may run between any two others, and the child may
die, hang or answer at any point. Correct if the start comes to an end, a quit
ends, no server is left behind and no window or probe is lost track of.

**Tables of the console** (`web/src/hooks`, `web/src/helpers/api.js`). State:
rows on the screen, page and size, search form, spinners; the GETs
under way, which identical requests share. Operations: load, search, page,
resize, refresh, change or delete a row. Hard: replies that overtake each
other, handlers that continue after an `await` with the values of an old
render, effects that send requests. Correct if, when everything has settled,
what the screen says is what it shows and what the server has.

**Settings pages** (`web/src/pages/Setting`, `web/src/components/settings`,
`compat/Form.jsx`). State: five copies of an option (form, component state,
baseline, container, server). Operations: edit, save, refresh. Hard: one PUT
per option of which some fail, siblings on one page that refresh each other,
shared reads. Correct if what was reported as saved is what the form showed
and the server has, and no edit is lost or silently not sent.

**Edit dialogs** (`web/src/components/table/*/modals`,
`CustomOAuthSetting.jsx`, `compat/SideSheet.jsx`, `compat/Modal.jsx`). State:
visibility and id, kept by the page; the mounted form and its contents; loads,
saves, closing timers. Operations: open, edit, submit, close, the timers and
the replies. Hard: closing and reopening while any of these is under way.
Correct if contents are saved under the id they belong to.

**Everything else**: authentication and two-factor state, body storage,
credential refresh, pricing arithmetic; provider adaptors (translation of
formats), settings, logs, administration, audit; the console's rendering,
playground, dashboard and sign-in pages.

How they interact: a relay handler opens a `BillingSession`, selects a channel
per attempt and calls an adaptor; the adaptor's usage becomes the actual
quota. A task's submission goes through the same session and leaves a row with
its quota and funding source, from which the poller bills. A completed order
raises `users.quota` or creates the subscription that sessions draw on. All of
them meet in three balances, which is why the store's operations are the steps
of these modules. The console reads and writes the same rows over HTTP; the
shell knows the server only by its process and its port.

The hazards of the modelled parts, each at its line with the properties that
would catch it, are listed in `PROJECT.json`; where the code does not avoid a
hazard, its note says which properties except it and by what name. Those of the
parts that are still planned:

| at | what can go wrong |
|---|---|
| `model/utils.go:74` | the batch updater swaps its map out before it writes; a failing write is only logged, and a restart forgets what waits |
| `model/user_cache.go:79` | a user read from the database is written to the Redis hash by a goroutine, over increments made in between |
| `model/redemption.go:175` | an administrator's update writes the status it read before and re-enables a code redeemed meanwhile |
| `model/checkin.go:136` | on SQLite the check-in record and the quota are written without a transaction |
| `relay/mjproxy_handler.go:113` | the notify handler saves the status it is told unconditionally while the poller waits for an answer |
| `middleware/model-rate-limit.go:32`, `:149` | the limit is checked when a request arrives and recorded when it has succeeded |
| `model/channel.go:699` | the status of a multi-key channel is read, changed and saved by several processes |
| `service/channel_select.go:106` | the retry counter and the group index together decide which priority of which `auto` group is tried next |
| `relay/helper/stream_scanner.go:98` | the clean-up waits five seconds for the goroutines and then closes `stopChan` under those that still run |
| `service/quota.go:149` | a realtime session is charged turn by turn while the hold of its `BillingSession` stands |
| `service/task_polling.go:51` | `legacyTaskCutoff` is 1740182400, which is 2025-02-22; its comment says 2026-02-22 |

## 2. Plan

Done, in this order:

1. `Billing`, with `BillingProofs`.
2. `TaskPolling` and its abstract `TaskContract`, with `TaskPollingProofs` (type
   correctness, `NoDoubleRefund`, `FinalStays`, the refinement) and
   `TaskLedgerProofs` (`BooksAgree`, `FinalMeansBilled`).
3. `Payments`, with `PaymentsProofs`.
4. `DesktopShell`, with `DesktopShellProofs`.
5. `WebTables`, `OptionForms`, `RecordDialogs`, each with its proofs.

Every invariant and every action property of the runs is proved; of the runs'
properties only the liveness ones are not.

Next:

6. `SubscriptionLedger`: several subscriptions of a user, of which
   pre-consumption takes the first that covers the request, with the upgrade and
   downgrade of the user's group. (`Billing` has one subscription.)
7. `QuotaCache`: database, Redis hash and batch update; abstractly one
   balance per user.
8. `StreamScanner`: the four goroutines; termination and nothing read lost.
9. `ChannelSelect`: groups, priorities, retries, cache and key status.
10. `Midjourney`, `Rewards`, `RateLimit`, `Realtime`, and the message stream of
    the playground.
11. Quota arithmetic as operators over bounded inputs.

## 3. Modules and code

### Billing

One user, one token, one subscription; `Requests` run concurrently. `wallet`,
`token` and `sub` are the database columns; `req[r]` holds the program counter
of the handler and the fields of its `BillingSession`, under the names of the
Go struct where there is one (`tokenConsumed`, `preConsumed` for
`preConsumedQuota`, `fundingSettled`, `settled`, `refunded`), and the program
counter `gpc` of the refund goroutine. `paid` is a history variable: what each
request has booked so far on each account, net.

A step is one access to the store. `WalletGate` reads and checks the balance;
`FundFromWallet` debits it, several steps later. `Begin` .. `RollbackToken` are
`NewBillingSession` and `preConsume`; `Retry`, `Succeed`, `Fail` and `Panic`
are the ends of an attempt in `controller/relay.go`; `SettleFunding` and
`SettleToken` are `Settle`, `PostConsumeFunding` and `PostConsumeToken` are
`PostConsumeQuota` (free models, violation fees); `RefundWallet`,
`RefundSubscription` and `RefundToken` run in the goroutine.

Failing writes: `"store"`, the write has no effect and reports an error;
`"ack"`, it takes effect and reports an error; `"outer"`, the inner
transaction of a subscription refund commits and the outer one, which marks the
record, does not. `clean` notes that a failure changed what a request owes,
`unmarked` what refund attempts gave back without the mark.

The transactions on the subscription ask for row locks through an option that
GORM v2 ignores (section 6). So each of them is two steps, and other
transactions come in between: `ReadSubscription`, `ReadForRefund` or
`ResetReads` copies the row (`Copy`), and the next step decides on that copy
and saves all its columns over whatever the row has become (`Save`).
`PeriodEnds` makes a reset due, which either a pre-consumption carries out
(`Renewed`) or the sweep `ResetDueSubscriptions`. `raced` notes that a save has
overwritten a change made since its read, `forgiven` what resets took off.

Balances are read from the database; the cache in front of them is left to
`QuotaCache`.

### TaskPolling and TaskContract

`row` is the tasks table (status, and whether progress is 100%), `poller[p]`
the round of a master, `client[c]` a fetch by a client, `paid` and `tokenPaid`
what a task has cost so far. NOT_START stands for all statuses before the
provider's first answer. A master sweeps (`GetTimedOutUnfinishedTasks`,
`SweepTask`), loads unfinished rows oldest first up to the limit, asks the
provider (`FetchTask`), writes the row with `UpdateWithStatus` or, for Suno,
unconditionally, and bills in two steps, `AdjustFunding` and `AdjustToken`. The
progress a provider reports replaces the one that goes with the status
(`Complete`), so that a row may stand at 100% without being final; no query
reads it then (`Stalled`). A process that has asked a provider is `Waiting`, for
ever if it must: the HTTP client has no time limit by default. A client's fetch of a Gemini or Vertex task is `ClientFetch` followed by
`RealtimeUpdate`. Disruptions are failing and unacknowledged writes, restarts,
and the deletion of the channel or the token.

Assumed: `TaskTimeoutMinutes > 0` (otherwise nothing is swept); Suno sends a
failure reason only with FAILURE; a submitted task has an upstream id (the
code inserts it together with the row). `Quota` is what the submission was
settled to: `controller/relay.go:581` only logs a settlement that failed, and the
task then carries a quota that differs from its hold. That failure is modelled
in `Billing` (`SettleFunding`), not here.

`TaskContract` says that a task is charged on submission and closed once, at
no cost or at the submitted or actual quota. Its state is read off the rows
and the pollers by `ContractState`: a task whose winner has yet to adjust the
funding source still counts as held.

### Payments

`status` is the order's row, `fate` the provider's side, `acked` whether the
provider knows its notification arrived; `handler[h]` is a request on a node,
which takes the order's mutex (`LockOrder`), reads the row, in a transaction
or not (`ReadOrder`), and completes, expires or leaves the order. The mutex is
the process's own, and there are no row locks, since GORM v2 ignores the option
that asks for them: requests on different processes exclude each other in
nothing. `credits` counts how often each process made an order good, `credited`
for how much; `owned` is the number of the user's subscriptions to the plan,
which is counted when an order is opened and again when it is completed. An
Epay subscription order whose purchase cannot be set up is expired at once and
can no longer be paid (`fate` is `"closed"`).

Left out: signatures, currency and rounding; Stripe's worth is its money times
`QuotaPerUnit`, taken equal to the amount.

### DesktopShell

The variables are those of `main.js` (`serverProcess`, `mainWindow`,
`app.isQuitting`, `currentAttempt`) and the world around it: the child's state,
the events of it that were not delivered yet, the strongest signal it was sent,
probes in flight and scheduled, windows, open message boxes. A step is one
handler of the event loop run to its end (`TryConnect`, `ProbeAnswered`,
`ProbeTimedOut`, `ServerError`, `ServerClosed`, `AppQuit`, ...), a move of
the child, or something the user or the system does. `early` and `timedOut` are
history variables. What throws on the way is modelled as well: the data directory
that cannot be made (`StartFails`), and `createTray` or `createWindow` after the
server has come up (`ProbeAnswered`). Left out: paths, logs and the texts of the dialogs, of which
only the branch that offers the log file is kept.

### WebTables

One table is on the screen; `hook` says which. `table` is the hook's state,
`shown` the rows together with the request they answer, `flights` the map
`inFlightGetRequests` of `helpers/api.js`: identical GETs share one promise and
so one reply. A handler is split at its `await`: the part before runs on the
values of the render it was made in, the part after (`Deliver`, `OpDone`) on
the same, by then perhaps outdated, closure, which operations carry along. Each
hook has its own operators for loading, searching and paging, because they
differ in just the points that matter: who counts requests, who sets the page
from the reply, whose effect depends on the page size. The histories
`disturbed`, `stale`, `shared`, `sizeRace` and `rejected` say which of the known
races occurred, so that the invariants can demand agreement in their absence.
The deletion of a model refreshes twice, once in the hook and once in the
column's handler (`RefreshModelsTwice`). Rows are ids, a keyword finds the rows
`Found`. Left out: the selection of rows and the batch operations on it, column
visibility, the tag mode of the channels.

### OptionForms

A screen holds two pages of one container. A page is a record of features
(`edit`, `sends`, `checks`, `after`, `loads`, `inTurn`) read off its source, so
the 34 pages are 34 constants and the life of an option is written once. Per
page: `shown` (the form), `inputs` (component state), `base` (the baseline of
`compareObjects`), `options` (the container), `store` (the server). `Edit`
changes the form and, if the compat field calls `onChange`, the state; `Save`
decides what is sent; `ToggleEnabled` is the switch of a list panel, with its own
PUT; `UpdateOption` is the arrival of one PUT, which may be
stored, refused, or stored and reported as failed; `SaveSucceeds` and `SaveFails` are
what the page does when its replies are in; `GetOptions` and `getOptions` read the
options and hand them to both pages. The import `@douyinfe/semi-ui` is an alias for
`web/src/components/compat` (`web/vite.config.js:31`), so the forms behave as
`compat/Form.jsx` does, not as the library. Options are two values, `Nil` stands
for the text `<nil>` the server stores for a PUT without a value, `Unset` for
JavaScript's `undefined`.

Not every option comes back. The server never returns keys that end in Token,
Secret, Key, secret or api_key (`controller/option.go:70-76`): `Given` is what it
gives, `Blank` in place of a key, and a page that has such a field shows a blank
after its save. `OperationSetting` passes on only the options it has defaults for
(`keeps`, `Handed`), so three fields of `SettingsGeneral` are never filled: what
is typed there stays, and becomes the baseline when another page refreshes, after
which it is no longer sent. The properties speak of the options a page is
handed.

Not modelled: the options of the system settings' other buttons. One of them,
`submitWorker` (`SystemSetting.jsx:300-315`), sends a `WorkerValidKey` that may be
`undefined` like the fields that are modelled.

### RecordDialogs

A dialog is a record of features as well: what fills the form and on which
dependency, whether the form sits in a `SideSheet` (mounted after the effects),
a `Modal` (before them) or component state, its key, when the page drops the
id, what a save wipes, whether errors are caught and `loading` disables the
button. The actions are the page's (open, close, the closing timer), React's
(`Show`, a render with its effects, and `Unmount` after the exit animation), the
user's (edit, submit) and the replies'. Contents are abstract: whose they are
and whether they were edited. `slip` records what went wrong so far: the form
was `kept` from the opening before, the `first` opening or the `same` record was
not loaded, a `timer` of an earlier closing fired while the dialog was open, a
load came `late`, a load `failed`, a save was `refused`, a dialog was closed by
the reply to an `over`taken save, or saved `early`, before its load. `Exposed`
says per kind of dialog which of these can make it save what is not the
record's own; the invariant shows there are no others. The token dialog creates
several tokens one after the other (`EditTokenModal.jsx:237-269`) and takes one
success for success; here that is one creation, since whose contents the tokens
have does not depend on how many there are.

## 4. Runs

Every run has one mutant per property: a plausible bug in a mapped
definition, under which TLC reports that property violated. The type
invariants of `Billing`, `TaskPolling`, `Payments` and `DesktopShell` are proved
(section 5) and are not among the properties of the runs.

| run | instance | what it shows |
|---|---|---|
| `billing_wallet` | 2 wallet requests of all kinds, trust bypass, 1 retry, 1 lost or unacknowledged write | `ChargeMatchesOutcome`, and that only a race overdraws (`OverdraftNeedsRace`) |
| `billing_subscription` | 2 task requests, both fallbacks, a subscription that covers both holds and not both costs, may expire and is reset once, by a request or the sweep, 1 lost mark | `ChargeMatchesOutcome`, `OneFundingSource`, `SubscriptionBalanced` |
| `billing_faults` | 1 request, every preference and kind, up to 5 failures of every kind | `LedgerInvariant`, `NeverOverRefunded`, and under fairness `HoldReleased` |
| `task_faults` | 2 masters, 1 video task on a subscription, 3 disruptions of any kind | `NoDoubleRefund` |
| `task_refinement` | 2 masters that read one row per query, 2 video tasks, a provider that may never answer, or answer 100% too early | `ImplementsContract`, `FinalStays`, and under fairness `EventuallyFinal` |
| `task_mixed` | 1 master, limit 1, a Suno, a Gemini and a legacy video task, 1 client fetch | `FinalMeansBilled`, `BooksAgree` |
| `payments_node` | 1 process, 2 requests at a time, an Epay and a Stripe top-up, two Stripe orders for a plan sold once, 2 duplicates or manual completions, 1 failure or restart | `CreditedOnce`, `StatusTellsCredit`, `LimitNeedsRace` |
| `payments_nodes` | 2 processes, a Creem top-up and two Epay orders for a plan sold once, 2 failures or restarts | `CreditedOnce`, and under fairness `PaidIsCredited` |
| `desktop_shell` | 3 probes, 3 windows; a child that crashes, hangs or exits at any point, a start that throws; another program on the port; development mode | `NoOrphan`, `OneWindow`, `OneProbeChain`, and under fairness `StartupSettles`, `QuitExits` |
| `web_tables` | each of the 8 tables, 3 rows on pages of 1 or 2, a keyword that finds 2 of them, 3 clicks, 1 failing request | `TypeOK`, `PagerAgrees`, `LatestWins`, `SpinnersEnd`, `DeletedRowGone`, and under fairness `TablesSettle` |
| `option_forms` | each of the 34 pages beside a sibling of its container or alone, 4 edits and saves, 1 refused, half-done or lost request | `TypeOK`, `BaselineTrue`, `SavedIsShown`, `ListEditsSurvive` |
| `record_dialogs` | each of the 14 dialogs, 2 records, 2 openings, 1 refused or lost request | `TypeOK`, `OwnContents`, `CreatesOwn`, `CancelledEditGone`, `OneSave`, and under fairness `SpinnerEnds` |

**Bounds.** Quotas are small numbers chosen so that one balance covers one
request and not two, prices are zero or positive, and the actual quota lies
below and above the hold. Two requests, masters or handlers are enough for
every pairwise race; requests share nothing but the balances. `MaxFaults`,
`MaxDisruptions`, `MaxRequests` and `MaxFetches` bound what is otherwise
unbounded: five failures exhaust the three attempts of `refundWithRetry` and
leave two for the rest, one failure in a run of two requests keeps the product
small. Query limits below the number of tasks make the starvation case occur.
On the client side, three retries instead of thirty leave room for a refused,
a timed-out and an answered probe; three clicks are enough for two requests
that overlap and a lone one that follows; three rows of which the keyword finds
two make pages full, half full and empty in both views; four clicks are two
edits and two saves; two openings make every pair of a closing and a
reopening, of the same or another record. The invariants of `RecordDialogs`
were also explored with three openings.
Symmetry is used in runs with invariants and action properties only.

**Deadlock** is not checked in `Billing` and `Payments`, where the system
stops once all requests have ended and the bounds are used up, in
`DesktopShell`, which ends, and in the console modules, where the user's clicks
are bounded. It is checked in `TaskPolling`, whose loops never end.

**Fairness.** `Billing`: weak fairness of each request's handler and of its
refund goroutine (the Go scheduler runs what can run, upstream calls have
timeouts). `TaskPolling`: weak fairness of the steps a polling loop takes by itself
(`Loop`) and of the passage of time; none of a fetch, which has no time limit by
default. `EventuallyFinal` therefore has a premise: one process gets its fetches back,
answered or not. Then a task that is never answered is closed by the sweep, even
though the other processes hang. `Payments`: weak fairness of a request that has begun;
strong fairness of the provider's repetition of a notification that has not
been acknowledged, as Creem and Epay document and the handlers' error answers
rely on. `DesktopShell`: timers fire, a probe is answered, refused or times
out, and events of a dead child are delivered; nothing is assumed of the user or
of the child, which may hang for ever. `WebTables` and `RecordDialogs`: a
request that was sent ends in a reply or an error, timers fire and exit
animations end; nothing is assumed of the user.

## 5. Proofs

Every theorem holds for all values of the constants that satisfy the
modules' assumptions and the hypotheses named here.

**BillingProofs**: `TypeCorrect`, `LedgerHolds`, `NoOverRefund`, `OneSource`,
`ChargeCorrect` and `SubscriptionExact`, that is `[]TypeOK`,
`[]LedgerInvariant`, `[]NeverOverRefunded`, `[]OneFundingSource`,
`[]ChargeMatchesOutcome` and `[]SubscriptionBalanced`, and `OverdraftRaced`
(`OverdraftNeedsRace`), for any set of requests, any amounts, preferences,
number of retries and number of failures of all three kinds. Only
`SubscriptionExact`, which adds up over the requests, has a hypothesis: that there
are finitely many.

`ChargeMatchesOutcome` speaks of finished requests and is far from inductive.
The inductive invariant is `TypeOK /\ LedgerInvariant`. `LedgerInvariant` has
three parts per request. `Shape` relates the session's fields to the program
counters: for instance, a session that exists remembers the same amount three
times, a refund goroutine runs only after a failure, `fundingSettled` without
`settled` occurs only between the two halves of `Settle`. `Exact` says that
while the request is `clean` its bookings equal `SourceDue` on the source it
draws on, nothing on the other, and `TokenDue` on the token. `Covered` says
that after failing writes they are at least what may still be given back
(`SourceHold`, `TokenHold`), with `unmarked` counted in: over-refunding is impossible
but for the attempts that lost their mark.
`LedgerStep` reduces a step to the request that takes it, since the others'
state and bookings do not change. Then, for each phase of a request (opening,
upstream call, closing, refund goroutine), one lemma says what its actions do
to the request and its bookings (`OpenGood`, `FundGood`, `UpstreamGood`,
`CloseGood`, `RefundGood`) and one that they preserve the invariant
(`OpenLedger`, ..., `RefundLedger`), with one step per action.

`SubscriptionBalanced` relates `amount_used` to a sum over the requests, although
transactions overwrite each other. `Books` is its inductive form. By `StepBooks`
every step of a request books on one account or none, and on the subscription
only by a transaction on some earlier copy of the row. By `TransactionBalanced` a
save on a copy that is still the row moves it by what is booked, any other sets
`raced`; the clamp at zero of `PostConsumeUserSubscriptionDelta` can only leave
`amount_used` too high, and does not act at all while every refund is marked, since
the sum after the debit is then that of numbers which `NoOverRefund` shows not to
be negative. `ResetBalanced` is about the sweep. The sum is a fold, so
what is needed of it (`SumGrows`, `SumNatural`) takes induction over data. The
library's induction rules have an operator as parameter, which the provers
cannot instantiate; `AllNaturals` and `SubsetInduction` restate them about sets,
and `SumExists` shows that the fold's recursion has a solution at all.

`OverdraftRaced` rests on `AllGated`: what a session is about to take from the
wallet is no more than the balance it remembers from `tryWallet`'s check. If the
balance is still that one, the debit leaves it at zero or above. `FundingDebit`
shows that no other step of a request that is about to fund lowers the wallet.

**TaskPollingProofs**: `TaskTypeCorrect`; `TaskRefundedOnce`
(`[]NoDoubleRefund`) for any number of masters, tasks and disruptions under
`ByCompareAndSwap`, which says that every task is a video task, or Gemini's with
no clients. Suno rows are saved unconditionally and clients overwrite Gemini
rows: there the property is false (section 6). `FinalRowStays`
(`FinalStays`) needs, besides, that no channel is deleted, because the bulk
failure of its tasks is unconditional. The inductive invariant is
`TypeOK /\ Rounds /\ Books /\ NoFetches`. `Rounds` says that a master's round
works on rows it read as unfinished, of tasks that were submitted, and that
what it is about to write is a status the loop knows. `Books` is the heart:
nobody bills a task whose row is open, at most one process bills a closed one,
and until it has done so the charge is still in place. `NoDoubleRefund` alone
says nothing of the masters that are about to refund.

`PollingImplementsContract` (`Spec => ImplementsContract`) is the refinement,
under `Undisrupted` (`ByCompareAndSwap`, no disruptions, no legacy tasks). Its
invariant adds `Outcome`: what a winner will book fits the outcome it wrote.
The lemmas `Quiet`, `ClosedOwing`, `ClosedEven` and `ClosedByBooking` sort
every step of the polling loop into a stutter of the contract, or the closing of
one task at the cost its outcome calls for, at the moment of the
compare-and-swap where nothing is owed, of the booking where something is.

**TaskLedgerProofs**: `TaskBooksAgree` (`[]BooksAgree`) and
`TaskFinalMeansBilled` (`[]FinalMeansBilled`) under `Regular`: one master, with
tasks of every platform, clients' fetches and legacy tasks, or any number of
masters over tasks written by compare-and-swap. `FinalMeansBilled` itself speaks
of states no client's fetch has meddled with. (Two masters on one Suno row
both bill it, section 6.) The inductive invariant `LInv` says where a process
stands in its round (`Placed`); that, until something is disrupted, source and
token differ by exactly what one process has yet to book on the token (`Even`);
and that, until a client has fetched as well, each task has cost what its row says
or what the process at work on it is about to make true (`Account`, with `Owes`).
For Suno, whose refund comes before the row, the process stands between the
two and `Owes` relates the open row to the refund made. On one master `Fresh`
says that the rows of a round are still as they were read, which stands in for
the compare-and-swap.

**PaymentsProofs**: `PaymentsTypeCorrect`; `OrderCreditedOnce`
(`[]CreditedOnce`) for any number of processes, without a hypothesis: each of them
makes an order good at most once, whatever the others do to the row. Its invariant
`IInv` says that on one process one request at a time holds an order (`Mutex`),
that an order a process has credited has a status that turns its next request away,
whatever other processes have written since (`CreditsTold`, with `Told`: a status
never becomes pending again), and that a request which still sees the order as
pending is on a process that has not credited it (`Fresh`). `StatusTells`
(`[]StatusTellsCredit`) assumes one process (`OneNode`): what a request saw of the
row is then still so while it holds it (`SeenTrue`); it adds what the kinds of
handlers are for (`KindsTrue`) and the status itself (`Tells`).
`PurchaseLimitNeedsRace` (`LimitNeedsRace`) holds for any number of processes: a
completion whose count is not outdated leaves the user within the plan's limit. Its
invariant says that handlers are about orders that exist and that only a top-up is
credited outside a transaction (`Known`, `CreditsTopUps`).

**DesktopShellProofs**: `ShellTypeCorrect`; `ShellLeavesNoOrphan`
(`[]NoOrphan`), from an invariant that `serverProcess` names any living child
(`ChildKnown`) and that whatever ends the shell finds it dead or kills it;
`ShellProbesInTurn` (`[]OneProbeChain`), from one that ties the number of probes
and timers to the phase of the start (`ProbeChain`); `ShellOneWindow`
(`[]OneWindow`), from `Tracked`: until an early activation `mainWindow` names the
only window there is, and there is none before the server is up, which is why
`createWindow` may create one without looking.

**WebTablesProofs**: `TypeCorrect`, `PagerFollows`, `LastRequestWins`,
`SpinnersStop` and `DeletedRowsLeave`, that is `[]TypeOK`, `[]PagerAgrees`,
`[]LatestWins`, `[]SpinnersEnd` and `[]DeletedRowGone`, for each of the eight
tables and any rows, page sizes, clicks and failing requests. All five follow
from one invariant. The properties speak of quiet states; the invariant says of
what is under way that it will make them true: a spinner is on only while the
request whose reply switches it off is under way (`Spins`); without
a disturbance there is at most one request (`Lone`), its reply will bring pager
and rows together (`Pager`) and holds no deleted row (`Rowed`); and for the
deployments the last request will bring what the pager shows, whatever else is
under way (`Last`). The eight tables differ in their handlers. Each handler
is reduced to its effect, the state it leaves and the GETs it sends (`Clicked`,
`Refreshed` and `Replied`, with one lemma per table), so that the lemmas about the
actions treat all tables alike.

**OptionFormsProofs**: `TypeCorrect`, `BaselineFollows` (`[]BaselineTrue`),
`SavedShown` (`[]SavedIsShown`) and `ListEditsKept` (`ListEditsSurvive`), for
any number of clicks and failures and every pair of pages of a container.
`Typed` strengthens `TypeOK` by what a save or a read under way carries. The
heart is `Current`: a page that the container fills agrees with what the server
gives, in every option it is handed (`Agrees`), or its own save is
still under way and will end in a refresh, or the read under way was answered
with what the server gives. The exceptions `hurt` (a request failed) and `joined`
(the refresh shared an earlier read) are those of the properties, and the proof
shows that no others are needed. `ListEditsKept` rests on it too: a list takes
what it is given only if that differs from what the container held before
(`Takes`), and by `Current` what a read brings to a list without a save under way
is the stored list (`ListRead`); a read that was answered before a save of the
list, or of another page, would break this.

**RecordDialogsProofs**: `TypeCorrect`, `NoCancelledEdit`
(`[]CancelledEditGone`), `OneSaveAtATime` (`[]OneSave`), `CreationOwn`
(`[]CreatesOwn`) and `ContentsOwn` (`[]OwnContents`), for each of the fourteen
dialogs, any records, any number of openings and any order of replies. `Page`
says how the state fits the kind of dialog (a dialog without a timer has none
running, a dialog that creates nothing has an id when it is open), and each
theorem adds its own part: an edit outlives its opening only in a form that
closing does not reset (`Resets`); while the save of this opening is under way
`loading` is on and no load that could switch it off is (`Spinning`); a form without
an id holds the defaults unless one of the named slips happened (`Creating`); a
form with an id holds that record's contents, or a submission would be refused,
leave them out or count as `early`, and so for every save under way (`Owning`). The proofs never look at
one dialog alone, only at how its features go together (`Coherent`), checked once for
the list of dialogs.

Only model-checked: liveness under fairness (`HoldReleased`,
`EventuallyFinal`, `PaidIsCredited`, `StartupSettles`, `QuitExits`,
`TablesSettle`, `SpinnerEnds`), which the prover does not handle. Everything else
that a run checks is also a theorem.

## 6. Disagreements between the code and what it says

Most of these are stated as a definition of their module that no run checks. To see
the behaviour, check that definition in the instance named.

- `SubscriptionRefundIdempotent` (`Billing`; `BillingFaults.cfg`). `model/subscription.go:1059`: "RefundSubscriptionPreConsume
  is idempotent and refunds pre-consumed subscription quota by requestId." The
  give-back at `:1077` commits in a transaction of its own; when the outer one
  then fails, the retry gives the hold back again.
- `FailureRefunded` (`TaskPolling`; 1 master, 1 client, 1 Gemini task).
  `service/task_billing.go:144`: "当异步任务失败时，将预扣的 quota 退还给用户" (when
  an asynchronous task fails, the pre-deducted quota is given back). A client's
  fetch that sees the failure first writes it to the row
  (`relay/relay_task.go:477`) and refunds nothing; the pollers no longer read
  the row.
- Two processes and one order (`Payments`; no definition of its own:
  `CreditedOnce` with the `credits` of all processes added up fails in the instance
  of `payments_nodes`). `model/topup.go:255`: "行级锁，避免并发补单" (row lock, against
  concurrent completion). The lock is requested with
  `Set("gorm:query_option", "FOR UPDATE")`, which GORM v2 (`go.mod:59`) does not
  interpret, so two processes can each complete the order once. The same option
  stands in the transactions of `model/subscription.go`, which is why `Billing` lets
  them overwrite each other.
- `WorthAgrees` (`Payments`; 1 process, 1 Creem order). `model/topup.go:339`: "Creem 直接使用
  Amount 作为充值额度（整数）" (Creem uses Amount as the quota itself). A manual
  completion credits `QuotaPerUnit` times as much (`:278`).
- Switches and numbers (`OptionForms`: `Edit` changes `shown`, and `inputs` only for
  the fields that are `Wired`; no definition of its own). `UPSTREAM-SYNC.md:237`:
  "什么都不用做。新页面的 `import { xxx } from '@douyinfe/semi-ui'` 会自动走兼容层" (nothing
  to be done, pages go through the compat layer by themselves). `FormSwitch`
  (`compat/Form.jsx:515`) and `FormInputNumber` never call the `onChange` of the
  page, so a page that collects its changes there does not see them.
- `NormalExitClosesWindow` (`DesktopShell`, its own cfg). `electron/main.js:369`:
  "正常退出（code为0或null），直接关闭窗口" (after a normal exit, close the window). The
  window's `close` handler hides it to the tray instead, and the shell stays
  without a server.

Further behaviours the modules show when an instance is changed, or that their
properties excuse by name:

*Billing, tasks and payments*

- `ChargeViolationFeeIfNeeded` is said to act after the refund, but the refund
  is still in its goroutine (in `Billing`, a request in `postToken` with a fee
  booked and `gpc = "funding"`).
- `NoDoubleRefund` fails for a Suno task with a failing write, or with two
  masters, because `updateSunoTasks` refunds before an unconditional save; and
  for a Gemini task with a client, whose fetch can reopen a row the sweep has
  failed and refunded.
- `FailureRefunded` fails when the channel is deleted: `TaskBulkUpdateByID`
  refunds nothing.
- A provider's progress of 100% with a status that is not final takes the task out
  of the loop's and the sweep's queries for good (`EventuallyFinal` excepts `Stalled`).
- A panic in the handler on its first attempt keeps the hold, and a violation fee that
  the subscription refuses is only logged (`ChargeMatchesOutcome` accepts both).
- A refund or settlement of a subscription that was read before a concurrent save loses
  that save (`raced`); a hold taken before a reset and refunded after it lowers the new
  period's `amount_used`.
- A Stripe top-up that was completed by hand before its session expired ends as expired:
  `sessionExpired` notices, does not return, and saves it (`StatusTellsCredit` excepts
  `Overwritten`).
- Two orders of a user completed at the same time exceed `MaxPurchasePerUser`
  (`LimitNeedsRace`); an order that was opened within the limit and paid when it had been
  reached is refused for good (`PaidIsCredited` excepts it).

*Desktop shell*

- A probe that times out is destroyed, which raises `error` too: two retries are
  scheduled for one probe (`OneProbeChain` excuses `timedOut`).
- On macOS an activation during the start makes a window that `whenReady`
  replaces without looking (`OneWindow` excuses `early`).

*Tables*

- Tokens: the effect that loads the table depends on the page size and every
  reply sets it (`useTokensData.jsx:93`, `:419`); once two sizes are under way the
  requests may alternate for ever (`TablesSettle` excuses `sizeRace`).
- Tokens and redemption codes: a change of the page size in search mode leaves
  the search.
- Channels: `onClick={refresh}` (`ChannelsFilters.jsx:61`) passes the click event
  as the page number; the server takes it for page 1.
- A handler that waits for an operation puts back the rows of its closure, over
  a page that was loaded meanwhile.
- A refresh after a deletion may share a GET the server answered before it
  (`api.js:55`) and show the deleted row again.
- Models: a deletion refreshes the table twice.
- Deployments: the refresh after a row operation uses the page size and the
  query of its closure.

*Settings pages*

- The compat form passes only the changed field as the first argument of
  `onValueChange` (`Form.jsx:14-18`), which the payment pages and the system
  settings take for all values. The other fields become `undefined`: the server
  stores the text `<nil>` for them (Stripe, system settings), Creem's test mode
  is switched off, Epay's page refuses to save.
- `validate` of the compat form always resolves.
- Pages that compare with a baseline but do not look into the replies report a
  refused option as saved; one PUT refused or lost out of several leaves the
  baseline behind the server.
- A key that the server hides is shown as a blank after it was saved, as if it had been
  lost; leaving the field alone sends nothing.
- `PlaygroundEnabled` and the custom currency's symbol and rate of `SettingsGeneral` are
  not passed on by `OperationSetting`: they are never shown, and an edit of theirs that was
  not saved is taken for the baseline when another page refreshes.
- A list edited while its save is under way keeps the edit with the save button
  switched off (`SettingsAPIInfo.jsx:101-113` and its siblings).
- The baseline of the system settings is never moved after a save.
- `SettingsBedrockBetaFlags.jsx:17-22` looks for its options in an array by name
  and always shows the defaults.
- `model/option.go:181` stores an option before it parses it: an option can be
  refused and kept.
- The refresh after one page's save wipes unsaved edits of its siblings, lists
  excepted.

*Dialogs*

- The redemption dialog does not load at its first opening, nor when the same
  code is opened again before the closing timer fired.
- Closing timers are not cleared when a dialog is reopened: an open edit dialog
  loses its id and creates a copy.
- A load that is answered late fills the form of another record.
- The user dialog loads `/api/user/self` when it is closed.
- The token and the model dialog wipe the form after a refused save.
- A failed load leaves a blank form with the save button enabled; in the token,
  user and redemption dialogs a rejected one leaves the spinner on.
- The prefill-group and OAuth dialogs keep the previous form if they are
  reopened before it is unmounted.
- The channel and OAuth dialogs do not disable the button while they save.
- The reply to a save closes whichever record the dialog shows by then.
- The multi-key dialog acts by index, after a late reply on another channel's
  list.
- `EditDeploymentModal.jsx` is never filled from its record.

## 7. Not modelled

The components of section 2 that are still planned. Not planned: the provider
adaptors, whose work is translation between formats; logs, statistics and
notifications, which no decision reads; the server's settings, whose values are
CONSTANTS; administration of users, tokens and models, which are operations on
single rows; audit and distillation.

Of the web console, what is modelled is its behaviour over time: requests,
replies, timers, effects and the state they touch. Most of its lines are JSX
that lays out pages, tables of columns and labels, formatting, charts, icons
and translations. They keep no state of their own and decide nothing, so the
share of the JavaScript that the definitions stand for stays small although the
tables, the settings pages and the edit dialogs are covered. Its sign-in and
set-up pages are forms that send one request. The dashboard and the pricing
page read and display. The parameter-override editor and the sub-editors of the
channel dialog transform a JSON text in component state and hand it to the
dialog, which is where `RecordDialogs` begins. The playground's message stream,
which does have interleavings (chunks, stop, regenerate), is planned.
