---------------------------- MODULE TaskPolling ----------------------------
(***************************************************************************)
(* The life of asynchronous tasks (video, music) after their submission.   *)
(*                                                                         *)
(* RelayTask charges a task and inserts its row; every master process runs *)
(* TaskPollingLoop (service/task_polling.go), which sweeps tasks that took *)
(* too long, asks the provider about the others and, when a task ends,     *)
(* refunds it or settles it to its actual quota; a client that fetches a   *)
(* Gemini or Vertex task refreshes its row as well.  One step is one       *)
(* access to the tasks table or to a balance, or one provider call.        *)
(***************************************************************************)
EXTENDS Integers, FiniteSets

CONSTANTS
    Tasks,        \* the tasks' ids, in the order of submission
    Platform,     \* each task's provider: "suno", "video" or "gemini"
    Legacy,       \* the tasks submitted before legacyTaskCutoff
    Pollers,      \* the processes that run TaskPollingLoop
    Clients,      \* the clients that fetch tasks
    Source,       \* what a task was paid from: "wallet" or "subscription"
    Quota,        \* the quota its submission was settled to
    Actuals,      \* what settleTaskBillingOnComplete may find, 0: no change
    QueryLimit,   \* constant.TaskQueryLimit
    SweepLimit,   \* rows swept per round
    Disruptions,  \* of "store": a write fails without effect, "ack": it fails
                  \* after its effect, "crash": a process restarts, "channel":
                  \* the channel is deleted, "token": the token is
    MaxDisruptions,
    MaxFetches    \* bound on the fetches of clients

ASSUME TaskAssumption ==
    /\ Tasks \subseteq Nat
    /\ Platform \in [Tasks -> {"suno", "video", "gemini"}]
    /\ Legacy \subseteq Tasks
    /\ Source \in {"wallet", "subscription"}
    /\ Quota \in Nat
    /\ Actuals \subseteq Nat
    /\ QueryLimit \in Nat
    /\ SweepLimit \in Nat
    /\ Disruptions \subseteq {"store", "ack", "crash", "channel", "token"}
    /\ MaxDisruptions \in Nat
    /\ MaxFetches \in Nat

VARIABLES
    row,          \* the tasks table: status, and whether progress is "100%"
    upstream,     \* the provider's side of each task
    expired,      \* submit_time lies before the timeout's cutoff
    paid,         \* what each task has cost on its funding source, net
    tokenPaid,    \* and on its token
    poller,       \* each process's TaskPollingLoop
    client,       \* each client's fetch under way
    fetches,      \* fetches so far
    channelGone, tokenGone,
    disrupted     \* disruptions so far

store == <<row, paid, tokenPaid>>
world == <<upstream, expired, channelGone, tokenGone>>
vars == <<row, upstream, expired, paid, tokenPaid, poller, client,
          fetches, channelGone, tokenGone, disrupted>>
clients == <<client, fetches>>

\* NOT_START stands for every status before the provider's first answer and
\* IN_PROGRESS for those between; "none": no row.
Statuses == {"none", "NOT_START", "IN_PROGRESS", "FAILURE", "SUCCESS"}
Final == {"FAILURE", "SUCCESS"}

Row == [status : Statuses, done : BOOLEAN]

NoTask == -1

Poller == [
    pc : {"sleep", "sweep", "poll", "answered", "fund", "token", "save"},
    phase : {"sweep", "poll"},          \* what to go on with after billing
    todo : SUBSET Tasks,
    seen : [Tasks -> Statuses],         \* the statuses it read
    task : Tasks \cup {NoTask},
    answer : Statuses,
    delta : Int]                        \* what it is about to charge

Client == [task : Tasks \cup {NoTask}, seen : Statuses, answer : Statuses]

Idle == [pc |-> "sleep", phase |-> "sweep", todo |-> {},
         seen |-> [t \in Tasks |-> "none"], task |-> NoTask,
         answer |-> "none", delta |-> 0]

NoFetch == [task |-> NoTask, seen |-> "none", answer |-> "none"]

TypeOK ==
    /\ row \in [Tasks -> Row]
    /\ upstream \in [Tasks -> {"idle", "running", "failed", "succeeded"}]
    /\ expired \in [Tasks -> BOOLEAN]
    /\ paid \in [Tasks -> Int]
    /\ tokenPaid \in [Tasks -> Int]
    /\ poller \in [Pollers -> Poller]
    /\ client \in [Clients -> Client]
    /\ fetches \in Nat
    /\ channelGone \in BOOLEAN
    /\ tokenGone \in BOOLEAN
    /\ disrupted \in Nat

Init ==
    /\ row = [t \in Tasks |-> [status |-> "none", done |-> FALSE]]
    /\ upstream = [t \in Tasks |-> "idle"]
    /\ expired = [t \in Tasks |-> FALSE]
    /\ paid = [t \in Tasks |-> 0]
    /\ tokenPaid = [t \in Tasks |-> 0]
    /\ poller = [p \in Pollers |-> Idle]
    /\ client = [c \in Clients |-> NoFetch]
    /\ fetches = 0
    /\ channelGone = FALSE /\ tokenGone = FALSE
    /\ disrupted = 0

-----------------------------------------------------------------------------
(* The store. *)

Calm == UNCHANGED disrupted

Disrupt(kind) ==
    /\ kind \in Disruptions
    /\ disrupted < MaxDisruptions
    /\ disrupted' = disrupted + 1

SetRow(t, status, done) ==
    row' = [row EXCEPT ![t] = [status |-> status, done |-> done]]

\* Mutant: Save, without the guard on the status.
UpdateAlways(t, seen, status, done) == SetRow(t, status, done)

\* Task.UpdateWithStatus: the whole row is written if its status is still the
\* one that was read.  The caller learns whether it won.
UpdateWithStatus(t, seen, status, done) ==
    IF row[t].status = seen THEN SetRow(t, status, done) ELSE UNCHANGED row

\* Mutant: every caller believes it won.
WonAlways(t, seen) == TRUE

Won(t, seen) == row[t].status = seen

Book(t, n) == paid' = [paid EXCEPT ![t] = @ + n]
BookToken(t, n) == tokenPaid' = [tokenPaid EXCEPT ![t] = @ + n]

Become(p, q) == poller' = [poller EXCEPT ![p] = q]

-----------------------------------------------------------------------------
(* Submission, and what happens around the gateway. *)

\* RelayTask: the charge is settled first; the row is inserted afterwards, and
\* a failing insert is only logged.  Quota is what the settlement booked: that
\* it may fail and leave the hold is a matter of module Billing.
Submit(t) ==
    /\ upstream[t] = "idle"
    /\ upstream' = [upstream EXCEPT ![t] = "running"]
    /\ Book(t, Quota) /\ BookToken(t, Quota)
    /\ \/ SetRow(t, "NOT_START", FALSE) /\ Calm
       \/ UNCHANGED row /\ Disrupt("store")
    /\ UNCHANGED <<expired, poller, clients, channelGone, tokenGone>>

UpstreamEnds(t) ==
    /\ upstream[t] = "running"
    /\ \E s \in {"failed", "succeeded"} : upstream' = [upstream EXCEPT ![t] = s]
    /\ UNCHANGED <<store, expired, poller, clients, channelGone, tokenGone, disrupted>>

\* The timeout's cutoff passes the submission time.
Expire(t) ==
    /\ upstream[t] # "idle" /\ ~expired[t]
    /\ expired' = [expired EXCEPT ![t] = TRUE]
    /\ UNCHANGED <<store, upstream, poller, clients, channelGone, tokenGone, disrupted>>

DeleteChannel ==
    /\ ~channelGone
    /\ channelGone' = TRUE
    /\ Disrupt("channel")
    /\ UNCHANGED <<store, upstream, expired, poller, clients, tokenGone>>

DeleteToken ==
    /\ ~tokenGone
    /\ tokenGone' = TRUE
    /\ Disrupt("token")
    /\ UNCHANGED <<store, upstream, expired, poller, clients, channelGone>>

\* The process restarts; its loop begins anew.
Crash(p) ==
    /\ poller[p] # Idle
    /\ Become(p, Idle)
    /\ Disrupt("crash")
    /\ UNCHANGED <<store, world, clients>>

-----------------------------------------------------------------------------
(* TaskPollingLoop. *)

Unfinished == {t \in Tasks : row[t].status \notin Final \cup {"none"} /\ ~row[t].done}

\* The n oldest of a set of tasks: ORDER BY ... LIMIT n.
Oldest(S, n) == {t \in S : Cardinality({u \in S : u < t}) < n}

Load(q, S) == [q EXCEPT !.todo = S,
                        !.seen = [t \in Tasks |-> IF t \in S THEN row[t].status
                                                            ELSE "none"]]

\* Mutant: the timeout is forgotten for tasks the provider has answered about.
TimedOutNotStarted == {t \in Unfinished : expired[t] /\ row[t].status = "NOT_START"}

TimedOut == {t \in Unfinished : expired[t]}

GetTimedOutUnfinishedTasks(p) ==
    /\ poller[p].pc = "sleep"
    /\ Become(p, [Load(poller[p], Oldest(TimedOut, SweepLimit)) EXCEPT !.pc = "sweep"])
    /\ Calm
    /\ UNCHANGED <<store, world, clients>>

\* The task p is about to bill, and what it goes on with.
Bill(q, t, delta) ==
    [q EXCEPT !.pc = "fund", !.task = t, !.delta = delta]

Resume(q) == [q EXCEPT !.pc = q.phase, !.task = NoTask, !.answer = "none",
                       !.delta = 0]

\* One task of sweepTimedOutTasks: only the winner of the update refunds it,
\* and not if it is a legacy task.
SweepTask(p) ==
    \E t \in poller[p].todo :
        LET q == [poller[p] EXCEPT !.todo = @ \ {t}, !.phase = "sweep"]
            seen == q.seen[t]
        IN  /\ q.pc = "sweep"
            /\ \/ /\ UpdateWithStatus(t, seen, "FAILURE", TRUE)
                  /\ Become(p, IF Won(t, seen) /\ t \notin Legacy /\ Quota # 0
                               THEN Bill(q, t, -Quota) ELSE q)
                  /\ Calm
               \/ Become(p, q) /\ UNCHANGED row /\ Disrupt("store")
               \/ /\ Become(p, q)
                  /\ UpdateWithStatus(t, seen, "FAILURE", TRUE)
                  /\ Disrupt("ack")
            /\ UNCHANGED <<paid, tokenPaid, world, clients>>

GetAllUnFinishSyncTasks(p) ==
    LET q == poller[p] IN
    /\ q.pc = "sweep" /\ q.todo = {}
    /\ Become(p, [Load(q, Oldest(Unfinished, QueryLimit)) EXCEPT !.pc = "poll",
                                                                  !.phase = "poll"])
    /\ Calm
    /\ UNCHANGED <<store, world, clients>>

RoundEnds(p) ==
    /\ poller[p].pc = "poll" /\ poller[p].todo = {}
    /\ Become(p, Idle)
    /\ Calm
    /\ UNCHANGED <<store, world, clients>>

\* The channel cannot be found: its tasks are failed unconditionally by
\* TaskBulkUpdateByID, and nothing is refunded.
BulkFail(p) ==
    LET q == poller[p] IN
    /\ q.pc = "poll" /\ q.todo # {} /\ channelGone
    /\ \/ /\ row' = [t \in Tasks |-> IF t \in q.todo
                                     THEN [status |-> "FAILURE", done |-> TRUE]
                                     ELSE row[t]]
          /\ Calm
       \/ UNCHANGED row /\ Disrupt("store")
    /\ Become(p, [q EXCEPT !.todo = {}])
    /\ UNCHANGED <<paid, tokenPaid, world, clients>>

\* What the provider says.  It gives a reason for failure only with FAILURE.
Answers(t) ==
    CASE upstream[t] = "running" -> {"IN_PROGRESS"}
      [] upstream[t] = "failed" -> {"FAILURE"}
      [] upstream[t] = "succeeded" -> {"SUCCESS"}
      [] OTHER -> {}

\* FetchTask.  A transport error, a 429 or an answer that cannot be parsed
\* leaves the task to the next round; any other error body without a status
\* counts as failure (updateVideoSingleTask).
FetchTask(p) ==
    \E t \in poller[p].todo :
        LET q == [poller[p] EXCEPT !.todo = @ \ {t}]
            errors == IF Platform[t] = "suno" THEN {} ELSE {"FAILURE"}
        IN  /\ q.pc = "poll" /\ ~channelGone
            /\ \/ \E a \in Answers(t) \cup errors :
                    Become(p, [q EXCEPT !.pc = "answered", !.task = t, !.answer = a])
               \/ Become(p, q)
            /\ Calm
            /\ UNCHANGED <<store, world, clients>>

\* Mutant: the submitted quota is not deducted.
SettlementInFull(actual) == actual

\* settleTaskBillingOnComplete: what remains to be charged on success.
Settlement(actual) == IF actual > 0 THEN actual - Quota ELSE 0

\* The billing the winner of a final update owes.
Owed(a) ==
    CASE a = "SUCCESS" -> {Settlement(n) : n \in Actuals}
      [] a = "FAILURE" -> {-Quota}
      [] OTHER -> {0}

\* Whether the row's progress becomes "100%": a progress the provider reports
\* replaces the one that goes with the status.  No query looks at the progress
\* of a final row.
Complete(a) == IF a \in Final THEN {TRUE} ELSE BOOLEAN

\* The rest of updateVideoSingleTask: the compare-and-swap, then the billing.
UpdateVideoTask(p) ==
    LET q == poller[p]
        t == q.task
        seen == q.seen[t]
    IN  \E done \in Complete(q.answer) :
        /\ q.pc = "answered" /\ Platform[t] # "suno"
        /\ \/ /\ UpdateWithStatus(t, seen, q.answer, done)
              /\ \E delta \in Owed(q.answer) :
                   Become(p, IF Won(t, seen) /\ delta # 0
                             THEN Bill(q, t, delta) ELSE Resume(q))
              /\ Calm
           \/ Become(p, Resume(q)) /\ UNCHANGED row /\ Disrupt("store")
           \/ /\ Become(p, Resume(q))
              /\ UpdateWithStatus(t, seen, q.answer, done)
              /\ Disrupt("ack")
        /\ UNCHANGED <<paid, tokenPaid, world, clients>>

\* updateSunoTasks refunds a failed task before it saves the row.
UpdateSunoTask(p) ==
    LET q == poller[p] IN
    /\ q.pc = "answered" /\ Platform[q.task] = "suno"
    /\ \/ Become(p, IF q.answer = "FAILURE" /\ Quota # 0
                    THEN Bill(q, q.task, -Quota)
                    ELSE [q EXCEPT !.pc = "save"])
       \/ q.answer = q.seen[q.task] /\ Become(p, Resume(q))   \* ~taskNeedsUpdate
    /\ Calm
    /\ UNCHANGED <<store, world, clients>>

\* task.Update(): the row is saved whatever it has become meanwhile.
SaveSunoTask(p) ==
    LET q == poller[p] IN
    /\ q.pc = "save"
    /\ \/ SetRow(q.task, q.answer, q.answer \in Final) /\ Calm
       \/ UNCHANGED row /\ Disrupt("store")
    /\ Become(p, Resume(q))
    /\ UNCHANGED <<paid, tokenPaid, world, clients>>

\* After the billing, a Suno task is saved.
Billed(q) ==
    IF q.phase = "poll" /\ Platform[q.task] = "suno"
    THEN [q EXCEPT !.pc = "save", !.delta = 0] ELSE Resume(q)

\* Mutant: the token is not adjusted.
FundedOnly(q) == Billed(q)

Funded(q) == [q EXCEPT !.pc = "token"]

\* taskAdjustFunding.  An error ends the billing: the token is left alone.
AdjustFunding(p) ==
    LET q == poller[p] IN
    /\ q.pc = "fund"
    /\ \/ Book(q.task, q.delta) /\ Become(p, Funded(q)) /\ Calm
       \/ /\ Source = "subscription" /\ q.delta > 0     \* beyond its total
          /\ UNCHANGED paid /\ Become(p, Billed(q)) /\ Calm
       \/ UNCHANGED paid /\ Become(p, Billed(q)) /\ Disrupt("store")
       \/ Book(q.task, q.delta) /\ Become(p, Billed(q)) /\ Disrupt("ack")
    /\ UNCHANGED <<row, tokenPaid, world, clients>>

\* taskAdjustTokenQuota.  A deleted token is skipped, an error is logged.
AdjustToken(p) ==
    LET q == poller[p] IN
    /\ q.pc = "token"
    /\ \/ ~tokenGone /\ BookToken(q.task, q.delta) /\ Calm
       \/ tokenGone /\ UNCHANGED tokenPaid /\ Calm
       \/ UNCHANGED tokenPaid /\ Disrupt("store")
    /\ Become(p, Billed(q))
    /\ UNCHANGED <<row, paid, world, clients>>

-----------------------------------------------------------------------------
(* tryRealtimeFetch, called when a client fetches a Gemini or Vertex task. *)

ClientFetch(c, t) ==
    /\ client[c] = NoFetch
    /\ fetches < MaxFetches /\ fetches' = fetches + 1
    /\ Platform[t] = "gemini" /\ row[t].status # "none" /\ ~channelGone
    /\ \E a \in Answers(t) :
         client' = [client EXCEPT
                      ![c] = [task |-> t, seen |-> row[t].status, answer |-> a]]
    /\ Calm
    /\ UNCHANGED <<store, world, poller>>

\* The row takes the provider's status, final or not, and its progress, and
\* nothing is billed.
RealtimeUpdate(c) ==
    LET f == client[c] IN
    /\ f # NoFetch
    /\ \E done \in Complete(f.answer) : UpdateWithStatus(f.task, f.seen, f.answer, done)
    /\ client' = [client EXCEPT ![c] = NoFetch]
    /\ Calm
    /\ UNCHANGED <<paid, tokenPaid, world, poller, fetches>>

-----------------------------------------------------------------------------
\* The steps a process takes by itself.
Loop(p) ==
    \/ GetTimedOutUnfinishedTasks(p) \/ SweepTask(p)
    \/ GetAllUnFinishSyncTasks(p) \/ RoundEnds(p) \/ BulkFail(p)
    \/ UpdateVideoTask(p) \/ UpdateSunoTask(p) \/ SaveSunoTask(p)
    \/ AdjustFunding(p) \/ AdjustToken(p)

Poll(p) == Loop(p) \/ FetchTask(p)

Next ==
    \/ \E t \in Tasks : Submit(t) \/ UpstreamEnds(t) \/ Expire(t)
    \/ \E p \in Pollers : Poll(p) \/ Crash(p)
    \/ \E c \in Clients : RealtimeUpdate(c) \/ \E t \in Tasks : ClientFetch(c, t)
    \/ DeleteChannel \/ DeleteToken

Spec == Init /\ [][Next]_vars

\* TaskPollingLoop never ends and time passes; nothing is assumed about the
\* provider, whose answer a fetch without a time limit may await for ever.
Fairness ==
    /\ \A p \in Pollers : WF_vars(Loop(p))
    /\ \A t \in Tasks : WF_vars(Expire(t))

FairSpec == Spec /\ Fairness
-----------------------------------------------------------------------------
(* Properties. *)

Billing(t) == \E p \in Pollers : poller[p].task = t /\ poller[p].pc \in {"fund", "token"}

\* "no double refund" (TestCASGuardedRefund_Lose): whichever processes sweep
\* and poll a task, and whichever of their writes fail, its charge is given
\* back at most once.
NoDoubleRefund ==
    \A t \in Tasks : paid[t] >= 0 /\ tokenPaid[t] >= 0

\* A task whose row is final and whose billing is over has cost what its
\* outcome says, on its source and on its token: nothing after a failure, the
\* submitted or the actual quota after a success (RefundTaskQuota,
\* settleTaskBillingOnComplete), as long as no client's fetch has meddled.
FinalMeansBilled ==
    \A t \in Tasks \ Legacy :
        row[t].status \in Final /\ ~Billing(t) /\ disrupted = 0 /\ fetches = 0 =>
            /\ paid[t] = tokenPaid[t]
            /\ row[t].status = "FAILURE" => paid[t] = 0
            /\ row[t].status = "SUCCESS" => paid[t] \in {Quota} \cup (Actuals \ {0})

\* The charge on the source and the charge on the token never drift apart,
\* however often a task is billed (RefundTaskQuota, RecalculateTaskQuota).
BooksAgree ==
    \A t \in Tasks : ~Billing(t) /\ disrupted = 0 => paid[t] = tokenPaid[t]

\* "When an asynchronous task fails, the pre-charged quota is given back"
\* (RefundTaskQuota): a failed task, once nobody is billing it, has cost
\* nothing.
FailureRefunded ==
    \A t \in Tasks \ Legacy :
        row[t].status = "FAILURE" /\ ~Billing(t) => paid[t] = 0

\* A final status is never replaced (UpdateWithStatus against stale copies).
FinalStays ==
    [][\A t \in Tasks : row[t].status \in Final => row'[t] = row[t]]_vars

\* The contract's view: a task is held until its row is final and its source
\* has been adjusted.
ContractState(t) ==
    CASE row[t].status = "none" -> "none"
      [] /\ row[t].status \in Final
         /\ \A p \in Pollers : ~(poller[p].task = t /\ poller[p].pc = "fund")
           -> row[t].status
      [] OTHER -> "held"

Contract == INSTANCE TaskContract
              WITH state <- [t \in Tasks |-> ContractState(t)], cost <- paid

\* The polling processes together keep the contract of TaskContract: each
\* task is closed once, with the cost its outcome calls for.
ImplementsContract == Contract!Spec

\* The process's fetch is under way: RELAY_TIMEOUT is 0 by default, so the
\* client of FetchTask has no time limit (http_client.go, init.go).
Waiting(p) == poller[p].pc = "poll" /\ poller[p].todo # {} /\ ~channelGone

\* A provider's progress of 100% without a final status takes the row out of
\* the queries of the loop and of the sweep.
Stalled(t) == row[t].done /\ row[t].status \notin Final

\* As long as one process gets its fetches back, every inserted task reaches a
\* final status or is stalled, however long its provider takes, however many
\* tasks are ahead of it in the query, and though the other processes hang.
EventuallyFinal ==
    (\E p \in Pollers : []<>~Waiting(p)) =>
        \A t \in Tasks : row[t].status = "NOT_START" ~>
                            row[t].status \in Final \/ Stalled(t)
=============================================================================
