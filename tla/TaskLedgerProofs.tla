-------------------------- MODULE TaskLedgerProofs --------------------------
(***************************************************************************)
(* Proofs about what asynchronous tasks cost, on their funding source and  *)
(* on their token: for any tasks, of Suno too, when one master polls, and  *)
(* for any number of polling processes when all rows are written by        *)
(* compare-and-swap.                                                       *)
(***************************************************************************)
EXTENDS TaskPollingProofs

\* Only the master node runs TaskPollingLoop.
OneMaster == \A p, o \in Pollers : p = o

\* Several masters are safe only for rows that are compared and swapped.
Regular == OneMaster \/ ByCompareAndSwap

Untouched == disrupted = 0 /\ fetches = 0

\* Where a process is in its round, whatever has been disrupted.
Stands(q) ==
    /\ q.pc \in {"answered", "fund", "token", "save"} => q.task \in Tasks \ q.todo
    /\ q.pc \in {"poll", "answered", "save"} => q.phase = "poll"
    /\ q.pc \in {"answered", "save"} \/ (q.pc \in {"fund", "token"} /\ q.phase = "poll") =>
         q.answer \in {"IN_PROGRESS"} \cup Final

Placed == \A p \in Pollers : Stands(poller[p])

\* A deleted channel or token, and a fetch under way, have been counted.
Counted ==
    /\ channelGone \/ tokenGone => disrupted # 0
    /\ fetches = 0 => NoFetches

Settles(p, t) == poller[p].task = t /\ poller[p].pc = "token"

\* Source and token differ by what one process has yet to book on the token.
Even(t) ==
    /\ (\A p \in Pollers : ~Settles(p, t)) => paid[t] = tokenPaid[t]
    /\ \A p \in Pollers :
         Settles(p, t) => /\ paid[t] = tokenPaid[t] + poller[p].delta
                          /\ \A o \in Pollers : Settles(o, t) => o = p

\* p is billing the task, or has billed it and saves its row.
AtWork == {"fund", "token", "save"}
Works(p, t) == poller[p].task = t /\ poller[p].pc \in AtWork

\* What p is about to do fits the row: a closed task's refund or settlement, or
\* the refund of a Suno task that is closed afterwards.
Owes(p, t) ==
    LET q == poller[p] IN
    /\ upstream[t] # "idle"
    /\ \/ row[t].status = "FAILURE" /\ q.pc # "save" /\ q.delta = -Quota
       \/ row[t].status = "SUCCESS" /\ q.pc # "save" /\ Quota + q.delta \in Actuals \ {0}
       \/ /\ row[t].status \in Open /\ Platform[t] = "suno" /\ q.phase = "poll"
          /\ q.pc # "save" => q.answer = "FAILURE" /\ q.delta = -Quota
    /\ row[t].status \in Final => Platform[t] # "suno" \/ q.phase = "sweep"
    /\ q.pc = "fund" => paid[t] = Quota
    /\ q.pc = "token" => paid[t] = Quota + q.delta
    /\ q.pc = "save" => paid[t] = IF q.answer = "FAILURE" THEN 0 ELSE Quota

\* What a task has cost, and what is still owed.
Account(t) ==
    /\ upstream[t] = "idle" => row[t].status = "none" /\ paid[t] = 0
    /\ (\A p \in Pollers : ~Works(p, t)) =>
         /\ row[t].status \in Open => paid[t] = Quota
         /\ row[t].status = "FAILURE" /\ t \notin Legacy => paid[t] = 0
         /\ row[t].status = "SUCCESS" => paid[t] \in {Quota} \cup (Actuals \ {0})
    /\ \A p \in Pollers : Works(p, t) => Owes(p, t)

\* The only master finds the rows of its round as it read them: still open.
Finds(q) ==
    /\ \A t \in q.todo : row[t].status \in Open
    /\ q.pc = "answered" => row[q.task].status \in Open

Fresh == OneMaster => \A p \in Pollers : Finds(poller[p])

\* BooksAgree and FinalMeansBilled with what makes them inductive.
LInv ==
    /\ Placed /\ Counted
    /\ disrupted = 0 => \A t \in Tasks : Even(t)
    /\ Untouched => Fresh /\ \A t \in Tasks : Account(t)

-----------------------------------------------------------------------------
(* What one step of one process may leave behind. *)

\* The process that moves stands where it may.
LEMMA PlacedStep ==
    ASSUME TypeOK, Placed, NEW p \in Pollers, NEW r, Become(p, r), Stands(r)
    PROVE  Placed'
<1>1. \A o \in Pollers : Stands(poller'[o])
  BY Others DEF Placed
<1>2. QED
  BY <1>1 DEF Placed, Stands

\* Nothing is deleted and nobody fetches.
LEMMA CountedStep ==
    ASSUME TypeOK, Counted, UNCHANGED <<world, clients>>, Calm \/ \E k : Disrupt(k)
    PROVE  Counted' /\ (disrupted' = 0 => disrupted = 0 /\ ~channelGone /\ ~tokenGone)
                    /\ (Untouched' => Untouched)
BY DEF TypeOK, Counted, Calm, Disrupt, world, clients, NoFetches, Untouched

\* Nobody begins or ends to settle, and nothing is booked.
LEMMA EvenFrame ==
    ASSUME TypeOK, NEW p \in Pollers, NEW r, Become(p, r),
           poller[p].pc # "token", r.pc # "token", UNCHANGED <<paid, tokenPaid>>,
           \A t \in Tasks : Even(t)
    PROVE  \A t \in Tasks : Even(t)'
<1> SUFFICES ASSUME NEW t \in Tasks PROVE Even(t)'
  OBVIOUS
<1>1. \A o \in Pollers : /\ Settles(o, t)' <=> Settles(o, t)
                         /\ Settles(o, t) => poller'[o] = poller[o]
  BY Others DEF Settles
<1>2. QED
  BY <1>1 DEF Even

\* The only master finds its rows open.
LEMMA FreshStep ==
    ASSUME TypeOK, NEW p \in Pollers, NEW r, Become(p, r),
           OneMaster => /\ \A t \in r.todo : row'[t].status \in Open
                        /\ r.pc = "answered" => row'[r.task].status \in Open
    PROVE  Fresh'
<1>1. SUFFICES ASSUME OneMaster, NEW o \in Pollers PROVE Finds(poller[o])'
  BY DEF Fresh, OneMaster
<1>2. o = p /\ poller'[o] = r
  BY <1>1, Others DEF OneMaster
<1>3. QED
  BY <1>1, <1>2 DEF Finds

\* Nobody begins or ends to work, nothing is booked, and no row closes.
LEMMA AccountFrame ==
    ASSUME TypeOK, NEW p \in Pollers, NEW r, Become(p, r),
           poller[p].pc \notin AtWork, r.pc \notin AtWork, UNCHANGED <<paid, upstream>>,
           \A t \in Tasks : \/ row'[t].status = row[t].status
                            \/ row[t].status \in Open /\ row'[t].status \in Open,
           \A t \in Tasks : Account(t)
    PROVE  \A t \in Tasks : Account(t)'
<1> SUFFICES ASSUME NEW t \in Tasks PROVE Account(t)'
  OBVIOUS
<1>1. \A o \in Pollers : /\ Works(o, t)' <=> Works(o, t)
                         /\ Works(o, t) => poller'[o] = poller[o]
  BY Others DEF Works
<1>2. /\ row'[t].status \in Open <=> row[t].status \in Open
      /\ row[t].status \notin Open => row'[t].status = row[t].status
      /\ \A s \in Final \cup {"none"} : row'[t].status = s <=> row[t].status = s
      /\ row'[t].status \in Final <=> row[t].status \in Final
  BY DEF Open, Final
<1>3. \A o \in Pollers : Works(o, t) => Owes(o, t)'
  <2> SUFFICES ASSUME NEW o \in Pollers, Works(o, t) PROVE Owes(o, t)'
    OBVIOUS
  <2>1. Owes(o, t) /\ poller'[o] = poller[o]
    BY <1>1 DEF Account
  <2>2. QED
    BY <1>2, <2>1 DEF Owes, Open, Final
<1>4. QED
  BY <1>1, <1>2, <1>3 DEF Account, Final

\* One process works on one task, before or after: the other accounts stand.
LEMMA AccountOne ==
    ASSUME TypeOK, NEW p \in Pollers, NEW r, Become(p, r), NEW t \in Tasks,
           poller[p].pc \in AtWork => poller[p].task = t,
           \A o \in Pollers : Works(o, t) => o = p,
           UNCHANGED upstream, upstream[t] # "idle",
           \A u \in Tasks : u # t => row'[u] = row[u] /\ paid'[u] = paid[u],
           r.pc \in AtWork => r.task = t /\ Owes(p, t)',
           r.pc \notin AtWork =>
             /\ row'[t].status \in Open => paid'[t] = Quota
             /\ row'[t].status = "FAILURE" /\ t \notin Legacy => paid'[t] = 0
             /\ row'[t].status = "SUCCESS" => paid'[t] \in {Quota} \cup (Actuals \ {0}),
           \A u \in Tasks : Account(u)
    PROVE  \A u \in Tasks : Account(u)'
<1> SUFFICES ASSUME NEW u \in Tasks PROVE Account(u)'
  OBVIOUS
<1>0. poller'[p] = r /\ \A o \in Pollers : o # p => poller'[o] = poller[o]
  BY Others
<1>1. CASE u = t
  <2>1. \A o \in Pollers : Works(o, t)' => o = p
    BY <1>0 DEF Works
  <2>2. Works(p, t)' => Owes(p, t)'
    BY <1>0 DEF Works
  <2>3. (\A o \in Pollers : ~Works(o, t)') => r.pc \notin AtWork
    BY <1>0 DEF Works
  <2>4. QED
    BY <1>1, <2>1, <2>2, <2>3 DEF Account
<1>2. CASE u # t
  <2>1. \A o \in Pollers : /\ Works(o, u)' <=> Works(o, u)
                           /\ Works(o, u) => poller'[o] = poller[o]
    BY <1>0, <1>2 DEF Works
  <2>2. row'[u] = row[u] /\ paid'[u] = paid[u] /\ upstream'[u] = upstream[u] /\ Account(u)
    BY <1>2
  <2>3. \A o \in Pollers : Works(o, u) => Owes(o, u)'
    BY <2>1, <2>2 DEF Account, Owes
  <2>4. QED
    BY <2>1, <2>2, <2>3 DEF Account
<1>3. QED
  BY <1>1, <1>2

\* Nobody else works on a task that p has found open, or works on itself.
LEMMA SoleWorker ==
    ASSUME Regular, ByCompareAndSwap => IInv, TypeOK, NEW p \in Pollers, NEW t \in Tasks,
           Account(t), row[t].status \in Open \/ Works(p, t)
    PROVE  \A o \in Pollers : Works(o, t) => o = p
<1> SUFFICES ASSUME NEW o \in Pollers, Works(o, t) PROVE o = p
  OBVIOUS
<1>1. CASE OneMaster
  BY <1>1 DEF OneMaster
<1>2. CASE ByCompareAndSwap
  <2>1. Rounds /\ TaskBooks(t) /\ Platform[t] # "suno"
    BY <1>2 DEF IInv, Books, ByCompareAndSwap
  <2>2. Owes(o, t)
    BY DEF Account
  <2>3. CASE row[t].status \in Open
    BY <2>1, <2>2, <2>3 DEF Owes, Open
  <2>4. CASE Works(p, t)
    <3>1. Bills(o, t) /\ Bills(p, t)
      BY <2>1, <2>4 DEF Works, AtWork, Rounds, Bills
    <3>2. QED
      BY <2>1, <3>1 DEF TaskBooks
  <2>5. QED
    BY <2>3, <2>4
<1>3. QED
  BY <1>1, <1>2 DEF Regular

-----------------------------------------------------------------------------
(* The steps of a round. *)

\* A process that neither worked on a task nor goes on to.
LEMMA LedgerMove ==
    ASSUME TypeOK, LInv, NEW p \in Pollers, NEW r, Become(p, r), Stands(r),
           UNCHANGED <<store, world, clients, disrupted>>,
           poller[p].pc \notin AtWork, r.pc \notin AtWork,
           OneMaster /\ Untouched /\ Finds(poller[p]) => Finds(r)
    PROVE  LInv'
<1>1. Placed' /\ Counted'
  BY PlacedStep, CountedStep DEF LInv, Calm
<1>2. /\ UNCHANGED <<row, paid, tokenPaid, upstream, disrupted, fetches>>
      /\ poller[p].pc # "token" /\ r.pc # "token"
  BY DEF store, world, clients, AtWork
<1>3. disrupted' = 0 => \A t \in Tasks : Even(t)'
  BY <1>2, EvenFrame DEF LInv
<1>4. ASSUME Untouched' PROVE Fresh' /\ \A t \in Tasks : Account(t)'
  <2>1. Untouched /\ Fresh /\ \A t \in Tasks : Account(t)
    BY <1>2, <1>4 DEF LInv, Untouched
  <2>2. OneMaster => Finds(r)
    BY <2>1 DEF Fresh
  <2>3. Fresh'
    BY <1>2, <2>2, FreshStep DEF Finds
  <2>4. QED
    BY <1>2, <2>1, <2>3, AccountFrame
<1>5. QED
  BY <1>1, <1>3, <1>4 DEF LInv

\* What a query returns is open.
LEMMA QueryFinds ==
    ASSUME TypeOK, NEW q \in Poller, NEW S, S \subseteq Unfinished
    PROVE  /\ Load(q, S) \in Poller /\ Load(q, S).todo = S
           /\ \A t \in S : row[t].status \in Open
<1>1. S \in SUBSET Tasks
  BY DEF Unfinished
<1>2. Load(q, S) \in Poller
  BY <1>1, LoadType
<1>3. Load(q, S).todo = S
  BY <1>1 DEF Load, Poller
<1>4. \A t \in S : row[t].status \in Statuses /\ row[t].status \notin Final \cup {"none"}
  BY <1>1 DEF Unfinished, TypeOK, Row
<1>5. QED
  BY <1>2, <1>3, <1>4 DEF Open, Statuses, Final

\* The queries of a round, and its end.
LEMMA QueryLedger ==
    ASSUME TypeOK, LInv, NEW p \in Pollers,
           \/ GetTimedOutUnfinishedTasks(p) \/ GetAllUnFinishSyncTasks(p) \/ RoundEnds(p)
    PROVE  LInv'
<1> DEFINE q == poller[p]
<1>q. q \in Poller
  BY DEF TypeOK
<1>1. CASE GetTimedOutUnfinishedTasks(p)
  <2> DEFINE S == Oldest(TimedOut, SweepLimit)
             n == [Load(q, S) EXCEPT !.pc = "sweep"]
  <2>1. S \subseteq Unfinished
    BY DEF Oldest, TimedOut
  <2>2. n.pc = "sweep" /\ n.todo = S /\ \A t \in S : row[t].status \in Open
    BY <1>q, <2>1, QueryFinds DEF Poller
  <2>3. /\ q.pc = "sleep" /\ Become(p, n)
        /\ UNCHANGED <<store, world, clients, disrupted>>
    BY <1>1 DEF GetTimedOutUnfinishedTasks, Calm
  <2> HIDE DEF n, S
  <2>4. Stands(n) /\ Finds(n) /\ q.pc \notin AtWork /\ n.pc \notin AtWork
    BY <2>2, <2>3 DEF Stands, Finds, AtWork
  <2>5. QED
    BY <2>3, <2>4, LedgerMove
<1>2. CASE GetAllUnFinishSyncTasks(p)
  <2> DEFINE S == Oldest(Unfinished, QueryLimit)
             n == [Load(q, S) EXCEPT !.pc = "poll", !.phase = "poll"]
  <2>1. S \subseteq Unfinished
    BY DEF Oldest
  <2>2. /\ n.pc = "poll" /\ n.phase = "poll" /\ n.todo = S
        /\ \A t \in S : row[t].status \in Open
    BY <1>q, <2>1, QueryFinds DEF Poller
  <2>3. /\ q.pc = "sweep" /\ Become(p, n)
        /\ UNCHANGED <<store, world, clients, disrupted>>
    BY <1>2 DEF GetAllUnFinishSyncTasks, Calm
  <2> HIDE DEF n, S
  <2>4. Stands(n) /\ Finds(n) /\ q.pc \notin AtWork /\ n.pc \notin AtWork
    BY <2>2, <2>3 DEF Stands, Finds, AtWork
  <2>5. QED
    BY <2>3, <2>4, LedgerMove
<1>3. CASE RoundEnds(p)
  <2>1. /\ q.pc = "poll" /\ Become(p, Idle)
        /\ UNCHANGED <<store, world, clients, disrupted>>
    BY <1>3 DEF RoundEnds, Calm
  <2>2. Stands(Idle) /\ Finds(Idle) /\ q.pc \notin AtWork /\ Idle.pc \notin AtWork
    BY <2>1 DEF Stands, Finds, AtWork, Idle
  <2>3. QED
    BY <2>1, <2>2, LedgerMove
<1>4. QED
  BY <1>1, <1>2, <1>3

\* The provider is asked.
LEMMA FetchLedger ==
    ASSUME TypeOK, LInv, NEW p \in Pollers, FetchTask(p)
    PROVE  LInv'
<1> DEFINE q == poller[p]
<1>q. q \in Poller /\ Stands(q)
  BY DEF TypeOK, LInv, Placed
<1>1. PICK t \in q.todo :
        LET q0 == [q EXCEPT !.todo = @ \ {t}]
            errors == IF Platform[t] = "suno" THEN {} ELSE {"FAILURE"}
        IN  /\ q0.pc = "poll"
            /\ \/ \E a \in Answers(t) \cup errors :
                    Become(p, [q0 EXCEPT !.pc = "answered", !.task = t, !.answer = a])
               \/ Become(p, q0)
            /\ Calm
            /\ UNCHANGED <<store, world, clients>>
  BY Zenon DEF FetchTask
<1> DEFINE q0 == [q EXCEPT !.todo = @ \ {t}]
           n(a) == [q0 EXCEPT !.pc = "answered", !.task = t, !.answer = a]
<1>2. /\ q0 \in Poller /\ t \in Tasks /\ q0.todo = q.todo \ {t}
      /\ q0.pc = q.pc /\ q.pc = "poll" /\ q0.phase = "poll"
  BY <1>1, <1>q DEF Poller, Stands
<1>3. PICK a \in {"IN_PROGRESS"} \cup Final : Become(p, n(a)) \/ Become(p, q0)
  BY <1>1, <1>2, AnswersType DEF Final
<1>4. /\ n(a).pc = "answered" /\ n(a).task = t /\ n(a).answer = a /\ n(a).phase = "poll"
      /\ n(a).todo = q.todo \ {t}
  BY <1>2 DEF Poller
<1>5. UNCHANGED <<store, world, clients, disrupted>>
  BY <1>1 DEF Calm
<1> HIDE DEF q0, n
<1>6. Stands(q0) /\ Stands(n(a))
  BY <1>2, <1>3, <1>4 DEF Stands
<1>7. Finds(q) => Finds(q0) /\ Finds(n(a))
  BY <1>2, <1>4 DEF Finds
<1>8. q.pc \notin AtWork /\ q0.pc \notin AtWork /\ n(a).pc \notin AtWork
  BY <1>2, <1>4 DEF AtWork
<1>9. CASE Become(p, q0)
  BY <1>5, <1>6, <1>7, <1>8, <1>9, LedgerMove
<1>10. CASE Become(p, n(a))
  BY <1>5, <1>6, <1>7, <1>8, <1>10, LedgerMove
<1>11. QED
  BY <1>3, <1>9, <1>10

\* A channel that cannot be found has been deleted.
LEMMA BulkLedger ==
    ASSUME TypeOK, LInv, NEW p \in Pollers, BulkFail(p)
    PROVE  LInv'
<1> DEFINE q == poller[p]
           n == [q EXCEPT !.todo = {}]
<1>q. q \in Poller /\ Stands(q)
  BY DEF TypeOK, LInv, Placed
<1>1. n.pc = q.pc /\ q.pc = "poll" /\ n.phase = q.phase
  BY <1>q DEF BulkFail, Poller
<1>2. Become(p, n) /\ channelGone /\ UNCHANGED <<world, clients>>
  BY DEF BulkFail
<1>3. Calm \/ \E k : Disrupt(k)
  BY DEF BulkFail
<1> HIDE DEF n
<1>4. Stands(n)
  BY <1>q, <1>1 DEF Stands
<1>5. Placed' /\ Counted' /\ disrupted' # 0
  BY <1>2, <1>3, <1>4, PlacedStep, CountedStep DEF LInv
<1>6. QED
  BY <1>5 DEF LInv, Untouched

\* What is won was found open.
LEMMA WonOpen ==
    ASSUME Regular, ByCompareAndSwap => IInv, TypeOK, LInv, Untouched,
           NEW p \in Pollers, NEW t \in Tasks,
           t \in poller[p].todo \/ (poller[p].pc = "answered" /\ poller[p].task = t),
           Won(t, poller[p].seen[t])
    PROVE  row[t].status \in Open
<1>1. CASE OneMaster
  BY <1>1 DEF LInv, Fresh, Finds
<1>2. CASE ByCompareAndSwap
  BY <1>2 DEF IInv, Rounds, Won
<1>3. QED
  BY <1>1, <1>2 DEF Regular

\* An open task that p does not work on has its charge in place, and no worker.
LEMMA OpenAccount ==
    ASSUME Regular, ByCompareAndSwap => IInv, TypeOK, LInv, Untouched,
           NEW p \in Pollers, NEW t \in Tasks, poller[p].pc \notin AtWork,
           row[t].status \in Open
    PROVE  /\ upstream[t] # "idle" /\ paid[t] = Quota
           /\ \A o \in Pollers : ~Works(o, t)
<1>1. Account(t)
  BY DEF LInv
<1>2. \A o \in Pollers : ~Works(o, t)
  BY <1>1, SoleWorker DEF Works
<1>3. QED
  BY <1>1, <1>2 DEF Account, Open

\* A round's update of a row it read: lost, won and to be billed, or won and even.
LEMMA SwapLedger ==
    ASSUME Regular, ByCompareAndSwap => IInv, TypeOK, LInv, Untouched,
           NEW p \in Pollers, NEW t \in Tasks, NEW r, Become(p, r),
           t \in poller[p].todo \/ (poller[p].pc = "answered" /\ poller[p].task = t),
           poller[p].pc \notin AtWork,
           NEW s \in {"IN_PROGRESS"} \cup Final, NEW d,
           UpdateWithStatus(t, poller[p].seen[t], s, d),
           UNCHANGED <<paid, upstream>>,
           t \notin r.todo, r.todo \subseteq poller[p].todo, r.pc # "answered",
           Platform[t] # "suno" \/ r.phase = "sweep",
           r.pc \in AtWork =>
             /\ Won(t, poller[p].seen[t]) /\ r.task = t /\ r.pc = "fund"
             /\ \/ s = "FAILURE" /\ r.delta = -Quota
                \/ s = "SUCCESS" /\ Quota + r.delta \in Actuals \ {0},
           r.pc \notin AtWork /\ Won(t, poller[p].seen[t]) /\ s = "FAILURE" =>
             Quota = 0 \/ t \in Legacy
    PROVE  Fresh' /\ \A u \in Tasks : Account(u)'
<1> DEFINE q == poller[p]
           seen == q.seen[t]
<1>l. Fresh /\ (\A u \in Tasks : Account(u)) /\ q \in Poller
  BY DEF LInv, TypeOK
<1>s. row[t].status = seen => row'[t].status = s
  BY DEF UpdateWithStatus, SetRow, TypeOK
<1>u. /\ \A u \in Tasks : u # t => row'[u] = row[u]
      /\ ~Won(t, seen) => row' = row
  BY DEF UpdateWithStatus, SetRow, TypeOK, Won
<1>1. Fresh'
  <2>1. OneMaster => \A u \in r.todo : row'[u].status \in Open
    BY <1>l, <1>u DEF Fresh, Finds, Poller
  <2>2. QED
    BY <2>1, FreshStep
<1>2. CASE ~Won(t, seen)
  BY <1>l, <1>u, <1>1, <1>2, AccountFrame
<1>3. CASE Won(t, seen)
  <2>1. row[t].status \in Open /\ row'[t].status = s
    BY <1>3, <1>s, WonOpen DEF Won
  <2>2. upstream[t] # "idle" /\ paid[t] = Quota /\ \A o \in Pollers : ~Works(o, t)
    BY <2>1, OpenAccount
  <2>3. r.pc \in AtWork => r.task = t /\ Owes(p, t)'
    <3> SUFFICES ASSUME r.pc \in AtWork PROVE Owes(p, t)'
      OBVIOUS
    <3>1. poller'[p] = r /\ r.pc = "fund"
      BY Others
    <3>2. s \in Final => s \notin Open
      BY DEF Final, Open
    <3>3. QED
      BY <2>1, <2>2, <3>1, <3>2 DEF Owes, Final
  <2>4. r.pc \notin AtWork =>
          /\ row'[t].status \in Open => paid'[t] = Quota
          /\ row'[t].status = "FAILURE" /\ t \notin Legacy => paid'[t] = 0
          /\ row'[t].status = "SUCCESS" => paid'[t] \in {Quota} \cup (Actuals \ {0})
    BY <1>3, <2>1, <2>2
  <2>5. \A u \in Tasks : u # t => row'[u] = row[u] /\ paid'[u] = paid[u]
    BY <1>u
  <2>6. \A u \in Tasks : Account(u)'
    BY <1>l, <2>2, <2>3, <2>4, <2>5, AccountOne
  <2>7. QED
    BY <1>1, <2>6
<1>4. QED
  BY <1>2, <1>3

\* A timed-out task is failed and given back.
LEMMA SweepLedger ==
    ASSUME Regular, ByCompareAndSwap => IInv, TypeOK, LInv, NEW p \in Pollers, SweepTask(p)
    PROVE  LInv'
<1> DEFINE q == poller[p]
<1>q. q \in Poller
  BY DEF TypeOK
<1>1. PICK t \in q.todo :
        LET q0 == [q EXCEPT !.todo = @ \ {t}, !.phase = "sweep"]
            seen == q0.seen[t]
        IN  /\ q0.pc = "sweep"
            /\ \/ /\ UpdateWithStatus(t, seen, "FAILURE", TRUE)
                  /\ Become(p, IF Won(t, seen) /\ t \notin Legacy /\ Quota # 0
                               THEN Bill(q0, t, -Quota) ELSE q0)
                  /\ Calm
               \/ Become(p, q0) /\ UNCHANGED row /\ Disrupt("store")
               \/ /\ Become(p, q0)
                  /\ UpdateWithStatus(t, seen, "FAILURE", TRUE)
                  /\ Disrupt("ack")
            /\ UNCHANGED <<paid, tokenPaid, world, clients>>
  BY Zenon DEF SweepTask
<1> DEFINE q0 == [q EXCEPT !.todo = @ \ {t}, !.phase = "sweep"]
           b == Bill(q0, t, -Quota)
           seen == q.seen[t]
<1>2. q0 \in Poller /\ t \in Tasks
  BY <1>q DEF Poller
<1>3. /\ q0.todo = q.todo \ {t} /\ q0.seen = q.seen /\ q0.pc = "sweep" /\ q.pc = "sweep"
      /\ q0.phase = "sweep"
  BY <1>1, <1>q DEF Poller
<1>4. /\ b.todo = q0.todo /\ b.pc = "fund" /\ b.task = t /\ b.delta = -Quota
      /\ b.phase = "sweep"
  BY <1>2, <1>3 DEF Bill, Poller
<1>5. /\ UNCHANGED <<paid, tokenPaid, upstream>> /\ UNCHANGED <<world, clients>>
      /\ Calm \/ \E k : Disrupt(k)
  BY <1>1, Zenon DEF world
<1>6. PICK r \in {q0, b} : Become(p, r)
  BY <1>1, Zenon
<1>7. Calm => /\ UpdateWithStatus(t, seen, "FAILURE", TRUE)
              /\ Become(p, IF Won(t, seen) /\ t \notin Legacy /\ Quota # 0 THEN b ELSE q0)
  <2>1. Calm => ~Disrupt("store") /\ ~Disrupt("ack")
    BY DEF Calm, Disrupt, TypeOK
  <2>2. q0.seen[t] = seen
    BY <1>3
  <2>3. QED
    BY <1>1, <2>1, <2>2, Zenon
<1>8. Calm => r = IF Won(t, seen) /\ t \notin Legacy /\ Quota # 0 THEN b ELSE q0
  BY <1>6, <1>7, Others
<1> HIDE DEF q0, b
<1>9. Stands(r) /\ r.pc # "token" /\ q.pc # "token"
  BY <1>2, <1>3, <1>4, <1>6 DEF Stands
<1>10. Placed' /\ Counted'
  BY <1>5, <1>6, <1>9, PlacedStep, CountedStep DEF LInv
<1>11. disrupted' = 0 => disrupted = 0 /\ \A u \in Tasks : Even(u)'
  BY <1>5, <1>6, <1>9, CountedStep, EvenFrame DEF LInv
<1>12. ASSUME Untouched' PROVE Fresh' /\ \A u \in Tasks : Account(u)'
  <2>1. Untouched
    BY <1>5, <1>12, CountedStep DEF LInv
  <2>2. Calm
    BY <1>12, <2>1 DEF Untouched, Calm
  <2>3. "FAILURE" \in {"IN_PROGRESS"} \cup Final
    BY DEF Final
  <2>4. q.pc \notin AtWork /\ q0.pc \notin AtWork /\ b.pc \in AtWork
    BY <1>3, <1>4 DEF AtWork
  <2>5. /\ t \notin r.todo /\ r.todo \subseteq q.todo /\ r.pc # "answered"
        /\ r.phase = "sweep"
    BY <1>3, <1>4, <1>6
  <2>6. r.pc \in AtWork => /\ Won(t, seen) /\ r.task = t /\ r.pc = "fund"
                           /\ r.delta = -Quota
    BY <1>4, <1>8, <2>2, <2>4
  <2>7. r.pc \notin AtWork /\ Won(t, seen) => Quota = 0 \/ t \in Legacy
    BY <1>8, <2>2, <2>4
  <2>8. QED
    BY <1>2, <1>5, <1>6, <1>7, <2>1, <2>2, <2>3, <2>4, <2>5, <2>6, <2>7, SwapLedger
<1>13. QED
  BY <1>10, <1>11, <1>12 DEF LInv

\* A process that is done with its task.
LEMMA ResumeStands ==
    ASSUME NEW q \in Poller
    PROVE  /\ Resume(q).pc = q.phase /\ Resume(q).pc \in {"sweep", "poll"}
           /\ Resume(q).todo = q.todo /\ Resume(q).phase = q.phase
           /\ Stands(Resume(q))
<1>1. /\ Resume(q).pc = q.phase /\ Resume(q).todo = q.todo /\ Resume(q).phase = q.phase
      /\ q.phase \in {"sweep", "poll"}
  BY DEF Resume, Poller
<1>2. QED
  BY <1>1 DEF Stands

\* The provider's answer is written, and the winner bills what it calls for.
LEMMA VideoLedger ==
    ASSUME Regular, ByCompareAndSwap => IInv, TypeOK, LInv, NEW p \in Pollers, UpdateVideoTask(p)
    PROVE  LInv'
<1> DEFINE q == poller[p]
           t == q.task
           seen == q.seen[t]
<1>q. q \in Poller /\ Stands(q)
  BY DEF TypeOK, LInv, Placed
<1>1. /\ q.pc = "answered" /\ t \in Tasks \ q.todo /\ Platform[t] # "suno"
      /\ q.answer \in {"IN_PROGRESS"} \cup Final /\ q.phase = "poll"
  BY <1>q DEF UpdateVideoTask, Stands
<1>2. PICK d \in Owed(q.answer) \cup {0}, done \in Complete(q.answer) :
        \/ /\ UpdateWithStatus(t, seen, q.answer, done)
           /\ d \in Owed(q.answer)
           /\ Become(p, IF Won(t, seen) /\ d # 0 THEN Bill(q, t, d) ELSE Resume(q))
           /\ Calm
        \/ Become(p, Resume(q)) /\ \E k : Disrupt(k)
  BY Zenon DEF UpdateVideoTask
<1> DEFINE b == Bill(q, t, d)
<1>3. /\ b.todo = q.todo /\ b.pc = "fund" /\ b.task = t /\ b.delta = d /\ b.phase = "poll"
      /\ b.answer = q.answer
  BY <1>q, <1>1 DEF Bill, Poller
<1>4. /\ Resume(q).pc = "poll" /\ Resume(q).todo = q.todo /\ Stands(Resume(q))
  BY <1>q, <1>1, ResumeStands
<1>5. /\ UNCHANGED <<paid, tokenPaid, upstream>> /\ UNCHANGED <<world, clients>>
      /\ Calm \/ \E k : Disrupt(k)
  BY <1>2 DEF UpdateVideoTask, world
<1>6. PICK r \in {Resume(q), b} : Become(p, r)
  BY <1>2, Zenon
<1>7. Calm => /\ UpdateWithStatus(t, seen, q.answer, done) /\ d \in Owed(q.answer)
              /\ r = IF Won(t, seen) /\ d # 0 THEN b ELSE Resume(q)
  <2>1. Calm => ~\E k : Disrupt(k)
    BY DEF Calm, Disrupt, TypeOK
  <2>2. r = poller'[p] /\ \A n : Become(p, n) => poller'[p] = n
    BY <1>6, Others
  <2>3. QED
    BY <1>2, <2>1, <2>2, Zenon
<1> HIDE DEF b
<1>8. Stands(r) /\ r.pc # "token" /\ q.pc # "token"
  BY <1>1, <1>3, <1>4, <1>6 DEF Stands
<1>9. Placed' /\ Counted'
  BY <1>5, <1>6, <1>8, PlacedStep, CountedStep DEF LInv
<1>10. disrupted' = 0 => disrupted = 0 /\ \A u \in Tasks : Even(u)'
  BY <1>5, <1>6, <1>8, CountedStep, EvenFrame DEF LInv
<1>11. ASSUME Untouched' PROVE Fresh' /\ \A u \in Tasks : Account(u)'
  <2>1. Untouched
    BY <1>5, <1>11, CountedStep DEF LInv
  <2>2. Calm
    BY <1>11, <2>1 DEF Untouched, Calm
  <2>3. \/ q.answer = "FAILURE" /\ d = -Quota
        \/ q.answer = "SUCCESS" /\ (d = 0 \/ Quota + d \in Actuals \ {0})
        \/ q.answer = "IN_PROGRESS" /\ d = 0
    BY <1>1, <1>7, <2>2, TaskAssumption DEF Owed, Settlement, Final
  <2>4. q.pc \notin AtWork /\ Resume(q).pc \notin AtWork /\ b.pc \in AtWork
    BY <1>1, <1>3, <1>4 DEF AtWork
  <2>5. r.todo = q.todo /\ r.pc # "answered"
    BY <1>3, <1>4, <1>6
  <2>6. r.pc \in AtWork => /\ Won(t, seen) /\ r.task = t /\ r.pc = "fund"
                           /\ \/ q.answer = "FAILURE" /\ r.delta = -Quota
                              \/ q.answer = "SUCCESS" /\ Quota + r.delta \in Actuals \ {0}
    BY <1>3, <1>7, <2>2, <2>3, <2>4
  <2>7. r.pc \notin AtWork /\ Won(t, seen) /\ q.answer = "FAILURE" => Quota = 0
    <3>1. r.pc \notin AtWork /\ Won(t, seen) => d = 0
      BY <1>7, <2>2, <2>4
    <3>2. QED
      BY <2>3, <3>1, TaskAssumption
  <2>8. QED
    BY <1>1, <1>5, <1>6, <1>7, <2>1, <2>2, <2>4, <2>5, <2>6, <2>7, SwapLedger
<1>12. QED
  BY <1>9, <1>10, <1>11 DEF LInv

\* A Suno task is given back, or saved, or left.
LEMMA SunoLedger ==
    ASSUME Regular, ByCompareAndSwap => IInv, TypeOK, LInv, NEW p \in Pollers, UpdateSunoTask(p)
    PROVE  LInv'
<1> DEFINE q == poller[p]
<1>q. q \in Poller /\ Stands(q)
  BY DEF TypeOK, LInv, Placed
<1>1. PICK t \in Tasks : /\ t = q.task /\ t \notin q.todo /\ q.pc = "answered"
                        /\ Platform[t] = "suno" /\ q.phase = "poll"
                        /\ q.answer \in {"IN_PROGRESS"} \cup Final
  BY <1>q DEF UpdateSunoTask, Stands
<1> DEFINE b == Bill(q, t, -Quota)
           s == [q EXCEPT !.pc = "save"]
<1>2. OneMaster
  BY <1>1 DEF Regular, ByCompareAndSwap
<1>3. PICK r : /\ Become(p, r)
               /\ \/ r = b /\ q.answer = "FAILURE"
                  \/ r = s /\ (q.answer # "FAILURE" \/ Quota = 0)
                  \/ r = Resume(q)
  BY <1>1, Zenon DEF UpdateSunoTask
<1>4. /\ b.todo = q.todo /\ b.pc = "fund" /\ b.task = t /\ b.delta = -Quota /\ b.phase = "poll"
      /\ b.answer = q.answer
      /\ s.todo = q.todo /\ s.pc = "save" /\ s.task = t /\ s.phase = "poll" /\ s.answer = q.answer
      /\ Resume(q).pc = "poll" /\ Resume(q).todo = q.todo /\ Stands(Resume(q))
  BY <1>q, <1>1, ResumeStands DEF Bill, Poller
<1>5. UNCHANGED <<row, paid, tokenPaid, upstream, disrupted, fetches>> /\ UNCHANGED <<world, clients>>
  BY DEF UpdateSunoTask, store, world, clients, Calm
<1> HIDE DEF b, s
<1>6. Stands(r) /\ r.pc # "token" /\ q.pc # "token"
  BY <1>1, <1>3, <1>4 DEF Stands
<1>7. Placed' /\ Counted'
  BY <1>3, <1>5, <1>6, PlacedStep, CountedStep DEF LInv, Calm
<1>8. disrupted' = 0 => \A u \in Tasks : Even(u)'
  BY <1>3, <1>5, <1>6, EvenFrame DEF LInv
<1>9. ASSUME Untouched' PROVE Fresh' /\ \A u \in Tasks : Account(u)'
  <2>1. Untouched /\ Finds(q) /\ \A u \in Tasks : Account(u)
    BY <1>2, <1>5, <1>9 DEF Untouched, LInv, Fresh
  <2>2. r.todo = q.todo /\ r.pc # "answered"
    BY <1>3, <1>4
  <2>3. Fresh'
    BY <1>3, <1>5, <2>1, <2>2, FreshStep DEF Finds
  <2>4. /\ q.pc \notin AtWork /\ b.pc \in AtWork /\ s.pc \in AtWork
        /\ Resume(q).pc \notin AtWork
    BY <1>1, <1>4 DEF AtWork
  <2>5. CASE r = Resume(q)
    BY <1>3, <1>5, <2>1, <2>3, <2>4, <2>5, AccountFrame
  <2>6. CASE r # Resume(q)
    <3>1. row[t].status \in Open
      BY <1>1, <2>1 DEF Finds
    <3>2. upstream[t] # "idle" /\ paid[t] = Quota /\ \A o \in Pollers : ~Works(o, t)
      BY <1>1, <2>1, <2>4, <3>1, OpenAccount
    <3>3. r.task = t /\ r.pc \in AtWork
      BY <1>3, <1>4, <2>4, <2>6
    <3>4. row[t].status \notin Final
      BY <3>1 DEF Open, Final
    <3>5. poller'[p] = r
      BY <1>3, Others
    <3>6. Owes(p, t)'
      <4>1. CASE r = b /\ q.answer = "FAILURE"
        BY <1>1, <1>3, <1>4, <1>5, <3>1, <3>2, <3>4, <3>5, <4>1 DEF Owes
      <4>2. CASE r = s /\ (q.answer # "FAILURE" \/ Quota = 0)
        BY <1>1, <1>3, <1>4, <1>5, <3>1, <3>2, <3>4, <3>5, <4>2 DEF Owes
      <4>3. QED
        BY <1>3, <2>6, <4>1, <4>2
    <3>7. \A u \in Tasks : u # t => row'[u] = row[u] /\ paid'[u] = paid[u]
      BY <1>5
    <3>8. QED
      BY <1>1, <1>3, <1>5, <2>1, <2>3, <2>4, <3>2, <3>3, <3>6, <3>7, AccountOne
  <2>7. QED
    BY <1>3, <2>5, <2>6
<1>10. QED
  BY <1>7, <1>8, <1>9 DEF LInv

\* The row of a Suno task is saved, whatever it has become.
LEMMA SaveLedger ==
    ASSUME Regular, ByCompareAndSwap => IInv, TypeOK, LInv, NEW p \in Pollers, SaveSunoTask(p)
    PROVE  LInv'
<1> DEFINE q == poller[p]
           t == q.task
           r == Resume(q)
<1>q. q \in Poller /\ Stands(q)
  BY DEF TypeOK, LInv, Placed
<1>1. /\ q.pc = "save" /\ t \in Tasks \ q.todo /\ q.phase = "poll"
      /\ q.answer \in {"IN_PROGRESS"} \cup Final
  BY <1>q DEF SaveSunoTask, Stands
<1>2. OneMaster
  BY <1>1 DEF Regular, IInv, Rounds
<1>3. r.pc = "poll" /\ r.todo = q.todo /\ Stands(r)
  BY <1>q, <1>1, ResumeStands
<1>4. /\ Become(p, r) /\ UNCHANGED <<paid, tokenPaid, upstream, fetches>>
      /\ UNCHANGED <<world, clients>>
      /\ \/ SetRow(t, q.answer, q.answer \in Final) /\ Calm
         \/ \E k : Disrupt(k)
  BY DEF SaveSunoTask, world, clients
<1> HIDE DEF r
<1>5. Placed' /\ Counted'
  BY <1>3, <1>4, PlacedStep, CountedStep DEF LInv
<1>6. disrupted' = 0 => \A u \in Tasks : Even(u)'
  BY <1>1, <1>3, <1>4, CountedStep, EvenFrame DEF LInv
<1>7. ASSUME Untouched' PROVE Fresh' /\ \A u \in Tasks : Account(u)'
  <2>1. Untouched /\ Finds(q) /\ \A u \in Tasks : Account(u)
    BY <1>2, <1>4, <1>7, CountedStep DEF LInv, Fresh
  <2>2. SetRow(t, q.answer, q.answer \in Final)
    BY <1>4, <1>7, <2>1 DEF Untouched, Disrupt
  <2>3. row'[t].status = q.answer /\ \A u \in Tasks : u # t => row'[u] = row[u]
    BY <1>1, <2>2 DEF SetRow, TypeOK
  <2>4. Fresh'
    <3>1. \A u \in r.todo : row'[u].status \in Open
      BY <1>q, <1>1, <1>3, <2>1, <2>3 DEF Finds, Poller
    <3>2. QED
      BY <1>3, <1>4, <3>1, FreshStep
  <2>5. Works(p, t) /\ Owes(p, t) /\ \A o \in Pollers : Works(o, t) => o = p
    BY <1>1, <1>2, <2>1 DEF Works, AtWork, Account, OneMaster
  <2>6. upstream[t] # "idle" /\ paid[t] = IF q.answer = "FAILURE" THEN 0 ELSE Quota
    BY <1>1, <2>5 DEF Owes
  <2>7. /\ row'[t].status \in Open => paid'[t] = Quota
        /\ row'[t].status = "FAILURE" => paid'[t] = 0
        /\ row'[t].status = "SUCCESS" => paid'[t] \in {Quota} \cup (Actuals \ {0})
    BY <1>4, <2>3, <2>6 DEF Open
  <2>8. r.pc \notin AtWork /\ \A u \in Tasks : u # t => paid'[u] = paid[u]
    BY <1>3, <1>4 DEF AtWork
  <2>9. QED
    BY <1>1, <1>4, <2>1, <2>3, <2>4, <2>5, <2>6, <2>7, <2>8, AccountOne
<1>8. QED
  BY <1>5, <1>6, <1>7 DEF LInv

\* Nobody else bills what p bills.
LEMMA SoleBiller ==
    ASSUME Regular, ByCompareAndSwap => IInv, NEW p \in Pollers, NEW t \in Tasks, Bills(p, t)
    PROVE  \A o \in Pollers : Bills(o, t) => o = p
BY DEF Regular, OneMaster, IInv, Books, TaskBooks

\* After the billing: a Suno task of a poll is saved, any other is done with.
LEMMA BilledStands ==
    ASSUME NEW q \in Poller, Stands(q), q.pc \in {"fund", "token"}
    PROVE  /\ Billed(q).todo = q.todo /\ Stands(Billed(q))
           /\ Billed(q).pc \notin {"fund", "token", "answered"}
           /\ IF q.phase = "poll" /\ Platform[q.task] = "suno"
              THEN /\ Billed(q).pc = "save" /\ Billed(q).task = q.task
                   /\ Billed(q).answer = q.answer /\ Billed(q).phase = "poll"
              ELSE Billed(q).pc \notin AtWork
<1>1. CASE q.phase = "poll" /\ Platform[q.task] = "suno"
  <2> DEFINE s == [q EXCEPT !.pc = "save", !.delta = 0]
  <2>1. Billed(q) = s
    BY <1>1 DEF Billed
  <2>2. /\ s.pc = "save" /\ s.task = q.task /\ s.answer = q.answer /\ s.phase = "poll"
        /\ s.todo = q.todo
    BY <1>1 DEF Poller
  <2> HIDE DEF s
  <2>3. Stands(s)
    BY <1>1, <2>2 DEF Stands
  <2>4. QED
    BY <1>1, <2>1, <2>2, <2>3
<1>2. CASE ~(q.phase = "poll" /\ Platform[q.task] = "suno")
  <2>1. Billed(q) = Resume(q)
    BY <1>2 DEF Billed
  <2>2. QED
    BY <1>2, <2>1, ResumeStands DEF AtWork
<1>3. QED
  BY <1>1, <1>2

\* The source is adjusted, or refuses.
LEMMA FundLedger ==
    ASSUME Regular, ByCompareAndSwap => IInv, TypeOK, LInv, NEW p \in Pollers, AdjustFunding(p)
    PROVE  LInv'
<1> DEFINE q == poller[p]
           f == Funded(q)
<1>q. q \in Poller /\ Stands(q) /\ q.delta \in Int
  BY DEF TypeOK, LInv, Placed, Poller
<1>1. PICK t \in Tasks : t = q.task /\ t \notin q.todo /\ q.pc = "fund"
  BY <1>q DEF AdjustFunding, Stands
<1>2. PICK r \in {f, Billed(q)} :
        /\ Become(p, r)
        /\ Calm => \/ r = f /\ Book(t, q.delta)
                   \/ r = Billed(q) /\ q.delta > 0 /\ UNCHANGED paid
  <2>1. Calm => ~Disrupt("store") /\ ~Disrupt("ack")
    BY DEF Calm, Disrupt, TypeOK
  <2>2. QED
    BY <1>1, <2>1, Zenon DEF AdjustFunding
<1>3. /\ f.pc = "token" /\ f.task = t /\ f.delta = q.delta /\ f.todo = q.todo
      /\ f.phase = q.phase /\ f.answer = q.answer
  BY <1>q, <1>1 DEF Funded, Poller
<1>4. /\ UNCHANGED <<row, tokenPaid, upstream, fetches>> /\ UNCHANGED <<world, clients>>
      /\ Calm \/ \E k : Disrupt(k)
  BY DEF AdjustFunding, world, clients
<1> HIDE DEF f
<1>5. Stands(f) /\ Stands(Billed(q)) /\ Billed(q).todo = q.todo
  BY <1>q, <1>1, <1>3, BilledStands DEF Stands
<1>6. Placed' /\ Counted'
  BY <1>2, <1>4, <1>5, PlacedStep, CountedStep DEF LInv
<1>7. disrupted' = 0 => Calm /\ disrupted = 0 /\ \A u \in Tasks : Even(u)
  BY <1>4, CountedStep DEF LInv, Calm
<1>8. ASSUME disrupted' = 0 PROVE \A u \in Tasks : Even(u)'
  <2>1. CASE r = Billed(q) /\ q.delta > 0 /\ UNCHANGED paid
    <3>1. r.pc # "token" /\ q.pc # "token"
      BY <1>q, <1>1, <2>1, BilledStands
    <3>2. QED
      BY <1>2, <1>4, <1>7, <1>8, <2>1, <3>1, EvenFrame
  <2>2. CASE r = f /\ Book(t, q.delta)
    <3>1. \A o \in Pollers : Bills(o, t) => o = p
      BY <1>1, SoleBiller DEF Bills
    <3>2. ASSUME NEW u \in Tasks, u # t PROVE Even(u)'
      <4>1. \A o \in Pollers : /\ Settles(o, u)' <=> Settles(o, u)
                               /\ Settles(o, u) => poller'[o] = poller[o]
        BY <1>1, <1>2, <1>3, <2>2, <3>2, Others DEF Settles
      <4>2. paid'[u] = paid[u] /\ tokenPaid'[u] = tokenPaid[u]
        BY <1>4, <2>2, <3>2 DEF Book, TypeOK
      <4>3. QED
        BY <1>7, <1>8, <4>1, <4>2 DEF Even
    <3>3. Even(t)'
      <4>1. \A o \in Pollers : ~Settles(o, t)
        BY <1>1, <3>1 DEF Settles, Bills
      <4>2. paid[t] = tokenPaid[t] /\ paid'[t] = paid[t] + q.delta
        BY <1>7, <1>8, <2>2, <4>1 DEF Even, Book, TypeOK
      <4>3. poller'[p] = f /\ \A o \in Pollers : Settles(o, t)' => o = p
        BY <1>2, <2>2, <4>1, Others DEF Settles
      <4>4. Settles(p, t)'
        BY <1>3, <4>3 DEF Settles
      <4>5. QED
        BY <1>3, <1>4, <4>2, <4>3, <4>4 DEF Even
    <3>4. QED
      BY <3>2, <3>3
  <2>3. QED
    BY <1>2, <1>7, <1>8, <2>1, <2>2
<1>9. ASSUME Untouched' PROVE Fresh' /\ \A u \in Tasks : Account(u)'
  <2>1. Untouched /\ Calm /\ Fresh /\ \A u \in Tasks : Account(u)
    BY <1>4, <1>7, <1>9, CountedStep DEF LInv, Untouched
  <2>2. Fresh'
    <3>1. r.todo = q.todo /\ r.pc # "answered"
      BY <1>q, <1>1, <1>2, <1>3, <1>5, BilledStands
    <3>2. QED
      BY <1>2, <1>4, <2>1, <3>1, FreshStep DEF Fresh, Finds
  <2>3. Works(p, t) /\ Owes(p, t)
    BY <1>1, <2>1 DEF Works, AtWork, Account
  <2>4. \A o \in Pollers : Works(o, t) => o = p
    BY <2>1, <2>3, SoleWorker
  <2>5. upstream[t] # "idle" /\ paid[t] = Quota
    BY <1>1, <2>3 DEF Owes
  <2>6. CASE r = f /\ Book(t, q.delta)
    <3>1. poller'[p] = f /\ paid'[t] = Quota + q.delta
      BY <1>2, <2>5, <2>6, Others DEF Book, TypeOK
    <3>2. Owes(p, t)'
      BY <1>1, <1>3, <1>4, <2>3, <3>1 DEF Owes
    <3>3. \A u \in Tasks : u # t => row'[u] = row[u] /\ paid'[u] = paid[u]
      BY <1>4, <2>6 DEF Book, TypeOK
    <3>4. f.pc \in AtWork
      BY <1>3 DEF AtWork
    <3>5. QED
      BY <1>1, <1>2, <1>3, <1>4, <2>1, <2>2, <2>4, <2>5, <2>6, <3>2, <3>3, <3>4, AccountOne
  <2>7. CASE r = Billed(q) /\ q.delta > 0 /\ UNCHANGED paid
    <3>1. row[t].status = "SUCCESS"
      BY <1>q, <1>1, <2>3, <2>7, TaskAssumption DEF Owes
    <3>2. Platform[t] # "suno" \/ q.phase # "poll"
      BY <2>3, <3>1 DEF Owes, Final
    <3>3. r.pc \notin AtWork
      BY <1>q, <1>1, <2>7, <3>2, BilledStands
    <3>4. \A u \in Tasks : u # t => row'[u] = row[u] /\ paid'[u] = paid[u]
      BY <1>4, <2>7
    <3>5. row'[t].status = "SUCCESS" /\ row'[t].status \notin Open /\ paid'[t] = Quota
      BY <1>4, <2>5, <2>7, <3>1 DEF Open
    <3>6. QED
      BY <1>1, <1>2, <1>4, <2>1, <2>2, <2>4, <2>5, <3>3, <3>4, <3>5, AccountOne
  <2>8. QED
    BY <1>2, <2>1, <2>6, <2>7
<1>10. QED
  BY <1>6, <1>8, <1>9 DEF LInv

\* The token follows.
LEMMA TokenLedger ==
    ASSUME Regular, ByCompareAndSwap => IInv, TypeOK, LInv, NEW p \in Pollers, AdjustToken(p)
    PROVE  LInv'
<1> DEFINE q == poller[p]
           r == Billed(q)
<1>q. q \in Poller /\ Stands(q) /\ q.delta \in Int
  BY DEF TypeOK, LInv, Placed, Poller
<1>1. PICK t \in Tasks : t = q.task /\ t \notin q.todo /\ q.pc = "token"
  BY <1>q DEF AdjustToken, Stands
<1>2. Become(p, r) /\ (disrupted' = 0 => BookToken(t, q.delta))
  <2>1. Counted /\ disrupted \in Nat
    BY DEF LInv, TypeOK
  <2>2. disrupted' = 0 => ~tokenGone /\ ~Disrupt("store")
    BY <2>1 DEF AdjustToken, Counted, Calm, Disrupt
  <2>3. QED
    BY <1>1, <2>2, Zenon DEF AdjustToken
<1>3. /\ UNCHANGED <<row, paid, upstream, fetches>> /\ UNCHANGED <<world, clients>>
      /\ Calm \/ \E k : Disrupt(k)
  BY DEF AdjustToken, world, clients
<1>4. /\ r.todo = q.todo /\ Stands(r) /\ r.pc \notin {"token", "answered"}
      /\ IF q.phase = "poll" /\ Platform[t] = "suno"
         THEN r.pc = "save" /\ r.task = t /\ r.answer = q.answer /\ r.phase = "poll"
         ELSE r.pc \notin AtWork
  BY <1>q, <1>1, BilledStands
<1> HIDE DEF r
<1>5. Placed' /\ Counted'
  BY <1>2, <1>3, <1>4, PlacedStep, CountedStep DEF LInv
<1>6. disrupted' = 0 => disrupted = 0 /\ \A u \in Tasks : Even(u)
  BY <1>3, CountedStep DEF LInv
<1>7. ASSUME disrupted' = 0 PROVE \A u \in Tasks : Even(u)'
  <2>1. ASSUME NEW u \in Tasks, u # t PROVE Even(u)'
    <3>1. \A o \in Pollers : /\ Settles(o, u)' <=> Settles(o, u)
                             /\ Settles(o, u) => poller'[o] = poller[o]
      BY <1>1, <1>2, <1>4, <2>1, Others DEF Settles
    <3>2. paid'[u] = paid[u] /\ tokenPaid'[u] = tokenPaid[u]
      BY <1>2, <1>3, <1>7, <2>1 DEF BookToken, TypeOK
    <3>3. QED
      BY <1>6, <1>7, <3>1, <3>2 DEF Even
  <2>2. Even(t)'
    <3>1. Settles(p, t) /\ Even(t)
      BY <1>1, <1>6, <1>7 DEF Settles
    <3>2. \A o \in Pollers : ~Settles(o, t)'
      BY <1>2, <1>4, <3>1, Others DEF Settles, Even
    <3>3. paid[t] = tokenPaid[t] + q.delta /\ tokenPaid'[t] = tokenPaid[t] + q.delta
      BY <1>2, <1>7, <3>1 DEF Even, BookToken, TypeOK
    <3>4. QED
      BY <1>3, <3>2, <3>3 DEF Even
  <2>3. QED
    BY <2>1, <2>2
<1>8. ASSUME Untouched' PROVE Fresh' /\ \A u \in Tasks : Account(u)'
  <2>1. Untouched /\ Fresh /\ \A u \in Tasks : Account(u)
    BY <1>3, <1>8, CountedStep DEF LInv
  <2>2. Fresh'
    BY <1>2, <1>3, <1>4, <2>1, FreshStep DEF Fresh, Finds
  <2>3. Works(p, t) /\ Owes(p, t)
    BY <1>1, <2>1 DEF Works, AtWork, Account
  <2>4. \A o \in Pollers : Works(o, t) => o = p
    BY <2>1, <2>3, SoleWorker
  <2>5. upstream[t] # "idle" /\ paid[t] = Quota + q.delta
    BY <1>1, <2>3 DEF Owes
  <2>6. \A u \in Tasks : u # t => row'[u] = row[u] /\ paid'[u] = paid[u]
    BY <1>3
  <2>7. poller'[p] = r
    BY <1>2, Others
  <2>8. CASE row[t].status \in Final
    <3>1. r.pc \notin AtWork
      BY <1>4, <2>3, <2>8 DEF Owes
    <3>2. row[t].status \notin Open
      BY <2>8 DEF Open, Final
    <3>3. /\ row[t].status = "FAILURE" => paid[t] = 0
          /\ row[t].status = "SUCCESS" => paid[t] \in Actuals \ {0}
      BY <2>3, <2>5, <3>2, TaskAssumption DEF Owes
    <3>4. QED
      BY <1>1, <1>2, <1>3, <2>1, <2>2, <2>4, <2>5, <2>6, <3>1, <3>2, <3>3, AccountOne
  <2>9. CASE row[t].status \notin Final
    <3>1. /\ row[t].status \in Open /\ Platform[t] = "suno" /\ q.phase = "poll"
          /\ q.answer = "FAILURE" /\ paid[t] = 0
      BY <1>1, <2>3, <2>5, <2>9, TaskAssumption DEF Owes, Final
    <3>2. r.pc \in AtWork /\ r.task = t
      BY <1>4, <3>1 DEF AtWork
    <3>3. Owes(p, t)'
      BY <1>3, <1>4, <2>5, <2>7, <2>9, <3>1 DEF Owes
    <3>4. QED
      BY <1>1, <1>2, <1>3, <2>1, <2>2, <2>4, <2>5, <2>6, <3>2, <3>3, AccountOne
  <2>10. QED
    BY <2>8, <2>9
<1>9. QED
  BY <1>5, <1>7, <1>8 DEF LInv

-----------------------------------------------------------------------------
(* Submission, and what happens around the gateway. *)

\* The rounds, the books and the rows stand, and one clock or provider moves.
LEMMA AroundLedger ==
    ASSUME TypeOK, LInv,
           \/ \E t \in Tasks : UpstreamEnds(t) \/ Expire(t)
           \/ DeleteChannel \/ DeleteToken
    PROVE  LInv'
<1>1. /\ UNCHANGED <<row, paid, tokenPaid, poller, client, fetches>>
      /\ \A t \in Tasks : upstream'[t] = "idle" <=> upstream[t] = "idle"
      /\ \/ UNCHANGED <<disrupted, channelGone, tokenGone>>
         \/ disrupted' # 0
  BY DEF UpstreamEnds, Expire, DeleteChannel, DeleteToken, Disrupt, TypeOK, store, clients
<1>2. Placed' /\ Counted'
  BY <1>1 DEF LInv, Placed, Stands, Counted, NoFetches
<1>3. disrupted' = 0 => \A t \in Tasks : Even(t)'
  BY <1>1 DEF LInv, Even, Settles
<1>4. Untouched' => Untouched
  BY <1>1 DEF Untouched
<1>5. Untouched' => Fresh'
  BY <1>1, <1>4 DEF LInv, Fresh, Finds
<1>6. Untouched' => \A t \in Tasks : Account(t)'
  BY <1>1, <1>4 DEF LInv, Account, Works, Owes
<1>7. QED
  BY <1>2, <1>3, <1>5, <1>6 DEF LInv

\* A task is charged, and its row inserted.
LEMMA SubmitLedger ==
    ASSUME TypeOK, LInv, NEW t \in Tasks, Submit(t)
    PROVE  LInv'
<1>1. /\ UNCHANGED <<poller, client, fetches, channelGone, tokenGone>>
      /\ Book(t, Quota) /\ BookToken(t, Quota)
      /\ upstream[t] = "idle" /\ upstream'[t] # "idle"
      /\ \A u \in Tasks : u # t => upstream'[u] = upstream[u]
      /\ \/ SetRow(t, "NOT_START", FALSE) /\ UNCHANGED disrupted
         \/ disrupted' # 0 /\ UNCHANGED row
  <2>1. UNCHANGED <<poller, client, fetches, channelGone, tokenGone>>
    BY DEF Submit, clients
  <2>2. Book(t, Quota) /\ BookToken(t, Quota) /\ upstream[t] = "idle"
    BY DEF Submit
  <2>3. upstream'[t] # "idle" /\ \A u \in Tasks : u # t => upstream'[u] = upstream[u]
    BY DEF Submit, TypeOK
  <2>4. Disrupt("store") => disrupted' # 0
    BY DEF Disrupt, TypeOK
  <2>5. \/ SetRow(t, "NOT_START", FALSE) /\ UNCHANGED disrupted
        \/ disrupted' # 0 /\ UNCHANGED row
    BY <2>4 DEF Submit, Calm
  <2>6. QED
    BY <2>1, <2>2, <2>3, <2>5
<1>2. /\ paid'[t] = paid[t] + Quota /\ tokenPaid'[t] = tokenPaid[t] + Quota
      /\ \A u \in Tasks : u # t => paid'[u] = paid[u] /\ tokenPaid'[u] = tokenPaid[u]
      /\ \A u \in Tasks : u # t => row'[u] = row[u]
      /\ disrupted' = 0 => row'[t].status = "NOT_START"
  BY <1>1 DEF Book, BookToken, SetRow, TypeOK
<1>3. Placed' /\ Counted'
  BY <1>1 DEF LInv, Placed, Stands, Counted, NoFetches
<1>4. disrupted' = 0 => disrupted = 0
  BY <1>1
<1>5. ASSUME disrupted' = 0, NEW u \in Tasks PROVE Even(u)'
  <2>1. Even(u) /\ \A p \in Pollers : Settles(p, u)' <=> Settles(p, u)
    BY <1>1, <1>4, <1>5 DEF LInv, Settles
  <2>2. \A p \in Pollers : poller'[p].delta \in Int /\ poller'[p] = poller[p]
    BY <1>1 DEF TypeOK, Poller
  <2>3. /\ paid[u] \in Int /\ tokenPaid[u] \in Int /\ Quota \in Int
        /\ \/ paid'[u] = paid[u] /\ tokenPaid'[u] = tokenPaid[u]
           \/ paid'[u] = paid[u] + Quota /\ tokenPaid'[u] = tokenPaid[u] + Quota
    BY <1>2, TaskAssumption DEF TypeOK
  <2>4. QED
    BY <2>1, <2>2, <2>3 DEF Even
<1>6. ASSUME Untouched' PROVE Fresh' /\ \A u \in Tasks : Account(u)'
  <2>1. Untouched /\ Fresh /\ \A u \in Tasks : Account(u)
    BY <1>1, <1>4, <1>6 DEF Untouched, LInv
  <2>2. \A p \in Pollers : ~Works(p, t)
    BY <1>1, <2>1 DEF Account, Owes
  <2>3. row[t].status = "none" /\ row'[t].status = "NOT_START" /\ paid'[t] = Quota
    BY <1>1, <1>2, <1>6, <2>1, TaskAssumption DEF Account, Untouched
  <2>4. Fresh'
    <3>1. \A p \in Pollers : poller[p].todo \subseteq Tasks
      BY DEF TypeOK, Poller
    <3>2. \A u \in Tasks : row[u].status \in Open => row'[u].status \in Open
      BY <1>2, <2>3 DEF Open
    <3>3. \A p \in Pollers : poller[p].pc = "answered" => poller[p].task \in Tasks
      BY DEF LInv, Placed, Stands
    <3>4. QED
      BY <1>1, <2>1, <3>1, <3>2, <3>3 DEF Fresh, Finds
  <2>5. Account(t)'
    BY <1>1, <2>2, <2>3 DEF Account, Works
  <2>6. ASSUME NEW u \in Tasks, u # t PROVE Account(u)'
    BY <1>1, <1>2, <2>1, <2>6 DEF Account, Works, Owes
  <2>7. QED
    BY <2>4, <2>5, <2>6
<1>7. QED
  BY <1>3, <1>5, <1>6 DEF LInv

\* A process restarts.
LEMMA CrashLedger ==
    ASSUME TypeOK, LInv, NEW p \in Pollers, Crash(p)
    PROVE  LInv'
<1>1. Become(p, Idle) /\ disrupted' # 0 /\ UNCHANGED <<world, clients>> /\ Disrupt("crash")
  BY DEF Crash, Disrupt, TypeOK
<1>2. Stands(Idle)
  BY DEF Stands, Idle
<1>3. Placed' /\ Counted'
  BY <1>1, <1>2, PlacedStep, CountedStep DEF LInv
<1>4. QED
  BY <1>1, <1>3 DEF LInv, Untouched

\* A client's fetch books nothing, and is counted.
LEMMA ClientLedger ==
    ASSUME TypeOK, LInv, NEW c \in Clients,
           RealtimeUpdate(c) \/ \E t \in Tasks : ClientFetch(c, t)
    PROVE  LInv'
<1>1. /\ UNCHANGED <<paid, tokenPaid, poller, disrupted, channelGone, tokenGone>>
      /\ fetches' # 0
  BY DEF RealtimeUpdate, ClientFetch, LInv, Counted, NoFetches, TypeOK, Calm, store, world
<1>2. Placed' /\ Counted'
  BY <1>1 DEF LInv, Placed, Stands, Counted
<1>3. disrupted' = 0 => \A t \in Tasks : Even(t)'
  BY <1>1 DEF LInv, Even, Settles
<1>4. QED
  BY <1>1, <1>2, <1>3 DEF LInv, Untouched

\* Every step keeps the ledger.
LEMMA LedgerStep ==
    ASSUME Regular, TypeOK, LInv, ByCompareAndSwap => IInv, [Next]_vars
    PROVE  LInv'
<1>1. ASSUME NEW p \in Pollers, Poll(p) PROVE LInv'
  BY <1>1, QueryLedger, FetchLedger, BulkLedger, SweepLedger, VideoLedger, SunoLedger,
     SaveLedger, FundLedger, TokenLedger DEF Poll, Loop
<1>2. CASE UNCHANGED vars
  BY <1>2 DEF vars, LInv, Placed, Stands, Counted, NoFetches, Untouched, Fresh, Finds,
              Even, Settles, Account, Works, Owes
<1>3. QED
  BY <1>1, <1>2, AroundLedger, SubmitLedger, CrashLedger, ClientLedger DEF Next

\* The ledger is empty at the start.
LEMMA LedgerInit == Init => LInv
<1> SUFFICES ASSUME Init PROVE LInv
  OBVIOUS
<1>1. \A p \in Pollers : poller[p].pc = "sleep" /\ poller[p].todo = {}
  BY DEF Init, Idle
<1>2. Placed /\ Counted
  BY <1>1 DEF Init, Placed, Stands, Counted, NoFetches
<1>3. \A t \in Tasks : Even(t)
  BY <1>1 DEF Init, Even, Settles
<1>4. Fresh
  BY <1>1 DEF Fresh, Finds
<1>5. \A t \in Tasks : Account(t)
  BY <1>1 DEF Init, Account, Works, AtWork, Open
<1>6. QED
  BY <1>2, <1>3, <1>4, <1>5 DEF LInv

\* The ledger holds in every state.
LEMMA LedgerHolds == ASSUME Regular PROVE Spec => [](TypeOK /\ LInv)
<1> DEFINE All == TypeOK /\ LInv /\ (ByCompareAndSwap => IInv)
<1>1. Init => All
  BY TypeInit, LedgerInit, BooksInit
<1>2. All /\ [Next]_vars => All'
  <2> SUFFICES ASSUME All, [Next]_vars PROVE All'
    OBVIOUS
  <2>1. TypeOK' /\ LInv'
    BY TypeStep, LedgerStep
  <2>2. ByCompareAndSwap => IInv'
    BY BooksStep
  <2>3. QED
    BY <2>1, <2>2 DEF ByCompareAndSwap
<1> HIDE DEF All
<1>3. Spec => []All
  BY <1>1, <1>2, PTL DEF Spec
<1>4. All => TypeOK /\ LInv
  BY DEF All
<1>5. QED
  BY <1>3, <1>4, PTL

\* For any tasks, of every platform, and any fetches of clients when one master
\* polls, and for any number of polling processes when rows are compared and
\* swapped: as long as nothing was disrupted, what a task has cost on its source
\* and on its token is the same whenever nobody is between the two bookings
\* (taskAdjustFunding, taskAdjustTokenQuota).
THEOREM TaskBooksAgree == ASSUME Regular PROVE Spec => []BooksAgree
<1>1. TypeOK /\ LInv => BooksAgree
  BY DEF LInv, Even, Settles, BooksAgree, Billing
<1>2. QED
  BY <1>1, LedgerHolds, PTL

\* Under the same conditions a task whose row is final and whose billing is over
\* has cost what its outcome says: nothing after a failure, also where the refund
\* precedes the row (updateSunoTasks), the submitted or the actual quota after a
\* success.
THEOREM TaskFinalMeansBilled == ASSUME Regular PROVE Spec => []FinalMeansBilled
<1>1. TypeOK /\ LInv => FinalMeansBilled
  <2> SUFFICES ASSUME TypeOK, LInv, NEW t \in Tasks \ Legacy, row[t].status \in Final,
                      ~Billing(t), disrupted = 0, fetches = 0
               PROVE  /\ paid[t] = tokenPaid[t]
                      /\ row[t].status = "FAILURE" => paid[t] = 0
                      /\ row[t].status = "SUCCESS" => paid[t] \in {Quota} \cup (Actuals \ {0})
    BY DEF FinalMeansBilled
  <2>1. Even(t) /\ Account(t)
    BY DEF LInv, Untouched
  <2>2. paid[t] = tokenPaid[t]
    BY <2>1 DEF Even, Settles, Billing
  <2>3. \A p \in Pollers : ~Works(p, t)
    <3>1. \A p \in Pollers : Works(p, t) => poller[p].pc = "save"
      BY DEF Billing, Works, AtWork
    <3>2. row[t].status \notin Open
      BY DEF Final, Open
    <3>3. QED
      BY <2>1, <3>1, <3>2 DEF Account, Owes
  <2>4. QED
    BY <2>1, <2>2, <2>3 DEF Account
<1>2. QED
  BY <1>1, LedgerHolds, PTL
=============================================================================
