------------------------- MODULE TaskPollingProofs -------------------------
(***************************************************************************)
(* Proofs about asynchronous tasks, for any number of tasks, of polling    *)
(* processes and of disruptions: a task that is updated by compare-and-    *)
(* swap is never refunded twice, its final row stays, and without          *)
(* disruptions the processes together keep TaskContract.                   *)
(***************************************************************************)
EXTENDS TaskPolling, TLAPS

-----------------------------------------------------------------------------
(* Types. *)

\* A process between two rounds is well typed.
LEMMA IdleType == Idle \in Poller
BY DEF Idle, Poller, Statuses

\* Only one process's record changes.
LEMMA BecomeType ==
    ASSUME TypeOK, NEW p \in Pollers, NEW q \in Poller, Become(p, q)
    PROVE  poller' \in [Pollers -> Poller]
BY DEF TypeOK, Become

\* What the query returned and what was read of it.
LEMMA LoadType ==
    ASSUME TypeOK, NEW q \in Poller, NEW S \in SUBSET Tasks
    PROVE  Load(q, S) \in Poller
<1>1. \A t \in Tasks : row[t].status \in Statuses
  BY DEF TypeOK, Row
<1>2. [t \in Tasks |-> IF t \in S THEN row[t].status ELSE "none"] \in [Tasks -> Statuses]
  BY <1>1 DEF Statuses
<1>3. QED
  BY <1>2 DEF Load, Poller

\* The records of a process that goes on to bill.
LEMMA BillType ==
    ASSUME NEW q \in Poller, NEW t \in Tasks, NEW n \in Int
    PROVE  Bill(q, t, n) \in Poller
BY DEF Bill, Poller

\* The records of a process that is done with a task, or goes on with it.
LEMMA ResumeType ==
    ASSUME NEW q \in Poller
    PROVE  /\ Resume(q) \in Poller
           /\ Billed(q) \in Poller
           /\ Funded(q) \in Poller
           /\ [q EXCEPT !.pc = "save"] \in Poller
<1>2. Resume(q) \in Poller
  <2>1. q.phase \in {"sweep", "poll", "sleep", "answered", "fund", "token", "save"}
    BY DEF Poller
  <2>2. NoTask \in Tasks \cup {NoTask} /\ "none" \in Statuses /\ 0 \in Int
    BY DEF Statuses
  <2>3. \A a \in Statuses, u \in Tasks \cup {NoTask}, n \in Int,
           c \in {"sweep", "poll", "sleep", "answered", "fund", "token", "save"} :
           [q EXCEPT !.pc = c, !.task = u, !.answer = a, !.delta = n] \in Poller
    BY DEF Poller
  <2>4. QED
    BY <2>1, <2>2, <2>3, Zenon DEF Resume
<1>3. [q EXCEPT !.pc = "save", !.delta = 0] \in Poller
  <2>1. \A n \in Int : [q EXCEPT !.pc = "save", !.delta = n] \in Poller
    BY DEF Poller
  <2>2. 0 \in Int
    OBVIOUS
  <2>3. QED
    BY <2>1, <2>2, Zenon
<1>4. Billed(q) \in Poller
  BY <1>2, <1>3 DEF Billed
<1>5. Funded(q) \in Poller /\ [q EXCEPT !.pc = "save"] \in Poller
  BY DEF Funded, Poller
<1>6. QED
  BY <1>2, <1>4, <1>5

\* A write to one row keeps the table well typed.
LEMMA SetRowType ==
    ASSUME TypeOK, NEW t, NEW s \in Statuses, NEW d \in BOOLEAN,
           SetRow(t, s, d) \/ UNCHANGED row \/ \E seen : UpdateWithStatus(t, seen, s, d)
    PROVE  row' \in [Tasks -> Row]
<1>1. [status |-> s, done |-> d] \in Row
  BY DEF Row
<1>2. QED
  BY <1>1 DEF TypeOK, SetRow, UpdateWithStatus

\* What is booked and counted stays a number.
LEMMA BookType ==
    ASSUME TypeOK, NEW t, NEW n \in Int
    PROVE  /\ Book(t, n) \/ UNCHANGED paid => paid' \in [Tasks -> Int]
           /\ BookToken(t, n) \/ UNCHANGED tokenPaid => tokenPaid' \in [Tasks -> Int]
           /\ (Calm \/ \E k : Disrupt(k)) => disrupted' \in Nat
BY DEF TypeOK, Book, BookToken, Calm, Disrupt

\* The provider's answers are statuses.
LEMMA AnswersType ==
    ASSUME TypeOK, NEW t \in Tasks
    PROVE  Answers(t) \subseteq {"IN_PROGRESS", "FAILURE", "SUCCESS"}
BY DEF TypeOK, Answers

\* What is owed is at least the quota given back.
LEMMA OwedType ==
    ASSUME NEW a
    PROVE  \A n \in Owed(a) : n \in Int /\ n >= -Quota
BY TaskAssumption DEF Owed, Settlement

\* The loop's steps keep the types.
LEMMA PollType ==
    ASSUME TypeOK, NEW p \in Pollers, Poll(p)
    PROVE  TypeOK'
<1> DEFINE q == poller[p]
<1>q. q \in Poller
  BY DEF TypeOK
<1>p. /\ q.todo \subseteq Tasks /\ q.seen \in [Tasks -> Statuses]
      /\ q.task \in Tasks \cup {NoTask} /\ q.answer \in Statuses /\ q.delta \in Int
      /\ q.phase \in {"sweep", "poll"}
  BY <1>q DEF Poller
<1>f. "FAILURE" \in Statuses /\ "IN_PROGRESS" \in Statuses /\ "SUCCESS" \in Statuses
  BY DEF Statuses
<1>i. Quota \in Int /\ -Quota \in Int
  BY TaskAssumption
<1> SUFFICES /\ row' \in [Tasks -> Row]
             /\ paid' \in [Tasks -> Int] /\ tokenPaid' \in [Tasks -> Int]
             /\ poller' \in [Pollers -> Poller]
             /\ disrupted' \in Nat
             /\ UNCHANGED <<world, clients>>
  BY DEF TypeOK, world, clients
<1>1. CASE GetTimedOutUnfinishedTasks(p)
  <2>1. Oldest(TimedOut, SweepLimit) \in SUBSET Tasks
    BY DEF Oldest, TimedOut, Unfinished
  <2>2. [Load(q, Oldest(TimedOut, SweepLimit)) EXCEPT !.pc = "sweep"] \in Poller
    BY <2>1, <1>q, LoadType DEF Poller
  <2>3. QED
    BY <1>1, <2>2, BecomeType DEF GetTimedOutUnfinishedTasks, TypeOK, Calm, store
<1>2. CASE SweepTask(p)
  <2>1. PICK t \in q.todo :
          LET q0 == [q EXCEPT !.todo = @ \ {t}, !.phase = "sweep"]
              seen == q0.seen[t]
          IN  /\ \/ /\ UpdateWithStatus(t, seen, "FAILURE", TRUE)
                    /\ Become(p, IF Won(t, seen) /\ t \notin Legacy /\ Quota # 0
                                 THEN Bill(q0, t, -Quota) ELSE q0)
                    /\ Calm
                 \/ Become(p, q0) /\ UNCHANGED row /\ Disrupt("store")
                 \/ /\ Become(p, q0)
                    /\ UpdateWithStatus(t, seen, "FAILURE", TRUE)
                    /\ Disrupt("ack")
              /\ UNCHANGED <<paid, tokenPaid, world, clients>>
    BY <1>2, Zenon DEF SweepTask
  <2> DEFINE q0 == [q EXCEPT !.todo = @ \ {t}, !.phase = "sweep"]
  <2>2. q0 \in Poller /\ t \in Tasks
    BY <1>q, <1>p DEF Poller
  <2>3. Bill(q0, t, -Quota) \in Poller
    BY <2>2, <1>i, BillType
  <2>4. row' \in [Tasks -> Row]
    BY <2>1, <1>f, SetRowType, Zenon
  <2>5. poller' \in [Pollers -> Poller]
    <3>1. PICK r \in {q0, Bill(q0, t, -Quota)} : Become(p, r)
      BY <2>1, Zenon
    <3>2. QED
      BY <3>1, <2>2, <2>3, BecomeType
  <2>6. disrupted' \in Nat
    <3>1. Calm \/ \E k : Disrupt(k)
      BY <2>1, Zenon
    <3>2. QED
      BY <3>1, <1>i, BookType
  <2>7. QED
    BY <2>1, <2>4, <2>5, <2>6 DEF TypeOK
<1>3. CASE GetAllUnFinishSyncTasks(p)
  <2>1. Oldest(Unfinished, QueryLimit) \in SUBSET Tasks
    BY DEF Oldest, Unfinished
  <2>2. [Load(q, Oldest(Unfinished, QueryLimit)) EXCEPT !.pc = "poll",
                                                        !.phase = "poll"] \in Poller
    BY <2>1, <1>q, LoadType DEF Poller
  <2>3. QED
    BY <1>3, <2>2, BecomeType DEF GetAllUnFinishSyncTasks, TypeOK, Calm, store
<1>4. CASE RoundEnds(p)
  BY <1>4, IdleType, BecomeType DEF RoundEnds, TypeOK, Calm, store
<1>5. CASE BulkFail(p)
  <2>1. [q EXCEPT !.todo = {}] \in Poller
    BY <1>q DEF Poller
  <2>2. row' \in [Tasks -> Row]
    <3>1. [status |-> "FAILURE", done |-> TRUE] \in Row
      BY DEF Row, Statuses
    <3>2. QED
      BY <1>5, <3>1 DEF BulkFail, TypeOK
  <2>3. disrupted' \in Nat
    BY <1>5, BookType DEF BulkFail
  <2>4. QED
    BY <1>5, <2>1, <2>2, <2>3, BecomeType DEF BulkFail, TypeOK
<1>6. CASE FetchTask(p)
  <2>1. PICK t \in q.todo :
          LET q0 == [q EXCEPT !.todo = @ \ {t}]
              errors == IF Platform[t] = "suno" THEN {} ELSE {"FAILURE"}
          IN  \/ \E a \in Answers(t) \cup errors :
                   Become(p, [q0 EXCEPT !.pc = "answered", !.task = t, !.answer = a])
              \/ Become(p, q0)
    BY <1>6, Zenon DEF FetchTask
  <2> DEFINE q0 == [q EXCEPT !.todo = @ \ {t}]
  <2>2. q0 \in Poller /\ t \in Tasks
    BY <1>q, <1>p DEF Poller
  <2>3. \A a \in Statuses : [q0 EXCEPT !.pc = "answered", !.task = t, !.answer = a] \in Poller
    BY <2>2 DEF Poller
  <2>4. \A a \in Answers(t) \cup {"FAILURE"} : a \in Statuses
    BY <2>2, <1>f, AnswersType
  <2>5. poller' \in [Pollers -> Poller]
    <3>1. CASE Become(p, q0)
      BY <3>1, <2>2, BecomeType
    <3>2. ASSUME NEW a \in Statuses,
                 Become(p, [q0 EXCEPT !.pc = "answered", !.task = t, !.answer = a])
          PROVE  poller' \in [Pollers -> Poller]
      BY <3>2, <2>3, BecomeType
    <3>3. QED
      BY <2>1, <2>4, <3>1, <3>2
  <2>6. QED
    BY <1>6, <2>5 DEF FetchTask, TypeOK, Calm, store
<1>7. CASE UpdateVideoTask(p)
  <2>1. \A d \in Complete(q.answer) : d \in BOOLEAN
    BY Zenon DEF Complete
  <2>2. row' \in [Tasks -> Row]
    BY <1>7, <1>p, <2>1, SetRowType, Zenon DEF UpdateVideoTask
  <2>3. PICK n \in Int : Become(p, Bill(q, q.task, n)) \/ Become(p, Resume(q))
    <3>1. \A n \in Owed(q.answer) : n \in Int
      BY OwedType
    <3>2. 0 \in Int
      OBVIOUS
    <3>3. QED
      BY <1>7, <3>1, <3>2, Zenon DEF UpdateVideoTask
  <2>4. Bill(q, q.task, n) \in Poller
    BY <1>q, <1>p DEF Bill, Poller
  <2>5. poller' \in [Pollers -> Poller]
    BY <2>3, <2>4, <1>q, ResumeType, BecomeType
  <2>6. disrupted' \in Nat
    BY <1>7, BookType DEF UpdateVideoTask
  <2>7. QED
    BY <1>7, <2>2, <2>5, <2>6 DEF UpdateVideoTask, TypeOK
<1>8. CASE UpdateSunoTask(p)
  <2>1. Bill(q, q.task, -Quota) \in Poller
    BY <1>q, <1>p, <1>i DEF Bill, Poller
  <2>2. Resume(q) \in Poller /\ [q EXCEPT !.pc = "save"] \in Poller
    BY <1>q, ResumeType
  <2>3. PICK r \in {Bill(q, q.task, -Quota), Resume(q), [q EXCEPT !.pc = "save"]} : Become(p, r)
    BY <1>8, Zenon DEF UpdateSunoTask
  <2>4. QED
    BY <1>8, <2>1, <2>2, <2>3, BecomeType DEF UpdateSunoTask, TypeOK, Calm, store
<1>9. CASE SaveSunoTask(p)
  <2>1. (q.answer \in Final) \in BOOLEAN
    BY DEF Final
  <2>2. row' \in [Tasks -> Row]
    BY <1>9, <1>p, <2>1, SetRowType, Zenon DEF SaveSunoTask
  <2>3. disrupted' \in Nat
    BY <1>9, BookType DEF SaveSunoTask
  <2>4. QED
    BY <1>9, <1>q, <2>2, <2>3, ResumeType, BecomeType DEF SaveSunoTask, TypeOK
<1>10. CASE AdjustFunding(p)
  <2>1. poller' \in [Pollers -> Poller]
    BY <1>10, <1>q, ResumeType, BecomeType DEF AdjustFunding
  <2>2. paid' \in [Tasks -> Int] /\ disrupted' \in Nat
    BY <1>10, <1>p, BookType DEF AdjustFunding
  <2>3. QED
    BY <1>10, <2>1, <2>2 DEF AdjustFunding, TypeOK
<1>11. CASE AdjustToken(p)
  <2>1. poller' \in [Pollers -> Poller]
    BY <1>11, <1>q, ResumeType, BecomeType DEF AdjustToken
  <2>2. tokenPaid' \in [Tasks -> Int] /\ disrupted' \in Nat
    BY <1>11, <1>p, BookType DEF AdjustToken
  <2>3. QED
    BY <1>11, <2>1, <2>2 DEF AdjustToken, TypeOK
<1>12. QED
  BY <1>1, <1>2, <1>3, <1>4, <1>5, <1>6, <1>7, <1>8, <1>9, <1>10, <1>11 DEF Poll, Loop

\* Every step keeps the types.
LEMMA TypeStep == TypeOK /\ [Next]_vars => TypeOK'
<1> SUFFICES ASSUME TypeOK, [Next]_vars PROVE TypeOK'
  OBVIOUS
<1>1. ASSUME NEW t \in Tasks, Submit(t) PROVE TypeOK'
  <2>1. upstream' \in [Tasks -> {"idle", "running", "failed", "succeeded"}]
    BY <1>1 DEF Submit, TypeOK
  <2>2. row' \in [Tasks -> Row]
    BY <1>1, SetRowType DEF Submit, Statuses
  <2>3. paid' \in [Tasks -> Int] /\ tokenPaid' \in [Tasks -> Int] /\ disrupted' \in Nat
    <3>1. Quota \in Int
      BY TaskAssumption
    <3>2. QED
      BY <1>1, <3>1, BookType DEF Submit
  <2>4. UNCHANGED <<expired, poller, client, fetches, channelGone, tokenGone>>
    BY <1>1 DEF Submit, clients
  <2>5. QED
    BY <2>1, <2>2, <2>3, <2>4 DEF TypeOK
<1>2. ASSUME NEW t \in Tasks, UpstreamEnds(t) PROVE TypeOK'
  BY <1>2 DEF UpstreamEnds, TypeOK, store, clients
<1>3. ASSUME NEW t \in Tasks, Expire(t) PROVE TypeOK'
  <2>1. expired' \in [Tasks -> BOOLEAN]
    BY <1>3, Zenon DEF Expire, TypeOK
  <2>2. QED
    BY <1>3, <2>1 DEF Expire, TypeOK, store, clients
<1>4. ASSUME NEW p \in Pollers, Crash(p) PROVE TypeOK'
  <2>1. poller' \in [Pollers -> Poller]
    BY <1>4, IdleType, BecomeType DEF Crash
  <2>2. QED
    BY <1>4, <2>1 DEF Crash, TypeOK, store, world, clients, Disrupt
<1>5. ASSUME NEW c \in Clients, RealtimeUpdate(c) PROVE TypeOK'
  <2>1. client[c] \in Client
    BY DEF TypeOK
  <2>2. client[c].answer \in Statuses
    BY <2>1 DEF Client
  <2>d. \A d \in Complete(client[c].answer) : d \in BOOLEAN
    BY Zenon DEF Complete
  <2>3. row' \in [Tasks -> Row]
    BY <1>5, <2>2, <2>d, SetRowType, Zenon DEF RealtimeUpdate
  <2>4. NoFetch \in Client
    BY DEF NoFetch, Client, Statuses
  <2>5. client' \in [Clients -> Client]
    BY <1>5, <2>4 DEF RealtimeUpdate, TypeOK
  <2>6. QED
    BY <1>5, <2>3, <2>5 DEF RealtimeUpdate, TypeOK, world, Calm
<1>6. ASSUME NEW c \in Clients, NEW t \in Tasks, ClientFetch(c, t) PROVE TypeOK'
  <2>1. \A a \in Answers(t) : [task |-> t, seen |-> row[t].status, answer |-> a] \in Client
    BY AnswersType DEF TypeOK, Row, Client, Statuses
  <2>2. client' \in [Clients -> Client]
    BY <1>6, <2>1 DEF ClientFetch, TypeOK
  <2>3. QED
    BY <1>6, <2>2 DEF ClientFetch, TypeOK, store, world, Calm
<1>7. CASE DeleteChannel
  BY <1>7 DEF DeleteChannel, TypeOK, store, clients, Disrupt
<1>8. CASE DeleteToken
  BY <1>8 DEF DeleteToken, TypeOK, store, clients, Disrupt
<1>9. CASE UNCHANGED vars
  BY <1>9 DEF vars, TypeOK
<1>10. QED
  BY <1>1, <1>2, <1>3, <1>4, <1>5, <1>6, <1>7, <1>8, <1>9, PollType DEF Next

\* Nothing is submitted yet.
LEMMA TypeInit == Init => TypeOK
<1> SUFFICES ASSUME Init PROVE TypeOK
  OBVIOUS
<1>1. expired \in [Tasks -> BOOLEAN]
  BY Zenon DEF Init
<1>2. NoFetch \in Client
  BY DEF NoFetch, Client, Statuses
<1>3. row \in [Tasks -> Row]
  BY DEF Init, Row, Statuses
<1>4. poller \in [Pollers -> Poller] /\ client \in [Clients -> Client]
  BY <1>2, IdleType DEF Init
<1>5. paid \in [Tasks -> Int] /\ tokenPaid \in [Tasks -> Int]
  BY DEF Init
<1>6. QED
  BY <1>1, <1>3, <1>4, <1>5 DEF Init, TypeOK

\* Rows, rounds and bookings stay well typed whatever the provider answers and
\* whichever writes fail: no answer the loop does not know reaches a row.
THEOREM TaskTypeCorrect == Spec => []TypeOK
BY TypeInit, TypeStep, PTL DEF Spec

-----------------------------------------------------------------------------
(* The ledger of tasks whose rows are written by compare-and-swap. *)

\* Suno rows are saved unconditionally, and clients refresh Gemini rows.
ByCompareAndSwap ==
    \A t \in Tasks : Platform[t] = "video" \/ (Platform[t] = "gemini" /\ Clients = {})

Open == {"NOT_START", "IN_PROGRESS"}

\* A round works on rows it read as open, of tasks that were submitted; what it
\* is about to write comes from the provider, and what it is about to book
\* gives back at most the quota.
Rounds ==
    \A p \in Pollers :
        LET q == poller[p] IN
        /\ \A t \in q.todo : q.seen[t] \in Open /\ upstream[t] # "idle"
        /\ q.pc = "answered" => /\ q.task \in Tasks /\ q.seen[q.task] \in Open
                                /\ q.answer \in {"IN_PROGRESS"} \cup Final
        /\ q.pc \in {"fund", "token"} => q.task \in Tasks /\ q.delta >= -Quota
        /\ q.pc # "save"

Bills(p, t) == poller[p].task = t /\ poller[p].pc \in {"fund", "token"}

\* Nobody bills an open task, and one process at most a closed one; until it
\* has, the task's charge is in place.
TaskBooks(t) ==
    /\ row[t].status \notin Final => \A p \in Pollers : ~Bills(p, t)
    /\ row[t].status \in Open => paid[t] = Quota /\ tokenPaid[t] = Quota
    /\ \A p \in Pollers :
         Bills(p, t) => /\ tokenPaid[t] = Quota
                        /\ poller[p].pc = "fund" => paid[t] = Quota
                        /\ \A o \in Pollers : Bills(o, t) => o = p
    /\ upstream[t] = "idle" => row[t].status = "none" /\ paid[t] = 0 /\ tokenPaid[t] = 0
    /\ paid[t] >= 0 /\ tokenPaid[t] >= 0

Books == \A t \in Tasks : TaskBooks(t)

NoFetches == \A c \in Clients : client[c] = NoFetch

\* NoDoubleRefund with what makes it inductive.
IInv == TypeOK /\ Rounds /\ Books /\ NoFetches

\* A step of one process leaves the others' rounds alone.
LEMMA Others ==
    ASSUME TypeOK, NEW p \in Pollers, NEW q, Become(p, q)
    PROVE  /\ poller'[p] = q
           /\ \A o \in Pollers : o # p => poller'[o] = poller[o]
BY DEF TypeOK, Become

\* A round that goes on lawfully keeps Rounds.
LEMMA RoundsStep ==
    ASSUME TypeOK, Rounds, NEW p \in Pollers, NEW q, Become(p, q), UNCHANGED upstream,
           \A t \in q.todo : q.seen[t] \in Open /\ upstream[t] # "idle",
           q.pc = "answered" => /\ q.task \in Tasks /\ q.seen[q.task] \in Open
                                /\ q.answer \in {"IN_PROGRESS"} \cup Final,
           q.pc \in {"fund", "token"} => q.task \in Tasks /\ q.delta >= -Quota,
           q.pc # "save"
    PROVE  Rounds'
BY Others DEF Rounds

\* Rows may close, or stay open, and one process that bills nothing afterwards
\* may move: the books still stand.
LEMMA BooksFrame ==
    ASSUME TypeOK, Books, NEW p \in Pollers, NEW q, Become(p, q),
           q.pc \notin {"fund", "token"},
           \A t \in Tasks : \/ row'[t].status = row[t].status
                            \/ row[t].status \in Open /\ row'[t].status \in Open
                            \/ upstream[t] # "idle" /\ row'[t].status \in Final,
           UNCHANGED <<paid, tokenPaid, upstream>>
    PROVE  Books'
<1> SUFFICES ASSUME NEW t \in Tasks PROVE TaskBooks(t)'
  BY DEF Books
<1>1. TaskBooks(t)
  BY DEF Books
<1>2. \A o \in Pollers : Bills(o, t)' => Bills(o, t) /\ poller'[o] = poller[o]
  BY Others DEF Bills
<1>3. row'[t].status \in Open => row[t].status \in Open
  BY DEF Open, Final
<1>4. row'[t].status \notin Final => row[t].status \notin Final
  BY DEF Open, Final
<1>5. upstream[t] = "idle" => row'[t].status = row[t].status
  <2>1. "none" \notin Open
    BY DEF Open
  <2>2. QED
    BY <1>1, <2>1 DEF TaskBooks
<1>6. QED
  BY <1>1, <1>2, <1>3, <1>4, <1>5 DEF TaskBooks

\* The winner of the update that closes a task is the only one to bill it.
LEMMA BooksBill ==
    ASSUME TypeOK, Books, NEW p \in Pollers, NEW q, Become(p, q),
           NEW t \in Tasks, q.task = t, q.pc = "fund",
           row[t].status \in Open, row'[t].status \in Final,
           \A u \in Tasks : u # t => row'[u] = row[u],
           UNCHANGED <<paid, tokenPaid, upstream>>
    PROVE  Books'
<1> SUFFICES ASSUME NEW u \in Tasks PROVE TaskBooks(u)'
  BY DEF Books
<1>1. TaskBooks(u) /\ TaskBooks(t)
  BY DEF Books
<1>2. CASE u = t
  <2>1. \A o \in Pollers : ~Bills(o, t)
    BY <1>1 DEF TaskBooks, Open, Final
  <2>2. \A o \in Pollers : Bills(o, t)' => o = p
    BY <2>1, Others DEF Bills
  <2>3. row'[t].status \notin Open
    BY DEF Open, Final
  <2>4. upstream[t] # "idle" /\ paid[t] = Quota /\ tokenPaid[t] = Quota
    BY <1>1 DEF TaskBooks, Open
  <2>5. QED
    BY <1>1, <1>2, <2>2, <2>3, <2>4 DEF TaskBooks
<1>3. CASE u # t
  <2>1. \A o \in Pollers : Bills(o, u)' => Bills(o, u) /\ poller'[o] = poller[o]
    BY <1>3, Others DEF Bills
  <2>2. QED
    BY <1>1, <1>3, <2>1 DEF TaskBooks
<1>4. QED
  BY <1>2, <1>3

\* Booking what remains on one account of a task that p bills.
LEMMA BooksAdjust ==
    ASSUME TypeOK, Rounds, Books, NEW p \in Pollers, NEW q, Become(p, q),
           UNCHANGED <<row, upstream>>,
           NEW t \in Tasks, Bills(p, t), NEW n \in Int, n >= -Quota,
           q.pc \in {"fund", "token"} => q.task = t /\ q.pc = "token" /\ UNCHANGED tokenPaid,
           \/ poller[p].pc = "fund" /\ Book(t, n) /\ UNCHANGED tokenPaid
           \/ poller[p].pc = "token" /\ BookToken(t, n) /\ UNCHANGED paid
           \/ UNCHANGED <<paid, tokenPaid>>
    PROVE  Books'
<1> SUFFICES ASSUME NEW u \in Tasks PROVE TaskBooks(u)'
  BY DEF Books
<1>1. TaskBooks(u) /\ TaskBooks(t)
  BY DEF Books
<1>2. CASE u = t
  <2>1. \A o \in Pollers : Bills(o, t) => o = p
    BY <1>1 DEF TaskBooks
  <2>2. \A o \in Pollers : Bills(o, t)' => o = p
    BY <2>1, Others DEF Bills
  <2>3. row[t].status \in Final /\ row[t].status \notin Open
    BY <1>1 DEF TaskBooks, Open, Final
  <2>4. upstream[t] # "idle"
    BY <1>1, <2>3 DEF TaskBooks, Final
  <2>5. paid'[t] >= 0 /\ tokenPaid'[t] >= 0
    BY <1>1, TaskAssumption DEF TaskBooks, TypeOK, Book, BookToken
  <2>6. Bills(p, t)' => tokenPaid'[t] = Quota /\ poller'[p].pc # "fund"
    BY <1>1, Others DEF TaskBooks, Bills
  <2>7. QED
    BY <1>2, <2>2, <2>3, <2>4, <2>5, <2>6 DEF TaskBooks
<1>3. CASE u # t
  <2>1. \A o \in Pollers : Bills(o, u)' => Bills(o, u) /\ poller'[o] = poller[o]
    BY <1>3, Others DEF Bills
  <2>2. paid'[u] = paid[u] /\ tokenPaid'[u] = tokenPaid[u]
    BY <1>3 DEF TypeOK, Book, BookToken
  <2>3. QED
    BY <1>1, <2>1, <2>2 DEF TaskBooks
<1>4. QED
  BY <1>2, <1>3

\* What the query returns is open and submitted.
LEMMA LoadOpen ==
    ASSUME TypeOK, Books, NEW q \in Poller, NEW S, S \subseteq Unfinished
    PROVE  \A t \in Load(q, S).todo : Load(q, S).seen[t] \in Open /\ upstream[t] # "idle"
<1> SUFFICES ASSUME NEW t \in S
             PROVE  row[t].status \in Open /\ upstream[t] # "idle"
  BY DEF Load, Unfinished, Poller
<1>1. t \in Tasks /\ row[t].status \notin Final \cup {"none"}
  BY DEF Unfinished
<1>2. row[t].status \in Statuses
  BY <1>1 DEF TypeOK, Row
<1>3. QED
  BY <1>1, <1>2 DEF Books, TaskBooks, Open, Final, Statuses

\* An update of one row against an open reading: the row stays, or goes from
\* open to what is written.
LEMMA SwapRow ==
    ASSUME TypeOK, NEW t \in Tasks, NEW seen \in Open, NEW s, NEW d,
           UpdateWithStatus(t, seen, s, d)
    PROVE  /\ \A u \in Tasks : u # t => row'[u] = row[u]
           /\ Won(t, seen) => row[t].status \in Open /\ row'[t].status = s
           /\ ~Won(t, seen) => row' = row
BY DEF UpdateWithStatus, SetRow, Won, TypeOK

\* One row that is swapped leaves every row as BooksFrame wants it.
LEMMA SwapFrame ==
    ASSUME TypeOK, Books, NEW t \in Tasks, NEW seen \in Open, NEW s \in {"IN_PROGRESS"} \cup Final,
           NEW d, UpdateWithStatus(t, seen, s, d)
    PROVE  \A u \in Tasks : \/ row'[u].status = row[u].status
                            \/ row[u].status \in Open /\ row'[u].status \in Open
                            \/ upstream[u] # "idle" /\ row'[u].status \in Final
<1>1. row[t].status \in Open => upstream[t] # "idle"
  BY DEF Books, TaskBooks, Open
<1>2. "IN_PROGRESS" \in Open
  BY DEF Open
<1>3. QED
  BY <1>1, <1>2, SwapRow

\* The loop's steps keep the ledger.
LEMMA PollBooks ==
    ASSUME ByCompareAndSwap, IInv, NEW p \in Pollers, Poll(p)
    PROVE  Rounds' /\ Books'
<1> DEFINE q == poller[p]
<1>q. q \in Poller
  BY DEF IInv, TypeOK
<1>t. TypeOK /\ Rounds /\ Books
  BY DEF IInv
<1>r. /\ \A t \in q.todo : q.seen[t] \in Open /\ upstream[t] # "idle"
      /\ q.pc = "answered" => /\ q.task \in Tasks /\ q.seen[q.task] \in Open
                              /\ q.answer \in {"IN_PROGRESS"} \cup Final
      /\ q.pc \in {"fund", "token"} => q.task \in Tasks /\ q.delta >= -Quota
      /\ q.pc # "save"
  BY <1>t DEF Rounds
<1>s. \A t \in Tasks : Platform[t] # "suno"
  BY DEF ByCompareAndSwap
<1>b. Quota \in Nat
  BY TaskAssumption
\* The record of a process that is done with its task.
<1>z. /\ Resume(q).todo = q.todo /\ Resume(q).seen = q.seen
      /\ Resume(q).pc \in {"sweep", "poll"}
  BY <1>q DEF Resume, Poller
<1>1. CASE GetTimedOutUnfinishedTasks(p)
  <2> DEFINE l == Load(q, Oldest(TimedOut, SweepLimit))
             n == [l EXCEPT !.pc = "sweep"]
  <2>1. Oldest(TimedOut, SweepLimit) \subseteq Unfinished
    BY DEF Oldest, TimedOut
  <2>2. l \in Poller
    BY <2>1, <1>q, <1>t, LoadType DEF Unfinished
  <2>3. n.todo = l.todo /\ n.seen = l.seen /\ n.pc = "sweep"
    BY <2>2 DEF Poller
  <2>4. Become(p, n) /\ UNCHANGED <<row, paid, tokenPaid, upstream>>
    BY <1>1 DEF GetTimedOutUnfinishedTasks, store, world
  <2>5. \A t \in l.todo : l.seen[t] \in Open /\ upstream[t] # "idle"
    BY <2>1, <1>q, <1>t, LoadOpen
  <2> HIDE DEF l, n
  <2>6. Rounds'
    BY <1>t, <2>3, <2>4, <2>5, RoundsStep
  <2>7. Books'
    BY <1>t, <2>3, <2>4, BooksFrame
  <2>8. QED
    BY <2>6, <2>7
<1>2. CASE SweepTask(p)
  <2>1. PICK t \in q.todo :
          LET q0 == [q EXCEPT !.todo = @ \ {t}, !.phase = "sweep"]
              seen == q0.seen[t]
          IN  /\ q0.pc = "sweep"
              /\ \/ /\ UpdateWithStatus(t, seen, "FAILURE", TRUE)
                    /\ Become(p, IF Won(t, seen) /\ t \notin Legacy /\ Quota # 0
                                 THEN Bill(q0, t, -Quota) ELSE q0)
                 \/ Become(p, q0) /\ UNCHANGED row
                 \/ /\ Become(p, q0)
                    /\ UpdateWithStatus(t, seen, "FAILURE", TRUE)
              /\ UNCHANGED <<paid, tokenPaid, world, clients>>
    BY <1>2, Zenon DEF SweepTask
  <2> DEFINE q0 == [q EXCEPT !.todo = @ \ {t}, !.phase = "sweep"]
             b == Bill(q0, t, -Quota)
  <2>2. q0 \in Poller /\ t \in Tasks
    BY <1>q DEF Poller
  <2>3. q0.todo \subseteq q.todo /\ q0.seen = q.seen /\ q0.pc = "sweep" /\ q.seen[t] \in Open
    BY <2>1, <1>q, <1>r DEF Poller
  <2>4. /\ b.todo = q0.todo /\ b.seen = q0.seen /\ b.pc = "fund" /\ b.task = t
        /\ b.delta = -Quota
    BY <2>2 DEF Bill, Poller
  <2>5. UNCHANGED <<paid, tokenPaid, upstream>>
    BY <2>1 DEF world
  <2>6. "FAILURE" \in Final
    BY DEF Final
  <2>7. \/ /\ UpdateWithStatus(t, q.seen[t], "FAILURE", TRUE)
           /\ Won(t, q.seen[t]) /\ Become(p, b)
        \/ (UpdateWithStatus(t, q.seen[t], "FAILURE", TRUE) \/ UNCHANGED row) /\ Become(p, q0)
    <3>1. q0.seen[t] = q.seen[t]
      BY <2>3
    <3>2. QED
      BY <2>1, <3>1, Zenon
  <2> HIDE DEF q0, b
  <2>8. CASE /\ UpdateWithStatus(t, q.seen[t], "FAILURE", TRUE)
             /\ Won(t, q.seen[t]) /\ Become(p, b)
    <3>1. Rounds'
      BY <1>t, <1>b, <1>r, <2>2, <2>3, <2>4, <2>5, <2>8, RoundsStep
    <3>2. /\ row[t].status \in Open /\ row'[t].status \in Final
          /\ \A u \in Tasks : u # t => row'[u] = row[u]
      BY <1>t, <2>2, <2>3, <2>6, <2>8, SwapRow
    <3>3. Books'
      BY <1>t, <2>2, <2>4, <2>5, <2>8, <3>2, BooksBill
    <3>4. QED
      BY <3>1, <3>3
  <2>9. CASE (UpdateWithStatus(t, q.seen[t], "FAILURE", TRUE) \/ UNCHANGED row) /\ Become(p, q0)
    <3>1. Rounds'
      BY <1>t, <1>r, <2>3, <2>5, <2>9, RoundsStep
    <3>2. Books'
      BY <1>t, <2>2, <2>3, <2>5, <2>6, <2>9, SwapFrame, BooksFrame
    <3>3. QED
      BY <3>1, <3>2
  <2>10. QED
    BY <2>7, <2>8, <2>9
<1>3. CASE GetAllUnFinishSyncTasks(p)
  <2> DEFINE l == Load(q, Oldest(Unfinished, QueryLimit))
             n == [l EXCEPT !.pc = "poll", !.phase = "poll"]
  <2>1. Oldest(Unfinished, QueryLimit) \subseteq Unfinished
    BY DEF Oldest
  <2>2. l \in Poller
    BY <2>1, <1>q, <1>t, LoadType DEF Unfinished
  <2>3. n.todo = l.todo /\ n.seen = l.seen /\ n.pc = "poll"
    BY <2>2 DEF Poller
  <2>4. Become(p, n) /\ UNCHANGED <<row, paid, tokenPaid, upstream>>
    BY <1>3 DEF GetAllUnFinishSyncTasks, store, world
  <2>5. \A t \in l.todo : l.seen[t] \in Open /\ upstream[t] # "idle"
    BY <2>1, <1>q, <1>t, LoadOpen
  <2> HIDE DEF l, n
  <2>6. Rounds'
    BY <1>t, <2>3, <2>4, <2>5, RoundsStep
  <2>7. Books'
    BY <1>t, <2>3, <2>4, BooksFrame
  <2>8. QED
    BY <2>6, <2>7
<1>4. CASE RoundEnds(p)
  <2>1. Idle.todo = {} /\ Idle.pc = "sleep"
    BY DEF Idle
  <2>2. Become(p, Idle) /\ UNCHANGED <<row, paid, tokenPaid, upstream>>
    BY <1>4 DEF RoundEnds, store, world
  <2>3. Rounds'
    BY <1>t, <2>1, <2>2, RoundsStep
  <2>4. Books'
    BY <1>t, <2>1, <2>2, BooksFrame
  <2>5. QED
    BY <2>3, <2>4
<1>5. CASE BulkFail(p)
  <2> DEFINE n == [q EXCEPT !.todo = {}]
  <2>1. n.todo = {} /\ n.pc = "poll"
    BY <1>5, <1>q DEF BulkFail, Poller
  <2>2. Become(p, n) /\ UNCHANGED <<paid, tokenPaid, upstream>>
    BY <1>5 DEF BulkFail, world
  <2>3. \A t \in Tasks : \/ row'[t].status = row[t].status
                         \/ upstream[t] # "idle" /\ row'[t].status \in Final
    BY <1>5, <1>r DEF BulkFail, Final
  <2> HIDE DEF n
  <2>4. Rounds'
    BY <1>t, <2>1, <2>2, RoundsStep
  <2>5. Books'
    BY <1>t, <2>1, <2>2, <2>3, BooksFrame
  <2>6. QED
    BY <2>4, <2>5
<1>6. CASE FetchTask(p)
  <2>1. PICK t \in q.todo :
          LET q0 == [q EXCEPT !.todo = @ \ {t}]
              errors == IF Platform[t] = "suno" THEN {} ELSE {"FAILURE"}
          IN  /\ q0.pc = "poll"
              /\ \/ \E a \in Answers(t) \cup errors :
                      Become(p, [q0 EXCEPT !.pc = "answered", !.task = t, !.answer = a])
                 \/ Become(p, q0)
    BY <1>6, Zenon DEF FetchTask
  <2> DEFINE q0 == [q EXCEPT !.todo = @ \ {t}]
             n(a) == [q0 EXCEPT !.pc = "answered", !.task = t, !.answer = a]
  <2>2. q0 \in Poller /\ t \in Tasks
    BY <1>q DEF Poller
  <2>3. q0.todo \subseteq q.todo /\ q0.seen = q.seen /\ q0.pc = "poll" /\ q.seen[t] \in Open
    BY <2>1, <1>q, <1>r DEF Poller
  <2>4. \A a : /\ n(a).todo = q0.todo /\ n(a).seen = q0.seen /\ n(a).pc = "answered"
               /\ n(a).task = t /\ n(a).answer = a
    BY <2>2 DEF Poller
  <2>5. PICK a \in {"IN_PROGRESS"} \cup Final : Become(p, n(a)) \/ Become(p, q0)
    BY <1>t, <2>1, <2>2, AnswersType DEF Final
  <2>6. UNCHANGED <<row, paid, tokenPaid, upstream>>
    BY <1>6 DEF FetchTask, store, world
  <2>7. /\ n(a).todo = q0.todo /\ n(a).seen = q0.seen /\ n(a).pc = "answered"
        /\ n(a).task = t /\ n(a).answer = a
    BY <2>4
  <2> HIDE DEF q0, n
  <2>8. Rounds'
    BY <1>t, <1>r, <2>2, <2>3, <2>5, <2>6, <2>7, RoundsStep
  <2>9. Books'
    BY <1>t, <2>3, <2>5, <2>6, <2>7, BooksFrame
  <2>10. QED
    BY <2>8, <2>9
<1>7. CASE UpdateVideoTask(p)
  <2> DEFINE t == q.task
             seen == q.seen[t]
  <2>1. /\ q.pc = "answered" /\ t \in Tasks /\ seen \in Open
        /\ q.answer \in {"IN_PROGRESS"} \cup Final
    BY <1>7, <1>r DEF UpdateVideoTask
  <2>2. UNCHANGED <<paid, tokenPaid, upstream>>
    BY <1>7 DEF UpdateVideoTask, world
  <2>3. PICK done \in Complete(q.answer) :
          \/ \E d \in Owed(q.answer) : /\ d # 0 /\ Won(t, seen) /\ Become(p, Bill(q, t, d))
                                       /\ UpdateWithStatus(t, seen, q.answer, done)
          \/ /\ Become(p, Resume(q))
             /\ UpdateWithStatus(t, seen, q.answer, done) \/ UNCHANGED row
    BY <1>7, Zenon DEF UpdateVideoTask
  <2>4. ASSUME NEW d \in Owed(q.answer), d # 0, Won(t, seen), Become(p, Bill(q, t, d)),
               UpdateWithStatus(t, seen, q.answer, done)
        PROVE  Rounds' /\ Books'
    <3> DEFINE b == Bill(q, t, d)
    <3>1. q.answer \in Final
      BY <2>1, <2>4 DEF Owed
    <3>2. d >= -Quota
      BY OwedType
    <3>3. /\ b.todo = q.todo /\ b.seen = q.seen /\ b.pc = "fund" /\ b.task = t
          /\ b.delta = d
      BY <1>q DEF Bill, Poller
    <3>4. Become(p, b)
      BY <2>4
    <3> HIDE DEF b
    <3>5. Rounds'
      BY <1>t, <1>r, <2>1, <2>2, <3>2, <3>3, <3>4, RoundsStep
    <3>6. row[t].status \in Open /\ row'[t].status \in Final /\ \A u \in Tasks : u # t => row'[u] = row[u]
      BY <1>t, <2>1, <2>4, <3>1, SwapRow
    <3>7. Books'
      BY <1>t, <2>1, <2>2, <3>3, <3>4, <3>6, BooksBill
    <3>8. QED
      BY <3>5, <3>7
  <2>5. CASE /\ Become(p, Resume(q))
             /\ UpdateWithStatus(t, seen, q.answer, done) \/ UNCHANGED row
    <3>1. Rounds'
      BY <1>t, <1>r, <1>z, <2>2, <2>5, RoundsStep
    <3>2. \A u \in Tasks : \/ row'[u].status = row[u].status
                           \/ row[u].status \in Open /\ row'[u].status \in Open
                           \/ upstream[u] # "idle" /\ row'[u].status \in Final
      BY <1>t, <2>1, <2>5, SwapFrame
    <3>3. Books'
      BY <1>t, <1>z, <2>2, <2>5, <3>2, BooksFrame
    <3>4. QED
      BY <3>1, <3>3
  <2>6. QED
    BY <2>3, <2>4, <2>5
<1>8. CASE UpdateSunoTask(p)
  BY <1>8, <1>r, <1>s DEF UpdateSunoTask
<1>9. CASE SaveSunoTask(p)
  BY <1>9, <1>r DEF SaveSunoTask
<1>10. CASE AdjustFunding(p)
  <2>1. q.pc = "fund" /\ q.task \in Tasks /\ q.delta >= -Quota /\ q.delta \in Int /\ Bills(p, q.task)
    BY <1>10, <1>r, <1>q DEF AdjustFunding, Poller, Bills
  <2>2. Billed(q) = Resume(q)
    BY <1>s, <2>1 DEF Billed
  <2>3. /\ Funded(q).todo = q.todo /\ Funded(q).seen = q.seen /\ Funded(q).pc = "token"
        /\ Funded(q).task = q.task /\ Funded(q).delta = q.delta
    BY <1>q DEF Funded, Poller
  <2>4. UNCHANGED <<row, upstream, tokenPaid>>
    BY <1>10 DEF AdjustFunding, world
  <2>5. /\ Become(p, Funded(q)) \/ Become(p, Resume(q))
        /\ Book(q.task, q.delta) \/ UNCHANGED paid
    BY <1>10, <2>2 DEF AdjustFunding
  <2>6. Rounds'
    BY <1>t, <1>r, <1>z, <2>1, <2>3, <2>4, <2>5, RoundsStep
  <2>7. CASE Become(p, Funded(q))
    BY <1>t, <2>1, <2>3, <2>4, <2>5, <2>6, <2>7, BooksAdjust
  <2>8. CASE Become(p, Resume(q))
    BY <1>t, <1>z, <2>1, <2>4, <2>5, <2>6, <2>8, BooksAdjust
  <2>9. QED
    BY <2>5, <2>6, <2>7, <2>8
<1>11. CASE AdjustToken(p)
  <2>1. q.pc = "token" /\ q.task \in Tasks /\ q.delta >= -Quota /\ q.delta \in Int /\ Bills(p, q.task)
    BY <1>11, <1>r, <1>q DEF AdjustToken, Poller, Bills
  <2>2. Billed(q) = Resume(q)
    BY <1>s, <2>1 DEF Billed
  <2>3. UNCHANGED <<row, upstream, paid>> /\ Become(p, Resume(q))
    BY <1>11, <2>2 DEF AdjustToken, world
  <2>4. BookToken(q.task, q.delta) \/ UNCHANGED tokenPaid
    BY <1>11 DEF AdjustToken
  <2>5. Rounds'
    BY <1>t, <1>r, <1>z, <2>3, RoundsStep
  <2>6. Books'
    BY <1>t, <1>z, <2>1, <2>3, <2>4, BooksAdjust
  <2>7. QED
    BY <2>5, <2>6
<1>12. QED
  BY <1>1, <1>2, <1>3, <1>4, <1>5, <1>6, <1>7, <1>8, <1>9, <1>10, <1>11 DEF Poll, Loop

\* Every step keeps the ledger.
LEMMA BooksStep == ASSUME ByCompareAndSwap PROVE IInv /\ [Next]_vars => IInv'
<1> SUFFICES ASSUME IInv, [Next]_vars PROVE IInv'
  OBVIOUS
<1>t. TypeOK /\ Rounds /\ Books /\ NoFetches /\ TypeOK'
  BY TypeStep DEF IInv
<1>n. \A c \in Clients : ~RealtimeUpdate(c) /\ \A t \in Tasks : ~ClientFetch(c, t)
  BY <1>t DEF NoFetches, RealtimeUpdate, ClientFetch, ByCompareAndSwap
<1> SUFFICES Rounds' /\ Books' /\ NoFetches'
  BY <1>t DEF IInv
<1>1. ASSUME NEW t \in Tasks, Submit(t) PROVE Rounds' /\ Books' /\ NoFetches'
  <2>1. UNCHANGED <<poller, client>> /\ upstream'[t] # "idle"
    BY <1>1, <1>t DEF Submit, clients, TypeOK
  <2>2. \A u \in Tasks : u # t => /\ row'[u] = row[u] /\ upstream'[u] = upstream[u]
                                  /\ paid'[u] = paid[u] /\ tokenPaid'[u] = tokenPaid[u]
    BY <1>1, <1>t DEF Submit, SetRow, Book, BookToken, TypeOK
  <2>3. Rounds'
    <3>1. \A p \in Pollers : poller[p].todo \subseteq Tasks
      BY <1>t DEF TypeOK, Poller
    <3>2. QED
      BY <1>t, <2>1, <2>2, <3>1 DEF Rounds
  <2>4. ASSUME NEW u \in Tasks PROVE TaskBooks(u)'
    <3>1. TaskBooks(u)
      BY <1>t DEF Books
    <3>2. CASE u # t
      BY <2>1, <2>2, <3>1, <3>2 DEF TaskBooks, Bills
    <3>3. CASE u = t
      <4>1. row[t].status = "none" /\ paid[t] = 0 /\ tokenPaid[t] = 0
        BY <1>1, <3>1, <3>3 DEF TaskBooks, Submit
      <4>2. \A p \in Pollers : ~Bills(p, t)
        BY <3>1, <3>3, <4>1 DEF TaskBooks, Final
      <4>3. paid'[t] = Quota /\ tokenPaid'[t] = Quota
        BY <1>1, <1>t, <4>1, TaskAssumption DEF Submit, Book, BookToken, TypeOK
      <4>4. QED
        BY <2>1, <3>3, <4>2, <4>3, TaskAssumption DEF TaskBooks, Bills
    <3>4. QED
      BY <3>2, <3>3
  <2>5. QED
    BY <1>t, <2>1, <2>3, <2>4 DEF Books, NoFetches
<1>2. ASSUME NEW t \in Tasks, UpstreamEnds(t) PROVE Rounds' /\ Books' /\ NoFetches'
  <2>1. UNCHANGED <<store, poller, client>>
    BY <1>2 DEF UpstreamEnds, clients
  <2>2. \A u \in Tasks : upstream'[u] = "idle" <=> upstream[u] = "idle"
    BY <1>2, <1>t DEF UpstreamEnds, TypeOK
  <2>3. \A p \in Pollers : poller[p].todo \subseteq Tasks
    BY <1>t DEF TypeOK, Poller
  <2>4. Rounds'
    BY <1>t, <2>1, <2>2, <2>3 DEF Rounds
  <2>5. Books'
    BY <1>t, <2>1, <2>2 DEF Books, TaskBooks, Bills, store
  <2>6. QED
    BY <1>t, <2>1, <2>4, <2>5 DEF NoFetches
<1>3. CASE \/ \E t \in Tasks : Expire(t)
           \/ DeleteChannel \/ DeleteToken \/ UNCHANGED vars
  <2>1. UNCHANGED <<store, upstream, poller, client>>
    BY <1>3 DEF Expire, DeleteChannel, DeleteToken, clients, vars, store
  <2>2. QED
    BY <1>t, <2>1 DEF Rounds, Books, TaskBooks, Bills, NoFetches, store
<1>4. ASSUME NEW p \in Pollers, Crash(p) PROVE Rounds' /\ Books' /\ NoFetches'
  <2>1. Idle.todo = {} /\ Idle.pc = "sleep"
    BY DEF Idle
  <2>2. Become(p, Idle) /\ UNCHANGED <<row, paid, tokenPaid, upstream, client>>
    BY <1>4 DEF Crash, store, world, clients
  <2>3. Rounds'
    BY <1>t, <2>1, <2>2, RoundsStep
  <2>4. Books'
    BY <1>t, <2>1, <2>2, BooksFrame
  <2>5. QED
    BY <1>t, <2>2, <2>3, <2>4 DEF NoFetches
<1>5. ASSUME NEW p \in Pollers, Poll(p) PROVE Rounds' /\ Books' /\ NoFetches'
  <2>1. UNCHANGED client
    BY <1>5 DEF Poll, Loop, GetTimedOutUnfinishedTasks, SweepTask, GetAllUnFinishSyncTasks,
       RoundEnds, BulkFail, FetchTask, UpdateVideoTask, UpdateSunoTask, SaveSunoTask,
       AdjustFunding, AdjustToken, clients
  <2>2. QED
    BY <1>t, <1>5, <2>1, PollBooks DEF NoFetches
<1>6. QED
  BY <1>n, <1>1, <1>2, <1>3, <1>4, <1>5 DEF Next

\* The ledger of a gateway without tasks.
LEMMA BooksInit == Init => IInv
<1> SUFFICES ASSUME Init PROVE IInv
  OBVIOUS
<1>1. \A p \in Pollers : poller[p].todo = {} /\ poller[p].pc = "sleep"
  BY DEF Init, Idle
<1>2. Rounds /\ NoFetches
  BY <1>1 DEF Init, Rounds, NoFetches
<1>3. Books
  BY <1>1 DEF Init, Books, TaskBooks, Bills, Open, Final
<1>4. QED
  BY <1>2, <1>3, TypeInit DEF IInv

\* The charge of a task is given back at most once, however many processes
\* sweep and poll it, whichever of their writes are lost or unacknowledged,
\* whichever of them restart and whether or not its channel or token is
\* deleted: the compare-and-swap of UpdateWithStatus suffices for tasks that
\* are written in no other way.
THEOREM TaskRefundedOnce == ASSUME ByCompareAndSwap PROVE Spec => []NoDoubleRefund
<1>1. IInv => NoDoubleRefund
  BY DEF IInv, Books, TaskBooks, NoDoubleRefund
<1>2. QED
  BY <1>1, BooksInit, BooksStep, PTL DEF Spec

-----------------------------------------------------------------------------
(* Final rows. *)

\* Rows change by being inserted or by compare-and-swap against an open reading,
\* as long as the channel exists.
LEMMA FinalStep ==
    ASSUME ByCompareAndSwap, IInv, ~channelGone, [Next]_vars,
           NEW t \in Tasks, row[t].status \in Final
    PROVE  row'[t] = row[t]
<1>t. TypeOK /\ Rounds /\ Books /\ NoFetches
  BY DEF IInv
<1>f. row[t].status \notin Open /\ row[t].status # "none"
  BY DEF Open, Final
<1>s. \A u \in Tasks, seen \in Open : \A s, d : UpdateWithStatus(u, seen, s, d) => row'[t] = row[t]
  BY <1>f, <1>t DEF UpdateWithStatus, SetRow, TypeOK
<1>1. ASSUME NEW u \in Tasks, Submit(u) PROVE row'[t] = row[t]
  <2>1. u # t
    BY <1>1, <1>t, <1>f DEF Submit, Books, TaskBooks
  <2>2. QED
    BY <1>1, <1>t, <2>1 DEF Submit, SetRow, TypeOK
<1>2. ASSUME NEW p \in Pollers, Poll(p) PROVE row'[t] = row[t]
  <2> DEFINE q == poller[p]
  <2>q. q \in Poller
    BY <1>t DEF TypeOK
  <2>r. /\ \A u \in q.todo : u \in Tasks /\ q.seen[u] \in Open
        /\ q.pc = "answered" => q.task \in Tasks /\ q.seen[q.task] \in Open
        /\ q.pc # "save"
    BY <1>t, <2>q DEF Rounds, Poller
  <2>1. CASE SweepTask(p)
    <3>1. PICK u \in q.todo :
            LET q0 == [q EXCEPT !.todo = @ \ {u}, !.phase = "sweep"] IN
            UpdateWithStatus(u, q0.seen[u], "FAILURE", TRUE) \/ UNCHANGED row
      BY <2>1, Zenon DEF SweepTask
    <3>2. [q EXCEPT !.todo = @ \ {u}, !.phase = "sweep"].seen = q.seen
      BY <2>q DEF Poller
    <3>3. UpdateWithStatus(u, q.seen[u], "FAILURE", TRUE) \/ UNCHANGED row
      BY <3>1, <3>2
    <3>4. QED
      BY <3>3, <2>r, <1>s
  <2>2. CASE UpdateVideoTask(p)
    <3>1. PICK done \in Complete(q.answer) :
            UpdateWithStatus(q.task, q.seen[q.task], q.answer, done) \/ UNCHANGED row
      BY <2>2, Zenon DEF UpdateVideoTask
    <3>2. q.task \in Tasks /\ q.seen[q.task] \in Open
      BY <2>2, <2>r DEF UpdateVideoTask
    <3>3. QED
      BY <3>1, <3>2, <1>s
  <2>3. CASE SaveSunoTask(p) \/ BulkFail(p)
    BY <2>3, <2>r DEF SaveSunoTask, BulkFail
  <2>4. CASE \/ GetTimedOutUnfinishedTasks(p) \/ GetAllUnFinishSyncTasks(p) \/ RoundEnds(p)
             \/ FetchTask(p) \/ UpdateSunoTask(p) \/ AdjustFunding(p) \/ AdjustToken(p)
    BY <2>4 DEF GetTimedOutUnfinishedTasks, GetAllUnFinishSyncTasks, RoundEnds, FetchTask,
       UpdateSunoTask, AdjustFunding, AdjustToken, store
  <2>5. QED
    BY <1>2, <2>1, <2>2, <2>3, <2>4 DEF Poll, Loop
<1>3. \A c \in Clients : ~RealtimeUpdate(c) /\ \A u \in Tasks : ~ClientFetch(c, u)
  BY <1>t DEF NoFetches, RealtimeUpdate, ClientFetch, ByCompareAndSwap
<1>4. CASE \/ \E u \in Tasks : UpstreamEnds(u) \/ Expire(u)
           \/ (\E p \in Pollers : Crash(p)) \/ DeleteChannel \/ DeleteToken
           \/ UNCHANGED vars
  BY <1>4 DEF UpstreamEnds, Expire, Crash, DeleteChannel, DeleteToken, store, vars
<1>5. QED
  BY <1>1, <1>2, <1>3, <1>4 DEF Next

\* The channel stays if nobody deletes it.
LEMMA ChannelStep ==
    ASSUME "channel" \notin Disruptions
    PROVE  ~channelGone /\ [Next]_vars => ~channelGone'
BY DEF Next, vars, Submit, UpstreamEnds, Expire, DeleteChannel, DeleteToken, Crash, Disrupt,
   RealtimeUpdate, ClientFetch, Poll, Loop, GetTimedOutUnfinishedTasks, SweepTask,
   GetAllUnFinishSyncTasks, RoundEnds, BulkFail, FetchTask, UpdateVideoTask,
   UpdateSunoTask, SaveSunoTask, AdjustFunding, AdjustToken, world

\* A final row is never replaced by any of the processes, through lost and
\* unacknowledged writes and restarts: a stale reading loses the compare-and-
\* swap.  Only TaskBulkUpdateByID, which fails the tasks of a deleted channel
\* without a comparison, can do it.
THEOREM FinalRowStays ==
    ASSUME ByCompareAndSwap, "channel" \notin Disruptions
    PROVE  Spec => FinalStays
<1> DEFINE Stays == \A t \in Tasks : row[t].status \in Final => row'[t] = row[t]
<1>1. Init => IInv /\ ~channelGone
  BY BooksInit DEF Init
<1>2. IInv /\ ~channelGone /\ [Next]_vars => [Stays]_vars
  BY FinalStep
<1>3. QED
  BY <1>1, <1>2, BooksStep, ChannelStep, PTL DEF Spec, FinalStays

-----------------------------------------------------------------------------
(* The contract, when nothing is disrupted. *)

\* Rows by compare-and-swap, no failing writes, restarts or deletions, and no
\* task from before legacyTaskCutoff, which the sweep does not refund.
Undisrupted == ByCompareAndSwap /\ Disruptions = {} /\ Legacy = {}

Funds(p, t) == poller[p].task = t /\ poller[p].pc = "fund"

\* What a winner is about to book is what the outcome it wrote calls for.
Outcome ==
    /\ ~channelGone
    /\ \A p \in Pollers, t \in Tasks :
         Funds(p, t) => \/ row[t].status = "FAILURE" /\ poller[p].delta = -Quota
                        \/ /\ row[t].status = "SUCCESS"
                           /\ Quota + poller[p].delta \in Actuals \ {0}

CInv == IInv /\ Outcome

\* The contract's view of one task.
LEMMA View ==
    ASSUME TypeOK, NEW t \in Tasks
    PROVE  /\ row[t].status = "none" => ContractState(t) = "none"
           /\ row[t].status \in Open => ContractState(t) = "held"
           /\ (\E p \in Pollers : Funds(p, t)) /\ row[t].status # "none" => ContractState(t) = "held"
           /\ row[t].status \in Final /\ (\A p \in Pollers : ~Funds(p, t)) =>
                ContractState(t) = row[t].status
BY DEF ContractState, Funds, Final, Open

\* The same view after a step.
LEMMA ViewNext ==
    ASSUME TypeOK', NEW t \in Tasks
    PROVE  /\ row'[t].status = "none" => ContractState(t)' = "none"
           /\ row'[t].status \in Open => ContractState(t)' = "held"
           /\ (\E p \in Pollers : Funds(p, t)') /\ row'[t].status # "none" => ContractState(t)' = "held"
           /\ row'[t].status \in Final /\ (\A p \in Pollers : ~Funds(p, t)') =>
                ContractState(t)' = row'[t].status
BY DEF ContractState, Funds, Final, Open

\* Nothing the contract sees of a task has changed.
LEMMA ViewSame ==
    ASSUME NEW t \in Tasks,
           row'[t].status = row[t].status \/ (row[t].status \in Open /\ row'[t].status \in Open),
           \A p \in Pollers : Funds(p, t)' <=> Funds(p, t)
    PROVE  ContractState(t)' = ContractState(t)
BY DEF ContractState, Funds, Final, Open

\* One task moves on in the contract.
LEMMA ViewMove ==
    ASSUME TypeOK, NEW t \in Tasks, NEW from, NEW to, NEW n,
           \A u \in Tasks : u # t => ContractState(u)' = ContractState(u),
           ContractState(t) = from, ContractState(t)' = to,
           paid' = [paid EXCEPT ![t] = n]
    PROVE  Contract!Close(t, from, to, n)
BY DEF Contract!Close

\* A step of the contract, or none.
Moves == [Contract!Next]_<<[t \in Tasks |-> ContractState(t)], paid>>

\* A step after which each task looks as before.
LEMMA Stutter ==
    ASSUME \A t \in Tasks : ContractState(t)' = ContractState(t), UNCHANGED paid
    PROVE  Moves
BY DEF Moves

\* A process that owes no booking, before and after, changes nothing.
LEMMA Quiet ==
    ASSUME TypeOK, Outcome, NEW p \in Pollers, NEW q, Become(p, q),
           poller[p].pc # "fund", q.pc # "fund",
           \A t \in Tasks : \/ row'[t].status = row[t].status
                            \/ row[t].status \in Open /\ row'[t].status \in Open,
           UNCHANGED <<paid, channelGone>>
    PROVE  Outcome' /\ Moves
<1>1. \A o \in Pollers, t \in Tasks : Funds(o, t)' <=> Funds(o, t)
  BY Others DEF Funds
<1>2. \A o \in Pollers, t \in Tasks : Funds(o, t)' => poller'[o] = poller[o]
  BY Others DEF Funds
<1>3. \A t \in Tasks : row[t].status \in Final => row'[t].status = row[t].status
  BY DEF Open, Final
<1>4. Outcome'
  BY <1>1, <1>2, <1>3 DEF Outcome, Final
<1>5. \A t \in Tasks : ContractState(t)' = ContractState(t)
  BY <1>1, ViewSame
<1>6. QED
  BY <1>4, <1>5, Stutter

\* The winner of a closing update that has yet to book: the task is still held.
LEMMA ClosedOwing ==
    ASSUME TypeOK, TypeOK', Books, Outcome, NEW p \in Pollers, NEW q, Become(p, q),
           NEW t \in Tasks, q.task = t, q.pc = "fund", poller[p].pc # "fund",
           row[t].status \in Open, row'[t].status \in Final,
           \A u \in Tasks : u # t => row'[u] = row[u],
           \/ row'[t].status = "FAILURE" /\ q.delta = -Quota
           \/ row'[t].status = "SUCCESS" /\ Quota + q.delta \in Actuals \ {0},
           UNCHANGED <<paid, channelGone>>
    PROVE  Outcome' /\ Moves
<1>1. \A o \in Pollers, u \in Tasks : u # t => (Funds(o, u)' <=> Funds(o, u))
  BY Others DEF Funds
<1>2. \A o \in Pollers : ~Funds(o, t)
  BY DEF Books, TaskBooks, Bills, Funds, Open, Final
<1>3. Funds(p, t)' /\ \A o \in Pollers : Funds(o, t)' => o = p
  BY <1>2, Others DEF Funds
<1>4. \A o \in Pollers, u \in Tasks : u # t /\ Funds(o, u)' => poller'[o] = poller[o]
  BY Others DEF Funds
<1>5. Outcome'
  <2>1. ASSUME NEW o \in Pollers, NEW u \in Tasks, Funds(o, u)'
        PROVE  \/ row'[u].status = "FAILURE" /\ poller'[o].delta = -Quota
               \/ row'[u].status = "SUCCESS" /\ Quota + poller'[o].delta \in Actuals \ {0}
    <3>1. CASE u = t
      <4>1. o = p /\ poller'[p] = q
        BY <2>1, <3>1, <1>3, Others
      <4>2. QED
        BY <3>1, <4>1
    <3>2. CASE u # t
      BY <2>1, <3>2, <1>1, <1>4 DEF Outcome
    <3>3. QED
      BY <3>1, <3>2
  <2>2. QED
    BY <2>1 DEF Outcome
<1>6. ContractState(t) = "held"
  BY View
<1>7. ContractState(t)' = "held"
  <2>1. row'[t].status # "none"
    BY DEF Final
  <2>2. QED
    BY <1>3, <2>1, ViewNext
<1>8. \A u \in Tasks : u # t => ContractState(u)' = ContractState(u)
  BY <1>1, ViewSame
<1>9. QED
  BY <1>5, <1>6, <1>7, <1>8, Stutter

\* The winner of a closing update that owes nothing: the task is closed at the
\* quota it was charged.
LEMMA ClosedEven ==
    ASSUME TypeOK, TypeOK', Books, Outcome, NEW p \in Pollers, NEW q, Become(p, q),
           NEW t \in Tasks, q.pc # "fund", poller[p].pc # "fund",
           row[t].status \in Open, row'[t].status \in Final,
           \A u \in Tasks : u # t => row'[u] = row[u],
           row'[t].status = "FAILURE" => Quota = 0,
           UNCHANGED <<paid, channelGone>>
    PROVE  Outcome' /\ Moves
<1>1. \A o \in Pollers, u \in Tasks : Funds(o, u)' <=> Funds(o, u)
  BY Others DEF Funds
<1>2. \A o \in Pollers : ~Funds(o, t)
  BY DEF Books, TaskBooks, Bills, Funds, Open, Final
<1>3. \A o \in Pollers, u \in Tasks : Funds(o, u)' => poller'[o] = poller[o] /\ u # t
  BY <1>1, <1>2, Others DEF Funds
<1>4. Outcome'
  BY <1>1, <1>3 DEF Outcome
<1>5. ContractState(t) = "held" /\ ContractState(t)' = row'[t].status
  BY <1>1, <1>2, View, ViewNext
<1>6. \A u \in Tasks : u # t => ContractState(u)' = ContractState(u)
  BY <1>1, ViewSame
<1>7. paid[t] = Quota /\ paid' = [paid EXCEPT ![t] = Quota]
  BY DEF Books, TaskBooks, TypeOK
<1>8. CASE row'[t].status = "SUCCESS"
  <2>1. Contract!Close(t, "held", "SUCCESS", Quota)
    BY <1>5, <1>6, <1>7, <1>8, ViewMove
  <2>2. QED
    BY <1>4, <2>1 DEF Moves, Contract!Next, Contract!Succeed
<1>9. CASE row'[t].status = "FAILURE"
  <2>1. Contract!Close(t, "held", "FAILURE", 0)
    BY <1>5, <1>6, <1>7, <1>9, ViewMove
  <2>2. QED
    BY <1>4, <2>1 DEF Moves, Contract!Next, Contract!Fail
<1>10. QED
  BY <1>8, <1>9 DEF Final

\* The booking of the winner closes the task.
LEMMA ClosedByBooking ==
    ASSUME TypeOK, TypeOK', Books, Outcome, NEW p \in Pollers, NEW q, Become(p, q),
           NEW t \in Tasks, Funds(p, t), q.pc # "fund",
           UNCHANGED <<row, channelGone>>,
           \/ Book(t, poller[p].delta)
           \/ poller[p].delta > 0 /\ UNCHANGED paid
    PROVE  Outcome' /\ Moves
<1> DEFINE d == poller[p].delta
<1>1. \A o \in Pollers, u \in Tasks : u # t => (Funds(o, u)' <=> Funds(o, u))
  BY Others DEF Funds
<1>2. \A o \in Pollers : Funds(o, t) => o = p
  BY DEF Books, TaskBooks, Bills, Funds
<1>3. \A o \in Pollers : ~Funds(o, t)'
  BY <1>2, Others DEF Funds
<1>4. \A o \in Pollers, u \in Tasks : Funds(o, u)' => poller'[o] = poller[o] /\ u # t
  BY <1>3, Others DEF Funds
<1>5. Outcome'
  BY <1>1, <1>4 DEF Outcome
<1>6. \/ row[t].status = "FAILURE" /\ d = -Quota
      \/ row[t].status = "SUCCESS" /\ Quota + d \in Actuals \ {0}
  BY DEF Outcome
<1>7. ContractState(t) = "held" /\ ContractState(t)' = row[t].status
  BY <1>3, <1>6, View, ViewNext DEF Final
<1>8. \A u \in Tasks : u # t => ContractState(u)' = ContractState(u)
  BY <1>1, ViewSame
<1>9. paid[t] = Quota /\ Quota \in Nat /\ d \in Int
  BY TaskAssumption DEF Books, TaskBooks, Bills, Funds, TypeOK, Poller
<1>10. \/ paid' = [paid EXCEPT ![t] = Quota + d]
       \/ d > 0 /\ paid' = [paid EXCEPT ![t] = Quota]
  BY <1>9 DEF Book, TypeOK
<1>11. CASE row[t].status = "SUCCESS"
  <2>1. PICK n \in {Quota} \cup (Actuals \ {0}) : paid' = [paid EXCEPT ![t] = n]
    BY <1>6, <1>10, <1>11
  <2>2. Contract!Close(t, "held", "SUCCESS", n)
    BY <1>7, <1>8, <1>11, <2>1, ViewMove
  <2>3. QED
    BY <1>5, <2>1, <2>2 DEF Moves, Contract!Next, Contract!Succeed
<1>12. CASE row[t].status = "FAILURE"
  <2>1. paid' = [paid EXCEPT ![t] = 0]
    BY <1>6, <1>9, <1>10, <1>12
  <2>2. Contract!Close(t, "held", "FAILURE", 0)
    BY <1>7, <1>8, <1>12, <2>1, ViewMove
  <2>3. QED
    BY <1>5, <2>2 DEF Moves, Contract!Next, Contract!Fail
<1>13. QED
  BY <1>6, <1>11, <1>12

\* The loop's steps are steps of the contract.
LEMMA PollMoves ==
    ASSUME Undisrupted, CInv, TypeOK', NEW p \in Pollers, Poll(p)
    PROVE  Outcome' /\ Moves
<1> DEFINE q == poller[p]
<1>t. TypeOK /\ Rounds /\ Books /\ Outcome
  BY DEF CInv, IInv
<1>q. q \in Poller
  BY <1>t DEF TypeOK
<1>r. /\ \A t \in q.todo : t \in Tasks /\ q.seen[t] \in Open
      /\ q.pc = "answered" => /\ q.task \in Tasks /\ q.seen[q.task] \in Open
                              /\ q.answer \in {"IN_PROGRESS"} \cup Final
      /\ q.pc \in {"fund", "token"} => q.task \in Tasks
      /\ q.pc # "save"
  BY <1>t, <1>q DEF Rounds, Poller
<1>d. \A k : ~Disrupt(k)
  BY DEF Undisrupted, Disrupt
<1>s. \A t \in Tasks : Platform[t] # "suno" /\ t \notin Legacy
  BY DEF Undisrupted, ByCompareAndSwap
<1>z. Resume(q).pc # "fund"
  BY <1>q DEF Resume, Poller
<1>1. CASE GetTimedOutUnfinishedTasks(p)
  <2> DEFINE l == Load(q, Oldest(TimedOut, SweepLimit))
             n == [l EXCEPT !.pc = "sweep"]
  <2>1. Oldest(TimedOut, SweepLimit) \in SUBSET Tasks
    BY DEF Oldest, TimedOut, Unfinished
  <2>2. l \in Poller
    BY <2>1, <1>q, <1>t, LoadType
  <2>3. n.pc = "sweep"
    BY <2>2 DEF Poller
  <2>4. q.pc = "sleep" /\ Become(p, n) /\ UNCHANGED <<row, paid, channelGone>>
    BY <1>1 DEF GetTimedOutUnfinishedTasks, store, world
  <2> HIDE DEF n
  <2>5. QED
    BY <1>t, <2>3, <2>4, Quiet
<1>2. CASE SweepTask(p)
  <2>1. PICK t \in q.todo :
          LET q0 == [q EXCEPT !.todo = @ \ {t}, !.phase = "sweep"]
              seen == q0.seen[t]
          IN  /\ q0.pc = "sweep"
              /\ UpdateWithStatus(t, seen, "FAILURE", TRUE)
              /\ Become(p, IF Won(t, seen) /\ t \notin Legacy /\ Quota # 0
                           THEN Bill(q0, t, -Quota) ELSE q0)
              /\ UNCHANGED <<paid, tokenPaid, world, clients>>
    BY <1>2, <1>d, Zenon DEF SweepTask
  <2> DEFINE q0 == [q EXCEPT !.todo = @ \ {t}, !.phase = "sweep"]
             b == Bill(q0, t, -Quota)
  <2>2. q0 \in Poller /\ t \in Tasks /\ q.seen[t] \in Open
    BY <1>q, <1>r DEF Poller
  <2>3. q0.seen = q.seen /\ q0.pc = "sweep" /\ q.pc = "sweep"
    BY <2>1, <1>q DEF Poller
  <2>4. b.pc = "fund" /\ b.task = t /\ b.delta = -Quota
    BY <2>2 DEF Bill, Poller
  <2>5. UNCHANGED <<paid, channelGone>>
    BY <2>1 DEF world
  <2>6. /\ UpdateWithStatus(t, q.seen[t], "FAILURE", TRUE)
        /\ IF Won(t, q.seen[t]) /\ Quota # 0 THEN Become(p, b) ELSE Become(p, q0)
    <3>1. q0.seen[t] = q.seen[t] /\ t \notin Legacy
      BY <2>2, <2>3, <1>s
    <3>2. QED
      BY <2>1, <3>1, Zenon
  <2>7. "FAILURE" \in Final
    BY DEF Final
  <2>8. /\ \A u \in Tasks : u # t => row'[u] = row[u]
        /\ Won(t, q.seen[t]) => row[t].status \in Open /\ row'[t].status = "FAILURE"
        /\ ~Won(t, q.seen[t]) => row' = row
    BY <1>t, <2>2, <2>6, SwapRow
  <2> HIDE DEF q0, b
  <2>9. CASE Won(t, q.seen[t]) /\ Quota # 0
    BY <1>t, <2>2, <2>3, <2>4, <2>5, <2>6, <2>7, <2>8, <2>9, ClosedOwing
  <2>10. CASE Won(t, q.seen[t]) /\ Quota = 0
    BY <1>t, <2>2, <2>3, <2>5, <2>6, <2>7, <2>8, <2>10, ClosedEven
  <2>11. CASE ~Won(t, q.seen[t])
    BY <1>t, <2>3, <2>5, <2>6, <2>8, <2>11, Quiet
  <2>12. QED
    BY <2>9, <2>10, <2>11
<1>3. CASE GetAllUnFinishSyncTasks(p)
  <2> DEFINE l == Load(q, Oldest(Unfinished, QueryLimit))
             n == [l EXCEPT !.pc = "poll", !.phase = "poll"]
  <2>1. Oldest(Unfinished, QueryLimit) \in SUBSET Tasks
    BY DEF Oldest, Unfinished
  <2>2. l \in Poller
    BY <2>1, <1>q, <1>t, LoadType
  <2>3. n.pc = "poll"
    BY <2>2 DEF Poller
  <2>4. q.pc = "sweep" /\ Become(p, n) /\ UNCHANGED <<row, paid, channelGone>>
    BY <1>3 DEF GetAllUnFinishSyncTasks, store, world
  <2> HIDE DEF n
  <2>5. QED
    BY <1>t, <2>3, <2>4, Quiet
<1>4. CASE RoundEnds(p)
  <2>1. Idle.pc = "sleep"
    BY DEF Idle
  <2>2. q.pc = "poll" /\ Become(p, Idle) /\ UNCHANGED <<row, paid, channelGone>>
    BY <1>4 DEF RoundEnds, store, world
  <2>3. QED
    BY <1>t, <2>1, <2>2, Quiet
<1>5. CASE BulkFail(p)
  BY <1>5, <1>t DEF BulkFail, Outcome
<1>6. CASE FetchTask(p)
  <2>1. PICK t \in q.todo :
          LET q0 == [q EXCEPT !.todo = @ \ {t}]
              errors == IF Platform[t] = "suno" THEN {} ELSE {"FAILURE"}
          IN  /\ q0.pc = "poll"
              /\ \/ \E a \in Answers(t) \cup errors :
                      Become(p, [q0 EXCEPT !.pc = "answered", !.task = t, !.answer = a])
                 \/ Become(p, q0)
    BY <1>6, Zenon DEF FetchTask
  <2> DEFINE q0 == [q EXCEPT !.todo = @ \ {t}]
             n(a) == [q0 EXCEPT !.pc = "answered", !.task = t, !.answer = a]
  <2>2. q0 \in Poller
    BY <1>q DEF Poller
  <2>3. q0.pc = "poll" /\ q.pc = "poll"
    BY <2>1, <1>q DEF Poller
  <2>4. \A a : n(a).pc = "answered"
    BY <2>2 DEF Poller
  <2>5. PICK a : Become(p, n(a)) \/ Become(p, q0)
    BY <2>1, Zenon
  <2>6. UNCHANGED <<row, paid, channelGone>>
    BY <1>6 DEF FetchTask, store, world
  <2>7. n(a).pc = "answered"
    BY <2>4
  <2> HIDE DEF q0, n
  <2>8. QED
    BY <1>t, <2>3, <2>5, <2>6, <2>7, Quiet
<1>7. CASE UpdateVideoTask(p)
  <2> DEFINE t == q.task
             seen == q.seen[t]
  <2>1. /\ q.pc = "answered" /\ t \in Tasks /\ seen \in Open
        /\ q.answer \in {"IN_PROGRESS"} \cup Final
    BY <1>7, <1>r DEF UpdateVideoTask
  <2>2. UNCHANGED <<paid, channelGone>>
    BY <1>7 DEF UpdateVideoTask, world
  <2>3. PICK d \in Owed(q.answer), done \in Complete(q.answer) :
          /\ UpdateWithStatus(t, seen, q.answer, done)
          /\ Become(p, IF Won(t, seen) /\ d # 0 THEN Bill(q, t, d) ELSE Resume(q))
    BY <1>7, <1>d, Zenon DEF UpdateVideoTask
  <2>4. /\ \A u \in Tasks : u # t => row'[u] = row[u]
        /\ Won(t, seen) => row[t].status \in Open /\ row'[t].status = q.answer
        /\ ~Won(t, seen) => row' = row
    BY <1>t, <2>1, <2>3, SwapRow
  <2>5. \/ q.answer = "FAILURE" /\ d = -Quota
        \/ q.answer = "SUCCESS" /\ (d = 0 \/ Quota + d \in Actuals \ {0})
        \/ q.answer = "IN_PROGRESS" /\ d = 0
    BY <2>1, TaskAssumption DEF Owed, Settlement, Final
  <2>6. CASE ~Won(t, seen)
    BY <1>t, <1>z, <2>1, <2>2, <2>3, <2>4, <2>6, Quiet
  <2>7. CASE Won(t, seen) /\ q.answer = "IN_PROGRESS"
    <3>1. Become(p, Resume(q))
      BY <2>3, <2>5, <2>7
    <3>2. row'[t].status \in Open
      BY <2>4, <2>7 DEF Open
    <3>3. QED
      BY <1>t, <1>z, <2>1, <2>2, <2>4, <2>7, <3>1, <3>2, Quiet
  <2>8. CASE Won(t, seen) /\ q.answer \in Final /\ d = 0
    <3>1. Become(p, Resume(q)) /\ (q.answer = "FAILURE" => Quota = 0)
      BY <2>3, <2>5, <2>8, TaskAssumption
    <3>2. QED
      BY <1>t, <1>z, <2>1, <2>2, <2>4, <2>8, <3>1, ClosedEven
  <2>9. CASE Won(t, seen) /\ q.answer \in Final /\ d # 0
    <3> DEFINE b == Bill(q, t, d)
    <3>1. b.pc = "fund" /\ b.task = t /\ b.delta = d
      BY <1>q DEF Bill, Poller
    <3>2. Become(p, b)
      BY <2>3, <2>9
    <3>3. \/ row'[t].status = "FAILURE" /\ b.delta = -Quota
          \/ row'[t].status = "SUCCESS" /\ Quota + b.delta \in Actuals \ {0}
      BY <2>4, <2>5, <2>9, <3>1
    <3> HIDE DEF b
    <3>4. QED
      BY <1>t, <2>1, <2>2, <2>4, <2>9, <3>1, <3>2, <3>3, ClosedOwing
  <2>10. QED
    BY <2>1, <2>6, <2>7, <2>8, <2>9
<1>8. CASE UpdateSunoTask(p)
  BY <1>8, <1>r, <1>s DEF UpdateSunoTask
<1>9. CASE SaveSunoTask(p)
  BY <1>9, <1>r DEF SaveSunoTask
<1>10. CASE AdjustFunding(p)
  <2>1. q.pc = "fund" /\ q.task \in Tasks /\ Funds(p, q.task)
    BY <1>10, <1>r DEF AdjustFunding, Funds
  <2>2. Billed(q) = Resume(q)
    BY <1>s, <2>1 DEF Billed
  <2>3. Funded(q).pc = "token"
    BY <1>q DEF Funded, Poller
  <2>4. /\ Become(p, Funded(q)) \/ Become(p, Resume(q))
        /\ Book(q.task, q.delta) \/ (q.delta > 0 /\ UNCHANGED paid)
        /\ UNCHANGED <<row, channelGone>>
    BY <1>10, <1>d, <2>2 DEF AdjustFunding, world
  <2>5. QED
    BY <1>t, <1>z, <2>1, <2>3, <2>4, ClosedByBooking
<1>11. CASE AdjustToken(p)
  <2>1. q.pc = "token" /\ q.task \in Tasks
    BY <1>11, <1>r DEF AdjustToken
  <2>2. Billed(q) = Resume(q)
    BY <1>s, <2>1 DEF Billed
  <2>3. Become(p, Resume(q)) /\ UNCHANGED <<row, paid, channelGone>>
    BY <1>11, <2>2 DEF AdjustToken, world
  <2>4. QED
    BY <1>t, <1>z, <2>1, <2>3, Quiet
<1>12. QED
  BY <1>1, <1>2, <1>3, <1>4, <1>5, <1>6, <1>7, <1>8, <1>9, <1>10, <1>11 DEF Poll, Loop

\* Every step is a step of the contract, or none.
LEMMA NextMoves == ASSUME Undisrupted PROVE CInv /\ [Next]_vars => CInv' /\ Moves
<1> SUFFICES ASSUME CInv, [Next]_vars PROVE CInv' /\ Moves
  OBVIOUS
<1>t. ByCompareAndSwap /\ IInv /\ TypeOK /\ Books /\ NoFetches /\ Outcome /\ IInv' /\ TypeOK'
  BY BooksStep DEF CInv, IInv, Undisrupted
<1>d. \A k : ~Disrupt(k)
  BY DEF Undisrupted, Disrupt
<1> SUFFICES Outcome' /\ Moves
  BY <1>t DEF CInv
<1>1. ASSUME NEW t \in Tasks, Submit(t) PROVE Outcome' /\ Moves
  <2>1. /\ row[t].status = "none" /\ row'[t].status = "NOT_START"
        /\ \A u \in Tasks : u # t => row'[u] = row[u]
    BY <1>1, <1>t, <1>d DEF Submit, SetRow, Books, TaskBooks, TypeOK
  <2>2. UNCHANGED <<poller, channelGone>>
    BY <1>1 DEF Submit
  <2>3. \A p \in Pollers : ~Funds(p, t)
    BY <1>t, <2>1 DEF Books, TaskBooks, Bills, Funds, Final
  <2>4. \A p \in Pollers, u \in Tasks : Funds(p, u)' <=> Funds(p, u)
    BY <2>2 DEF Funds
  <2>5. Outcome'
    BY <1>t, <2>1, <2>2, <2>3, <2>4 DEF Outcome
  <2>6. paid' = [paid EXCEPT ![t] = Quota]
    <3>1. paid[t] = 0 /\ 0 + Quota = Quota
      BY <1>1, <1>t, TaskAssumption DEF Submit, Books, TaskBooks
    <3>2. QED
      BY <1>1, <3>1 DEF Submit, Book
  <2>7. ContractState(t) = "none" /\ ContractState(t)' = "held"
    BY <1>t, <2>1, View, ViewNext DEF Open
  <2>8. \A u \in Tasks : u # t => ContractState(u)' = ContractState(u)
    BY <2>1, <2>4, ViewSame
  <2>9. Contract!Close(t, "none", "held", Quota)
    BY <1>t, <2>6, <2>7, <2>8, ViewMove
  <2>10. QED
    BY <2>5, <2>9 DEF Moves, Contract!Next, Contract!Submit
<1>2. CASE \/ \E t \in Tasks : UpstreamEnds(t) \/ Expire(t)
           \/ UNCHANGED vars
  <2>1. UNCHANGED <<row, paid, poller, channelGone>>
    BY <1>2 DEF UpstreamEnds, Expire, vars, store
  <2>2. \A p \in Pollers, u \in Tasks : Funds(p, u)' <=> Funds(p, u)
    BY <2>1 DEF Funds
  <2>3. Outcome'
    BY <1>t, <2>1, <2>2 DEF Outcome
  <2>4. \A u \in Tasks : ContractState(u)' = ContractState(u)
    BY <2>1, <2>2, ViewSame
  <2>5. QED
    BY <2>1, <2>3, <2>4, Stutter
<1>3. ~DeleteChannel /\ ~DeleteToken /\ \A p \in Pollers : ~Crash(p)
  BY <1>d DEF DeleteChannel, DeleteToken, Crash
<1>4. \A c \in Clients : ~RealtimeUpdate(c) /\ \A t \in Tasks : ~ClientFetch(c, t)
  BY <1>t DEF NoFetches, RealtimeUpdate, ClientFetch, ByCompareAndSwap
<1>5. ASSUME NEW p \in Pollers, Poll(p) PROVE Outcome' /\ Moves
  BY <1>5, <1>t, PollMoves
<1>6. QED
  BY <1>1, <1>2, <1>3, <1>4, <1>5 DEF Next

\* For any number of tasks and of polling processes, any quotas and any limits
\* per query, the processes together keep TaskContract as long as nothing is
\* disrupted: a task is closed once, at no cost if it failed and at the
\* submitted or the actual quota if it succeeded, whoever wins its row.
THEOREM PollingImplementsContract ==
    ASSUME Undisrupted
    PROVE  Spec => ImplementsContract
<1>1. Init => CInv
  <2>1. Init => Outcome
    BY DEF Init, Outcome, Funds, Idle
  <2>2. QED
    BY <2>1, BooksInit DEF CInv
<1>2. Init => Contract!Init
  BY DEF Init, Contract!Init, ContractState
<1>3. QED
  BY <1>1, <1>2, NextMoves, PTL DEF Spec, ImplementsContract, Contract!Spec, Moves
=============================================================================
