--------------------------- MODULE PaymentsProofs ---------------------------
(***************************************************************************)
(* Proofs about Payments, for any orders, processes, duplicates and        *)
(* faults: no process makes an order good twice, because LockOrder         *)
(* serialises its requests about it and no order becomes pending again;    *)
(* on one process the status of an order tells whether it was made good;   *)
(* and only a stale count exceeds the limit on purchases.                  *)
(***************************************************************************)
EXTENDS Payments, TLAPS

\* The requests that have the lock of their order.
Holds(r) == r.pc \notin {"idle", "lock"}

\* The requests that have read the row.
Read(r) == r.pc \in {"plain", "tx", "credit"}

\* An order with such a status is not completed any more.
Told(s) == s \in {"success", "expired"}

\* A request is about an order that exists, and on one of the processes.
Known ==
    /\ \A h \in Handlers : handler[h].pc # "idle" =>
         /\ handler[h].order \in Orders /\ handler[h].node \in Nodes
         /\ status[handler[h].order] # "none"
    /\ \A o \in Orders : fate[o] # "open" => status[o] # "none"

\* Requests of one process about one order exclude each other.
Mutex ==
    \A g, h \in Handlers :
        /\ g # h
        /\ handler[g].order = handler[h].order /\ handler[g].node = handler[h].node
        => ~(Holds(handler[g]) /\ Holds(handler[h]))

\* The process of a request that read its order as pending has not made it good.
Fresh ==
    \A h \in Handlers :
        /\ Read(handler[h]) /\ handler[h].seen = Pending =>
             credits[handler[h].order][handler[h].node] = 0
        /\ handler[h].pc = "credit" =>
             handler[h].seen = Pending /\ Told(status[handler[h].order])

\* An order that was made good is not pending any more.
CreditsTold ==
    \A o \in Orders, n \in Nodes :
        credits[o][n] <= 1 /\ (credits[o][n] # 0 => Told(status[o]))

IInv == TypeOK /\ Known /\ Mutex /\ Fresh /\ CreditsTold

-----------------------------------------------------------------------------
(* Type correctness. *)

\* A free slot is a handler.
LEMMA IdleType == Idle \in Handler
BY DEF Idle, Handler, Kinds

\* Worth is a number of quota units.
LEMMA WorthType == ASSUME NEW o \in TopUps PROVE Worth(o) \in Nat /\ Amount * QuotaPerUnit \in Nat
BY PaymentsAssumption DEF Worth

\* A finished request leaves the types as they are.
LEMMA EndType ==
    ASSUME TypeOK, NEW h \in Handlers, NEW ok \in BOOLEAN, End(h, ok)
    PROVE  /\ handler' \in [Handlers -> Handler]
           /\ acked' \in [Orders -> BOOLEAN]
           /\ fate' \in [Orders -> {"open", "closed", "paid", "expired"}]
           /\ requests' \in Nat
<1>1. handler' \in [Handlers -> Handler]
  BY IdleType DEF TypeOK, End, Become
<1>2. acked' \in [Orders -> BOOLEAN]
  BY Zenon DEF TypeOK, End
<1>3. QED
  BY <1>1, <1>2 DEF TypeOK, End

BooksType ==
    credits \in [Orders -> [Nodes -> Nat]] /\ credited \in [Orders -> Nat] /\ owned \in Nat

\* A credit of a number keeps the books numbers.
LEMMA CreditType ==
    ASSUME TypeOK, NEW r, r.order \in Orders, r.node \in Nodes, NEW q \in Nat, Credit(r, q)
    PROVE  BooksType'
<1>1. credits' \in [Orders -> [Nodes -> Nat]]
  BY DEF TypeOK, Credit
<1>2. credited' \in [Orders -> Nat] /\ owned' \in Nat
  BY DEF TypeOK, Credit
<1>3. QED
  BY <1>1, <1>2 DEF BooksType

StatusType == status \in [Orders -> {"none", "pending", "success", "expired"}]

\* A write to an order's row keeps the statuses well typed.
LEMMA SetStatusType ==
    ASSUME TypeOK, NEW o \in Orders, NEW v \in {"pending", "success", "expired"}, SetStatus(o, v)
    PROVE  StatusType'
BY DEF TypeOK, SetStatus, StatusType

\* The failure counter stays a number.
LEMMA FaultType ==
    ASSUME TypeOK, Fault \/ NoFault
    PROVE  faults' \in Nat
BY DEF TypeOK, Fault, NoFault

\* The completing transaction, committed or rolled back, keeps the types.
LEMMA CompleteType ==
    ASSUME TypeOK, NEW h \in Handlers, handler[h].order \in Orders,
           handler[h].node \in Nodes, NEW q \in Nat, CompleteInTx(h, q)
    PROVE  TypeOK'
<1> DEFINE o == handler[h].order
<1>1. CASE SetStatus(o, "success") /\ Credit(handler[h], q) /\ End(h, TRUE) /\ NoFault
  <2>1. StatusType'
    BY <1>1, SetStatusType
  <2>2. BooksType'
    BY <1>1, CreditType
  <2>3. QED
    BY <1>1, <2>1, <2>2, EndType, FaultType DEF TypeOK, StatusType, BooksType
<1>2. CASE UNCHANGED rows /\ End(h, FALSE) /\ Fault
  BY <1>2, EndType, FaultType DEF TypeOK, rows
<1>3. QED
  BY <1>1, <1>2 DEF CompleteInTx

\* Requests that end without completing anything.
LEMMA TurnedAwayType ==
    ASSUME TypeOK, NEW h \in Handlers, NEW ok \in BOOLEAN, UNCHANGED rows, End(h, ok), NoFault
    PROVE  TypeOK'
BY EndType, FaultType DEF TypeOK, rows

\* A request that arrives occupies its slot with a well-typed record.
LEMMA NewHandlerType ==
    ASSUME TypeOK, NEW h \in Handlers, NEW n \in Nodes, NEW o \in Orders, NEW k \in Kinds,
           Become(h, [Idle EXCEPT !.pc = "lock", !.kind = k, !.order = o, !.node = n])
    PROVE  handler' \in [Handlers -> Handler]
<1>1. [Idle EXCEPT !.pc = "lock", !.kind = k, !.order = o, !.node = n] \in Handler
  BY DEF Idle, Handler
<1>2. QED
  BY <1>1 DEF TypeOK, Become

\* Every step of a request keeps the types.
LEMMA StepType == ASSUME TypeOK, Known, NEW h \in Handlers, Step(h) PROVE TypeOK'
<1> DEFINE r == handler[h]
<1>0. r \in Handler
  BY DEF TypeOK
<1>a. r.pc # "idle" => r.order \in Orders /\ r.node \in Nodes
  BY DEF Known
<1>1. CASE LockOrder(h)
  <2>1. [r EXCEPT !.pc = "locked"] \in Handler
    BY <1>0 DEF Handler
  <2>2. QED
    BY <1>1, <2>1 DEF TypeOK, LockOrder, Become, rows
<1>2. CASE ReadOrder(h)
  <2> DEFINE saw == [r EXCEPT !.seen = status[r.order], !.count = owned]
  <2>1. r.order \in Orders
    BY <1>2, <1>a DEF ReadOrder
  <2>2. saw \in Handler /\ [saw EXCEPT !.pc = "plain"] \in Handler
           /\ [saw EXCEPT !.pc = "tx"] \in Handler
    BY <1>0, <2>1 DEF TypeOK, Handler
  <2>3. \/ Become(h, [saw EXCEPT !.pc = "plain"])
        \/ Become(h, [saw EXCEPT !.pc = "tx"])
    BY <1>2 DEF ReadOrder
  <2> HIDE DEF saw
  <2>4. handler' \in [Handlers -> Handler]
    BY <2>2, <2>3 DEF TypeOK, Become
  <2>5. QED
    BY <1>2, <2>4 DEF TypeOK, ReadOrder, rows
<1>3. CASE Recharge(h)
  <2>1. r.order \in Orders /\ r.order \in TopUps /\ r.node \in Nodes
    BY <1>3, <1>a DEF Recharge, InTx, Orders
  <2>2. CASE CompleteInTx(h, Worth(r.order))
    BY <2>1, <2>2, WorthType, CompleteType
  <2>3. ASSUME UNCHANGED rows, NoFault, NEW ok \in BOOLEAN, End(h, ok) PROVE TypeOK'
    BY <2>3, TurnedAwayType
  <2>4. QED
    BY <1>3, <2>2, <2>3 DEF Recharge
<1>4. CASE ManualCompleteTopUp(h)
  <2>1. r.order \in Orders /\ r.order \in TopUps /\ r.node \in Nodes
    BY <1>4, <1>a DEF ManualCompleteTopUp, InTx, Orders
  <2>2. CASE CompleteInTx(h, Amount * QuotaPerUnit)
    BY <2>1, <2>2, WorthType, CompleteType
  <2>3. CASE UNCHANGED rows /\ End(h, FALSE) /\ NoFault
    BY <2>3, TurnedAwayType
  <2>4. QED
    BY <1>4, <2>2, <2>3 DEF ManualCompleteTopUp
<1>5. CASE CompleteSubscriptionOrder(h)
  <2>1. r.order \in Orders /\ r.node \in Nodes
    BY <1>5, <1>a DEF CompleteSubscriptionOrder, InTx, Orders
  <2>2. CASE CompleteInTx(h, 0)
    BY <2>1, <2>2, CompleteType
  <2>3. CASE UNCHANGED rows /\ End(h, r.seen = "success") /\ NoFault
    <3>1. (r.seen = "success") \in BOOLEAN
      OBVIOUS
    <3>2. QED
      BY <2>3, <3>1, TurnedAwayType
  <2>4. QED
    BY <1>5, <2>2, <2>3 DEF CompleteSubscriptionOrder
<1>6. CASE ExpireSubscriptionOrder(h)
  <2>1. r.order \in Orders
    BY <1>6 DEF ExpireSubscriptionOrder, InTx, Orders
  <2>2. StatusType'
    BY <1>6, <2>1, SetStatusType DEF ExpireSubscriptionOrder, TypeOK, StatusType
  <2>3. QED
    BY <1>6, <2>2, EndType, FaultType DEF ExpireSubscriptionOrder, NoCredit, TypeOK, StatusType
<1>7. CASE SessionExpired(h)
  <2>1. r.order \in Orders
    BY <1>7, <1>a DEF SessionExpired
  <2>2. StatusType'
    BY <1>7, <2>1, SetStatusType DEF SessionExpired, TypeOK, StatusType
  <2>3. QED
    BY <1>7, <2>2, EndType, FaultType DEF SessionExpired, NoCredit, TypeOK, StatusType
<1>8. CASE EpayUpdate(h)
  <2>1. r.order \in Orders
    BY <1>8, <1>a DEF EpayUpdate
  <2>2. StatusType'
    BY <1>8, <2>1, SetStatusType DEF EpayUpdate, TypeOK, StatusType
  <2>3. Saved(r) \in Handler
    BY <1>0 DEF Saved, Handler
  <2>4. handler' \in [Handlers -> Handler]
    BY <1>8, <2>3, IdleType DEF EpayUpdate, Become, TypeOK
  <2>5. QED
    BY <1>8, <2>2, <2>4, FaultType DEF EpayUpdate, NoCredit, TypeOK, StatusType
<1>9. CASE EpayCredit(h)
  <2>1. r.order \in Orders /\ r.node \in Nodes
    BY <1>9, <1>a DEF EpayCredit
  <2>2. Worth(r.order) \in Nat
    BY PaymentsAssumption DEF Worth
  <2>3. BooksType'
    BY <1>9, <2>1, <2>2, CreditType DEF EpayCredit, NoCredit, TypeOK, BooksType
  <2>4. QED
    BY <1>9, <2>3, EndType, FaultType DEF EpayCredit, TypeOK, BooksType
<1>10. QED
  BY <1>1, <1>2, <1>3, <1>4, <1>5, <1>6, <1>7, <1>8, <1>9 DEF Step

\* The steps of users, providers, administrators and crashes keep the types.
LEMMA TypeStep == TypeOK /\ Known /\ [Next]_vars => TypeOK'
<1> SUFFICES ASSUME TypeOK, Known, [Next]_vars PROVE TypeOK'
  OBVIOUS
<1>1. ASSUME NEW o \in Orders, CreateOrder(o) PROVE TypeOK'
  <2>1. StatusType'
    BY <1>1, SetStatusType DEF CreateOrder, Pending
  <2>2. fate' \in [Orders -> {"open", "closed", "paid", "expired"}]
    BY <1>1 DEF CreateOrder, TypeOK
  <2>3. QED
    BY <1>1, <2>1, <2>2 DEF CreateOrder, NoCredit, TypeOK, StatusType
<1>2. ASSUME NEW o \in Orders, Checkout(o) PROVE TypeOK'
  BY <1>2 DEF Checkout, TypeOK, rows
<1>3. ASSUME NEW h \in Handlers, NEW n \in Nodes, NEW o \in Orders, Notify(h, n, o)
      PROVE TypeOK'
  <2>1. fate[o] \in Kinds
    BY <1>3 DEF Notify, TypeOK, Kinds
  <2>2. handler' \in [Handlers -> Handler]
    BY <1>3, <2>1, NewHandlerType DEF Notify
  <2>3. acked' \in [Orders -> BOOLEAN]
    BY <1>3, Zenon DEF Notify, TypeOK
  <2>4. requests' \in Nat
    BY <1>3 DEF Notify, TypeOK
  <2>5. QED
    BY <1>3, <2>2, <2>3, <2>4 DEF Notify, TypeOK, rows
<1>4. ASSUME NEW h \in Handlers, NEW n \in Nodes, NEW o \in Orders, AdminCompleteTopUp(h, n, o)
      PROVE TypeOK'
  <2>1. "admin" \in Kinds
    BY DEF Kinds
  <2>2. handler' \in [Handlers -> Handler]
    BY <1>4, <2>1, NewHandlerType DEF AdminCompleteTopUp
  <2>3. QED
    BY <1>4, <2>2 DEF AdminCompleteTopUp, TypeOK, rows
<1>5. ASSUME NEW h \in Handlers, Step(h) PROVE TypeOK'
  BY <1>5, StepType
<1>6. ASSUME NEW n \in Nodes, Crash(n) PROVE TypeOK'
  <2>1. handler' \in [Handlers -> Handler]
    BY <1>6, IdleType DEF Crash, TypeOK
  <2>2. QED
    BY <1>6, <2>1, FaultType DEF Crash, TypeOK, rows
<1>7. CASE UNCHANGED vars
  BY <1>7 DEF vars, rows, TypeOK
<1>8. QED
  BY <1>1, <1>2, <1>3, <1>4, <1>5, <1>6, <1>7 DEF Next

\* Known needs nothing of the locks.
LEMMA KnownStep == TypeOK /\ Known /\ [Next]_vars => Known'
<1> SUFFICES ASSUME TypeOK, Known, [Next]_vars PROVE Known'
  OBVIOUS
<1> DEFINE Kept == \A o \in Orders : status[o] # "none" => status'[o] # "none"
           Fates == \A o \in Orders : fate'[o] # "open" => fate[o] # "open" \/ status'[o] # "none"
           Same(h) == /\ handler'[h].order = handler[h].order
                      /\ handler'[h].node = handler[h].node /\ handler[h].pc # "idle"
           Begun(h) == /\ handler'[h].order \in Orders /\ handler'[h].node \in Nodes
                       /\ status[handler'[h].order] # "none"
           Fine(h) == handler'[h].pc = "idle" \/ handler'[h] = handler[h] \/ Same(h) \/ Begun(h)
<1>f. handler \in [Handlers -> Handler]
  BY DEF TypeOK
<1>q. ASSUME Kept, Fates, \A h \in Handlers : Fine(h) PROVE Known'
  BY <1>q DEF Known
<1>1. ASSUME NEW o \in Orders, CreateOrder(o) \/ Checkout(o) PROVE Known'
  <2>1. Kept /\ Fates /\ UNCHANGED handler
    BY <1>1 DEF CreateOrder, Checkout, SetStatus, Pending, rows, TypeOK, Known
  <2>2. QED
    BY <2>1, <1>q
<1>2. ASSUME NEW h \in Handlers, NEW n \in Nodes, NEW o \in Orders,
             Notify(h, n, o) \/ AdminCompleteTopUp(h, n, o)
      PROVE  Known'
  <2>1. status[o] # "none" /\ Kept /\ Fates
    BY <1>2 DEF Notify, AdminCompleteTopUp, rows, Known
  <2>2. PICK k : Become(h, [Idle EXCEPT !.pc = "lock", !.kind = k, !.order = o, !.node = n])
    BY <1>2 DEF Notify, AdminCompleteTopUp
  <2>3. handler'[h] = [Idle EXCEPT !.pc = "lock", !.kind = k, !.order = o, !.node = n]
    BY <1>f, <2>2 DEF Become
  <2>4. handler'[h].order = o /\ handler'[h].node = n
    BY <2>3 DEF Idle
  <2>5. \A g \in Handlers : g # h => handler'[g] = handler[g]
    BY <1>f, <2>2 DEF Become
  <2>6. QED
    BY <2>1, <2>4, <2>5, <1>q
<1>3. ASSUME NEW h \in Handlers, Step(h) PROVE Known'
  <2> DEFINE r == handler[h]
  <2>i. Idle.pc = "idle"
    BY DEF Idle
  <2>0. r.pc # "idle" => r.order \in Orders
    BY DEF Known
  <2>1. ASSUME NEW q, Become(h, q), r.pc # "idle", Kept, UNCHANGED fate,
               q.pc = "idle" \/ (q.order = r.order /\ q.node = r.node)
        PROVE  Known'
    <3>1. handler'[h] = q /\ \A g \in Handlers : g # h => handler'[g] = handler[g]
      BY <1>f, <2>1 DEF Become
    <3>2. QED
      BY <2>1, <3>1, <1>q
  <2>2. CASE LockOrder(h)
    <3>1. LET q == [r EXCEPT !.pc = "locked"] IN q.order = r.order /\ q.node = r.node
      BY <1>f DEF Handler
    <3>2. QED
      BY <2>1, <2>2, <3>1 DEF LockOrder, rows
  <2>3. CASE ReadOrder(h)
    <3> DEFINE saw == [r EXCEPT !.seen = status[r.order], !.count = owned]
    <3>1. \A p : LET w == [saw EXCEPT !.pc = p] IN w.order = r.order /\ w.node = r.node
      BY <1>f DEF Handler
    <3>2. \E p : Become(h, [saw EXCEPT !.pc = p])
      BY <2>3 DEF ReadOrder
    <3> HIDE DEF saw
    <3>3. QED
      BY <2>1, <2>3, <3>1, <3>2 DEF ReadOrder, rows
  <2>4. ASSUME NEW q, CompleteInTx(h, q), r.pc = "tx" PROVE Known'
    BY <2>4, <2>0, <2>1, <2>i DEF CompleteInTx, End, SetStatus, rows, TypeOK
  <2>5. ASSUME NEW ok, End(h, ok), UNCHANGED rows, r.pc = "tx" PROVE Known'
    BY <2>5, <2>1, <2>i DEF End, rows
  <2>6. CASE Recharge(h) \/ ManualCompleteTopUp(h) \/ CompleteSubscriptionOrder(h)
    BY <2>6, <2>4, <2>5
    DEF Recharge, ManualCompleteTopUp, CompleteSubscriptionOrder, InTx
  <2>7. CASE ExpireSubscriptionOrder(h) \/ SessionExpired(h)
    BY <2>7, <2>0, <2>1, <2>i
    DEF ExpireSubscriptionOrder, SessionExpired, InTx, End, SetStatus, TypeOK
  <2>8. CASE EpayUpdate(h)
    <3>1. Saved(r).order = r.order /\ Saved(r).node = r.node
      BY <1>f DEF Saved, Handler
    <3>2. QED
      BY <2>8, <2>0, <2>1, <2>i, <3>1 DEF EpayUpdate, SetStatus, TypeOK
  <2>9. CASE EpayCredit(h)
    BY <2>9, <2>1, <2>i DEF EpayCredit, End
  <2>10. QED
    BY <1>3, <2>2, <2>3, <2>6, <2>7, <2>8, <2>9 DEF Step
<1>4. ASSUME NEW n \in Nodes, Crash(n) PROVE Known'
  <2>1. Idle.pc = "idle"
    BY DEF Idle
  <2>2. QED
    BY <1>4, <2>1, <1>q DEF Crash, rows
<1>5. CASE UNCHANGED vars
  BY <1>5, <1>q DEF vars, rows
<1>6. QED
  BY <1>1, <1>2, <1>3, <1>4, <1>5 DEF Next

-----------------------------------------------------------------------------
(* No process makes an order good twice. *)

\* Before the first notification the inductive invariant holds.
LEMMA InitInv == Init => IInv
<1> SUFFICES ASSUME Init PROVE IInv
  OBVIOUS
<1>1. TypeOK
  <2>1. acked \in [Orders -> BOOLEAN]
    BY Zenon DEF Init
  <2>2. QED
    BY <2>1, IdleType DEF Init, TypeOK
<1>2. \A h \in Handlers : handler[h] = Idle
  BY DEF Init
<1>3. ~Holds(Idle) /\ ~Read(Idle) /\ Idle.pc = "idle"
  BY DEF Holds, Read, Idle
<1>4. Known /\ Mutex /\ Fresh
  BY <1>2, <1>3 DEF Init, Known, Mutex, Fresh
<1>5. CreditsTold
  BY DEF Init, CreditsTold
<1>6. QED
  BY <1>1, <1>4, <1>5 DEF IInv

\* A step of one request leaves the others alone.
LEMMA OtherRequests ==
    ASSUME TypeOK, NEW h \in Handlers, NEW q, Become(h, q)
    PROVE  handler'[h] = q /\ \A g \in Handlers : g # h => handler'[g] = handler[g]
BY DEF TypeOK, Become

\* No order becomes pending again.
Onward == \A p \in Orders : Told(status[p]) => Told(status'[p])

\* What a step of the request h, which becomes q, needs to show: it keeps its order
\* unless it is done, no order becomes pending again, and the books change only for
\* its own order, of which it has the lock.
LEMMA Moved ==
    ASSUME IInv, TypeOK', Known', NEW h \in Handlers, NEW q, Become(h, q),
           Holds(handler[h]), Onward,
           Holds(q) => q.order = handler[h].order /\ q.node = handler[h].node,
           \A p \in Orders, n \in Nodes :
              p # handler[h].order \/ n # handler[h].node => credits'[p][n] = credits[p][n],
           LET o == handler[h].order
               n == handler[h].node
           IN  /\ Read(q) /\ q.seen = Pending => credits'[o][n] = 0
               /\ q.pc = "credit" => q.seen = Pending /\ Told(status'[o])
               /\ credits'[o][n] <= 1 /\ (credits'[o][n] # 0 => Told(status'[o]))
    PROVE  IInv'
<1> DEFINE o == handler[h].order
           n == handler[h].node
<1>1. handler'[h] = q /\ \A g \in Handlers : g # h => handler'[g] = handler[g]
  BY OtherRequests DEF IInv
<1>2. Mutex'
  BY <1>1 DEF IInv, Mutex
<1>3. Fresh'
  <2> SUFFICES ASSUME NEW g \in Handlers
               PROVE  /\ Read(handler'[g]) /\ handler'[g].seen = Pending =>
                           credits'[handler'[g].order][handler'[g].node] = 0
                      /\ handler'[g].pc = "credit" =>
                           handler'[g].seen = Pending /\ Told(status'[handler'[g].order])
    BY DEF Fresh
  <2>1. CASE g = h
    BY <1>1, <2>1 DEF Read, Holds
  <2>2. CASE g # h /\ Read(handler[g])
    <3>1. handler'[g] = handler[g] /\ Holds(handler[g]) /\ handler[g].pc # "idle"
      BY <1>1, <2>2 DEF Read, Holds
    <3>2. handler[g].order \in Orders /\ handler[g].node \in Nodes
      BY <3>1 DEF IInv, Known
    <3>3. handler[g].order # o \/ handler[g].node # n
      BY <2>2, <3>1 DEF IInv, Mutex
    <3>4. credits'[handler[g].order][handler[g].node]
             = credits[handler[g].order][handler[g].node]
      BY <3>2, <3>3
    <3>5. Told(status[handler[g].order]) => Told(status'[handler[g].order])
      BY <3>2 DEF Onward
    <3>6. QED
      BY <3>1, <3>4, <3>5 DEF IInv, Fresh
  <2>3. CASE g # h /\ ~Read(handler[g])
    BY <1>1, <2>3 DEF Read
  <2>4. QED
    BY <2>1, <2>2, <2>3
<1>4. CreditsTold'
  BY DEF IInv, CreditsTold, Onward
<1>5. QED
  BY <1>2, <1>3, <1>4 DEF IInv

\* A request that lets go of its order without a credit.
LEMMA LetsGo ==
    ASSUME IInv, TypeOK', Known', NEW h \in Handlers, Become(h, Idle), Holds(handler[h]),
           UNCHANGED credits, Onward
    PROVE  IInv'
<1>1. ~Holds(Idle) /\ ~Read(Idle) /\ Idle.pc # "credit"
  BY DEF Holds, Read, Idle
<1>2. handler[h].order \in Orders /\ handler[h].node \in Nodes
  BY DEF IInv, Known, Holds
<1>3. LET o == handler[h].order
          n == handler[h].node
      IN  credits'[o][n] <= 1 /\ (credits'[o][n] # 0 => Told(status'[o]))
  BY <1>2 DEF IInv, CreditsTold, Onward
<1>4. QED
  BY <1>1, <1>3, Moved

\* A request that makes an order good, which it read as pending, is the first of its
\* process.
LEMMA MakesGood ==
    ASSUME IInv, TypeOK', Known', NEW h \in Handlers, Become(h, Idle), Read(handler[h]),
           handler[h].seen = Pending, NEW w, Credit(handler[h], w), Onward,
           Told(status'[handler[h].order])
    PROVE  IInv'
<1> DEFINE o == handler[h].order
           n == handler[h].node
<1>1. ~Holds(Idle) /\ ~Read(Idle) /\ Idle.pc # "credit" /\ Holds(handler[h])
  BY DEF Holds, Read, Idle
<1>2. o \in Orders /\ n \in Nodes
  BY <1>1 DEF IInv, Known, Holds
<1>3. credits[o][n] = 0
  BY DEF IInv, Fresh
<1>4. /\ credits'[o][n] = credits[o][n] + 1
      /\ \A p \in Orders, m \in Nodes : p # o \/ m # n => credits'[p][m] = credits[p][m]
  <2>1. credits \in [Orders -> [Nodes -> Nat]]
    BY DEF IInv, TypeOK
  <2>2. credits' = [credits EXCEPT ![o][n] = @ + 1]
    BY DEF Credit
  <2>3. QED
    BY <1>2, <2>1, <2>2
<1>5. credits'[o][n] = 1
  BY <1>3, <1>4
<1>6. QED
  BY <1>1, <1>4, <1>5, Moved

\* The write of a final status moves the order onward.
LEMMA SetOnward ==
    ASSUME TypeOK, NEW o \in Orders, NEW v, Told(v), SetStatus(o, v)
    PROVE  Onward /\ status'[o] = v
BY DEF TypeOK, SetStatus, Onward, Told

\* Every step of a request keeps the invariant.
LEMMA StepInv ==
    ASSUME IInv, Known', NEW h \in Handlers, Step(h)
    PROVE  IInv'
<1> DEFINE r == handler[h]
           o == r.order
<1>t. TypeOK /\ TypeOK'
  BY StepType DEF IInv
<1>k. r.pc # "idle" => o \in Orders
  BY DEF IInv, Known
<1>f. r \in Handler
  BY <1>t DEF TypeOK
<1>p. Told("success") /\ Told("expired")
  BY DEF Told
<1>u. UNCHANGED status => Onward
  BY DEF Onward
<1>c. ASSUME NEW w, CompleteInTx(h, w), r.pc = "tx", r.seen = Pending PROVE IInv'
  <2>1. Read(r) /\ Holds(r) /\ o \in Orders
    BY <1>c, <1>k DEF Read, Holds
  <2>2. CASE SetStatus(o, "success") /\ Credit(r, w) /\ End(h, TRUE)
    <3>1. Onward /\ Told(status'[o]) /\ Become(h, Idle)
      BY <2>1, <2>2, <1>t, <1>p, SetOnward DEF End
    <3>2. QED
      BY <1>c, <1>t, <2>1, <2>2, <3>1, MakesGood
  <2>3. CASE UNCHANGED rows /\ End(h, FALSE)
    BY <1>t, <1>u, <2>1, <2>3, LetsGo DEF rows, End
  <2>4. QED
    BY <1>c, <2>2, <2>3 DEF CompleteInTx
<1>e. ASSUME NEW ok, End(h, ok), r.pc = "tx", UNCHANGED rows PROVE IInv'
  BY <1>e, <1>t, <1>u, LetsGo DEF rows, End, Holds
<1>1. CASE LockOrder(h)
  <2> DEFINE q == [r EXCEPT !.pc = "locked"]
  <2>1. q.pc = "locked" /\ q.order = o /\ q.node = r.node
    BY <1>f DEF Handler
  <2>2. UNCHANGED <<status, credits>> /\ ~OrderLocked(h) /\ Become(h, q)
    BY <1>1 DEF LockOrder, rows
  <2> HIDE DEF q
  <2>3. handler'[h] = q /\ \A g \in Handlers : g # h => handler'[g] = handler[g]
    BY <1>t, <2>2, OtherRequests
  <2>4. ASSUME NEW g \in Handlers, g # h, handler[g].order = o, handler[g].node = r.node
        PROVE  ~Holds(handler[g])
    BY <2>2, <2>4 DEF OrderLocked, Others, Holds
  <2>5. Mutex'
    BY <2>1, <2>3, <2>4 DEF IInv, Mutex
  <2>6. Fresh' /\ CreditsTold'
    BY <2>1, <2>2, <2>3 DEF IInv, Fresh, CreditsTold, Read
  <2>7. QED
    BY <1>t, <2>5, <2>6 DEF IInv
<1>2. CASE ReadOrder(h)
  <2> DEFINE saw == [r EXCEPT !.seen = status[o], !.count = owned]
             q(p) == [saw EXCEPT !.pc = p]
  <2>1. \A p : q(p).pc = p /\ q(p).order = o /\ q(p).node = r.node /\ q(p).seen = status[o]
    BY <1>f DEF Handler
  <2>2. PICK p \in {"plain", "tx"} : Become(h, q(p))
    BY <1>2, Zenon DEF ReadOrder
  <2>3. r.pc = "locked" /\ Holds(r) /\ UNCHANGED <<status, credits>>
    BY <1>2 DEF ReadOrder, rows, Holds
  <2>4. o \in Orders /\ r.node \in Nodes
    BY <2>3 DEF IInv, Known
  <2>5. q(p).pc # "credit" /\ q(p).order = o /\ q(p).node = r.node /\ q(p).seen = status[o]
    BY <2>1, <2>2
  <2> HIDE DEF q
  <2>6. /\ status[o] = Pending => credits[o][r.node] = 0
        /\ credits[o][r.node] <= 1 /\ (credits[o][r.node] # 0 => Told(status[o]))
    BY <2>4 DEF IInv, CreditsTold, Told, Pending
  <2>7. QED
    BY <1>t, <1>u, <2>2, <2>3, <2>5, <2>6, Moved
<1>3. CASE Recharge(h)
  BY <1>3, <1>c, <1>e DEF Recharge, InTx
<1>4. CASE ManualCompleteTopUp(h)
  BY <1>4, <1>c, <1>e DEF ManualCompleteTopUp, InTx
<1>5. CASE CompleteSubscriptionOrder(h)
  BY <1>5, <1>c, <1>e DEF CompleteSubscriptionOrder, InTx
<1>6. CASE ExpireSubscriptionOrder(h) \/ SessionExpired(h)
  <2>1. /\ r.pc \in {"plain", "tx"} /\ Become(h, Idle) /\ UNCHANGED credits
        /\ SetStatus(o, "expired") \/ UNCHANGED status
    BY <1>6 DEF ExpireSubscriptionOrder, SessionExpired, InTx, End, NoCredit
  <2>2. Holds(r) /\ o \in Orders
    BY <1>k, <2>1 DEF Holds
  <2>3. Onward
    BY <1>t, <1>u, <1>p, <2>1, <2>2, SetOnward
  <2>4. QED
    BY <1>t, <2>1, <2>2, <2>3, LetsGo
<1>7. CASE EpayUpdate(h)
  <2>1. r.pc = "plain" /\ Holds(r) /\ Read(r) /\ UNCHANGED credits
    BY <1>7 DEF EpayUpdate, NoCredit, Holds, Read
  <2>2. CASE UNCHANGED status /\ Become(h, Idle)
    BY <1>t, <1>u, <2>1, <2>2, LetsGo
  <2>3. CASE r.seen = Pending /\ SetStatus(o, "success") /\ Become(h, Saved(r))
    <3>1. /\ Saved(r).pc = "credit" /\ Saved(r).order = o /\ Saved(r).node = r.node
          /\ Saved(r).seen = r.seen
      BY <1>f DEF Saved, Handler
    <3>2. Onward /\ Told(status'[o])
      BY <1>k, <1>t, <1>p, <2>1, <2>3, SetOnward
    <3>3. credits'[o][r.node] = 0
      BY <2>1, <2>3 DEF IInv, Fresh
    <3>4. QED
      BY <1>t, <2>1, <2>3, <3>1, <3>2, <3>3, Moved
  <2>4. QED
    BY <1>7, <2>2, <2>3 DEF EpayUpdate
<1>8. CASE EpayCredit(h)
  <2>1. r.pc = "credit" /\ Holds(r) /\ Read(r) /\ Become(h, Idle) /\ UNCHANGED status
    BY <1>8 DEF EpayCredit, Holds, Read, End
  <2>2. r.seen = Pending /\ Told(status[o])
    BY <2>1 DEF IInv, Fresh
  <2>3. CASE Credit(r, Worth(o))
    BY <1>t, <1>u, <2>1, <2>2, <2>3, MakesGood
  <2>4. CASE NoCredit
    BY <1>t, <1>u, <2>1, <2>4, LetsGo DEF NoCredit
  <2>5. QED
    BY <1>8, <2>3, <2>4 DEF EpayCredit
<1>9. QED
  BY <1>1, <1>2, <1>3, <1>4, <1>5, <1>6, <1>7, <1>8 DEF Step

\* Every step keeps the invariant.
LEMMA NextInv == IInv /\ [Next]_vars => IInv'
<1> SUFFICES ASSUME IInv, [Next]_vars PROVE IInv'
  OBVIOUS
<1>t. TypeOK /\ TypeOK' /\ Known'
  BY TypeStep, KnownStep DEF IInv
<1>1. ASSUME NEW o \in Orders, CreateOrder(o) PROVE IInv'
  <2>1. /\ status[o] = "none"
        /\ \A p \in Orders : p # o => status'[p] = status[p]
        /\ UNCHANGED <<credits, handler>>
    BY <1>1, <1>t DEF CreateOrder, SetStatus, Pending, NoCredit, TypeOK
  <2>2. Onward
    BY <2>1 DEF Onward, Told
  <2>3. \A h \in Handlers : handler[h].pc # "idle" => handler[h].order \in Orders
    BY DEF IInv, Known
  <2>4. Mutex'
    BY <2>1 DEF IInv, Mutex
  <2>5. Fresh'
    BY <2>1, <2>2, <2>3 DEF IInv, Fresh, Onward
  <2>6. CreditsTold'
    BY <2>1, <2>2 DEF IInv, CreditsTold, Onward
  <2>7. QED
    BY <1>t, <2>4, <2>5, <2>6 DEF IInv
<1>2. ASSUME NEW o \in Orders, Checkout(o) PROVE IInv'
  <2>1. UNCHANGED <<status, credits, handler>>
    BY <1>2 DEF Checkout, rows
  <2>2. QED
    BY <1>t, <2>1 DEF IInv, Mutex, Fresh, CreditsTold
<1>3. ASSUME NEW h \in Handlers, NEW n \in Nodes, NEW o \in Orders,
             Notify(h, n, o) \/ AdminCompleteTopUp(h, n, o)
      PROVE  IInv'
  <2> DEFINE q(k) == [Idle EXCEPT !.pc = "lock", !.kind = k, !.order = o, !.node = n]
  <2>1. PICK k : Become(h, q(k))
    BY <1>3 DEF Notify, AdminCompleteTopUp
  <2>2. q(k).pc = "lock"
    BY DEF Idle
  <2> HIDE DEF q
  <2>3. ~Holds(q(k)) /\ ~Read(q(k))
    BY <2>2 DEF Holds, Read
  <2>4. handler'[h] = q(k) /\ \A g \in Handlers : g # h => handler'[g] = handler[g]
    BY <1>t, <2>1, OtherRequests
  <2>5. UNCHANGED <<status, credits>>
    BY <1>3 DEF Notify, AdminCompleteTopUp, rows
  <2>6. Mutex'
    BY <2>3, <2>4 DEF IInv, Mutex
  <2>7. Fresh' /\ CreditsTold'
    BY <2>2, <2>3, <2>4, <2>5 DEF IInv, Fresh, CreditsTold
  <2>8. QED
    BY <1>t, <2>6, <2>7 DEF IInv
<1>4. ASSUME NEW h \in Handlers, Step(h) PROVE IInv'
  BY <1>4, <1>t, StepInv
<1>5. ASSUME NEW n \in Nodes, Crash(n) PROVE IInv'
  <2>1. UNCHANGED <<status, credits>>
    BY <1>5 DEF Crash, rows
  <2>2. \A g \in Handlers : handler'[g] = Idle \/ handler'[g] = handler[g]
    BY <1>5 DEF Crash
  <2>3. ~Holds(Idle) /\ ~Read(Idle) /\ Idle.pc = "idle"
    BY DEF Holds, Read, Idle
  <2>4. Mutex'
    BY <2>2, <2>3 DEF IInv, Mutex
  <2>5. Fresh' /\ CreditsTold'
    BY <2>1, <2>2, <2>3 DEF IInv, Fresh, CreditsTold
  <2>6. QED
    BY <1>t, <2>4, <2>5 DEF IInv
<1>6. CASE UNCHANGED vars
  <2>1. UNCHANGED <<status, credits, handler>>
    BY <1>6 DEF vars, rows
  <2>2. QED
    BY <1>t, <2>1 DEF IInv, Mutex, Fresh, CreditsTold
<1>7. QED
  BY <1>1, <1>2, <1>3, <1>4, <1>5, <1>6 DEF Next

\* TypeOK holds in every behaviour, of any number of processes and orders (the
\* handlers of topup.go and their siblings).
THEOREM PaymentsTypeCorrect == Spec => []TypeOK
<1>1. IInv => TypeOK
  BY DEF IInv
<1>2. QED
  BY <1>1, InitInv, NextInv, PTL DEF Spec

\* No process makes an order good twice, however often the order is notified or
\* completed by hand, whatever fails or restarts, and whatever other processes do to
\* the same row, which nothing keeps them from (LockOrder and the status checks).
THEOREM OrderCreditedOnce == Spec => []CreditedOnce
<1>1. IInv => CreditedOnce
  BY DEF IInv, CreditsTold, CreditedOnce
<1>2. QED
  BY <1>1, InitInv, NextInv, PTL DEF Spec

-----------------------------------------------------------------------------
(* The status tells whether an order was made good. *)

OneNode == \A m, n \in Nodes : m = n

\* The requests that will act on the status they read, or have still to credit.
Paying(r) == r.pc \in {"tx", "credit"} \/ (r.pc = "plain" /\ r.kind = "paid")

\* What a paying request read is still true.
SeenTrue ==
    \A h \in Handlers : Paying(handler[h]) =>
        IF handler[h].pc = "credit" THEN status[handler[h].order] = "success"
        ELSE handler[h].seen = status[handler[h].order]

\* Who reports an expiry has one to report, and only Epay top-ups are completed
\* outside a transaction.
KindsTrue ==
    /\ \A o \in Orders : fate[o] = "expired" => Method[o] = "stripe"
    /\ \A h \in Handlers :
         LET r == handler[h] IN
         /\ r.pc # "idle" /\ r.kind = "expired" => fate[r.order] = "expired"
         /\ r.pc = "plain" => Plain(r)
         /\ r.pc = "credit" => AckedEarly(r.order)

Crediting(o) == \E h \in Handlers : handler[h].order = o /\ handler[h].pc = "credit"

\* StatusTellsCredit, and who is to blame for an order that is not credited yet.
Tells ==
    \A o \in Orders : ~Overwritten(o) =>
        /\ MadeGood(o) => status[o] = "success"
        /\ status[o] = "success" =>
             MadeGood(o) \/ Crediting(o) \/ (AckedEarly(o) /\ faults > 0)

\* MadeGood, in given books.
GoodIn(books, o) == \E n \in Nodes : books[o][n] > 0

TInv == IInv /\ SeenTrue /\ KindsTrue /\ Tells

\* On one process nobody else has read the order while h has its lock.
LEMMA OthersQuiet ==
    ASSUME OneNode, IInv, NEW h \in Handlers, Holds(handler[h]),
           NEW g \in Handlers, g # h, Paying(handler[g])
    PROVE  handler[g].order \in Orders /\ handler[g].order # handler[h].order
<1>1. Holds(handler[g])
  BY DEF Paying, Holds
<1>2. handler[g].order \in Orders /\ handler[g].node = handler[h].node
  BY <1>1 DEF IInv, Known, Holds, OneNode
<1>3. QED
  BY <1>1, <1>2 DEF IInv, Mutex

\* A step of h that touches no other order's row keeps what the others have read.
LEMMA SeenStep ==
    ASSUME OneNode, IInv, SeenTrue, NEW h \in Handlers, NEW q, Become(h, q),
           UNCHANGED status \/ Holds(handler[h]),
           \A p \in Orders : p # handler[h].order => status'[p] = status[p],
           Paying(q) => IF q.pc = "credit" THEN status'[q.order] = "success"
                        ELSE q.seen = status'[q.order]
    PROVE  SeenTrue'
<1>1. handler'[h] = q /\ \A g \in Handlers : g # h => handler'[g] = handler[g]
  BY OtherRequests DEF IInv
<1> SUFFICES ASSUME NEW g \in Handlers, Paying(handler'[g])
             PROVE  IF handler'[g].pc = "credit" THEN status'[handler'[g].order] = "success"
                    ELSE handler'[g].seen = status'[handler'[g].order]
  BY DEF SeenTrue
<1>2. CASE g = h
  BY <1>1, <1>2
<1>3. CASE g # h
  <2>1. handler'[g] = handler[g] /\ Paying(handler[g])
    BY <1>1, <1>3
  <2>2. status'[handler[g].order] = status[handler[g].order]
    BY <1>3, <2>1, OthersQuiet
  <2>3. QED
    BY <2>1, <2>2 DEF SeenTrue
<1>4. QED
  BY <1>2, <1>3

\* A request that goes on lawfully keeps KindsTrue.
LEMMA KindsStep ==
    ASSUME TypeOK, KindsTrue, NEW h \in Handlers, NEW q, Become(h, q), UNCHANGED fate,
           q.pc # "idle" /\ q.kind = "expired" => fate[q.order] = "expired",
           q.pc = "plain" => Plain(q),
           q.pc = "credit" => AckedEarly(q.order)
    PROVE  KindsTrue'
<1>1. \A g \in Handlers : handler'[g] = q \/ handler'[g] = handler[g]
  BY OtherRequests
<1>2. QED
  BY <1>1 DEF KindsTrue, Plain, AckedEarly

\* A request that neither credits nor touches the row keeps Tells.
LEMMA TellsQuiet ==
    ASSUME TypeOK, Tells, NEW h \in Handlers, NEW q, Become(h, q), handler[h].pc # "credit",
           UNCHANGED <<status, credits, fate>>, faults' >= faults, faults' \in Nat
    PROVE  Tells'
<1>1. \A o \in Orders : Crediting(o) => Crediting(o)'
  BY OtherRequests DEF Crediting
<1>2. faults > 0 => faults' > 0
  BY DEF TypeOK
<1>3. QED
  BY <1>1, <1>2 DEF Tells, AckedEarly, Overwritten, MadeGood

\* A request that settles its order's status keeps Tells.
LEMMA TellsSettled ==
    ASSUME TypeOK, TypeOK', Tells, NEW h \in Handlers, NEW q, Become(h, q), NEW o \in Orders,
           handler[h].pc # "credit" \/ handler[h].order = o, UNCHANGED fate,
           \A p \in Orders : p # o => status'[p] = status[p] /\ credits'[p] = credits[p],
           \/ Overwritten(o)
           \/ /\ GoodIn(credits', o) => status'[o] = "success"
              /\ status'[o] = "success" =>
                   \/ GoodIn(credits', o) \/ (q.order = o /\ q.pc = "credit")
                   \/ AckedEarly(o) /\ faults' > 0,
           faults' >= faults
    PROVE  Tells'
<1>1. ASSUME NEW p \in Orders, p # o, Crediting(p) PROVE Crediting(p)'
  BY <1>1, OtherRequests DEF Crediting
<1>2. faults > 0 => faults' > 0
  BY DEF TypeOK
<1>3. q.order = o /\ q.pc = "credit" => Crediting(o)'
  BY OtherRequests DEF Crediting
<1>4. \A p \in Orders : Overwritten(p)' <=> Overwritten(p)
  BY DEF Overwritten
<1>5. \A p \in Orders : p # o => (MadeGood(p)' <=> MadeGood(p))
  BY DEF MadeGood
<1>6. MadeGood(o)' <=> GoodIn(credits', o)
  BY DEF MadeGood, GoodIn
<1>7. QED
  BY <1>1, <1>2, <1>3, <1>4, <1>5, <1>6 DEF Tells, AckedEarly

\* Making an order good is seen in the books.
LEMMA CreditSeen ==
    ASSUME TypeOK, NEW r, r.order \in Orders, r.node \in Nodes, NEW w, Credit(r, w)
    PROVE  /\ GoodIn(credits', r.order)
           /\ \A p \in Orders : p # r.order => credits'[p] = credits[p]
<1>1. credits' = [credits EXCEPT ![r.order][r.node] = @ + 1]
  BY DEF Credit
<1>2. credits'[r.order][r.node] = credits[r.order][r.node] + 1
         /\ credits[r.order][r.node] \in Nat
  BY <1>1 DEF TypeOK
<1>3. QED
  BY <1>1, <1>2 DEF GoodIn, TypeOK

\* Every step of a request keeps the three parts.
LEMMA StepTells ==
    ASSUME OneNode, TInv, TypeOK', NEW h \in Handlers, Step(h)
    PROVE  SeenTrue' /\ KindsTrue' /\ Tells'
<1> DEFINE r == handler[h]
           o == r.order
<1>t. IInv /\ TypeOK /\ SeenTrue /\ KindsTrue /\ Tells
  BY DEF TInv, IInv
<1>f. r \in Handler
  BY <1>t DEF TypeOK
<1>k. r.pc # "idle" => o \in Orders /\ r.node \in Nodes
  BY DEF TInv, IInv, Known
<1>i. Idle.pc = "idle" /\ ~Paying(Idle)
  BY DEF Idle, Paying
<1>n. faults \in Nat /\ faults' \in Nat
  BY <1>t DEF TypeOK
<1>v. NoFault \/ Fault => faults' >= faults
  BY <1>n DEF NoFault, Fault
\* A request that ends, having changed its own row at most.
<1>e. ASSUME Become(h, Idle), UNCHANGED fate, r.pc \notin {"idle", "lock"},
             UNCHANGED status \/ (\E v : SetStatus(o, v))
      PROVE  SeenTrue' /\ KindsTrue'
  <2>1. \A p \in Orders : p # o => status'[p] = status[p]
    BY <1>e, <1>t DEF SetStatus, TypeOK
  <2>2. Holds(r)
    BY <1>e DEF Holds
  <2>3. SeenTrue'
    BY <1>e, <1>t, <1>i, <2>1, <2>2, SeenStep
  <2>4. QED
    BY <1>e, <1>t, <1>i, <2>3, KindsStep
<1>q. ASSUME NEW ok, End(h, ok), r.pc = "tx", UNCHANGED rows, NoFault \/ Fault
      PROVE  SeenTrue' /\ KindsTrue' /\ Tells'
  BY <1>q, <1>e, <1>t, <1>n, <1>v, TellsQuiet DEF End, rows
<1>c. ASSUME NEW w, CompleteInTx(h, w), r.pc = "tx"
      PROVE  SeenTrue' /\ KindsTrue' /\ Tells'
  <2>1. CASE SetStatus(o, "success") /\ Credit(r, w) /\ End(h, TRUE) /\ NoFault
    <3>1. /\ status'[o] = "success"
          /\ \A p \in Orders : p # o => status'[p] = status[p]
      BY <1>c, <1>k, <1>t, <2>1 DEF SetStatus, TypeOK
    <3>2. GoodIn(credits', o) /\ \A p \in Orders : p # o => credits'[p] = credits[p]
      BY <1>c, <1>k, <1>t, <2>1, CreditSeen
    <3>3. Become(h, Idle) /\ UNCHANGED fate
      BY <2>1 DEF End
    <3>4. Tells'
      BY <1>c, <1>k, <1>t, <1>v, <2>1, <3>1, <3>2, <3>3, TellsSettled
    <3>5. QED
      BY <1>c, <1>e, <2>1, <3>3, <3>4
  <2>2. CASE UNCHANGED rows /\ End(h, FALSE) /\ Fault
    BY <1>c, <1>q, <2>2
  <2>3. QED
    BY <1>c, <2>1, <2>2 DEF CompleteInTx
<1>1. CASE LockOrder(h)
  <2> DEFINE q == [r EXCEPT !.pc = "locked"]
  <2>1. q.pc = "locked" /\ q.kind = r.kind /\ q.order = o
    BY <1>f DEF Handler
  <2>2. Become(h, q) /\ r.pc = "lock" /\ UNCHANGED <<status, credits, fate, faults>>
    BY <1>1 DEF LockOrder, rows
  <2>3. r.kind = "expired" => fate[o] = "expired"
    BY <1>t, <2>2 DEF KindsTrue
  <2> HIDE DEF q
  <2>4. KindsTrue'
    BY <1>t, <2>1, <2>2, <2>3, KindsStep
  <2>5. Tells'
    BY <1>t, <1>n, <2>2, TellsQuiet
  <2>6. ~Paying(q)
    BY <2>1 DEF Paying
  <2>7. SeenTrue'
    BY <1>t, <2>2, <2>6, SeenStep
  <2>8. QED
    BY <2>4, <2>5, <2>7
<1>2. CASE ReadOrder(h)
  <2> DEFINE saw == [r EXCEPT !.seen = status[o], !.count = owned]
             q(p) == [saw EXCEPT !.pc = p]
  <2>1. \A p : q(p).pc = p /\ q(p).kind = r.kind /\ q(p).order = o /\ q(p).seen = status[o]
    BY <1>f DEF Handler
  <2>2. PICK p \in {"plain", "tx"} : Become(h, q(p)) /\ (p = "plain" => Plain(r))
    BY <1>2, Zenon DEF ReadOrder
  <2>3. r.pc = "locked" /\ UNCHANGED <<status, credits, fate, faults>>
    BY <1>2 DEF ReadOrder, rows
  <2>4. r.kind = "expired" => fate[o] = "expired"
    BY <1>t, <2>3 DEF KindsTrue
  <2>5. q(p).pc = p /\ q(p).kind = r.kind /\ q(p).order = o /\ q(p).seen = status'[o]
    BY <2>1, <2>3
  <2> HIDE DEF q
  <2>6. q(p).pc = "plain" => Plain(q(p))
    BY <2>2, <2>5 DEF Plain
  <2>7. KindsTrue'
    BY <1>t, <2>2, <2>3, <2>4, <2>5, <2>6, KindsStep
  <2>8. Tells'
    BY <1>t, <1>n, <2>2, <2>3, TellsQuiet
  <2>9. SeenTrue'
    BY <1>t, <2>2, <2>3, <2>5, SeenStep
  <2>10. QED
    BY <2>7, <2>8, <2>9
<1>3. CASE Recharge(h) \/ ManualCompleteTopUp(h) \/ CompleteSubscriptionOrder(h)
  BY <1>3, <1>c, <1>q DEF Recharge, ManualCompleteTopUp, CompleteSubscriptionOrder, InTx
<1>4. CASE ExpireSubscriptionOrder(h)
  <2>1. /\ r.pc = "tx" /\ Become(h, Idle) /\ UNCHANGED <<credits, fate>>
        /\ NoFault \/ Fault
        /\ (r.seen = "pending" /\ SetStatus(o, "expired")) \/ UNCHANGED status
    BY <1>4 DEF ExpireSubscriptionOrder, InTx, End, NoCredit, Expirable, Pending
  <2>2. SeenTrue' /\ KindsTrue'
    BY <1>e, <2>1
  <2>3. CASE UNCHANGED status
    BY <1>t, <1>n, <1>v, <2>1, <2>2, <2>3, TellsQuiet
  <2>4. CASE r.seen = "pending" /\ SetStatus(o, "expired")
    <3>1. status[o] = "pending" /\ o \in Orders
      BY <1>k, <1>t, <2>1, <2>4 DEF SeenTrue, Paying
    <3>2. Overwritten(o) \/ ~MadeGood(o)
      BY <1>t, <3>1 DEF Tells
    <3>3. status'[o] = "expired" /\ \A p \in Orders : p # o => status'[p] = status[p]
      BY <1>t, <2>4, <3>1 DEF SetStatus, TypeOK
    <3>4. GoodIn(credits', o) <=> MadeGood(o)
      BY <2>1 DEF MadeGood, GoodIn
    <3>5. Tells'
      BY <1>t, <1>v, <2>1, <3>1, <3>2, <3>3, <3>4, TellsSettled
    <3>6. QED
      BY <2>2, <3>5
  <2>5. QED
    BY <2>1, <2>3, <2>4
<1>5. CASE SessionExpired(h)
  <2>1. /\ r.pc = "plain" /\ r.kind = "expired" /\ Become(h, Idle)
        /\ UNCHANGED <<credits, fate>> /\ (NoFault \/ Fault)
        /\ SetStatus(o, "expired") \/ UNCHANGED status
    BY <1>5 DEF SessionExpired, End, NoCredit
  <2>2. Overwritten(o) /\ o \in Orders
    BY <1>t, <1>k, <2>1 DEF KindsTrue, Plain, Overwritten
  <2>3. \A p \in Orders : p # o => status'[p] = status[p]
    BY <1>t, <2>1, <2>2 DEF SetStatus, TypeOK
  <2>4. Tells'
    BY <1>t, <1>v, <2>1, <2>2, <2>3, TellsSettled
  <2>5. QED
    BY <1>e, <2>1, <2>4
<1>6. CASE EpayUpdate(h)
  <2>1. r.pc = "plain" /\ r.kind = "paid" /\ UNCHANGED <<credits, fate>>
    BY <1>6 DEF EpayUpdate, NoCredit
  <2>2. AckedEarly(o) /\ o \in Orders
    BY <1>t, <1>k, <2>1 DEF KindsTrue, Plain, AckedEarly
  <2>3. Saved(r).pc = "credit" /\ Saved(r).kind = "paid" /\ Saved(r).order = o
    BY <1>f, <2>1 DEF Saved, Handler
  <2>4. CASE UNCHANGED status /\ Become(h, Idle) /\ (NoFault \/ Fault)
    <3>1. SeenTrue' /\ KindsTrue'
      BY <1>e, <2>1, <2>4
    <3>2. Tells'
      BY <1>t, <1>n, <1>v, <2>1, <2>4, TellsQuiet
    <3>3. QED
      BY <3>1, <3>2
  <2>5. CASE r.seen = Pending /\ SetStatus(o, "success") /\ Become(h, Saved(r)) /\ NoFault
    <3>1. KindsTrue'
      BY <1>t, <2>1, <2>2, <2>3, <2>5, KindsStep
    <3>2. status'[o] = "success" /\ \A p \in Orders : p # o => status'[p] = status[p]
      BY <1>t, <2>2, <2>5 DEF SetStatus, TypeOK
    <3>3. Tells'
      BY <1>t, <1>v, <2>1, <2>2, <2>3, <2>5, <3>2, TellsSettled
    <3>4. Holds(r)
      BY <2>1 DEF Holds
    <3>5. SeenTrue'
      BY <1>t, <2>3, <2>5, <3>2, <3>4, SeenStep
    <3>6. QED
      BY <3>1, <3>3, <3>5
  <2>6. QED
    BY <1>6, <2>4, <2>5 DEF EpayUpdate
<1>7. CASE EpayCredit(h)
  <2>1. r.pc = "credit" /\ Become(h, Idle) /\ UNCHANGED <<status, fate>>
    BY <1>7 DEF EpayCredit, End
  <2>2. AckedEarly(o) /\ o \in Orders /\ r.node \in Nodes /\ status[o] = "success"
    BY <1>t, <1>k, <2>1 DEF KindsTrue, SeenTrue, Paying
  <2>3. SeenTrue' /\ KindsTrue'
    BY <1>e, <2>1
  <2>4. CASE Credit(r, Worth(o)) /\ NoFault
    <3>1. GoodIn(credits', o) /\ \A p \in Orders : p # o => credits'[p] = credits[p]
      BY <1>t, <2>2, <2>4, CreditSeen
    <3>2. Tells'
      BY <1>t, <1>v, <2>1, <2>2, <2>4, <3>1, TellsSettled
    <3>3. QED
      BY <2>3, <3>2
  <2>5. CASE NoCredit /\ Fault
    <3>1. faults' > 0 /\ UNCHANGED credits
      BY <1>n, <2>5 DEF NoCredit, Fault
    <3>2. Tells'
      BY <1>t, <1>v, <2>1, <2>2, <2>5, <3>1, TellsSettled
    <3>3. QED
      BY <2>3, <3>2
  <2>6. QED
    BY <1>7, <2>4, <2>5 DEF EpayCredit
<1>8. QED
  BY <1>1, <1>2, <1>3, <1>4, <1>5, <1>6, <1>7 DEF Step

\* Every step keeps the invariant.
LEMMA NextTells == ASSUME OneNode PROVE TInv /\ [Next]_vars => TInv'
<1> SUFFICES ASSUME TInv, [Next]_vars PROVE TInv'
  OBVIOUS
<1>t. IInv /\ TypeOK /\ SeenTrue /\ KindsTrue /\ Tells /\ IInv' /\ TypeOK'
  BY NextInv DEF TInv, IInv
<1> SUFFICES SeenTrue' /\ KindsTrue' /\ Tells'
  BY <1>t DEF TInv
<1>p. \A h \in Handlers : Paying(handler[h]) => handler[h].pc # "idle"
  BY DEF Paying
<1>1. ASSUME NEW o \in Orders, CreateOrder(o) PROVE SeenTrue' /\ KindsTrue' /\ Tells'
  <2>1. /\ status[o] = "none" /\ status'[o] \in {"pending", "expired"}
        /\ \A p \in Orders : p # o => status'[p] = status[p] /\ fate'[p] = fate[p]
        /\ fate'[o] \in {fate[o], "closed"}
        /\ UNCHANGED <<credits, handler, faults>>
    BY <1>1, <1>t DEF CreateOrder, SetStatus, Pending, NoCredit, TypeOK
  <2>2. \A h \in Handlers : handler[h].pc # "idle" =>
             handler[h].order \in Orders /\ handler[h].order # o
    BY <1>t, <2>1 DEF IInv, Known
  <2>3. SeenTrue'
    BY <1>t, <1>p, <2>1, <2>2 DEF SeenTrue
  <2>4. KindsTrue'
    BY <1>t, <2>1, <2>2 DEF KindsTrue, Plain, AckedEarly
  <2>5. /\ fate[o] = "open" /\ ~MadeGood(o)'
        /\ \A p \in Orders : p # o => (Overwritten(p)' <=> Overwritten(p))
        /\ \A p \in Orders : MadeGood(p)' <=> MadeGood(p)
    <3>1. fate[o] = "open"
      BY <1>t, <2>1 DEF IInv, Known
    <3>2. \A n \in Nodes : credits[o][n] = 0
      BY <1>t, <2>1 DEF IInv, CreditsTold, Told, TypeOK
    <3>3. QED
      BY <2>1, <3>1, <3>2 DEF MadeGood, Overwritten
  <2>6. Tells'
    BY <1>t, <2>1, <2>5 DEF Tells, Crediting, AckedEarly
  <2>7. QED
    BY <2>3, <2>4, <2>6
<1>2. ASSUME NEW o \in Orders, Checkout(o) PROVE SeenTrue' /\ KindsTrue' /\ Tells'
  <2>1. UNCHANGED <<status, credits, handler, faults>>
    BY <1>2 DEF Checkout, rows
  <2>2. /\ \A p \in Orders : fate'[p] = "expired" => Method[p] = "stripe"
        /\ \A p \in Orders : fate[p] = "expired" => fate'[p] = "expired"
    BY <1>2, <1>t DEF Checkout, KindsTrue, TypeOK
  <2>3. KindsTrue'
    BY <1>t, <2>1, <2>2 DEF KindsTrue, Plain, AckedEarly, IInv, Known
  <2>4. SeenTrue'
    BY <1>t, <2>1 DEF SeenTrue
  <2>5. /\ \A p \in Orders : Overwritten(p) => Overwritten(p)'
        /\ \A p \in Orders : MadeGood(p)' <=> MadeGood(p)
    BY <2>1, <2>2 DEF Overwritten, MadeGood
  <2>6. Tells'
    BY <1>t, <2>1, <2>5 DEF Tells, Crediting, AckedEarly
  <2>7. QED
    BY <2>3, <2>4, <2>6
<1>3. ASSUME NEW h \in Handlers, NEW n \in Nodes, NEW o \in Orders,
             Notify(h, n, o) \/ AdminCompleteTopUp(h, n, o)
      PROVE  SeenTrue' /\ KindsTrue' /\ Tells'
  <2> DEFINE q(k) == [Idle EXCEPT !.pc = "lock", !.kind = k, !.order = o, !.node = n]
  <2>1. PICK k \in {fate[o], "admin"} : Become(h, q(k))
    BY <1>3 DEF Notify, AdminCompleteTopUp
  <2>2. q(k).pc = "lock" /\ q(k).kind = k /\ q(k).order = o
    BY DEF Idle
  <2>3. handler[h] = Idle /\ UNCHANGED <<status, credits, fate, faults>>
    BY <1>3 DEF Notify, AdminCompleteTopUp, rows
  <2>4. handler[h].pc # "credit" /\ faults \in Nat
    BY <1>t, <2>3 DEF Idle, TypeOK
  <2>5. k = "expired" => fate[o] = "expired"
    BY <2>1
  <2> HIDE DEF q
  <2>6. KindsTrue'
    BY <1>t, <2>1, <2>2, <2>3, <2>5, KindsStep
  <2>7. Tells'
    BY <1>t, <2>1, <2>3, <2>4, TellsQuiet
  <2>8. ~Paying(q(k))
    BY <2>2 DEF Paying
  <2>9. SeenTrue'
    BY <1>t, <2>1, <2>3, <2>8, SeenStep
  <2>10. QED
    BY <2>6, <2>7, <2>9
<1>4. ASSUME NEW h \in Handlers, Step(h) PROVE SeenTrue' /\ KindsTrue' /\ Tells'
  BY <1>4, <1>t, StepTells
<1>5. ASSUME NEW n \in Nodes, Crash(n) PROVE SeenTrue' /\ KindsTrue' /\ Tells'
  <2>1. UNCHANGED <<status, credits, fate>> /\ faults' > 0
    BY <1>5, <1>t DEF Crash, rows, Fault, TypeOK
  <2>2. \A g \in Handlers : handler'[g] = Idle \/ handler'[g] = handler[g]
    BY <1>5 DEF Crash
  <2>3. Idle.pc = "idle" /\ ~Paying(Idle)
    BY DEF Idle, Paying
  <2>4. KindsTrue'
    BY <1>t, <2>1, <2>2, <2>3 DEF KindsTrue, Plain, AckedEarly
  <2>5. \A o \in Orders : Crediting(o) => AckedEarly(o)
    BY <1>t DEF Crediting, KindsTrue
  <2>6. \A p \in Orders : (Overwritten(p)' <=> Overwritten(p)) /\ (MadeGood(p)' <=> MadeGood(p))
    BY <2>1 DEF Overwritten, MadeGood
  <2>7. Tells'
    BY <1>t, <2>1, <2>5, <2>6 DEF Tells, AckedEarly
  <2>8. SeenTrue'
    BY <1>t, <2>1, <2>2, <2>3 DEF SeenTrue
  <2>9. QED
    BY <2>4, <2>7, <2>8
<1>6. CASE UNCHANGED vars
  <2>1. UNCHANGED <<status, credits, handler, fate, faults>>
    BY <1>6 DEF vars, rows
  <2>2. QED
    BY <1>t, <2>1 DEF SeenTrue, KindsTrue, Plain, AckedEarly, Tells, Crediting, Overwritten, MadeGood
<1>7. QED
  BY <1>1, <1>2, <1>3, <1>4, <1>5, <1>6 DEF Next

\* On one process the status of an order says between requests whether it was made
\* good, for every interleaving, failing write and restart; only an Epay top-up,
\* which EpayNotify saves before it credits it, loses this to a failure, and a Stripe
\* top-up to the expiry of its session.
THEOREM StatusTells == ASSUME OneNode PROVE Spec => []StatusTellsCredit
<1>1. Init => TInv
  <2>1. Init => SeenTrue /\ KindsTrue /\ Tells
    BY DEF Init, SeenTrue, Paying, KindsTrue, Tells, Idle, MadeGood
  <2>2. QED
    BY <2>1, InitInv DEF TInv
<1>2. TInv => StatusTellsCredit
  <2> SUFFICES ASSUME TInv, NEW o \in Orders, ~Crediting(o), AckedEarly(o) => faults = 0,
                      ~Overwritten(o)
               PROVE  status[o] = "success" <=> MadeGood(o)
    BY DEF StatusTellsCredit, Crediting
  <2>1. QED
    BY DEF TInv, Tells
<1>3. QED
  BY <1>1, <1>2, NextTells, PTL DEF Spec

-----------------------------------------------------------------------------
(* The limit on purchases. *)

\* Only Epay top-ups are saved before they are credited.
CreditsTopUps ==
    \A h \in Handlers :
        handler[h].pc \in {"plain", "credit"} => handler[h].order \in TopUps

LInv == TypeOK /\ Known /\ CreditsTopUps

\* A request that saves a top-up has read it as one.
LEMMA CreditsTopUpsStep == LInv /\ [Next]_vars => CreditsTopUps'
<1> SUFFICES ASSUME TypeOK, Known, CreditsTopUps, [Next]_vars PROVE CreditsTopUps'
  BY DEF LInv
<1>i. Idle.pc = "idle" /\ Idle \in Handler
  BY IdleType DEF Idle
<1>b. ASSUME NEW h \in Handlers, NEW r, Become(h, r),
             r.pc \in {"plain", "credit"} => r.order \in TopUps
      PROVE  CreditsTopUps'
  BY <1>b DEF Become, TypeOK, CreditsTopUps
<1>e. ASSUME NEW h \in Handlers, Become(h, Idle) PROVE CreditsTopUps'
  BY <1>e, <1>b, <1>i
<1>1. ASSUME NEW o \in Orders, CreateOrder(o) \/ Checkout(o) PROVE CreditsTopUps'
  BY <1>1 DEF CreateOrder, Checkout, CreditsTopUps
<1>2. ASSUME NEW h \in Handlers, NEW n \in Nodes, NEW o \in Orders,
             Notify(h, n, o) \/ AdminCompleteTopUp(h, n, o)
      PROVE  CreditsTopUps'
  <2>1. \A k : [Idle EXCEPT !.pc = "lock", !.kind = k, !.order = o, !.node = n].pc = "lock"
    BY DEF Idle
  <2>2. PICK k : Become(h, [Idle EXCEPT !.pc = "lock", !.kind = k, !.order = o, !.node = n])
    BY <1>2, Zenon DEF Notify, AdminCompleteTopUp
  <2>3. QED
    BY <1>b, <2>1, <2>2
<1>3. ASSUME NEW h \in Handlers, Step(h) PROVE CreditsTopUps'
  <2> DEFINE r == handler[h]
  <2>r. r \in Handler
    BY DEF TypeOK
  <2>1. CASE LockOrder(h)
    <3>1. [r EXCEPT !.pc = "locked"].pc = "locked"
      BY <2>r DEF Handler
    <3>2. QED
      BY <1>b, <2>1, <3>1 DEF LockOrder
  <2>2. CASE ReadOrder(h)
    <3> DEFINE saw == [r EXCEPT !.seen = status[r.order], !.count = owned]
    <3>1. /\ [saw EXCEPT !.pc = "plain"].order = r.order
          /\ [saw EXCEPT !.pc = "tx"].pc = "tx"
      BY <2>r DEF Handler
    <3>2. \/ r.order \in TopUps /\ Become(h, [saw EXCEPT !.pc = "plain"])
          \/ Become(h, [saw EXCEPT !.pc = "tx"])
      BY <2>2 DEF ReadOrder, Plain
    <3> HIDE DEF saw
    <3>3. QED
      BY <1>b, <3>1, <3>2
  <2>3. CASE Recharge(h) \/ ManualCompleteTopUp(h) \/ CompleteSubscriptionOrder(h)
    <3>1. \E ok \in BOOLEAN : End(h, ok)
      BY <2>3 DEF Recharge, ManualCompleteTopUp, CompleteSubscriptionOrder, CompleteInTx
    <3>2. QED
      BY <1>e, <3>1 DEF End
  <2>4. CASE ExpireSubscriptionOrder(h) \/ SessionExpired(h) \/ EpayCredit(h)
    BY <1>e, <2>4 DEF ExpireSubscriptionOrder, SessionExpired, EpayCredit, End
  <2>5. CASE EpayUpdate(h)
    <3>1. Saved(r).order = r.order
      BY <2>r DEF Saved, Handler
    <3>2. r.order \in TopUps
      BY <2>5 DEF EpayUpdate, CreditsTopUps
    <3>3. Become(h, Saved(r)) \/ Become(h, Idle)
      BY <2>5 DEF EpayUpdate
    <3>4. QED
      BY <1>b, <1>e, <3>1, <3>2, <3>3
  <2>6. QED
    BY <1>3, <2>1, <2>2, <2>3, <2>4, <2>5 DEF Step
<1>4. ASSUME NEW n \in Nodes, Crash(n) PROVE CreditsTopUps'
  BY <1>4, <1>i DEF Crash, CreditsTopUps
<1>5. CASE UNCHANGED vars
  BY <1>5 DEF vars, rows, CreditsTopUps
<1>6. QED
  BY <1>1, <1>2, <1>3, <1>4, <1>5 DEF Next

Exceeds == MaxPurchasePerUser > 0 /\ owned' > owned /\ owned' > MaxPurchasePerUser

RacedBy(h) == handler[h].pc = "tx" /\ handler'[h] = Idle /\ handler[h].count < owned

\* A step that brings the user over the limit completes a stale count.
LEMMA ExceedsRaced ==
    ASSUME LInv, [Next]_vars, Exceeds
    PROVE  \E h \in Handlers : RacedBy(h)
<1>t. TypeOK /\ Known /\ CreditsTopUps
  BY DEF LInv
<1>o. owned \in Nat
  BY <1>t DEF TypeOK
<1>c. owned' # owned
  BY <1>o DEF Exceeds
<1>1. PICK h \in Handlers : Step(h)
  BY <1>c DEF Next, CreateOrder, Checkout, Notify, AdminCompleteTopUp, Crash, NoCredit, rows, vars
<1> DEFINE r == handler[h]
<1>r. r \in Handler
  BY <1>t DEF TypeOK
<1>2. /\ ~LockOrder(h) /\ ~ReadOrder(h) /\ ~ExpireSubscriptionOrder(h)
      /\ ~SessionExpired(h) /\ ~EpayUpdate(h)
  BY <1>c DEF LockOrder, ReadOrder, ExpireSubscriptionOrder, SessionExpired, EpayUpdate,
              NoCredit, rows
<1>3. r.order \in TopUps => r.order \notin SubOrders
  BY PaymentsAssumption
<1>a. ASSUME NEW w, Credit(r, w) PROVE r.order \notin TopUps
  <2> SUFFICES ASSUME r.order \in TopUps PROVE FALSE
    OBVIOUS
  <2>1. owned' = owned + 0
    BY <1>a, <1>3 DEF Credit
  <2>2. QED
    BY <1>c, <1>o, <2>1
<1>4. ~EpayCredit(h)
  BY <1>a, <1>c, <1>t DEF EpayCredit, CreditsTopUps, NoCredit
<1>5. ~Recharge(h) /\ ~ManualCompleteTopUp(h)
  BY <1>a, <1>c DEF Recharge, ManualCompleteTopUp, CompleteInTx, InTx, rows
<1>6. CompleteSubscriptionOrder(h)
  BY <1>1, <1>2, <1>4, <1>5 DEF Step
<1>7. /\ MayBuy(r.count) /\ r.pc = "tx" /\ owned' = owned + 1 /\ End(h, TRUE)
  BY <1>c, <1>6 DEF CompleteSubscriptionOrder, CompleteInTx, InTx, Credit, rows
<1>8. handler'[h] = Idle
  BY <1>7, <1>t DEF End, Become, TypeOK
<1>9. r.count \in Nat /\ r.count < MaxPurchasePerUser /\ MaxPurchasePerUser \in Nat
  BY <1>7, <1>r, PaymentsAssumption DEF Exceeds, MayBuy, Handler
<1>10. r.count < owned
  BY <1>7, <1>9, <1>o DEF Exceeds
<1>11. QED
  BY <1>7, <1>8, <1>10 DEF RacedBy

\* For any orders, processes, duplicates and faults: a
\* user comes to own more subscriptions of a plan than its maximum allows only by
\* completing an order whose count was taken before another completion
\* (CountUserSubscriptionsByPlan in CreateUserSubscriptionFromPlanTx).
THEOREM PurchaseLimitNeedsRace == Spec => LimitNeedsRace
<1>1. Init => LInv
  <2>1. Init => CreditsTopUps
    BY DEF Init, CreditsTopUps, Idle
  <2>2. QED
    BY <2>1, InitInv DEF IInv, LInv
<1>2. LInv /\ [Next]_vars => LInv'
  BY TypeStep, KnownStep, CreditsTopUpsStep DEF LInv
<1>3. LInv /\ [Next]_vars =>
        [MaxPurchasePerUser > 0 /\ owned' > owned /\ owned' > MaxPurchasePerUser =>
           \E h \in Handlers : /\ handler[h].pc = "tx" /\ handler'[h] = Idle
                               /\ handler[h].count < owned]_vars
  BY ExceedsRaced DEF Exceeds, RacedBy
<1>4. QED
  BY <1>1, <1>2, <1>3, PTL DEF Spec, LimitNeedsRace
=============================================================================
