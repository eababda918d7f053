------------------------------ MODULE Payments ------------------------------
(***************************************************************************)
(* Orders and their completion.                                            *)
(*                                                                         *)
(* A user opens an order, for quota (TopUp) or for a plan                  *)
(* (SubscriptionOrder), and pays at Stripe, Creem or Epay.  The provider   *)
(* notifies some gateway process, perhaps more than once; an administrator *)
(* may complete a top-up by hand.  The handlers of one process exclude     *)
(* each other per order (LockOrder); nothing excludes those of different   *)
(* processes, since the row lock the code asks for (gorm:query_option, FOR *)
(* UPDATE) is an option that GORM v2 ignores.                              *)
(***************************************************************************)
EXTENDS Integers

CONSTANTS
    TopUps,        \* orders for quota
    SubOrders,     \* orders of one user for one plan
    Method,        \* each order's provider: "stripe", "creem" or "epay"
    Nodes,         \* the gateway's processes
    Handlers,      \* requests that may be handled at the same time
    Amount,        \* each top-up's amount
    QuotaPerUnit,
    MaxPurchasePerUser,   \* of the plan, 0: unlimited
    MaxRequests,   \* bound on duplicate notifications and manual completions
    MaxFaults      \* bound on failing writes and restarts

Orders == TopUps \cup SubOrders

ASSUME PaymentsAssumption ==
    /\ TopUps \cap SubOrders = {}
    /\ Method \in [Orders -> {"stripe", "creem", "epay"}]
    /\ Amount \in Nat
    /\ QuotaPerUnit \in Nat
    /\ MaxPurchasePerUser \in Nat
    /\ MaxRequests \in Nat
    /\ MaxFaults \in Nat

VARIABLES
    status,      \* of each order's row
    fate,        \* what became of the order at its provider
    acked,       \* the provider has been told the notification arrived
    credits,     \* how often the order was made good, by each process
    credited,    \* the quota given for it
    owned,       \* the user's rows in user_subscriptions for the plan
    handler,     \* the requests under way
    requests, faults

rows == <<status, credits, credited, owned>>
vars == <<rows, fate, acked, handler, requests, faults>>

Pending == "pending"

Kinds == {"none", "paid", "expired", "admin"}

NoOrder == "none"

Handler == [
    pc : {"idle", "lock", "locked", "plain", "tx", "credit"},
    kind : Kinds,
    order : Orders \cup {NoOrder},
    node : Nodes \cup {NoOrder},
    seen : {"none", "pending", "success", "expired"},   \* the status it read
    count : Nat]                     \* the user's subscriptions it counted

Idle == [pc |-> "idle", kind |-> "none", order |-> NoOrder, node |-> NoOrder,
         seen |-> "none", count |-> 0]

TypeOK ==
    /\ status \in [Orders -> {"none", "pending", "success", "expired"}]
    /\ fate \in [Orders -> {"open", "closed", "paid", "expired"}]
    /\ acked \in [Orders -> BOOLEAN]
    /\ credits \in [Orders -> [Nodes -> Nat]]
    /\ credited \in [Orders -> Nat]
    /\ owned \in Nat
    /\ handler \in [Handlers -> Handler]
    /\ requests \in Nat
    /\ faults \in Nat

Init ==
    /\ status = [o \in Orders |-> "none"]
    /\ fate = [o \in Orders |-> "open"]
    /\ acked = [o \in Orders |-> FALSE]
    /\ credits = [o \in Orders |-> [n \in Nodes |-> 0]]
    /\ credited = [o \in Orders |-> 0]
    /\ owned = 0
    /\ handler = [h \in Handlers |-> Idle]
    /\ requests = 0
    /\ faults = 0

Become(h, r) == handler' = [handler EXCEPT ![h] = r]

Fault == faults < MaxFaults /\ faults' = faults + 1
NoFault == UNCHANGED faults

SetStatus(o, s) == status' = [status EXCEPT ![o] = s]

\* The request r makes its order good: a quota, or a row in user_subscriptions.
Credit(r, quota) ==
    /\ credits' = [credits EXCEPT ![r.order][r.node] = @ + 1]
    /\ credited' = [credited EXCEPT ![r.order] = @ + quota]
    /\ owned' = owned + (IF r.order \in SubOrders THEN 1 ELSE 0)

NoCredit == UNCHANGED <<credits, credited, owned>>

MadeGood(o) == \E n \in Nodes : credits[o][n] > 0

-----------------------------------------------------------------------------
(* What users, providers and administrators do. *)

\* Mutant: the limit is off by one.
MayBuyOneMore(count) == MaxPurchasePerUser = 0 \/ count <= MaxPurchasePerUser

\* CountUserSubscriptionsByPlan against the plan's maximum: when an order is
\* opened, and once more before the subscription is created.
MayBuy(count) == MaxPurchasePerUser = 0 \/ count < MaxPurchasePerUser

\* RequestEpay, RequestPay, SubscriptionRequestEpay and their like.  The last
\* expires the order again if the purchase cannot be set up: no one can pay it.
CreateOrder(o) ==
    /\ status[o] = "none"
    /\ o \in SubOrders => MayBuy(owned)
    /\ \/ SetStatus(o, Pending) /\ UNCHANGED fate
       \/ /\ o \in SubOrders /\ Method[o] = "epay"
          /\ SetStatus(o, "expired") /\ fate' = [fate EXCEPT ![o] = "closed"]
    /\ NoCredit /\ UNCHANGED <<acked, handler, requests, faults>>

\* The checkout at the provider.  Only Stripe reports one that ran out.
Checkout(o) ==
    /\ status[o] # "none" /\ fate[o] = "open"
    /\ \E f \in {"paid"} \cup (IF Method[o] = "stripe" THEN {"expired"} ELSE {}) :
         fate' = [fate EXCEPT ![o] = f]
    /\ UNCHANGED <<rows, acked, handler, requests, faults>>

\* EpayNotify says "success" before it does anything else.
AckedEarly(o) == Method[o] = "epay" /\ o \in TopUps

\* A notification reaches a process: again until it is acknowledged, and
\* perhaps once more after that.
Notify(h, n, o) ==
    /\ handler[h] = Idle /\ fate[o] \in {"paid", "expired"}
    /\ \/ ~acked[o] /\ UNCHANGED requests
       \/ acked[o] /\ requests < MaxRequests /\ requests' = requests + 1
    /\ Become(h, [Idle EXCEPT !.pc = "lock", !.kind = fate[o], !.order = o, !.node = n])
    /\ acked' = [acked EXCEPT ![o] = @ \/ AckedEarly(o)]
    /\ UNCHANGED <<rows, fate, faults>>

AdminCompleteTopUp(h, n, o) ==
    /\ handler[h] = Idle /\ o \in TopUps /\ status[o] # "none"
    /\ requests < MaxRequests /\ requests' = requests + 1
    /\ Become(h, [Idle EXCEPT !.pc = "lock", !.kind = "admin", !.order = o, !.node = n])
    /\ UNCHANGED <<rows, fate, acked, faults>>

\* The process stops; its requests and their locks and transactions are gone.
Crash(n) ==
    /\ \E h \in Handlers : handler[h].node = n
    /\ handler' = [h \in Handlers |-> IF handler[h].node = n THEN Idle ELSE handler[h]]
    /\ Fault
    /\ UNCHANGED <<rows, fate, acked, requests>>

-----------------------------------------------------------------------------
(* The lock per order, and the read. *)

Others(h) == {g \in Handlers \ {h} : handler[g].order = handler[h].order}

\* Mutant: no lock per order.
NeverHeld(h) == FALSE

OrderLocked(h) ==
    \E g \in Others(h) : handler[g].node = handler[h].node
                         /\ handler[g].pc \notin {"idle", "lock"}

LockOrder(h) ==
    /\ handler[h].pc = "lock" /\ ~OrderLocked(h)
    /\ Become(h, [handler[h] EXCEPT !.pc = "locked"])
    /\ UNCHANGED <<rows, fate, acked, requests, faults>>

\* EpayNotify reads a top-up and saves it without a transaction, and so does
\* sessionExpired.
Plain(r) ==
    /\ r.order \in TopUps
    /\ r.kind = "expired" \/ (r.kind = "paid" /\ Method[r.order] = "epay")

\* The row is read: in a transaction, or without one.
ReadOrder(h) ==
    LET r == handler[h]
        saw == [r EXCEPT !.seen = status[r.order], !.count = owned]
    IN  /\ r.pc = "locked"
        /\ \/ Plain(r) /\ Become(h, [saw EXCEPT !.pc = "plain"])
           \/ ~Plain(r) /\ Become(h, [saw EXCEPT !.pc = "tx"])
        /\ UNCHANGED <<rows, fate, acked, requests, faults>>

-----------------------------------------------------------------------------
(* Completion. *)

\* Mutant: every notification is acknowledged.
AcksAlways(r, ok) == TRUE

\* StripeWebhook answers 200 whatever happened; the others report errors.
Acks(r, ok) == Method[r.order] = "stripe" \/ ok

\* The handler returns, which releases its locks.
End(h, ok) ==
    LET r == handler[h] IN
    /\ Become(h, Idle)
    /\ acked' = [acked EXCEPT ![r.order] = @ \/ (r.kind # "admin" /\ Acks(r, ok))]
    /\ UNCHANGED <<fate, requests>>

\* A transaction that completes the order, or fails and leaves no trace.
CompleteInTx(h, quota) ==
    LET o == handler[h].order IN
    \/ SetStatus(o, "success") /\ Credit(handler[h], quota) /\ End(h, TRUE) /\ NoFault
    \/ UNCHANGED rows /\ End(h, FALSE) /\ Fault

\* Recharge and RechargeCreem: what a paid top-up is worth.
Worth(o) == IF Method[o] = "creem" THEN Amount ELSE Amount * QuotaPerUnit

InTx(h, kind, S) ==
    handler[h].pc = "tx" /\ handler[h].kind = kind /\ handler[h].order \in S

\* An order that is not pending is turned away, by Creem's handler with 200 if
\* it notices before the transaction and with an error if the transaction does.
Recharge(h) ==
    LET r == handler[h] IN
    /\ InTx(h, "paid", TopUps)
    /\ \/ r.seen = Pending /\ CompleteInTx(h, Worth(r.order))
       \/ r.seen # Pending /\ UNCHANGED rows /\ NoFault
          /\ \E noticed \in BOOLEAN : End(h, noticed)

\* ManualCompleteTopUp values every order but Stripe's by its amount in units.
ManualCompleteTopUp(h) ==
    LET quota == Amount * QuotaPerUnit
        may == handler[h].seen = Pending /\ quota > 0
    IN  /\ InTx(h, "admin", TopUps)
        /\ \/ may /\ CompleteInTx(h, quota)
           \/ ~may /\ UNCHANGED rows /\ End(h, FALSE) /\ NoFault

CompleteSubscriptionOrder(h) ==
    LET r == handler[h] IN
    /\ InTx(h, "paid", SubOrders)
    /\ \/ r.seen = Pending /\ MayBuy(r.count) /\ CompleteInTx(h, 0)
       \/ ~(r.seen = Pending /\ MayBuy(r.count))
          /\ UNCHANGED rows /\ End(h, r.seen = "success") /\ NoFault

Expirable(seen) == seen = Pending

ExpireSubscriptionOrder(h) ==
    LET r == handler[h] IN
    /\ InTx(h, "expired", SubOrders)
    /\ \/ Expirable(r.seen) /\ SetStatus(r.order, "expired") /\ NoFault
       \/ ~Expirable(r.seen) /\ UNCHANGED status /\ NoFault
       \/ UNCHANGED status /\ Fault
    /\ NoCredit /\ End(h, TRUE)

\* sessionExpired complains about an order that is not pending, and saves it
\* as expired all the same.
SessionExpired(h) ==
    LET r == handler[h] IN
    /\ r.pc = "plain" /\ r.kind = "expired"
    /\ \/ SetStatus(r.order, "expired") /\ NoFault
       \/ UNCHANGED status /\ Fault
    /\ NoCredit /\ End(h, TRUE)

\* Mutant: the handler is done once the order is saved.
SavedOnly(r) == Idle

Saved(r) == [r EXCEPT !.pc = "credit"]

\* EpayNotify: the order is saved first ...
EpayUpdate(h) ==
    LET r == handler[h] IN
    /\ r.pc = "plain" /\ r.kind = "paid"
    /\ \/ r.seen = Pending /\ SetStatus(r.order, "success")
          /\ Become(h, Saved(r)) /\ NoFault
       \/ r.seen = Pending /\ UNCHANGED status /\ Become(h, Idle) /\ Fault
       \/ r.seen # Pending /\ UNCHANGED status /\ Become(h, Idle) /\ NoFault
    /\ NoCredit /\ UNCHANGED <<fate, acked, requests>>

\* ... and the user's quota raised afterwards.
EpayCredit(h) ==
    LET r == handler[h] IN
    /\ r.pc = "credit"
    /\ \/ Credit(r, Worth(r.order)) /\ NoFault
       \/ NoCredit /\ Fault
    /\ UNCHANGED status /\ End(h, TRUE)

-----------------------------------------------------------------------------
Step(h) ==
    \/ LockOrder(h) \/ ReadOrder(h) \/ Recharge(h) \/ ManualCompleteTopUp(h)
    \/ CompleteSubscriptionOrder(h) \/ ExpireSubscriptionOrder(h)
    \/ SessionExpired(h) \/ EpayUpdate(h) \/ EpayCredit(h)

Next ==
    \/ \E o \in Orders : CreateOrder(o) \/ Checkout(o)
    \/ \E h \in Handlers, n \in Nodes, o \in Orders :
         Notify(h, n, o) \/ AdminCompleteTopUp(h, n, o)
    \/ \E h \in Handlers : Step(h)
    \/ \E n \in Nodes : Crash(n)

Spec == Init /\ [][Next]_vars

\* A request that has begun goes on, and a provider repeats a notification
\* until it is acknowledged.
Fairness ==
    /\ \A h \in Handlers : WF_vars(Step(h))
    /\ \A o \in Orders :
         SF_vars(~acked[o] /\ \E h \in Handlers, n \in Nodes : Notify(h, n, o))

FairSpec == Spec /\ Fairness
-----------------------------------------------------------------------------
(* Properties. *)

\* The session of a Stripe top-up ran out, which is saved whatever its status is.
Overwritten(o) == o \in TopUps /\ fate[o] = "expired"

\* However often an order is notified and completed by hand, and however these
\* requests interleave, no process makes it good twice (LockOrder, and the status
\* check after it).  Each process keeps to this by itself: their requests do not
\* exclude those of another, which may make the same order good once more.
CreditedOnce == \A o \in Orders, n \in Nodes : credits[o][n] <= 1

\* Between requests, an order's status tells whether it was made good, also after
\* failing writes and restarts, with two exceptions: an Epay top-up, completed
\* without a transaction, does not survive a failure, and sessionExpired saves a
\* Stripe top-up as expired although it was completed by hand.
StatusTellsCredit ==
    \A o \in Orders :
        /\ \A h \in Handlers : handler[h].order = o => handler[h].pc # "credit"
        /\ AckedEarly(o) => faults = 0
        /\ ~Overwritten(o)
        => (status[o] = "success" <=> MadeGood(o))

\* A top-up is worth the same whether its provider's notification or an
\* administrator completes it (Recharge, RechargeCreem, ManualCompleteTopUp).
WorthAgrees ==
    \A o \in TopUps, n \in Nodes :
        Nodes = {n} /\ credits[o][n] = 1 => credited[o] = Worth(o)

\* A user comes to own more subscriptions of a plan than it allows only when
\* another order was completed between this order's count and its commit
\* (MaxPurchasePerUser in CreateUserSubscriptionFromPlanTx).
LimitNeedsRace ==
    [][MaxPurchasePerUser > 0 /\ owned' > owned /\ owned' > MaxPurchasePerUser =>
        \E h \in Handlers : /\ handler[h].pc = "tx" /\ handler'[h] = Idle
                            /\ handler[h].count < owned]_vars

\* What was paid is eventually made good, although writes fail, processes restart
\* and several of them handle it, wherever errors are reported and the provider
\* repeats itself (CreemWebhook, SubscriptionEpayNotify; StripeWebhook and
\* EpayNotify forgo that).  The one exception is a subscription order that was
\* opened within the plan's limit and paid when it had been reached:
\* CreateUserSubscriptionFromPlanTx then refuses it for good.
PaidIsCredited ==
    \A o \in Orders : Method[o] # "stripe" /\ ~AckedEarly(o) =>
        (fate[o] = "paid" ~> MadeGood(o) \/ (o \in SubOrders /\ ~MayBuy(owned)))
=============================================================================
