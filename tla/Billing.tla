------------------------------ MODULE Billing ------------------------------
(***************************************************************************)
(* The billing of concurrent relay requests of one user through one token. *)
(*                                                                         *)
(* A request opens a BillingSession (service/billing_session.go), which    *)
(* holds quota on the token and on one funding source, the wallet or a     *)
(* subscription; calls upstream, with retries (controller/relay.go); and   *)
(* then settles the hold to the actual quota or refunds it in a goroutine. *)
(* One step is one operation on the shared store, so the requests          *)
(* interleave exactly where the code gives the store up.                   *)
(***************************************************************************)
EXTENDS Integers, FiniteSetsExt

CONSTANTS
    Requests,        \* the concurrent requests
    Kinds,           \* how they enter: Relay, Playground or RelayTask
    Prefs,           \* the BillingPreference values in use
    PreQuotas,       \* QuotaToPreConsume the price helper may compute
    ActualQuotas,    \* the actual quota the upstream usage may amount to
    InitWallet,      \* users.quota before the first request
    InitToken,       \* tokens.remain_quota before the first request
    TokenUnlimited,  \* tokens.unlimited_quota
    Subscribed,      \* does the user start with an active subscription?
    SubTotal,        \* its amount_total, 0 meaning unlimited
    TrustQuota,      \* common.GetTrustQuota()
    RetryTimes,      \* common.RetryTimes
    ViolationFee,    \* calcViolationFeeQuota(...), 0 when the policy is off
    Faults,          \* how a store operation may fail: "store" it has no
                     \* effect; "ack" it has, and an error is reported;
                     \* "outer" only the outer commit of a subscription
                     \* refund is lost
    MaxFaults,       \* bound on the number of such failures
    MaxPeriods       \* bound on the number of quota resets that fall due

AllKinds == {"relay", "playground", "task"}
AllPrefs == {"subscription_only", "wallet_only",
             "wallet_first", "subscription_first"}

ASSUME BillingAssumption ==
    /\ Kinds \subseteq AllKinds
    /\ Prefs \subseteq AllPrefs
    /\ PreQuotas \subseteq Nat
    /\ ActualQuotas \subseteq Nat
    /\ InitWallet \in Nat
    /\ InitToken \in Nat
    /\ TokenUnlimited \in BOOLEAN
    /\ Subscribed \in BOOLEAN
    /\ SubTotal \in Nat
    /\ TrustQuota \in Nat
    /\ RetryTimes \in Nat
    /\ ViolationFee \in Nat
    /\ Faults \subseteq {"store", "ack", "outer"}
    /\ MaxFaults \in Nat
    /\ MaxPeriods \in Nat

VARIABLES
    wallet,   \* users.quota
    token,    \* tokens.remain_quota
    sub,      \* the user_subscriptions row: is it active, amount_used, and
              \* since which period (last_reset_time)
    period,   \* the periods that have ended: a row of an earlier one is due
    sweep,    \* the transaction of ResetDueSubscriptions
    raced,    \* has a save overwritten a change made since its read?
    forgiven, \* what resets have taken off amount_used
    req,      \* each request's goroutine and its BillingSession
    paid,     \* what each request has booked so far, net, per account
    faults    \* failures so far

subVars == <<sub, period, sweep, raced, forgiven>>

vars == <<wallet, token, subVars, req, paid, faults>>

Pcs == {"start", "open", "hasSub", "gate", "token", "tokenDec", "fund",
        "rollback", "upstream", "settleFund", "settleToken", "postFund",
        "postToken", "done"}
Outcomes == {"none", "ok", "fail", "rejected", "panic"}

\* A transaction on the subscription: the row as it read it, and when.
Copy == [open : BOOLEAN, used : Nat, since : Nat, now : Nat]

Closed == [open |-> FALSE, used |-> 0, since |-> 0, now |-> 0]

Session == [
    pc : Pcs,
    kind : AllKinds,
    pref : AllPrefs,
    free : BOOLEAN,             \* PriceData.FreeModel: no session is opened
    pre : Nat,                  \* QuotaToPreConsume
    tokenQuota : Int,           \* "token_quota", read by the auth middleware
    userQuota : Int,            \* relayInfo.UserQuota, read by tryWallet
    source : {"wallet", "subscription"},
    amount : Nat,               \* effectiveQuota of preConsume
    insufficient : BOOLEAN,     \* funding error is InsufficientUserQuota
    billing : BOOLEAN,          \* relayInfo.Billing # nil
    tokenConsumed : Nat,
    preConsumed : Nat,          \* preConsumedQuota
    funded : Nat,               \* consumed / preConsumed of the source
    fundingSettled : BOOLEAN,
    settled : BOOLEAN,
    refunded : BOOLEAN,
    retry : Nat,
    actual : Nat,
    post : Nat,                 \* quota handed to PostConsumeQuota
    booked : Nat,               \* what of it reached the funding source
    outcome : Outcomes,
    record : {"none", "consumed", "refunded"},
                                \* SubscriptionPreConsumeRecord.Status
    gpc : {"idle", "funding", "token", "end"},  \* the refund goroutine
    tries : Nat,                \* its refundWithRetry attempts
    unmarked : Nat,             \* given back without marking the record
    tx : Copy,                  \* the handler's subscription transaction
    gtx : Copy,                 \* the goroutine's
    clean : BOOLEAN]            \* no failed write changed what it owes

Account == [wallet : Int, sub : Int, token : Int]

NewRequest == [
    pc |-> "start", kind |-> "relay", pref |-> "wallet_only",
    free |-> FALSE, pre |-> 0, tokenQuota |-> 0, userQuota |-> 0,
    source |-> "wallet", amount |-> 0, insufficient |-> FALSE,
    billing |-> FALSE, tokenConsumed |-> 0, preConsumed |-> 0, funded |-> 0,
    fundingSettled |-> FALSE, settled |-> FALSE, refunded |-> FALSE,
    retry |-> 0, actual |-> 0, post |-> 0, booked |-> 0, outcome |-> "none",
    record |-> "none", gpc |-> "idle", tries |-> 0, unmarked |-> 0,
    tx |-> Closed, gtx |-> Closed, clean |-> TRUE]

TypeOK ==
    /\ wallet \in Int
    /\ token \in Int
    /\ sub \in [active : BOOLEAN, used : Nat, since : Nat]
    /\ period \in Nat
    /\ sweep \in Copy
    /\ raced \in BOOLEAN
    /\ forgiven \in Nat
    /\ req \in [Requests -> Session]
    /\ paid \in [Requests -> Account]
    /\ faults \in Nat

Init ==
    /\ wallet = InitWallet
    /\ token = InitToken
    /\ sub = [active |-> Subscribed, used |-> 0, since |-> 0]
    /\ period = 0
    /\ sweep = Closed
    /\ raced = FALSE
    /\ forgiven = 0
    /\ req = [r \in Requests |-> NewRequest]
    /\ paid = [r \in Requests |-> [wallet |-> 0, sub |-> 0, token |-> 0]]
    /\ faults = 0

-----------------------------------------------------------------------------
(* The store.  Each operator is one atomic statement or transaction. *)

Become(r, q) == req' = [req EXCEPT ![r] = q]

Charge(r, field, n) ==
    paid' = [paid EXCEPT ![r][field] = @ + n]

\* IncreaseUserQuota / DecreaseUserQuota: quota = quota -/+ n, unconditional.
DebitWallet(r, n) ==
    /\ wallet' = wallet - n
    /\ Charge(r, "wallet", n)
    /\ UNCHANGED <<token, subVars>>

\* IncreaseTokenQuota / DecreaseTokenQuota.
DebitToken(r, n) ==
    /\ token' = token - n
    /\ Charge(r, "token", n)
    /\ UNCHANGED <<wallet, subVars>>

WithinTotal(used) == SubTotal > 0 => used <= SubTotal

AtLeastZero(n) == IF n < 0 THEN 0 ELSE n

\* The SELECT of a transaction on the subscription.  Its FOR UPDATE goes through
\* an option GORM v2 ignores: the row is not locked.
ReadRow == [open |-> TRUE, used |-> sub.used, since |-> sub.since, now |-> period]

\* Mutant: the reset does not move last_reset_time.
RenewedKeepsDate(c) == IF c.since < c.now THEN [c EXCEPT !.used = 0] ELSE c

\* maybeResetUserSubscriptionWithPlanTx, on the row the transaction read.
Renewed(c) ==
    IF c.since < c.now THEN [c EXCEPT !.used = 0, !.since = c.now] ELSE c

\* tx.Save writes all columns of the copy c, changed to row, over whatever the
\* row has become.  (It leaves end_time alone, which decides what is active.)
Save(c, row) ==
    /\ sub' = [sub EXCEPT !.used = row.used, !.since = row.since]
    /\ raced' = (raced \/ c.used # sub.used \/ c.since # sub.since)
    /\ forgiven' = forgiven + (IF row.since # c.since THEN c.used ELSE 0)

\* PostConsumeUserSubscriptionDelta once it has read c: clamp at zero, refuse
\* beyond the total, save.
DebitSubscription(r, c, n) ==
    LET used == AtLeastZero(c.used + n) IN
    /\ c.open
    /\ WithinTotal(used)
    /\ Save(c, [c EXCEPT !.used = used])
    /\ Charge(r, "sub", n)
    /\ UNCHANGED <<wallet, token, period, sweep>>

\* PreConsumeUserSubscription once it has read c: reset if due, check, save.
ConsumeSubscription(r, c, n) ==
    LET used == Renewed(c).used + n IN
    /\ c.open
    /\ WithinTotal(used)
    /\ Save(c, [Renewed(c) EXCEPT !.used = used])
    /\ Charge(r, "sub", n)
    /\ UNCHANGED <<wallet, token, period, sweep>>

NoDebit == UNCHANGED <<wallet, token, subVars, paid>>

NoFault == UNCHANGED faults

Fault(kind) ==
    /\ kind \in Faults
    /\ faults < MaxFaults
    /\ faults' = faults + 1

\* A write that reports an error, without or with its effect.
Lost == NoDebit /\ Fault("store")
Unacknowledged(debit) == debit /\ Fault("ack")
Fails(debit) == Lost \/ Unacknowledged(debit)

-----------------------------------------------------------------------------
(* Opening a session: NewBillingSession. *)

IsPlayground(q) == q.kind = "playground"

\* A new BillingSession value that will draw on the given source.
Try(q, source, pc, amount) ==
    [q EXCEPT !.source = source, !.pc = pc, !.amount = amount,
              !.tokenConsumed = 0, !.insufficient = FALSE]

TryWallet(q) == Try(q, "wallet", "gate", 0)

\* trySubscription pre-consumes at least 1.
TrySubscription(q) ==
    Try(q, "subscription", "token", IF q.pre > 0 THEN q.pre ELSE 1)

\* The error reaches the handler: Relay returns it; RelayTask retries the
\* submission, session included, while it has retries left.
Rejected(q) == [q EXCEPT !.pc = "done", !.outcome = "rejected"]

Rejections(q) ==
    {Rejected(q)} \cup
    IF q.kind = "task" /\ q.retry < RetryTimes
    THEN {[q EXCEPT !.pc = "open", !.retry = @ + 1]}
    ELSE {}

Reject(r, q) == \E q2 \in Rejections(q) : Become(r, q2)

\* The request arrives: auth has read the token's quota, the price is known.
\* A free model opens no session.
Begin(r) ==
    /\ req[r].pc = "start"
    /\ \E kind \in Kinds, pref \in Prefs, pre \in PreQuotas, free \in BOOLEAN :
         Become(r, [req[r] EXCEPT
            !.kind = kind, !.pref = pref, !.free = free,
            !.pre = IF free THEN 0 ELSE pre,
            !.tokenQuota = IF kind = "playground" THEN 0 ELSE token,
            !.pc = IF free THEN "upstream" ELSE "open"])
    /\ NoDebit /\ NoFault

NewBillingSession(r) ==
    LET q == req[r] IN
    /\ q.pc = "open"
    /\ Become(r, CASE q.pref = "subscription_only" -> TrySubscription(q)
                   [] q.pref = "subscription_first" -> [q EXCEPT !.pc = "hasSub"]
                   [] OTHER -> TryWallet(q))
    /\ NoDebit /\ NoFault

HasActiveUserSubscription(r) ==
    LET q == req[r] IN
    /\ q.pc = "hasSub"
    /\ NoDebit
    /\ \/ /\ Become(r, IF sub.active THEN TrySubscription(q) ELSE TryWallet(q))
          /\ NoFault
       \/ Reject(r, q) /\ Fault("store")

\* shouldTrust, for the wallet: a rich user on a rich token holds nothing.
\* A task sets ForcePreConsume; a playground token has no quota of its own.
ShouldTrust(q, userQuota) ==
    /\ q.kind # "task"
    /\ TrustQuota > 0
    /\ (TokenUnlimited /\ ~IsPlayground(q)) \/ q.tokenQuota > TrustQuota
    /\ userQuota > TrustQuota

\* Mutant: any positive balance passes the gate.
WalletPositive(q) == wallet > 0

WalletCovers(q) == wallet > 0 /\ wallet - q.pre >= 0

\* tryWallet: the balance is read and checked here, debited steps later.
WalletGate(r) ==
    LET q == req[r]
        held == IF ShouldTrust(q, wallet) THEN 0 ELSE q.pre
    IN  /\ q.pc = "gate"
        /\ NoDebit
        /\ \/ /\ WalletCovers(q)
              /\ Become(r, [q EXCEPT !.userQuota = wallet, !.amount = held,
                                     !.pc = IF held > 0 THEN "token" ELSE "fund"])
              /\ NoFault
           \/ /\ ~WalletCovers(q)
              /\ IF q.pref = "wallet_first"
                 THEN Become(r, TrySubscription(q))
                 ELSE Reject(r, q)
              /\ NoFault
           \/ Reject(r, q) /\ Fault("store")

\* PreConsumeTokenQuota, up to its check.  A playground request passes it
\* without touching a token, yet the session notes the amount as consumed.
PreConsumeTokenQuota(r) ==
    LET q == req[r]
        refuse == ~TokenUnlimited /\ token < q.amount
    IN  /\ q.pc = "token"
        /\ NoDebit
        /\ \/ /\ IsPlayground(q)
              /\ Become(r, [q EXCEPT !.pc = "fund", !.tokenConsumed = q.amount])
              /\ NoFault
           \/ /\ ~IsPlayground(q) /\ ~refuse
              /\ Become(r, [q EXCEPT !.pc = "tokenDec"])
              /\ NoFault
           \/ ~IsPlayground(q) /\ refuse /\ Reject(r, q) /\ NoFault
           \/ ~IsPlayground(q) /\ Reject(r, q) /\ Fault("store")

DecreaseTokenQuota(r) ==
    LET q == req[r] IN
    /\ q.pc = "tokenDec"
    /\ \/ /\ DebitToken(r, q.amount)
          /\ Become(r, [q EXCEPT !.pc = "fund", !.tokenConsumed = q.amount])
          /\ NoFault
       \/ Reject(r, q) /\ Lost
       \/ /\ Reject(r, [q EXCEPT !.clean = FALSE])
          /\ Unacknowledged(DebitToken(r, q.amount))

\* The session is complete: relayInfo.Billing is set.
Opened(q) == [q EXCEPT !.pc = "upstream", !.billing = TRUE,
                       !.preConsumed = q.amount, !.funded = q.amount]

\* WalletFunding.PreConsume: does nothing for a trusted user's 0.
FundFromWallet(r) ==
    LET q == req[r] IN
    /\ q.pc = "fund" /\ q.source = "wallet"
    /\ \/ DebitWallet(r, q.amount) /\ Become(r, Opened(q)) /\ NoFault
       \/ q.amount > 0 /\ Become(r, [q EXCEPT !.pc = "rollback"]) /\ Lost
       \/ /\ q.amount > 0
          /\ Become(r, [q EXCEPT !.pc = "rollback", !.clean = FALSE])
          /\ Unacknowledged(DebitWallet(r, q.amount))

\* Where the handler is about to change a subscription, unless it has a record of
\* this request already.
DebitsSubscription(q) ==
    \/ q.pc = "fund" /\ q.source = "subscription" /\ q.record = "none" /\ sub.active
    \/ q.pc = "settleFund" /\ q.source = "subscription"
    \/ q.pc = "postFund" /\ q.billing /\ q.source = "subscription"

\* The handler's transaction reads the row; what it decides and saves follows in
\* FundFromSubscription, SettleFunding or PostConsumeFunding.
ReadSubscription(r) ==
    /\ DebitsSubscription(req[r])
    /\ ~req[r].tx.open
    /\ Become(r, [req[r] EXCEPT !.tx = ReadRow])
    /\ NoDebit /\ NoFault

\* SubscriptionFunding.PreConsume: a transaction that checks and debits, unless
\* the request already has a record (a retry after a lost answer).  It may fail
\* at any point; a failure to list the subscriptions is reported as having none.
FundFromSubscription(r) ==
    LET q == [req[r] EXCEPT !.tx = Closed]
        c == req[r].tx
        enough == c.open /\ WithinTotal(Renewed(c).used + q.amount)
        none == ~c.open /\ ~sub.active
        Debit == q.record = "none" /\ ConsumeSubscription(r, c, q.amount)
        q2 == [q EXCEPT !.record = "consumed"]
    IN  /\ q.pc = "fund" /\ q.source = "subscription"
        /\ \/ Debit /\ Become(r, Opened(q2)) /\ NoFault
           \/ q.record = "consumed" /\ Become(r, Opened(q)) /\ NoDebit /\ NoFault
           \/ /\ none \/ (c.open /\ ~enough)
              /\ q.record = "none"
              /\ Become(r, [q EXCEPT !.pc = "rollback", !.insufficient = TRUE])
              /\ NoDebit /\ NoFault
           \/ /\ \E masked \in BOOLEAN :
                   Become(r, [q EXCEPT !.pc = "rollback", !.insufficient = masked])
              /\ Lost
           \/ /\ Become(r, [q2 EXCEPT !.pc = "rollback", !.clean = FALSE])
              /\ Unacknowledged(Debit)

\* subscription_first falls back to the wallet when, and only when, the
\* subscription had too little.
FallsBack(q) ==
    /\ q.insufficient
    /\ q.pref = "subscription_first"

\* The funding source refused: give the token quota back.  A failing
\* give-back is only logged.
RollbackToken(r) ==
    LET q == req[r]
        q2 == [q EXCEPT !.tokenConsumed = 0]
        Leave(q3) == IF FallsBack(q) THEN Become(r, TryWallet(q3))
                                     ELSE Reject(r, q3)
    IN  /\ q.pc = "rollback"
        /\ \/ IsPlayground(q) /\ Leave(q2) /\ NoDebit /\ NoFault
           \/ /\ ~IsPlayground(q)
              /\ Leave(q2) /\ DebitToken(r, -q.tokenConsumed) /\ NoFault
           \/ /\ ~IsPlayground(q)
              /\ Leave([q2 EXCEPT !.clean = FALSE])
              /\ Fails(DebitToken(r, -q.tokenConsumed))

-----------------------------------------------------------------------------
(* The upstream call and how it ends. *)

\* Mutant: RelayTaskSubmit pre-consumes on every attempt.
NextAttemptReopens(q) ==
    IF q.kind = "task" /\ ~q.free THEN "open" ELSE "upstream"

\* A retryable upstream error.  The next attempt of RelayTask opens a session
\* only if the request has none yet; Relay never opens a second one.
NextAttempt(q) == IF q.billing \/ q.free THEN "upstream" ELSE "open"

Retry(r) ==
    LET q == req[r] IN
    /\ q.pc = "upstream"
    /\ q.retry < RetryTimes
    /\ Become(r, [q EXCEPT !.retry = @ + 1, !.pc = NextAttempt(q)])
    /\ NoDebit /\ NoFault

\* The helper returns and settles to the actual quota.  Without a session,
\* SettleBilling hands a non-zero quota to PostConsumeQuota.
Succeed(r) ==
    LET q == req[r] IN
    /\ q.pc = "upstream"
    /\ \E actual \in ActualQuotas :
         /\ q.kind = "task" /\ q.free => actual = 0
         /\ LET q2 == [q EXCEPT !.outcome = "ok", !.actual = actual] IN
            Become(r,
            IF q.billing
            THEN IF actual = q.preConsumed
                 THEN [q2 EXCEPT !.settled = TRUE, !.pc = "done"]
                 ELSE [q2 EXCEPT !.pc = "settleFund"]
            ELSE IF actual = 0
                 THEN [q2 EXCEPT !.pc = "done"]
                 ELSE [q2 EXCEPT !.post = actual, !.pc = "postFund"])
    /\ NoDebit /\ NoFault

\* Mutant: only a subscription's hold is noticed.
NeedsRefundSubscriptionOnly(q) ==
    /\ ~q.settled /\ ~q.refunded /\ ~q.fundingSettled
    /\ q.source = "subscription" /\ q.funded > 0

NeedsRefund(q) ==
    /\ ~q.settled /\ ~q.refunded /\ ~q.fundingSettled
    /\ q.tokenConsumed > 0 \/ (q.source = "subscription" /\ q.funded > 0)

\* BillingSession.Refund: mark the session, leave the rest to a goroutine.
Refund(q) ==
    IF q.billing /\ NeedsRefund(q)
    THEN [q EXCEPT !.refunded = TRUE, !.gpc = "funding"]
    ELSE q

\* The last error: the handler's defer refunds, and Relay's then charges the
\* violation fee if the error carries the marker.
Fail(r) ==
    LET q == [Refund(req[r]) EXCEPT !.outcome = "fail"] IN
    /\ req[r].pc = "upstream"
    /\ \/ Become(r, [q EXCEPT !.pc = "done"])
       \/ /\ q.kind # "task" /\ ViolationFee > 0
          /\ Become(r, [q EXCEPT !.pc = "postFund", !.post = ViolationFee])
    /\ NoDebit /\ NoFault

\* A panic below the handler on the first attempt: no error value is set, so
\* the handler's defer does nothing.  (Later, the previous attempt's error is,
\* and the defer acts as in Fail.)
Panic(r) ==
    /\ req[r].pc = "upstream" /\ req[r].retry = 0
    /\ Become(r, [req[r] EXCEPT !.pc = "done", !.outcome = "panic"])
    /\ NoDebit /\ NoFault

-----------------------------------------------------------------------------
(* Settling. *)

\* The debit of n on a session's source, on a subscription of the copy c.
DebitSource(r, source, c, n) ==
    IF source = "wallet" THEN DebitWallet(r, n) ELSE DebitSubscription(r, c, n)

SourceRefuses(source, c, n) ==
    source = "subscription" /\ c.open /\ ~WithinTotal(AtLeastZero(c.used + n))

\* funding.Settle(delta).  An error leaves the session unsettled, for good.
SettleFunding(r) ==
    LET q == [req[r] EXCEPT !.tx = Closed]
        c == req[r].tx
        delta == q.actual - q.preConsumed
        q2 == [q EXCEPT !.fundingSettled = TRUE]
        q3 == IF IsPlayground(q) THEN [q2 EXCEPT !.settled = TRUE, !.pc = "done"]
                                 ELSE [q2 EXCEPT !.pc = "settleToken"]
    IN  /\ q.pc = "settleFund"
        /\ \/ DebitSource(r, q.source, c, delta) /\ Become(r, q3) /\ NoFault
           \/ /\ SourceRefuses(q.source, c, delta)
              /\ Become(r, [q EXCEPT !.pc = "done"]) /\ NoDebit /\ NoFault
           \/ /\ Become(r, [q EXCEPT !.pc = "done", !.clean = FALSE])
              /\ Fails(DebitSource(r, q.source, c, delta))

\* The token adjustment; its failure is logged and the session is settled.
SettleToken(r) ==
    LET q == [req[r] EXCEPT !.settled = TRUE, !.pc = "done"]
        Debit == DebitToken(r, q.actual - q.preConsumed)
    IN  /\ req[r].pc = "settleToken"
        /\ \/ Debit /\ Become(r, q) /\ NoFault
           \/ Fails(Debit) /\ Become(r, [q EXCEPT !.clean = FALSE])

\* PostConsumeQuota, its funding half: the session's source, else the wallet.
PostConsumeFunding(r) ==
    LET q == [req[r] EXCEPT !.tx = Closed]
        c == req[r].tx
        source == IF q.billing THEN q.source ELSE "wallet"
        q2 == [q EXCEPT !.booked = q.post,
                        !.pc = IF IsPlayground(q) THEN "done" ELSE "postToken"]
    IN  /\ q.pc = "postFund"
        /\ \/ DebitSource(r, source, c, q.post) /\ Become(r, q2) /\ NoFault
           \/ /\ SourceRefuses(source, c, q.post)
              /\ Become(r, [q EXCEPT !.pc = "done"]) /\ NoDebit /\ NoFault
           \/ /\ Become(r, [q EXCEPT !.pc = "done", !.clean = FALSE])
              /\ Fails(DebitSource(r, source, c, q.post))

\* PostConsumeQuota, its token half.
PostConsumeToken(r) ==
    LET q == [req[r] EXCEPT !.pc = "done"] IN
    /\ req[r].pc = "postToken"
    /\ \/ DebitToken(r, q.post) /\ Become(r, q) /\ NoFault
       \/ Fails(DebitToken(r, q.post)) /\ Become(r, [q EXCEPT !.clean = FALSE])

-----------------------------------------------------------------------------
(* The refund goroutine. *)

MaxAttempts == 3   \* refundWithRetry

\* Mutant: the goroutine stops after the funding source.
FundingRefundedOnly(q) == [q EXCEPT !.gpc = "end"]

\* funding.Refund has returned; an error it returns is only logged.
FundingRefunded(q) == [q EXCEPT !.gpc = "token"]

\* One failed attempt of refundWithRetry; the last one gives up.
AttemptFailed(q) ==
    IF q.tries + 1 < MaxAttempts
    THEN [q EXCEPT !.tries = @ + 1]
    ELSE [FundingRefunded(q) EXCEPT !.clean = FALSE]

\* WalletFunding.Refund is not idempotent and is tried once.
RefundWallet(r) ==
    LET q == req[r]
        q2 == FundingRefunded(q)
    IN  /\ q.gpc = "funding" /\ q.source = "wallet"
        /\ \/ DebitWallet(r, -q.funded) /\ Become(r, q2) /\ NoFault
           \/ /\ Fails(DebitWallet(r, -q.funded))
              /\ Become(r, [q2 EXCEPT !.clean = FALSE])

\* Mutant: the record's status is not consulted.
RefundableAlways(q) == q.record \in {"consumed", "refunded"}

Refundable(q) == q.record = "consumed"

\* An attempt of RefundSubscriptionPreConsume that found the record unrefunded
\* reads the subscription.
ReadForRefund(r) ==
    LET q == req[r] IN
    /\ q.gpc = "funding" /\ q.source = "subscription"
    /\ Refundable(q) /\ ~q.gtx.open
    /\ Become(r, [q EXCEPT !.gtx = ReadRow])
    /\ NoDebit /\ NoFault

\* The rest of the attempt.  The give-back is committed by a transaction of its
\* own (PostConsumeUserSubscriptionDelta) inside the one that marks the record,
\* which can therefore fail alone; the next attempt then gives back again.
RefundSubscription(r) ==
    LET q == [req[r] EXCEPT !.gtx = Closed]
        Debit == Refundable(q) /\ DebitSubscription(r, req[r].gtx, -q.funded)
        Marked(q2) == [q2 EXCEPT !.record = "refunded"]
        Unmarked(q2) == [q2 EXCEPT !.unmarked = @ + q.funded, !.clean = FALSE]
    IN  /\ q.gpc = "funding" /\ q.source = "subscription"
        /\ \/ Debit /\ Become(r, Marked(FundingRefunded(q))) /\ NoFault
           \/ /\ ~Refundable(q)
              /\ Become(r, FundingRefunded(q)) /\ NoDebit /\ NoFault
           \/ Lost /\ Become(r, AttemptFailed(q))
           \/ Unacknowledged(Debit) /\ Become(r, Marked(AttemptFailed(q)))
           \/ Debit /\ Fault("outer") /\ Become(r, Unmarked(AttemptFailed(q)))

\* The token follows whether or not the source was refunded.
RefundToken(r) ==
    LET q == [req[r] EXCEPT !.gpc = "end"]
        owed == q.tokenConsumed > 0 /\ ~IsPlayground(q)
    IN  /\ req[r].gpc = "token"
        /\ \/ ~owed /\ Become(r, q) /\ NoDebit /\ NoFault
           \/ owed /\ DebitToken(r, -q.tokenConsumed) /\ Become(r, q) /\ NoFault
           \/ /\ owed /\ Fails(DebitToken(r, -q.tokenConsumed))
              /\ Become(r, [q EXCEPT !.clean = FALSE])

-----------------------------------------------------------------------------
\* ExpireDueSubscriptions, concurrently: end_time has passed, the row stays.
ExpireSubscription ==
    /\ sub.active
    /\ sub' = [sub EXCEPT !.active = FALSE]
    /\ UNCHANGED <<wallet, token, period, sweep, raced, forgiven, req, paid, faults>>

\* next_reset_time passes.
PeriodEnds ==
    /\ period < MaxPeriods
    /\ period' = period + 1
    /\ UNCHANGED <<wallet, token, sub, sweep, raced, forgiven, req, paid, faults>>

\* ResetDueSubscriptions: the transaction on a row that is due, in two steps.  One
\* that fails leaves the row due.
ResetReads ==
    /\ ~sweep.open /\ sub.active /\ sub.since < period
    /\ sweep' = ReadRow
    /\ UNCHANGED <<wallet, token, sub, period, raced, forgiven, req, paid, faults>>

ResetSaves ==
    /\ sweep.open
    /\ sweep' = Closed
    /\ Save(sweep, Renewed(sweep)) \/ UNCHANGED <<sub, raced, forgiven>>
    /\ UNCHANGED <<wallet, token, period, req, paid, faults>>

ResetDueSubscriptions == ResetReads \/ ResetSaves

Open(r) ==
    \/ Begin(r) \/ NewBillingSession(r) \/ HasActiveUserSubscription(r)
    \/ WalletGate(r) \/ PreConsumeTokenQuota(r) \/ DecreaseTokenQuota(r)
    \/ FundFromWallet(r) \/ FundFromSubscription(r) \/ RollbackToken(r)

Close(r) ==
    \/ SettleFunding(r) \/ SettleToken(r)
    \/ PostConsumeFunding(r) \/ PostConsumeToken(r)

RefundGoroutine(r) ==
    \/ RefundWallet(r) \/ ReadForRefund(r) \/ RefundSubscription(r)
    \/ RefundToken(r)

Upstream(r) == Retry(r) \/ Succeed(r) \/ Fail(r) \/ Panic(r)

Handler(r) == Open(r) \/ Upstream(r) \/ Close(r) \/ ReadSubscription(r)

Next ==
    \/ \E r \in Requests : Handler(r) \/ RefundGoroutine(r)
    \/ ExpireSubscription \/ PeriodEnds \/ ResetDueSubscriptions

Spec == Init /\ [][Next]_vars

\* The Go scheduler runs every runnable goroutine; an upstream call ends.
Fairness ==
    \A r \in Requests :
        WF_vars(Handler(r)) /\ WF_vars(RefundGoroutine(r))

FairSpec == Spec /\ Fairness
-----------------------------------------------------------------------------
(* Properties. *)

FundingPaid(r) == paid[r].wallet + paid[r].sub

TokenShare(q, n) == IF IsPlayground(q) THEN 0 ELSE n

Ended(q) == q.pc = "done" /\ q.gpc \in {"idle", "end"}

\* What a finished request must have cost: its actual quota; its hold, if the
\* subscription refused the settlement or the handler panicked; the violation
\* fee, if it failed with one; nothing, if it was turned away.
Due(q) ==
    CASE q.outcome = "ok" /\ (q.settled \/ ~q.billing) -> {q.actual}
      [] q.outcome = "ok" /\ ~q.settled /\ q.billing -> {q.preConsumed}
      [] q.outcome = "panic" -> {q.preConsumed}
      [] q.outcome = "fail" -> {q.booked}
      [] OTHER -> {0}

\* A finished request none of whose store writes failed has cost what it
\* should, once, on its funding source and on its token alike, whichever way
\* it ended, fell back or was retried (BillingSession.preConsume, Settle and
\* Refund together with the handlers that call them).
ChargeMatchesOutcome ==
    \A r \in Requests :
        Ended(req[r]) /\ req[r].clean =>
            \E due \in Due(req[r]) :
                /\ FundingPaid(r) = due
                /\ paid[r].token = TokenShare(req[r], due)

\* Whatever store writes fail, no request ever gives back more than it took, on
\* any account (the flags settled, fundingSettled and refunded), but for one
\* case: each attempt of a subscription's refund that committed its give-back and
\* lost the mark on the record (RefundSubscriptionPreConsume) gives the hold back
\* once too often, and such a request does not pass for clean.
NeverOverRefunded ==
    \A r \in Requests :
        /\ paid[r].wallet >= 0 /\ paid[r].token >= 0
        /\ paid[r].sub + req[r].unmarked >= 0
        /\ req[r].clean => paid[r].sub >= 0

\* The fallback between wallet and subscription never leaves a request
\* charged on both, unless the error it fell back on was wrong about a write
\* (NewBillingSession).
OneFundingSource ==
    \A r \in Requests :
        req[r].clean => paid[r].wallet = 0 \/ paid[r].sub = 0

SumOver(S, f) == FoldSet(LAMBDA r, acc : acc + f[r], 0, S)

SubscriptionBooked == SumOver(Requests, [r \in Requests |-> paid[r].sub])

\* The books of a subscription, whose transactions read and save the row without
\* locking it.  Whatever they overwrite, amount_used never exceeds the total.
\* Unless a save has overwritten another, it never falls short of what the
\* requests have booked less what resets took off; and it is exactly that while
\* nothing was reset and no refund lost the mark on its record: the clamp of
\* PostConsumeUserSubscriptionDelta then hides no refund too many.
SubscriptionBalanced ==
    /\ WithinTotal(sub.used)
    /\ ~raced => sub.used >= SubscriptionBooked - forgiven
    /\ ~raced /\ forgiven = 0 /\ (\A r \in Requests : req[r].unmarked = 0) =>
          sub.used = SubscriptionBooked

\* The wallet can be overdrawn by a pre-consumption only when another request
\* changed the balance between tryWallet's check and this debit.
OverdraftNeedsRace ==
    [][\A r \in Requests :
        req[r].pc = "fund" /\ wallet' < wallet /\ wallet' < 0
            /\ req'[r] # req[r] => wallet # req[r].userQuota]_vars

\* The hold of a request that failed is eventually given back, on the source
\* and on the token (Refund's goroutine runs to its end).
HoldReleased ==
    \A r \in Requests :
        req[r].outcome = "fail" ~>
            \/ ~req[r].clean
            \/ /\ FundingPaid(r) = req[r].booked
               /\ paid[r].token = TokenShare(req[r], req[r].booked)

\* "RefundSubscriptionPreConsume is idempotent": the refund's attempts
\* together give a request's subscription hold back at most once.
SubscriptionRefundIdempotent == \A r \in Requests : paid[r].sub >= 0
-----------------------------------------------------------------------------
(* The inductive invariant behind ChargeMatchesOutcome and                 *)
(* NeverOverRefunded: what a request's local state implies it has booked.  *)

SubAmount(q) == IF q.pre > 0 THEN q.pre ELSE 1

Opening == {"start", "open", "hasSub", "gate", "token", "tokenDec"}

\* How the fields of a request hang together.
Shape(q) ==
    /\ q.pc \in Opening => q.tokenConsumed = 0
    /\ q.pc \in {"fund", "rollback"} => q.tokenConsumed = q.amount
    /\ q.pc = "start" => q.record = "none"
    /\ q.pc = "gate" => q.source = "wallet"
    /\ q.pc = "tokenDec" => ~IsPlayground(q)
    /\ q.pc \in Opening \cup {"fund", "rollback"} => ~q.billing /\ ~q.free
    /\ q.pc \in {"token", "tokenDec", "fund", "rollback"}
          /\ q.source = "subscription" => q.amount = SubAmount(q)
    /\ q.outcome = "none" <=> q.pc \in Opening \cup {"fund", "rollback", "upstream"}
    /\ q.pc = "upstream" => q.billing # q.free
    /\ q.billing => /\ q.tokenConsumed = q.funded
                    /\ q.preConsumed = q.funded
                    /\ q.source = "subscription" => q.record # "none"
    /\ ~q.billing => /\ q.funded = 0 /\ q.preConsumed = 0 /\ q.gpc = "idle"
                     /\ ~q.settled /\ ~q.fundingSettled
    /\ q.record = "refunded" => q.gpc # "idle"
    /\ q.outcome = "rejected" => ~q.billing
    /\ q.gpc # "idle" => q.outcome = "fail"
    /\ q.outcome = "fail" /\ q.gpc = "idle" => q.funded = 0
    /\ q.outcome \in {"none", "rejected", "panic"} => q.booked = 0
    /\ q.outcome \in {"none", "fail", "panic"} => ~q.fundingSettled /\ ~q.settled
    /\ q.refunded => q.gpc # "idle"
    /\ q.unmarked # 0 => q.gpc # "idle" /\ ~q.clean
    /\ q.outcome = "ok" /\ q.billing => q.booked = 0
    /\ q.outcome = "ok" /\ ~q.billing /\ q.pc = "done" /\ q.clean => q.booked = q.actual
    /\ q.pc \in {"settleFund", "settleToken"} => q.outcome = "ok" /\ q.billing /\ ~q.settled
    /\ q.pc = "settleFund" => ~q.fundingSettled
    /\ q.pc = "done" /\ q.fundingSettled => q.settled
    /\ q.pc = "settleToken" => q.fundingSettled /\ ~IsPlayground(q)
    /\ q.pc = "postFund" => q.booked = 0
    /\ q.pc = "postToken" => q.booked = q.post /\ ~IsPlayground(q)
    /\ q.pc \in {"postFund", "postToken"} =>
          \/ q.outcome = "fail"
          \/ q.outcome = "ok" /\ ~q.billing /\ q.post = q.actual

\* The part of the hold that may still be given back.
SourceHold(q) ==
    IF \/ q.gpc \in {"token", "end"}
       \/ q.gpc = "funding" /\ q.source = "subscription" /\ q.record = "refunded"
    THEN 0 ELSE q.funded

TokenHold(q) ==
    IF q.pc \in {"fund", "rollback"} THEN q.amount
    ELSE IF q.gpc = "end" THEN 0 ELSE q.funded

\* What is booked on the funding source and on the token.
SourceDue(q) ==
    IF q.outcome = "ok" /\ (q.fundingSettled \/ q.settled)
    THEN q.actual ELSE q.booked + SourceHold(q)

TokenDue(q) ==
    IF q.outcome = "ok" /\ q.settled THEN q.actual
    ELSE TokenHold(q) + (IF q.pc = "postToken" THEN 0 ELSE q.booked)

DrawsOn(q) == IF q.billing THEN q.source ELSE "wallet"

\* No give-back still to come can exceed what was booked.
Covered(q, p) ==
    /\ p.wallet >= 0 /\ p.sub + q.unmarked >= 0 /\ p.token >= 0
    /\ q.outcome # "ok" \/ q.pc = "settleFund" =>
          /\ DrawsOn(q) = "wallet" => p.wallet >= SourceHold(q)
          /\ DrawsOn(q) = "subscription" => p.sub + q.unmarked >= SourceHold(q)
    /\ q.outcome # "ok" \/ q.pc \in {"settleFund", "settleToken"} =>
          p.token >= TokenShare(q, TokenHold(q))
    /\ ~q.billing /\ q.record # "none" =>
          p.sub >= SubAmount(q) /\ q.record = "consumed"

\* Without failed writes the bookings are exact.
Exact(q, p) ==
    q.clean => /\ p.wallet = IF DrawsOn(q) = "wallet" THEN SourceDue(q) ELSE 0
               /\ p.sub = IF DrawsOn(q) = "subscription" THEN SourceDue(q) ELSE 0
               /\ p.token = TokenShare(q, TokenDue(q))
               /\ ~q.billing => q.record = "none"

\* At every step of every request, what its session remembers is what it has
\* booked: exactly while its writes succeed, at least that much otherwise
\* (the fields tokenConsumed, consumed, preConsumedQuota and the three flags).
LedgerInvariant ==
    \A r \in Requests :
        Shape(req[r]) /\ Covered(req[r], paid[r]) /\ Exact(req[r], paid[r])
=============================================================================
