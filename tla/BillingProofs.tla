--------------------------- MODULE BillingProofs ---------------------------
(* Proofs about Billing, for every set of requests and every constant. *)
EXTENDS Billing, FiniteSetTheorems, WellFoundedInduction, TLAPS

-----------------------------------------------------------------------------
(* Type correctness. *)

\* Replacing one request's session by a well-typed one keeps req well typed.
LEMMA BecomeType ==
    ASSUME TypeOK, NEW r \in Requests, NEW q \in Session, Become(r, q)
    PROVE  req' \in [Requests -> Session]
BY DEF TypeOK, Become

\* Booking an integer amount keeps paid well typed.
LEMMA ChargeType ==
    ASSUME TypeOK, NEW r \in Requests, NEW n \in Int,
           NEW f \in {"wallet", "sub", "token"}, Charge(r, f, n)
    PROVE  paid' \in [Requests -> Account]
<1> DEFINE p == paid[r]
           p2 == [p EXCEPT ![f] = @ + n]
<1>1. p \in Account
  BY DEF TypeOK
<1>2. p2 \in Account
  <2>1. CASE f = "wallet"
    BY <1>1, <2>1 DEF Account
  <2>2. CASE f = "sub"
    BY <1>1, <2>2 DEF Account
  <2>3. CASE f = "token"
    BY <1>1, <2>3 DEF Account
  <2>4. QED
    BY <2>1, <2>2, <2>3
<1>3. paid' = [paid EXCEPT ![r] = p2]
  BY DEF Charge
<1> HIDE DEF p2
<1>4. QED
  BY <1>2, <1>3 DEF TypeOK

\* The part of the type invariant that bookings change.
StoreOK ==
    /\ wallet \in Int
    /\ token \in Int
    /\ sub \in [active : BOOLEAN, used : Nat, since : Nat]
    /\ period \in Nat
    /\ sweep \in Copy
    /\ raced \in BOOLEAN
    /\ forgiven \in Nat
    /\ paid \in [Requests -> Account]

\* A transaction on the subscription, over the copy c it has read, books n.
Transaction(r, c, n) ==
    DebitSubscription(r, c, n) \/ (n \in Nat /\ ConsumeSubscription(r, c, n))

BookSubscription(r, n) == \E c \in Copy : Transaction(r, c, n)

Booking(r, n) ==
    \/ DebitWallet(r, n) \/ DebitToken(r, n) \/ BookSubscription(r, n) \/ NoDebit

\* A save of well-typed values keeps the subscription's types.
LEMMA SaveType ==
    ASSUME TypeOK, NEW c \in Copy, NEW row \in Copy, Save(c, row)
    PROVE  /\ sub' \in [active : BOOLEAN, used : Nat, since : Nat]
           /\ raced' \in BOOLEAN
           /\ forgiven' \in Nat
<1>1. row.used \in Nat /\ row.since \in Nat /\ c.used \in Nat
  BY DEF Copy
<1>2. sub' \in [active : BOOLEAN, used : Nat, since : Nat]
  BY <1>1 DEF Save, TypeOK
<1>3. raced' \in BOOLEAN
  BY DEF Save
<1>4. forgiven' \in Nat
  BY <1>1 DEF Save, TypeOK
<1>5. QED
  BY <1>2, <1>3, <1>4

\* What a transaction writes is a copy of the row.
LEMMA RowType ==
    ASSUME NEW c \in Copy
    PROVE  /\ Renewed(c) \in Copy
           /\ \A u \in Nat : [c EXCEPT !.used = u] \in Copy
           /\ \A u \in Nat : [Renewed(c) EXCEPT !.used = u] \in Copy
BY DEF Copy, Renewed

\* Reading the row gives a copy of it, and so does closing a transaction.
LEMMA CopyType ==
    ASSUME TypeOK
    PROVE  ReadRow \in Copy /\ Closed \in Copy
BY DEF TypeOK, ReadRow, Closed, Copy

\* A transaction on the subscription keeps its types.
LEMMA TransactionType ==
    ASSUME TypeOK, NEW r \in Requests, NEW c \in Copy, NEW n \in Int,
           Transaction(r, c, n)
    PROVE  StoreOK'
<1>c. c.used \in Nat /\ Renewed(c) \in Copy /\ Renewed(c).used \in Nat
  BY RowType DEF Copy
<1>1. CASE DebitSubscription(r, c, n)
  <2>1. AtLeastZero(c.used + n) \in Nat
    BY <1>c DEF AtLeastZero
  <2>2. PICK u \in Nat : Save(c, [c EXCEPT !.used = u])
    BY <1>1, <2>1 DEF DebitSubscription
  <2>3. [c EXCEPT !.used = u] \in Copy
    BY RowType
  <2>4. /\ sub' \in [active : BOOLEAN, used : Nat, since : Nat]
        /\ raced' \in BOOLEAN /\ forgiven' \in Nat
    BY <2>2, <2>3, SaveType
  <2>5. paid' \in [Requests -> Account]
    BY <1>1, ChargeType DEF DebitSubscription
  <2>6. QED
    BY <1>1, <2>4, <2>5 DEF DebitSubscription, StoreOK, TypeOK
<1>2. CASE n \in Nat /\ ConsumeSubscription(r, c, n)
  <2>1. Renewed(c).used + n \in Nat
    BY <1>2, <1>c
  <2>2. PICK u \in Nat : Save(c, [Renewed(c) EXCEPT !.used = u])
    BY <1>2, <2>1 DEF ConsumeSubscription
  <2>3. [Renewed(c) EXCEPT !.used = u] \in Copy
    BY RowType
  <2>4. /\ sub' \in [active : BOOLEAN, used : Nat, since : Nat]
        /\ raced' \in BOOLEAN /\ forgiven' \in Nat
    BY <2>2, <2>3, SaveType
  <2>5. paid' \in [Requests -> Account]
    BY <1>2, ChargeType DEF ConsumeSubscription
  <2>6. QED
    BY <1>2, <2>4, <2>5 DEF ConsumeSubscription, StoreOK, TypeOK
<1>3. QED
  BY <1>1, <1>2 DEF Transaction

\* The store keeps its type under each kind of booking.
LEMMA BookingType ==
    ASSUME TypeOK, NEW r \in Requests, NEW n \in Int, Booking(r, n)
    PROVE  StoreOK'
<1>1. CASE DebitWallet(r, n)
  BY <1>1, ChargeType DEF TypeOK, StoreOK, DebitWallet, subVars
<1>2. CASE DebitToken(r, n)
  BY <1>2, ChargeType DEF TypeOK, StoreOK, DebitToken, subVars
<1>3. CASE BookSubscription(r, n)
  BY <1>3, TransactionType DEF BookSubscription
<1>4. CASE NoDebit
  BY <1>4 DEF TypeOK, StoreOK, NoDebit, subVars
<1>5. QED
  BY <1>1, <1>2, <1>3, <1>4 DEF Booking

\* The failure counter only grows.
FaultStep == NoFault \/ (\E k \in {"store", "ack", "outer"} : Fault(k))

\* The failure counter stays a number.
LEMMA FaultType ==
    ASSUME TypeOK, FaultStep
    PROVE  faults' \in Nat
BY DEF TypeOK, FaultStep, NoFault, Fault

\* A step that replaces one session, books an amount and counts a failure.
LEMMA StepType ==
    ASSUME TypeOK, NEW r \in Requests, NEW n \in Int,
           req' \in [Requests -> Session], Booking(r, n), FaultStep
    PROVE  TypeOK'
BY BookingType, FaultType DEF TypeOK, StoreOK

\* A session stays one when a field is given a value of its type.
LEMMA UpdateType ==
    ASSUME NEW q \in Session
    PROVE
      /\ \A x \in Pcs : [q EXCEPT !.pc = x] \in Session
      /\ \A x \in AllKinds : [q EXCEPT !.kind = x] \in Session
      /\ \A x \in AllPrefs : [q EXCEPT !.pref = x] \in Session
      /\ \A x \in BOOLEAN : [q EXCEPT !.free = x] \in Session
      /\ \A x \in Nat : [q EXCEPT !.pre = x] \in Session
      /\ \A x \in Int : [q EXCEPT !.tokenQuota = x] \in Session
      /\ \A x \in Int : [q EXCEPT !.userQuota = x] \in Session
      /\ \A x \in {"wallet", "subscription"} : [q EXCEPT !.source = x] \in Session
      /\ \A x \in Nat : [q EXCEPT !.amount = x] \in Session
      /\ \A x \in BOOLEAN : [q EXCEPT !.insufficient = x] \in Session
      /\ \A x \in BOOLEAN : [q EXCEPT !.billing = x] \in Session
      /\ \A x \in Nat : [q EXCEPT !.tokenConsumed = x] \in Session
      /\ \A x \in Nat : [q EXCEPT !.preConsumed = x] \in Session
      /\ \A x \in Nat : [q EXCEPT !.funded = x] \in Session
      /\ \A x \in BOOLEAN : [q EXCEPT !.fundingSettled = x] \in Session
      /\ \A x \in BOOLEAN : [q EXCEPT !.settled = x] \in Session
      /\ \A x \in BOOLEAN : [q EXCEPT !.refunded = x] \in Session
      /\ \A x \in Nat : [q EXCEPT !.retry = x] \in Session
      /\ \A x \in Nat : [q EXCEPT !.actual = x] \in Session
      /\ \A x \in Nat : [q EXCEPT !.post = x] \in Session
      /\ \A x \in Nat : [q EXCEPT !.booked = x] \in Session
      /\ \A x \in Outcomes : [q EXCEPT !.outcome = x] \in Session
      /\ \A x \in {"none", "consumed", "refunded"} : [q EXCEPT !.record = x] \in Session
      /\ \A x \in {"idle", "funding", "token", "end"} : [q EXCEPT !.gpc = x] \in Session
      /\ \A x \in Nat : [q EXCEPT !.tries = x] \in Session
      /\ \A x \in Nat : [q EXCEPT !.unmarked = x] \in Session
      /\ \A x \in Copy : [q EXCEPT !.tx = x] \in Session
      /\ \A x \in Copy : [q EXCEPT !.gtx = x] \in Session
      /\ \A x \in BOOLEAN : [q EXCEPT !.clean = x] \in Session
<1>1. /\ \A x \in Pcs : [q EXCEPT !.pc = x] \in Session
      /\ \A x \in AllKinds : [q EXCEPT !.kind = x] \in Session
      /\ \A x \in AllPrefs : [q EXCEPT !.pref = x] \in Session
      /\ \A x \in BOOLEAN : [q EXCEPT !.free = x] \in Session
  BY DEF Session
<1>2. /\ \A x \in Nat : [q EXCEPT !.pre = x] \in Session
      /\ \A x \in Int : [q EXCEPT !.tokenQuota = x] \in Session
      /\ \A x \in Int : [q EXCEPT !.userQuota = x] \in Session
      /\ \A x \in {"wallet", "subscription"} : [q EXCEPT !.source = x] \in Session
  BY DEF Session
<1>3. /\ \A x \in Nat : [q EXCEPT !.amount = x] \in Session
      /\ \A x \in BOOLEAN : [q EXCEPT !.insufficient = x] \in Session
      /\ \A x \in BOOLEAN : [q EXCEPT !.billing = x] \in Session
      /\ \A x \in Nat : [q EXCEPT !.tokenConsumed = x] \in Session
  BY DEF Session
<1>4. /\ \A x \in Nat : [q EXCEPT !.preConsumed = x] \in Session
      /\ \A x \in Nat : [q EXCEPT !.funded = x] \in Session
      /\ \A x \in BOOLEAN : [q EXCEPT !.fundingSettled = x] \in Session
      /\ \A x \in BOOLEAN : [q EXCEPT !.settled = x] \in Session
  BY DEF Session
<1>5. /\ \A x \in BOOLEAN : [q EXCEPT !.refunded = x] \in Session
      /\ \A x \in Nat : [q EXCEPT !.retry = x] \in Session
      /\ \A x \in Nat : [q EXCEPT !.actual = x] \in Session
      /\ \A x \in Nat : [q EXCEPT !.post = x] \in Session
  BY DEF Session
<1>6. /\ \A x \in Nat : [q EXCEPT !.booked = x] \in Session
      /\ \A x \in Outcomes : [q EXCEPT !.outcome = x] \in Session
      /\ \A x \in {"none", "consumed", "refunded"} : [q EXCEPT !.record = x] \in Session
      /\ \A x \in {"idle", "funding", "token", "end"} : [q EXCEPT !.gpc = x] \in Session
  BY DEF Session
<1>7. /\ \A x \in Nat : [q EXCEPT !.tries = x] \in Session
      /\ \A x \in BOOLEAN : [q EXCEPT !.clean = x] \in Session
  BY DEF Session
<1>8. /\ \A x \in Nat : [q EXCEPT !.unmarked = x] \in Session
      /\ \A x \in Copy : [q EXCEPT !.tx = x] \in Session
      /\ \A x \in Copy : [q EXCEPT !.gtx = x] \in Session
  BY DEF Session
<1>9. QED
  BY <1>1, <1>2, <1>3, <1>4, <1>5, <1>6, <1>7, <1>8

\* The values of the enumerated fields.
LEMMA Enumerations ==
    /\ {"start", "open", "hasSub", "gate", "token", "tokenDec", "fund",
        "rollback", "upstream", "settleFund", "settleToken", "postFund",
        "postToken", "done"} \subseteq Pcs
    /\ {"none", "ok", "fail", "rejected", "panic"} \subseteq Outcomes
BY DEF Pcs, Outcomes

\* The types of the fields the steps read.
LEMMA FieldType ==
    ASSUME NEW q \in Session
    PROVE  /\ q.pre \in Nat /\ q.amount \in Nat /\ q.tokenConsumed \in Nat
           /\ q.preConsumed \in Nat /\ q.funded \in Nat /\ q.retry + 1 \in Nat
           /\ q.actual \in Nat /\ q.post \in Nat /\ q.tries + 1 \in Nat
           /\ q.tx \in Copy /\ q.gtx \in Copy /\ q.unmarked + q.funded \in Nat
BY DEF Session

\* The sessions the factory builds are well typed.
LEMMA TryType ==
    ASSUME NEW q \in Session
    PROVE  TryWallet(q) \in Session /\ TrySubscription(q) \in Session
<1>1. \A s \in {"wallet", "subscription"}, pc \in Pcs, n \in Nat :
        Try(q, s, pc, n) \in Session
  BY UpdateType, 0 \in Nat DEF Try
<1>2. (IF q.pre > 0 THEN q.pre ELSE 1) \in Nat
  BY FieldType
<1>3. QED
  BY <1>1, <1>2, Enumerations DEF TryWallet, TrySubscription

\* A rejected or retried opening leaves a well-typed session.
LEMMA RejectType ==
    ASSUME TypeOK, NEW r \in Requests, NEW q \in Session, Reject(r, q)
    PROVE  req' \in [Requests -> Session]
<1>1. Rejected(q) \in Session
  BY UpdateType, Enumerations DEF Rejected
<1>2. [q EXCEPT !.pc = "open", !.retry = @ + 1] \in Session
  BY UpdateType, FieldType, Enumerations
<1>3. \A q2 \in Rejections(q) : q2 \in Session
  BY <1>1, <1>2 DEF Rejections
<1>4. QED
  BY <1>3, BecomeType DEF Reject

\* Opening a session keeps every type.
LEMMA OpenType ==
    ASSUME TypeOK, NEW r \in Requests, Open(r)
    PROVE  TypeOK'
<1> DEFINE q == req[r]
<1>q. q \in Session
  BY DEF TypeOK
<1>z. 0 \in Int
  OBVIOUS
<1>1. CASE Begin(r)
  <2>1. PICK kind \in Kinds, pref \in Prefs, pre \in PreQuotas, free \in BOOLEAN :
          Become(r, [q EXCEPT
            !.kind = kind, !.pref = pref, !.free = free,
            !.pre = IF free THEN 0 ELSE pre,
            !.tokenQuota = IF kind = "playground" THEN 0 ELSE token,
            !.pc = IF free THEN "upstream" ELSE "open"])
    BY <1>1 DEF Begin
  <2>2. /\ kind \in AllKinds /\ pref \in AllPrefs
        /\ (IF free THEN 0 ELSE pre) \in Nat
        /\ (IF kind = "playground" THEN 0 ELSE token) \in Int
        /\ (IF free THEN "upstream" ELSE "open") \in Pcs
    <3>1. kind \in AllKinds /\ pref \in AllPrefs /\ pre \in Nat
      BY BillingAssumption
    <3>2. token \in Int
      BY DEF TypeOK
    <3>3. (IF free THEN "upstream" ELSE "open") \in Pcs
      BY Enumerations
    <3>4. QED
      BY <3>1, <3>2, <3>3
  <2>3. [q EXCEPT
            !.kind = kind, !.pref = pref, !.free = free,
            !.pre = IF free THEN 0 ELSE pre,
            !.tokenQuota = IF kind = "playground" THEN 0 ELSE token,
            !.pc = IF free THEN "upstream" ELSE "open"] \in Session
    <3> DEFINE q1 == [q EXCEPT !.kind = kind, !.pref = pref, !.free = free]
    <3>1. q1 \in Session
      BY <1>q, <2>2, UpdateType
    <3>2. \A a \in Nat, b \in Int, c \in Pcs :
            [q1 EXCEPT !.pre = a, !.tokenQuota = b, !.pc = c] \in Session
      <4> HIDE DEF q1
      <4> QED BY <3>1, UpdateType
    <3>3. QED
      BY <2>2, <3>2
  <2>4. req' \in [Requests -> Session]
    BY <2>1, <2>3, BecomeType
  <2>5. QED
    BY <1>1, <1>z, <2>4, StepType DEF Begin, Booking, FaultStep
<1>2. CASE NewBillingSession(r)
  <2>1. [q EXCEPT !.pc = "hasSub"] \in Session
    BY <1>q, UpdateType, FieldType, Enumerations
  <2>2. req' \in [Requests -> Session]
    BY <1>2, <1>q, <2>1, TryType, BecomeType DEF NewBillingSession
  <2>3. QED
    BY <1>2, <1>z, <2>2, StepType DEF NewBillingSession, Booking, FaultStep
<1>3. CASE HasActiveUserSubscription(r)
  <2>1. req' \in [Requests -> Session]
    BY <1>3, <1>q, TryType, RejectType, BecomeType DEF HasActiveUserSubscription
  <2>2. QED
    BY <1>3, <1>z, <2>1, StepType DEF HasActiveUserSubscription, Booking, FaultStep
<1>4. CASE WalletGate(r)
  <2> DEFINE held == IF ShouldTrust(q, wallet) THEN 0 ELSE q.pre
             q2 == [q EXCEPT !.userQuota = wallet, !.amount = held,
                             !.pc = IF held > 0 THEN "token" ELSE "fund"]
  <2>1. held \in Nat
    BY <1>q DEF Session
  <2>2. q2 \in Session
    <3> HIDE DEF held
    <3>1. wallet \in Int /\ (IF held > 0 THEN "token" ELSE "fund") \in Pcs
      BY Enumerations DEF TypeOK
    <3>2. QED
      BY <1>q, <2>1, <3>1, UpdateType
  <2>3. \/ Become(r, q2) \/ Become(r, TrySubscription(q)) \/ Reject(r, q)
    BY <1>4 DEF WalletGate
  <2>4. req' \in [Requests -> Session]
    <3> HIDE DEF q2
    <3> QED BY <1>q, <2>2, <2>3, TryType, RejectType, BecomeType
  <2>5. QED
    BY <1>4, <1>z, <2>4, StepType DEF WalletGate, Booking, FaultStep
<1>5. CASE PreConsumeTokenQuota(r)
  <2>1. [q EXCEPT !.pc = "fund", !.tokenConsumed = q.amount] \in Session
    BY <1>q, UpdateType, FieldType, Enumerations
  <2>2. [q EXCEPT !.pc = "tokenDec"] \in Session
    BY <1>q, UpdateType, FieldType, Enumerations
  <2>3. req' \in [Requests -> Session]
    BY <1>5, <1>q, <2>1, <2>2, RejectType, BecomeType DEF PreConsumeTokenQuota
  <2>4. QED
    BY <1>5, <1>z, <2>3, StepType DEF PreConsumeTokenQuota, Booking, FaultStep
<1>6. CASE DecreaseTokenQuota(r)
  <2>1. [q EXCEPT !.pc = "fund", !.tokenConsumed = q.amount] \in Session
    BY <1>q, UpdateType, FieldType, Enumerations
  <2>2. [q EXCEPT !.clean = FALSE] \in Session
    BY <1>q, UpdateType
  <2>3. req' \in [Requests -> Session]
    BY <1>6, <1>q, <2>1, <2>2, RejectType, BecomeType DEF DecreaseTokenQuota
  <2>4. q.amount \in Int
    BY <1>q DEF Session
  <2>5. Booking(r, q.amount) /\ FaultStep
    BY <1>6 DEF DecreaseTokenQuota, Booking, FaultStep, Lost, Unacknowledged
  <2>6. QED
    BY <2>3, <2>4, <2>5, StepType
<1>7. CASE FundFromWallet(r)
  <2>1. Opened(q) \in Session
    BY <1>q, UpdateType, FieldType, Enumerations DEF Opened
  <2>2. [q EXCEPT !.pc = "rollback"] \in Session
    BY <1>q, UpdateType, FieldType, Enumerations
  <2>3. [q EXCEPT !.pc = "rollback", !.clean = FALSE] \in Session
    BY <1>q, UpdateType, FieldType, Enumerations
  <2>4. req' \in [Requests -> Session]
    BY <1>7, <1>q, <2>1, <2>2, <2>3, BecomeType DEF FundFromWallet
  <2>5. q.amount \in Int
    BY <1>q DEF Session
  <2>6. Booking(r, q.amount) /\ FaultStep
    BY <1>7 DEF FundFromWallet, Booking, FaultStep, Lost, Unacknowledged
  <2>7. QED
    BY <2>4, <2>5, <2>6, StepType
<1>8. CASE FundFromSubscription(r)
  <2> DEFINE q1 == [q EXCEPT !.tx = Closed]
             q2 == [q1 EXCEPT !.record = "consumed"]
  <2>0. q1 \in Session /\ q1.amount \in Nat /\ q.tx \in Copy
    BY <1>q, UpdateType, FieldType, CopyType
  <2>s. \/ Become(r, Opened(q2)) \/ Become(r, Opened(q1))
        \/ \E masked \in BOOLEAN :
             Become(r, [q1 EXCEPT !.pc = "rollback", !.insufficient = masked])
        \/ Become(r, [q2 EXCEPT !.pc = "rollback", !.clean = FALSE])
    BY <1>8 DEF FundFromSubscription
  <2>6. Booking(r, q1.amount) /\ FaultStep
    BY <1>8, <2>0 DEF FundFromSubscription, Booking, BookSubscription, Transaction,
       FaultStep, Lost, Unacknowledged
  <2> HIDE DEF q1
  <2>1. Opened(q1) \in Session /\ Opened(q2) \in Session
    BY <2>0, UpdateType, FieldType, Enumerations DEF Opened
  <2>2. \A masked \in BOOLEAN :
          [q1 EXCEPT !.pc = "rollback", !.insufficient = masked] \in Session
    BY <2>0, UpdateType, FieldType, Enumerations
  <2>3. [q2 EXCEPT !.pc = "rollback", !.clean = FALSE] \in Session
    BY <2>0, UpdateType, FieldType, Enumerations
  <2>4. req' \in [Requests -> Session]
    <3> HIDE DEF q2
    <3>1. QED
      BY <2>1, <2>2, <2>3, <2>s, BecomeType
  <2>7. QED
    BY <2>0, <2>4, <2>6, StepType
<1>9. CASE RollbackToken(r)
  <2> DEFINE q2 == [q EXCEPT !.tokenConsumed = 0]
             q3 == [q2 EXCEPT !.clean = FALSE]
  <2>1. q2 \in Session /\ q3 \in Session
    BY <1>q, UpdateType, 0 \in Nat
  <2>2. \/ Become(r, TryWallet(q2)) \/ Reject(r, q2)
        \/ Become(r, TryWallet(q3)) \/ Reject(r, q3)
    BY <1>9 DEF RollbackToken
  <2>3. req' \in [Requests -> Session]
    <3> HIDE DEF q2, q3
    <3> QED BY <2>1, <2>2, TryType, RejectType, BecomeType
  <2>4. -q.tokenConsumed \in Int
    BY <1>q DEF Session
  <2>5. Booking(r, -q.tokenConsumed) /\ FaultStep
    BY <1>9 DEF RollbackToken, Booking, FaultStep, Fails, Lost, Unacknowledged
  <2>6. QED
    BY <2>3, <2>4, <2>5, StepType
<1>10. QED
  BY <1>1, <1>2, <1>3, <1>4, <1>5, <1>6, <1>7, <1>8, <1>9 DEF Open

\* The upstream call books nothing.
LEMMA UpstreamType ==
    ASSUME TypeOK, NEW r \in Requests, Upstream(r)
    PROVE  TypeOK'
<1> DEFINE q == req[r]
<1>q. q \in Session
  BY DEF TypeOK
<1>z. 0 \in Int
  OBVIOUS
<1>1. CASE Retry(r)
  <2>1. NextAttempt(q) \in Pcs
    BY Enumerations DEF NextAttempt
  <2>2. [q EXCEPT !.retry = @ + 1, !.pc = NextAttempt(q)] \in Session
    BY <1>q, <2>1, UpdateType, FieldType
  <2>3. req' \in [Requests -> Session]
    BY <1>1, <2>2, BecomeType DEF Retry
  <2>4. QED
    BY <1>1, <1>z, <2>3, StepType DEF Retry, Booking, FaultStep
<1>2. CASE Succeed(r)
  <2>1. PICK actual \in ActualQuotas :
          LET q2 == [q EXCEPT !.outcome = "ok", !.actual = actual] IN
          \/ Become(r, [q2 EXCEPT !.settled = TRUE, !.pc = "done"])
          \/ Become(r, [q2 EXCEPT !.pc = "settleFund"])
          \/ Become(r, [q2 EXCEPT !.pc = "done"])
          \/ Become(r, [q2 EXCEPT !.post = actual, !.pc = "postFund"])
    BY <1>2 DEF Succeed
  <2> DEFINE q2 == [q EXCEPT !.outcome = "ok", !.actual = actual]
  <2>2. actual \in Nat
    BY BillingAssumption
  <2>3. q2 \in Session
    BY <1>q, <2>2, UpdateType, Enumerations
  <2>4. req' \in [Requests -> Session]
    <3>1. \/ Become(r, [q2 EXCEPT !.settled = TRUE, !.pc = "done"])
          \/ Become(r, [q2 EXCEPT !.pc = "settleFund"])
          \/ Become(r, [q2 EXCEPT !.pc = "done"])
          \/ Become(r, [q2 EXCEPT !.post = actual, !.pc = "postFund"])
      BY <2>1
    <3> HIDE DEF q2
    <3>2. /\ [q2 EXCEPT !.settled = TRUE, !.pc = "done"] \in Session
          /\ [q2 EXCEPT !.pc = "settleFund"] \in Session
          /\ [q2 EXCEPT !.pc = "done"] \in Session
          /\ [q2 EXCEPT !.post = actual, !.pc = "postFund"] \in Session
      BY <2>2, <2>3, UpdateType, Enumerations
    <3>3. QED
      BY <3>1, <3>2, BecomeType
  <2>5. QED
    BY <1>2, <1>z, <2>4, StepType DEF Succeed, Booking, FaultStep
<1>3. CASE Fail(r)
  <2> DEFINE q2 == [Refund(q) EXCEPT !.outcome = "fail"]
  <2>1. Refund(q) \in Session
    <3>1. [q EXCEPT !.refunded = TRUE, !.gpc = "funding"] \in Session
      BY <1>q, UpdateType
    <3>2. QED
      BY <1>q, <3>1 DEF Refund
  <2>2. q2 \in Session
    BY <2>1, UpdateType, Enumerations
  <2>3. ViolationFee \in Nat
    BY BillingAssumption
  <2>4. \/ Become(r, [q2 EXCEPT !.pc = "done"])
        \/ Become(r, [q2 EXCEPT !.pc = "postFund", !.post = ViolationFee])
    BY <1>3 DEF Fail
  <2>5. req' \in [Requests -> Session]
    <3> HIDE DEF q2
    <3>1. /\ [q2 EXCEPT !.pc = "done"] \in Session
          /\ [q2 EXCEPT !.pc = "postFund", !.post = ViolationFee] \in Session
      BY <2>2, <2>3, UpdateType, Enumerations
    <3>2. QED
      BY <2>4, <3>1, BecomeType
  <2>6. QED
    BY <1>3, <1>z, <2>5, StepType DEF Fail, Booking, FaultStep
<1>4. CASE Panic(r)
  <2>1. [q EXCEPT !.pc = "done", !.outcome = "panic"] \in Session
    BY <1>q, UpdateType, Enumerations
  <2>2. req' \in [Requests -> Session]
    BY <1>4, <2>1, BecomeType DEF Panic
  <2>3. QED
    BY <1>4, <1>z, <2>2, StepType DEF Panic, Booking, FaultStep
<1>5. QED
  BY <1>1, <1>2, <1>3, <1>4 DEF Upstream

\* Reading the subscription books nothing.
LEMMA ReadType ==
    ASSUME TypeOK, NEW r \in Requests, ReadSubscription(r) \/ ReadForRefund(r)
    PROVE  TypeOK'
<1>1. [req[r] EXCEPT !.tx = ReadRow] \in Session
      /\ [req[r] EXCEPT !.gtx = ReadRow] \in Session
  BY UpdateType, CopyType DEF TypeOK
<1>2. req' \in [Requests -> Session]
  BY <1>1, BecomeType DEF ReadSubscription, ReadForRefund
<1>3. Booking(r, 0) /\ FaultStep /\ 0 \in Int
  BY DEF ReadSubscription, ReadForRefund, Booking, FaultStep
<1>4. QED
  BY <1>2, <1>3, StepType

\* A debit of the session's source is a booking.
LEMMA SourceBooks ==
    ASSUME NEW r, NEW source, NEW c \in Copy, NEW n, DebitSource(r, source, c, n)
    PROVE  DebitWallet(r, n) \/ BookSubscription(r, n)
BY DEF DebitSource, BookSubscription, Transaction

\* Settling, and charging without a session.
LEMMA CloseType ==
    ASSUME TypeOK, NEW r \in Requests, Close(r)
    PROVE  TypeOK'
<1> DEFINE q == req[r]
           delta == q.actual - q.preConsumed
           q1 == [q EXCEPT !.tx = Closed]
<1>q. q \in Session
  BY DEF TypeOK
<1>1q. /\ q1 \in Session /\ q.tx \in Copy
       /\ q1.actual - q1.preConsumed = delta /\ q1.post = q.post
  <2>1. q1 \in Session /\ q.tx \in Copy
    BY <1>q, UpdateType, FieldType, CopyType
  <2>2. QED
    BY <1>q, <2>1 DEF Session
<1>d. delta \in Int /\ q.post \in Int
  BY <1>q DEF Session
<1>p. \A q2 \in Session :
        /\ [q2 EXCEPT !.pc = "done"] \in Session
        /\ [q2 EXCEPT !.settled = TRUE, !.pc = "done"] \in Session
        /\ [q2 EXCEPT !.pc = "settleToken"] \in Session
        /\ [q2 EXCEPT !.fundingSettled = TRUE] \in Session
        /\ [q2 EXCEPT !.clean = FALSE] \in Session
        /\ [q2 EXCEPT !.pc = "done", !.clean = FALSE] \in Session
  BY UpdateType, Enumerations
<1>1. CASE SettleFunding(r)
  <2>1. \/ Become(r, [[q1 EXCEPT !.fundingSettled = TRUE] EXCEPT !.settled = TRUE, !.pc = "done"])
        \/ Become(r, [[q1 EXCEPT !.fundingSettled = TRUE] EXCEPT !.pc = "settleToken"])
        \/ Become(r, [q1 EXCEPT !.pc = "done"])
        \/ Become(r, [q1 EXCEPT !.pc = "done", !.clean = FALSE])
    BY <1>1 DEF SettleFunding
  <2>2. NoDebit \/ (\E source : DebitSource(r, source, q.tx, delta))
    BY <1>1, <1>1q DEF SettleFunding, Fails, Lost, Unacknowledged
  <2>3. FaultStep
    BY <1>1 DEF SettleFunding, FaultStep, Fails, Lost, Unacknowledged
  <2>4. Booking(r, delta)
    BY <1>1q, <2>2, SourceBooks DEF Booking
  <2> HIDE DEF q1
  <2>5. req' \in [Requests -> Session]
    BY <1>1q, <1>p, <2>1, BecomeType
  <2>6. QED
    BY <1>d, <2>3, <2>4, <2>5, StepType
<1>2. CASE SettleToken(r)
  <2>1. \/ Become(r, [q EXCEPT !.settled = TRUE, !.pc = "done"])
        \/ Become(r, [[q EXCEPT !.settled = TRUE, !.pc = "done"] EXCEPT !.clean = FALSE])
    BY <1>2 DEF SettleToken
  <2>2. req' \in [Requests -> Session]
    BY <1>q, <1>p, <2>1, BecomeType
  <2>3. Booking(r, delta) /\ FaultStep
    <3>1. LET q2 == [q EXCEPT !.settled = TRUE, !.pc = "done"]
          IN  q2.actual - q2.preConsumed = delta
      BY <1>q DEF Session
    <3>2. QED
      BY <1>2, <3>1 DEF SettleToken, Booking, FaultStep, Fails, Lost, Unacknowledged
  <2>4. QED
    BY <1>d, <2>2, <2>3, StepType
<1>3. CASE PostConsumeFunding(r)
  <2> DEFINE q2 == [q1 EXCEPT !.booked = q1.post,
                              !.pc = IF IsPlayground(q1) THEN "done" ELSE "postToken"]
  <2>1. \/ Become(r, q2)
        \/ Become(r, [q1 EXCEPT !.pc = "done"])
        \/ Become(r, [q1 EXCEPT !.pc = "done", !.clean = FALSE])
    BY <1>3 DEF PostConsumeFunding
  <2>2. NoDebit \/ (\E source : DebitSource(r, source, q.tx, q.post))
    BY <1>3, <1>1q DEF PostConsumeFunding, Fails, Lost, Unacknowledged
  <2>3. FaultStep
    BY <1>3 DEF PostConsumeFunding, FaultStep, Fails, Lost, Unacknowledged
  <2>4. Booking(r, q.post)
    BY <1>1q, <2>2, SourceBooks DEF Booking
  <2> HIDE DEF q1
  <2>5. q2 \in Session
    <3>1. q1.post \in Nat /\ (IF IsPlayground(q1) THEN "done" ELSE "postToken") \in Pcs
      BY <1>1q, FieldType, Enumerations
    <3>2. QED
      BY <1>1q, <3>1, UpdateType
  <2>6. req' \in [Requests -> Session]
    <3> HIDE DEF q2
    <3> QED BY <1>1q, <1>p, <2>1, <2>5, BecomeType
  <2>7. QED
    BY <1>d, <2>3, <2>4, <2>6, StepType
<1>4. CASE PostConsumeToken(r)
  <2>1. \/ Become(r, [q EXCEPT !.pc = "done"])
        \/ Become(r, [[q EXCEPT !.pc = "done"] EXCEPT !.clean = FALSE])
    BY <1>4 DEF PostConsumeToken
  <2>2. req' \in [Requests -> Session]
    BY <1>q, <1>p, <2>1, BecomeType
  <2>3. Booking(r, q.post) /\ FaultStep
    <3>1. [q EXCEPT !.pc = "done"].post = q.post
      BY <1>q DEF Session
    <3>2. QED
      BY <1>4, <3>1 DEF PostConsumeToken, Booking, FaultStep, Fails, Lost, Unacknowledged
  <2>4. QED
    BY <1>d, <2>2, <2>3, StepType
<1>5. QED
  BY <1>1, <1>2, <1>3, <1>4 DEF Close

\* The refund goroutine.
LEMMA RefundType ==
    ASSUME TypeOK, NEW r \in Requests, RefundGoroutine(r)
    PROVE  TypeOK'
<1> DEFINE q == req[r]
<1>q. q \in Session
  BY DEF TypeOK
<1>d. -q.funded \in Int /\ -q.tokenConsumed \in Int
  BY <1>q DEF Session
<1>p. \A q2 \in Session :
        /\ FundingRefunded(q2) \in Session
        /\ AttemptFailed(q2) \in Session
        /\ [q2 EXCEPT !.clean = FALSE] \in Session
        /\ [q2 EXCEPT !.record = "refunded"] \in Session
        /\ [q2 EXCEPT !.gpc = "end"] \in Session
        /\ \A n \in Nat : [q2 EXCEPT !.unmarked = n, !.clean = FALSE] \in Session
  <2> TAKE q2 \in Session
  <2>1. FundingRefunded(q2) \in Session
    BY UpdateType DEF FundingRefunded
  <2>2. [FundingRefunded(q2) EXCEPT !.clean = FALSE] \in Session
    BY <2>1, UpdateType
  <2>3. [q2 EXCEPT !.tries = @ + 1] \in Session
    BY UpdateType, FieldType
  <2>4. QED
    BY <2>1, <2>2, <2>3, UpdateType DEF AttemptFailed
<1>1. CASE RefundWallet(r)
  <2>1. \/ Become(r, FundingRefunded(q))
        \/ Become(r, [FundingRefunded(q) EXCEPT !.clean = FALSE])
    BY <1>1 DEF RefundWallet
  <2>2. req' \in [Requests -> Session]
    BY <1>q, <1>p, <2>1, BecomeType
  <2>3. Booking(r, -q.funded) /\ FaultStep
    BY <1>1 DEF RefundWallet, Booking, FaultStep, Fails, Lost, Unacknowledged
  <2>4. QED
    BY <1>d, <2>2, <2>3, StepType
<1>2. CASE RefundSubscription(r)
  <2> DEFINE q1 == [q EXCEPT !.gtx = Closed]
             qa == AttemptFailed(q1)
  <2>1. \/ Become(r, [FundingRefunded(q1) EXCEPT !.record = "refunded"])
        \/ Become(r, FundingRefunded(q1))
        \/ Become(r, qa)
        \/ Become(r, [qa EXCEPT !.record = "refunded"])
        \/ Become(r, [qa EXCEPT !.unmarked = qa.unmarked + q1.funded, !.clean = FALSE])
    BY <1>2 DEF RefundSubscription
  <2>2. q1 \in Session /\ q.gtx \in Copy
    BY <1>q, UpdateType, FieldType, CopyType
  <2>3. Booking(r, -q1.funded) /\ FaultStep
    BY <1>2, <2>2 DEF RefundSubscription, Booking, BookSubscription, Transaction, FaultStep,
       Lost, Unacknowledged
  <2> HIDE DEF q1
  <2>4. qa \in Session /\ FundingRefunded(q1) \in Session
    BY <1>p, <2>2
  <2>5. qa.unmarked + q1.funded \in Nat /\ -q1.funded \in Int
    BY <2>2, <2>4 DEF Session
  <2>6. req' \in [Requests -> Session]
    <3> HIDE DEF qa
    <3> QED BY <1>p, <2>1, <2>4, <2>5, BecomeType
  <2>7. QED
    BY <2>3, <2>5, <2>6, StepType
<1>3. CASE RefundToken(r)
  <2>1. \/ Become(r, [q EXCEPT !.gpc = "end"])
        \/ Become(r, [[q EXCEPT !.gpc = "end"] EXCEPT !.clean = FALSE])
    BY <1>3 DEF RefundToken
  <2>2. req' \in [Requests -> Session]
    BY <1>q, <1>p, <2>1, BecomeType
  <2>3. Booking(r, -q.tokenConsumed) /\ FaultStep
    <3>1. [q EXCEPT !.gpc = "end"].tokenConsumed = q.tokenConsumed
      BY <1>q DEF Session
    <3>2. QED
      BY <1>3, <3>1 DEF RefundToken, Booking, FaultStep, Fails, Lost, Unacknowledged
  <2>4. QED
    BY <1>d, <2>2, <2>3, StepType
<1>4. QED
  BY <1>1, <1>2, <1>3, ReadType DEF RefundGoroutine

\* Resetting the subscription, as its period ends or as the sweep finds it due.
LEMMA ResetType ==
    ASSUME TypeOK, ExpireSubscription \/ PeriodEnds \/ ResetDueSubscriptions
    PROVE  TypeOK'
<1>0. CASE ExpireSubscription
  BY <1>0 DEF ExpireSubscription, TypeOK
<1>1. CASE PeriodEnds
  BY <1>1 DEF PeriodEnds, TypeOK
<1>2. CASE ResetReads
  BY <1>2, CopyType DEF ResetReads, TypeOK
<1>3. CASE ResetSaves
  <2>1. sweep \in Copy /\ Renewed(sweep) \in Copy
    BY RowType DEF TypeOK
  <2>2. /\ sub' \in [active : BOOLEAN, used : Nat, since : Nat]
        /\ raced' \in BOOLEAN /\ forgiven' \in Nat
    <3>1. CASE Save(sweep, Renewed(sweep))
      BY <2>1, <3>1, SaveType
    <3>2. CASE UNCHANGED <<sub, raced, forgiven>>
      BY <3>2 DEF TypeOK
    <3>3. QED
      BY <1>3, <3>1, <3>2 DEF ResetSaves
  <2>3. faults' \in Nat
    BY <1>3 DEF ResetSaves, TypeOK
  <2>4. sweep' \in Copy
    BY <1>3, CopyType DEF ResetSaves
  <2>5. QED
    BY <1>3, <2>2, <2>3, <2>4 DEF ResetSaves, TypeOK
<1>4. QED
  BY <1>0, <1>1, <1>2, <1>3 DEF ResetDueSubscriptions

\* Every reachable state is well typed, for every number of requests and
\* every price, balance, preference and failure the constants allow.
THEOREM TypeCorrect == Spec => []TypeOK
<1>1. Init => TypeOK
  <2>1. Closed \in Copy
    BY DEF Closed, Copy
  <2>2. NewRequest \in Session
    BY <2>1 DEF NewRequest, Session, Pcs, Outcomes, AllKinds, AllPrefs
  <2>3. [wallet |-> 0, sub |-> 0, token |-> 0] \in Account
    BY DEF Account
  <2>4. Init => /\ req \in [Requests -> Session] /\ paid \in [Requests -> Account]
                /\ sweep \in Copy
    BY <2>1, <2>2, <2>3 DEF Init
  <2>5. Init => /\ period \in Nat /\ forgiven \in Nat
                /\ wallet \in Int /\ token \in Int /\ faults \in Nat
    BY BillingAssumption DEF Init
  <2>6. Init => sub \in [active : BOOLEAN, used : Nat, since : Nat]
    <3>1. [active |-> Subscribed, used |-> 0, since |-> 0]
             \in [active : BOOLEAN, used : Nat, since : Nat]
      BY BillingAssumption
    <3>2. QED
      BY <3>1 DEF Init
  <2>7. Init => raced \in BOOLEAN
    BY DEF Init
  <2>8. QED
    BY <2>4, <2>5, <2>6, <2>7 DEF TypeOK
<1>2. TypeOK /\ [Next]_vars => TypeOK'
  <2> SUFFICES ASSUME TypeOK, [Next]_vars PROVE TypeOK'
    OBVIOUS
  <2>1. ASSUME NEW r \in Requests, Handler(r) \/ RefundGoroutine(r)
        PROVE  TypeOK'
    BY <2>1, OpenType, UpstreamType, CloseType, ReadType, RefundType DEF Handler
  <2>2. CASE ExpireSubscription \/ PeriodEnds \/ ResetDueSubscriptions
    BY <2>2, ResetType
  <2>3. CASE UNCHANGED vars
    BY <2>3 DEF vars, subVars, TypeOK
  <2>4. QED
    BY <2>1, <2>2, <2>3 DEF Next
<1>3. QED
  BY <1>1, <1>2, PTL DEF Spec

-----------------------------------------------------------------------------
(* The ledger: what a session remembers is what it has booked. *)

Good(q, p) == Shape(q) /\ Covered(q, p) /\ Exact(q, p)

OnWallet(p, n) == [p EXCEPT !.wallet = @ + n]
OnSubscription(p, n) == [p EXCEPT !.sub = @ + n]
OnToken(p, n) == [p EXCEPT !.token = @ + n]

\* A step of one request preserves the invariant if it keeps that request's
\* session and bookings in agreement.
LEMMA LedgerStep ==
    ASSUME TypeOK, LedgerInvariant, NEW r \in Requests, NEW q2, NEW n,
           Become(r, q2),
           \/ NoDebit /\ Good(q2, paid[r])
           \/ DebitWallet(r, n) /\ Good(q2, OnWallet(paid[r], n))
           \/ BookSubscription(r, n) /\ Good(q2, OnSubscription(paid[r], n))
           \/ DebitToken(r, n) /\ Good(q2, OnToken(paid[r], n))
    PROVE  LedgerInvariant'
<1>1. ASSUME NEW p2, paid' = [paid EXCEPT ![r] = p2], Good(q2, p2)
      PROVE  LedgerInvariant'
  <2>1. /\ req'[r] = q2 /\ paid'[r] = p2
        /\ \A s \in Requests \ {r} : req'[s] = req[s] /\ paid'[s] = paid[s]
    BY <1>1 DEF TypeOK, Become
  <2>2. QED
    BY <1>1, <2>1 DEF LedgerInvariant, Good
<1>2. CASE NoDebit /\ Good(q2, paid[r])
  BY <1>1, <1>2 DEF NoDebit, TypeOK
<1>3. CASE DebitWallet(r, n) /\ Good(q2, OnWallet(paid[r], n))
  BY <1>1, <1>3 DEF DebitWallet, Charge, OnWallet
<1>4. CASE BookSubscription(r, n) /\ Good(q2, OnSubscription(paid[r], n))
  BY <1>1, <1>4 DEF BookSubscription, Transaction, DebitSubscription, ConsumeSubscription,
     Charge, OnSubscription
<1>5. CASE DebitToken(r, n) /\ Good(q2, OnToken(paid[r], n))
  BY <1>1, <1>5 DEF DebitToken, Charge, OnToken
<1>6. QED
  BY <1>2, <1>3, <1>4, <1>5

\* Opening or closing a transaction does not touch what a session remembers of its
\* bookings.
LEMMA CopyKeeps ==
    ASSUME NEW q \in Session, NEW p, Good(q, p), NEW c \in Copy
    PROVE  Good([q EXCEPT !.tx = c], p) /\ Good([q EXCEPT !.gtx = c], p)
BY DEF Good, Shape, Covered, Exact, SourceDue, SourceHold, TokenDue,
   TokenHold, DrawsOn, TokenShare, IsPlayground, Session, SubAmount, Opening

\* A request between two attempts to open a session.
Idle(q, p) == Good([q EXCEPT !.pc = "open"], p)

\* While nothing of the current attempt is booked, the request is idle.
LEMMA OpeningIdle ==
    ASSUME NEW q \in Session, NEW p \in Account, Good(q, p), q.pc \in Opening
    PROVE  Idle(q, p)
BY DEF Idle, Good, Shape, Covered, Exact, SourceDue, SourceHold, TokenDue,
   TokenHold, DrawsOn, TokenShare, IsPlayground, Session, Account, SubAmount, Opening

\* From there it may try a source, be rejected or be retried.
LEMMA IdleMoves ==
    ASSUME NEW q \in Session, NEW p \in Account, Idle(q, p)
    PROVE  /\ Good(TryWallet(q), p)
           /\ Good(TrySubscription(q), p)
           /\ Good([q EXCEPT !.pc = "hasSub"], p)
           /\ \A q2 \in Rejections(q) : Good(q2, p)
<1> USE DEF Idle, Good, Shape, Covered, Exact, SourceDue, SourceHold, TokenDue,
   TokenHold, DrawsOn, TokenShare, IsPlayground, Session, Account, SubAmount, Opening
<1>1. Good(TryWallet(q), p)
  BY DEF TryWallet, Try
<1>2. Good(TrySubscription(q), p)
  BY DEF TrySubscription, Try
<1>3. Good([q EXCEPT !.pc = "hasSub"], p)
  OBVIOUS
<1>4. Good(Rejected(q), p)
  BY DEF Rejected
<1>5. Good([q EXCEPT !.pc = "open", !.retry = @ + 1], p)
  OBVIOUS
<1>6. \A q2 \in Rejections(q) : Good(q2, p)
  <2> USE <1>4, <1>5
  <2> HIDE DEF Good
  <2> QED BY DEF Rejections
<1>7. QED
  BY <1>1, <1>2, <1>3, <1>6

\* A request's session and bookings are well typed and agree.
LEMMA LedgerAt ==
    ASSUME TypeOK, LedgerInvariant, NEW r \in Requests
    PROVE  req[r] \in Session /\ paid[r] \in Account /\ Good(req[r], paid[r])
BY DEF TypeOK, LedgerInvariant, Good

\* Opening: the steps that book.
LEMMA OpenGood ==
    ASSUME NEW q \in Session, NEW p \in Account, Good(q, p)
    PROVE
      /\ q.pc = "start" =>
           \A kind \in AllKinds, pref \in AllPrefs, a \in Nat, b \in Int :
             /\ Good([q EXCEPT !.kind = kind, !.pref = pref, !.free = TRUE,
                       !.pre = 0, !.tokenQuota = b, !.pc = "upstream"], p)
             /\ Good([q EXCEPT !.kind = kind, !.pref = pref, !.free = FALSE,
                       !.pre = a, !.tokenQuota = b, !.pc = "open"], p)
      /\ q.pc = "gate" =>
           \A b \in Int, a \in Nat :
             /\ a > 0 => Good([q EXCEPT !.userQuota = b, !.amount = a,
                                        !.pc = "token"], p)
             /\ a = 0 => Good([q EXCEPT !.userQuota = b, !.amount = a,
                                        !.pc = "fund"], p)
      /\ q.pc = "token" =>
           /\ IsPlayground(q) =>
                Good([q EXCEPT !.pc = "fund", !.tokenConsumed = q.amount], p)
           /\ ~IsPlayground(q) => Good([q EXCEPT !.pc = "tokenDec"], p)
      /\ q.pc = "tokenDec" =>
           /\ Good([q EXCEPT !.pc = "fund", !.tokenConsumed = q.amount],
                   OnToken(p, q.amount))
           /\ Idle([q EXCEPT !.clean = FALSE], OnToken(p, q.amount))
      /\ q.pc = "fund" /\ q.source = "wallet" =>
           /\ Good(Opened(q), OnWallet(p, q.amount))
           /\ Good([q EXCEPT !.pc = "rollback"], p)
           /\ Good([q EXCEPT !.pc = "rollback", !.clean = FALSE],
                   OnWallet(p, q.amount))
<1> USE DEF Idle, Good, Shape, Covered, Exact, SourceDue, SourceHold, TokenDue,
   TokenHold, DrawsOn, TokenShare, IsPlayground, Session, Account, SubAmount, Opening
<1>1. ASSUME q.pc = "start", NEW kind \in AllKinds, NEW pref \in AllPrefs,
             NEW a \in Nat, NEW b \in Int
      PROVE  /\ Good([q EXCEPT !.kind = kind, !.pref = pref, !.free = TRUE,
                       !.pre = 0, !.tokenQuota = b, !.pc = "upstream"], p)
             /\ Good([q EXCEPT !.kind = kind, !.pref = pref, !.free = FALSE,
                       !.pre = a, !.tokenQuota = b, !.pc = "open"], p)
  <2>1. Good([q EXCEPT !.kind = kind, !.pref = pref, !.free = TRUE,
                       !.pre = 0, !.tokenQuota = b, !.pc = "upstream"], p)
    <3> DEFINE q2 == [q EXCEPT !.kind = kind, !.pref = pref, !.free = TRUE,
                       !.pre = 0, !.tokenQuota = b, !.pc = "upstream"]
    <3>1. Shape(q2)
      BY <1>1
    <3>2. Covered(q2, p)
      BY <1>1
    <3>3. Exact(q2, p)
      BY <1>1
    <3>4. QED
      BY <3>1, <3>2, <3>3
  <2>2. Good([q EXCEPT !.kind = kind, !.pref = pref, !.free = FALSE,
                       !.pre = a, !.tokenQuota = b, !.pc = "open"], p)
    BY <1>1
  <2>3. QED
    BY <2>1, <2>2
<1>2. ASSUME q.pc = "gate", NEW b \in Int, NEW a \in Nat
      PROVE  /\ a > 0 => Good([q EXCEPT !.userQuota = b, !.amount = a,
                                        !.pc = "token"], p)
             /\ a = 0 => Good([q EXCEPT !.userQuota = b, !.amount = a,
                                        !.pc = "fund"], p)
  <2>1. CASE a > 0
    BY <1>2, <2>1
  <2>2. CASE a = 0
    BY <1>2, <2>2
  <2>3. QED
    BY <2>1, <2>2
<1>3. ASSUME q.pc = "token"
      PROVE  /\ IsPlayground(q) =>
                Good([q EXCEPT !.pc = "fund", !.tokenConsumed = q.amount], p)
             /\ ~IsPlayground(q) => Good([q EXCEPT !.pc = "tokenDec"], p)
  BY <1>3
<1>4. ASSUME q.pc = "tokenDec"
      PROVE Good([q EXCEPT !.pc = "fund", !.tokenConsumed = q.amount],
                 OnToken(p, q.amount))
  <2> DEFINE q2 == [q EXCEPT !.pc = "fund", !.tokenConsumed = q.amount]
  <2>1. Shape(q2)
    BY <1>4
  <2>2. Covered(q2, OnToken(p, q.amount))
    BY <1>4 DEF OnToken
  <2>3. Exact(q2, OnToken(p, q.amount))
    BY <1>4 DEF OnToken
  <2>4. QED
    BY <2>1, <2>2, <2>3
<1>5. ASSUME q.pc = "tokenDec"
      PROVE Idle([q EXCEPT !.clean = FALSE], OnToken(p, q.amount))
  BY <1>5 DEF OnToken
<1>6. ASSUME q.pc = "fund", q.source = "wallet"
      PROVE Good(Opened(q), OnWallet(p, q.amount))
  <2>1. Shape(Opened(q))
    BY <1>6 DEF Opened
  <2>2. Covered(Opened(q), OnWallet(p, q.amount))
    BY <1>6 DEF Opened, OnWallet
  <2>3. Exact(Opened(q), OnWallet(p, q.amount))
    BY <1>6 DEF Opened, OnWallet
  <2>4. QED
    BY <2>1, <2>2, <2>3
<1>7. ASSUME q.pc = "fund", q.source = "wallet"
      PROVE Good([q EXCEPT !.pc = "rollback"], p)
  BY <1>7
<1>8. ASSUME q.pc = "fund", q.source = "wallet"
      PROVE Good([q EXCEPT !.pc = "rollback", !.clean = FALSE],
                 OnWallet(p, q.amount))
  BY <1>8 DEF OnWallet
<1> HIDE DEF Good, Idle, IsPlayground
<1>9. QED
  BY <1>1, <1>2, <1>3, <1>4, <1>5, <1>6, <1>7, <1>8

\* Opening: the subscription's answer and the rollback.
LEMMA FundGood ==
    ASSUME NEW q \in Session, NEW p \in Account, Good(q, p)
    PROVE
      /\ q.pc = "fund" /\ q.source = "subscription" =>
           /\ q.record = "none" =>
                /\ Good(Opened([q EXCEPT !.record = "consumed"]),
                        OnSubscription(p, q.amount))
                /\ Good([[q EXCEPT !.record = "consumed"] EXCEPT
                           !.pc = "rollback", !.clean = FALSE],
                        OnSubscription(p, q.amount))
           /\ q.record = "consumed" => Good(Opened(q), p)
           /\ \A m \in BOOLEAN :
                Good([q EXCEPT !.pc = "rollback", !.insufficient = m], p)
      /\ q.pc = "rollback" =>
           /\ IsPlayground(q) => Idle([q EXCEPT !.tokenConsumed = 0], p)
           /\ ~IsPlayground(q) =>
                /\ Idle([q EXCEPT !.tokenConsumed = 0],
                        OnToken(p, -q.tokenConsumed))
                /\ Idle([[q EXCEPT !.tokenConsumed = 0] EXCEPT !.clean = FALSE],
                        OnToken(p, -q.tokenConsumed))
                /\ Idle([[q EXCEPT !.tokenConsumed = 0] EXCEPT !.clean = FALSE], p)
<1> USE DEF Idle, Good, Shape, Covered, Exact, SourceDue, SourceHold, TokenDue,
   TokenHold, DrawsOn, TokenShare, IsPlayground, Session, Account, SubAmount, Opening
<1> DEFINE qr == [q EXCEPT !.record = "consumed"]
           qt == [q EXCEPT !.tokenConsumed = 0]
<1>1. ASSUME q.pc = "fund", q.source = "subscription", q.record = "none"
      PROVE  Good(Opened(qr), OnSubscription(p, q.amount))
  <2>1. Shape(Opened(qr))
    BY <1>1 DEF Opened
  <2>2. Covered(Opened(qr), OnSubscription(p, q.amount))
    BY <1>1 DEF Opened, OnSubscription
  <2>3. Exact(Opened(qr), OnSubscription(p, q.amount))
    BY <1>1 DEF Opened, OnSubscription
  <2>4. QED
    BY <2>1, <2>2, <2>3
<1>2. ASSUME q.pc = "fund", q.source = "subscription", q.record = "none"
      PROVE  Good([qr EXCEPT !.pc = "rollback", !.clean = FALSE],
                  OnSubscription(p, q.amount))
  BY <1>2 DEF OnSubscription
<1>3. ASSUME q.pc = "fund", q.source = "subscription", q.record = "consumed"
      PROVE  Good(Opened(q), p)
  <2>1. Shape(Opened(q))
    BY <1>3 DEF Opened
  <2>2. Covered(Opened(q), p)
    BY <1>3 DEF Opened
  <2>3. Exact(Opened(q), p)
    BY <1>3 DEF Opened
  <2>4. QED
    BY <2>1, <2>2, <2>3
<1>4. ASSUME q.pc = "fund", q.source = "subscription", NEW m \in BOOLEAN
      PROVE  Good([q EXCEPT !.pc = "rollback", !.insufficient = m], p)
  BY <1>4
<1>5. ASSUME q.pc = "rollback", IsPlayground(q)
      PROVE  Idle(qt, p)
  BY <1>5
<1>6. ASSUME q.pc = "rollback", ~IsPlayground(q)
      PROVE  Idle(qt, OnToken(p, -q.tokenConsumed))
  BY <1>6 DEF OnToken
<1>7. ASSUME q.pc = "rollback", ~IsPlayground(q)
      PROVE  Idle([qt EXCEPT !.clean = FALSE], OnToken(p, -q.tokenConsumed))
  BY <1>7 DEF OnToken
<1>8. ASSUME q.pc = "rollback", ~IsPlayground(q)
      PROVE  Idle([qt EXCEPT !.clean = FALSE], p)
  BY <1>8
<1> HIDE DEF Good, Idle, IsPlayground
<1>9. QED
  BY <1>1, <1>2, <1>3, <1>4, <1>5, <1>6, <1>7, <1>8

\* Turning an attempt away keeps the ledger.
LEMMA RejectLedger ==
    ASSUME TypeOK, LedgerInvariant, NEW r \in Requests,
           NEW q \in Session, NEW n \in Int, Reject(r, q),
           \/ NoDebit /\ Idle(q, paid[r])
           \/ DebitToken(r, n) /\ Idle(q, OnToken(paid[r], n))
    PROVE  LedgerInvariant'
<1>1. PICK q2 \in Rejections(q) : Become(r, q2)
  BY DEF Reject
<1>2. paid[r] \in Account /\ OnToken(paid[r], n) \in Account
  BY DEF TypeOK, OnToken, Account
<1>3. QED
  BY <1>1, <1>2, IdleMoves, LedgerStep

\* Falling back to another source keeps the ledger.
LEMMA TryLedger ==
    ASSUME TypeOK, LedgerInvariant, NEW r \in Requests,
           NEW q \in Session, NEW n \in Int,
           Become(r, TryWallet(q)) \/ Become(r, TrySubscription(q)),
           \/ NoDebit /\ Idle(q, paid[r])
           \/ DebitToken(r, n) /\ Idle(q, OnToken(paid[r], n))
    PROVE  LedgerInvariant'
<1>1. paid[r] \in Account /\ OnToken(paid[r], n) \in Account
  BY DEF TypeOK, OnToken, Account
<1>2. QED
  BY <1>1, IdleMoves, LedgerStep

\* The steps of NewBillingSession and preConsume keep the ledger.
LEMMA OpenLedger ==
    ASSUME TypeOK, LedgerInvariant, NEW r \in Requests, Open(r)
    PROVE  LedgerInvariant'
<1> DEFINE q == req[r]
           p == paid[r]
<1>q. q \in Session /\ p \in Account /\ Good(q, p)
  BY LedgerAt
<1>z. 0 \in Int /\ q.amount \in Int /\ -q.tokenConsumed \in Int
  BY <1>q DEF Session
<1>i. q.pc \in Opening => Idle(q, p)
  BY <1>q, OpeningIdle
<1>1. CASE Begin(r)
  <2>1. PICK kind \in Kinds, pref \in Prefs, pre \in PreQuotas, free \in BOOLEAN :
          Become(r, [q EXCEPT
            !.kind = kind, !.pref = pref, !.free = free,
            !.pre = IF free THEN 0 ELSE pre,
            !.tokenQuota = IF kind = "playground" THEN 0 ELSE token,
            !.pc = IF free THEN "upstream" ELSE "open"])
    BY <1>1 DEF Begin
  <2> DEFINE b == IF kind = "playground" THEN 0 ELSE token
  <2>2. kind \in AllKinds /\ pref \in AllPrefs /\ pre \in Nat /\ b \in Int
    BY BillingAssumption DEF TypeOK
  <2>3. q.pc = "start" /\ NoDebit
    BY <1>1 DEF Begin
  <2>4. CASE free
    <3>1. Become(r, [q EXCEPT !.kind = kind, !.pref = pref, !.free = TRUE,
                       !.pre = 0, !.tokenQuota = b, !.pc = "upstream"])
      BY <2>1, <2>4
    <3> HIDE DEF b
    <3>2. Good([q EXCEPT !.kind = kind, !.pref = pref, !.free = TRUE,
                       !.pre = 0, !.tokenQuota = b, !.pc = "upstream"], p)
      BY <1>q, <2>2, <2>3, OpenGood
    <3>3. QED
      BY <2>3, <3>1, <3>2, LedgerStep
  <2>5. CASE ~free
    <3>1. Become(r, [q EXCEPT !.kind = kind, !.pref = pref, !.free = FALSE,
                       !.pre = pre, !.tokenQuota = b, !.pc = "open"])
      BY <2>1, <2>5
    <3> HIDE DEF b
    <3>2. Good([q EXCEPT !.kind = kind, !.pref = pref, !.free = FALSE,
                       !.pre = pre, !.tokenQuota = b, !.pc = "open"], p)
      BY <1>q, <2>2, <2>3, OpenGood
    <3>3. QED
      BY <2>3, <3>1, <3>2, LedgerStep
  <2>6. QED
    BY <2>4, <2>5
<1>2. CASE NewBillingSession(r)
  <2>1. /\ q.pc \in Opening /\ NoDebit
        /\ \/ Become(r, TryWallet(q)) \/ Become(r, TrySubscription(q))
           \/ Become(r, [q EXCEPT !.pc = "hasSub"])
    BY <1>2 DEF NewBillingSession, Opening
  <2>2. Good([q EXCEPT !.pc = "hasSub"], p)
    BY <1>q, <1>i, <2>1, IdleMoves
  <2>3. QED
    BY <1>q, <1>z, <1>i, <2>1, <2>2, TryLedger, LedgerStep
<1>3. CASE HasActiveUserSubscription(r)
  <2>1. /\ q.pc \in Opening /\ NoDebit
        /\ \/ Become(r, TryWallet(q)) \/ Become(r, TrySubscription(q))
           \/ Reject(r, q)
    BY <1>3 DEF HasActiveUserSubscription, Opening
  <2>2. QED
    BY <1>q, <1>z, <1>i, <2>1, TryLedger, RejectLedger
<1>4. CASE WalletGate(r)
  <2> DEFINE held == IF ShouldTrust(q, wallet) THEN 0 ELSE q.pre
  <2>1. held \in Nat /\ wallet \in Int
    BY <1>q DEF Session, TypeOK
  <2>2. /\ q.pc = "gate" /\ q.pc \in Opening /\ NoDebit
        /\ \/ Become(r, [q EXCEPT !.userQuota = wallet, !.amount = held,
                                  !.pc = IF held > 0 THEN "token" ELSE "fund"])
           \/ Become(r, TrySubscription(q))
           \/ Reject(r, q)
    BY <1>4 DEF WalletGate, Opening
  <2> HIDE DEF held
  <2>3. CASE Become(r, [q EXCEPT !.userQuota = wallet, !.amount = held,
                                 !.pc = IF held > 0 THEN "token" ELSE "fund"])
    <3>1. CASE held > 0
      <4>1. Become(r, [q EXCEPT !.userQuota = wallet, !.amount = held, !.pc = "token"])
        BY <2>3, <3>1
      <4>2. Good([q EXCEPT !.userQuota = wallet, !.amount = held, !.pc = "token"], p)
        BY <1>q, <2>1, <2>2, <3>1, OpenGood
      <4>3. QED
        BY <2>2, <4>1, <4>2, LedgerStep
    <3>2. CASE held = 0
      <4>1. Become(r, [q EXCEPT !.userQuota = wallet, !.amount = held, !.pc = "fund"])
        BY <2>3, <3>2
      <4>2. Good([q EXCEPT !.userQuota = wallet, !.amount = held, !.pc = "fund"], p)
        BY <1>q, <2>1, <2>2, <3>2, OpenGood
      <4>3. QED
        BY <2>2, <4>1, <4>2, LedgerStep
    <3>3. QED
      BY <2>1, <3>1, <3>2
  <2>4. QED
    BY <1>q, <1>z, <1>i, <2>2, <2>3, TryLedger, RejectLedger
<1>5. CASE PreConsumeTokenQuota(r)
  <2>1. /\ q.pc = "token" /\ q.pc \in Opening /\ NoDebit
        /\ \/ /\ IsPlayground(q)
              /\ Become(r, [q EXCEPT !.pc = "fund", !.tokenConsumed = q.amount])
           \/ ~IsPlayground(q) /\ Become(r, [q EXCEPT !.pc = "tokenDec"])
           \/ Reject(r, q)
    BY <1>5 DEF PreConsumeTokenQuota, Opening
  <2>2. QED
    BY <1>q, <1>z, <1>i, <2>1, OpenGood, LedgerStep, RejectLedger
<1>6. CASE DecreaseTokenQuota(r)
  <2>1. /\ q.pc = "tokenDec" /\ q.pc \in Opening
        /\ \/ /\ DebitToken(r, q.amount)
              /\ Become(r, [q EXCEPT !.pc = "fund", !.tokenConsumed = q.amount])
           \/ Reject(r, q) /\ NoDebit
           \/ Reject(r, [q EXCEPT !.clean = FALSE]) /\ DebitToken(r, q.amount)
    BY <1>6 DEF DecreaseTokenQuota, Opening, Lost, Unacknowledged
  <2>2. [q EXCEPT !.clean = FALSE] \in Session
    BY <1>q, UpdateType
  <2>3. QED
    BY <1>q, <1>z, <1>i, <2>1, <2>2, OpenGood, LedgerStep, RejectLedger
<1>7. CASE FundFromWallet(r)
  <2>1. /\ q.pc = "fund" /\ q.source = "wallet"
        /\ \/ DebitWallet(r, q.amount) /\ Become(r, Opened(q))
           \/ NoDebit /\ Become(r, [q EXCEPT !.pc = "rollback"])
           \/ /\ DebitWallet(r, q.amount)
              /\ Become(r, [q EXCEPT !.pc = "rollback", !.clean = FALSE])
    BY <1>7 DEF FundFromWallet, Lost, Unacknowledged
  <2>2. QED
    BY <1>q, <2>1, OpenGood, LedgerStep
<1>8. CASE FundFromSubscription(r)
  <2> DEFINE q1 == [q EXCEPT !.tx = Closed]
             q2 == [q1 EXCEPT !.record = "consumed"]
  <2>0. q1 \in Session /\ q1.amount \in Nat /\ q.tx \in Copy /\ Good(q1, p)
    BY <1>q, UpdateType, FieldType, CopyType, CopyKeeps
  <2>1. /\ q1.pc = "fund" /\ q1.source = "subscription"
        /\ \/ /\ BookSubscription(r, q1.amount) /\ q1.record = "none"
              /\ \/ Become(r, Opened(q2))
                 \/ Become(r, [q2 EXCEPT !.pc = "rollback", !.clean = FALSE])
           \/ q1.record = "consumed" /\ NoDebit /\ Become(r, Opened(q1))
           \/ /\ NoDebit
              /\ \E m \in BOOLEAN :
                   Become(r, [q1 EXCEPT !.pc = "rollback", !.insufficient = m])
    BY <1>8, <2>0 DEF FundFromSubscription, Lost, Unacknowledged, BookSubscription, Transaction
  <2> HIDE DEF q1
  <2>2. QED
    BY <1>q, <2>0, <2>1, FundGood, LedgerStep
<1>9. CASE RollbackToken(r)
  <2> DEFINE q2 == [q EXCEPT !.tokenConsumed = 0]
             q3 == [q2 EXCEPT !.clean = FALSE]
  <2>1. q2 \in Session /\ q3 \in Session
    BY <1>q, UpdateType, 0 \in Nat
  <2>2. /\ q.pc = "rollback"
        /\ \/ /\ IsPlayground(q) /\ NoDebit
              /\ Become(r, TryWallet(q2)) \/ Reject(r, q2)
           \/ /\ ~IsPlayground(q) /\ DebitToken(r, -q.tokenConsumed)
              /\ \/ Become(r, TryWallet(q2)) \/ Reject(r, q2)
                 \/ Become(r, TryWallet(q3)) \/ Reject(r, q3)
           \/ /\ ~IsPlayground(q) /\ NoDebit
              /\ Become(r, TryWallet(q3)) \/ Reject(r, q3)
    BY <1>9 DEF RollbackToken, Fails, Lost, Unacknowledged
  <2>3. /\ IsPlayground(q) => Idle(q2, p)
        /\ ~IsPlayground(q) =>
             /\ Idle(q2, OnToken(p, -q.tokenConsumed))
             /\ Idle(q3, OnToken(p, -q.tokenConsumed))
             /\ Idle(q3, p)
    BY <1>q, <2>2, FundGood
  <2>4. QED
    <3> HIDE DEF q2, q3
    <3> QED BY <1>z, <2>1, <2>2, <2>3, TryLedger, RejectLedger
<1>10. QED
  BY <1>1, <1>2, <1>3, <1>4, <1>5, <1>6, <1>7, <1>8, <1>9 DEF Open

\* The upstream call's outcomes.
LEMMA UpstreamGood ==
    ASSUME NEW q \in Session, NEW p \in Account, Good(q, p), q.pc = "upstream"
    PROVE
      /\ Good([q EXCEPT !.retry = @ + 1, !.pc = NextAttempt(q)], p)
      /\ \A actual \in Nat :
           LET q2 == [q EXCEPT !.outcome = "ok", !.actual = actual] IN
           /\ q.billing /\ actual = q.preConsumed =>
                Good([q2 EXCEPT !.settled = TRUE, !.pc = "done"], p)
           /\ q.billing => Good([q2 EXCEPT !.pc = "settleFund"], p)
           /\ ~q.billing /\ actual = 0 => Good([q2 EXCEPT !.pc = "done"], p)
           /\ ~q.billing => Good([q2 EXCEPT !.post = actual, !.pc = "postFund"], p)
      /\ Good([[Refund(q) EXCEPT !.outcome = "fail"] EXCEPT !.pc = "done"], p)
      /\ \A fee \in Nat :
           Good([[Refund(q) EXCEPT !.outcome = "fail"] EXCEPT
                   !.pc = "postFund", !.post = fee], p)
      /\ Good([q EXCEPT !.pc = "done", !.outcome = "panic"], p)
<1> USE DEF Good, Shape, Covered, Exact, SourceDue, SourceHold, TokenDue,
   TokenHold, DrawsOn, TokenShare, IsPlayground, Session, Account, SubAmount, Opening
<1>1. Good([q EXCEPT !.retry = @ + 1, !.pc = NextAttempt(q)], p)
  <2>1. NextAttempt(q) = "upstream"
    BY DEF NextAttempt
  <2>2. Good([q EXCEPT !.retry = @ + 1, !.pc = "upstream"], p)
    OBVIOUS
  <2>3. QED
    BY <2>1, <2>2
<1>2. ASSUME NEW actual \in Nat
      PROVE  LET q2 == [q EXCEPT !.outcome = "ok", !.actual = actual] IN
             /\ q.billing /\ actual = q.preConsumed =>
                  Good([q2 EXCEPT !.settled = TRUE, !.pc = "done"], p)
             /\ q.billing => Good([q2 EXCEPT !.pc = "settleFund"], p)
             /\ ~q.billing /\ actual = 0 => Good([q2 EXCEPT !.pc = "done"], p)
             /\ ~q.billing => Good([q2 EXCEPT !.post = actual, !.pc = "postFund"], p)
  <2> DEFINE q2 == [q EXCEPT !.outcome = "ok", !.actual = actual]
  <2>1. ASSUME q.billing, actual = q.preConsumed
        PROVE  Good([q2 EXCEPT !.settled = TRUE, !.pc = "done"], p)
    BY <2>1
  <2>2. ASSUME q.billing PROVE Good([q2 EXCEPT !.pc = "settleFund"], p)
    BY <2>2
  <2>3. ASSUME ~q.billing, actual = 0 PROVE Good([q2 EXCEPT !.pc = "done"], p)
    BY <2>3
  <2>4. ASSUME ~q.billing
        PROVE  Good([q2 EXCEPT !.post = actual, !.pc = "postFund"], p)
    BY <2>4
  <2>5. QED
    <3> HIDE DEF Good
    <3> QED BY <2>1, <2>2, <2>3, <2>4
<1> DEFINE q1 == [q EXCEPT !.refunded = TRUE, !.gpc = "funding"]
<1>r. \/ Refund(q) = q /\ q.funded = 0
      \/ Refund(q) = q1 /\ q.billing
  <2>1. CASE q.billing /\ NeedsRefund(q)
    BY <2>1 DEF Refund
  <2>2. CASE ~(q.billing /\ NeedsRefund(q))
    <3>1. q.funded = 0
      BY <2>2 DEF NeedsRefund
    <3>2. QED
      BY <2>2, <3>1 DEF Refund
  <2>3. QED
    BY <2>1, <2>2
<1>3. Good([[Refund(q) EXCEPT !.outcome = "fail"] EXCEPT !.pc = "done"], p)
  <2>1. q.funded = 0 => Good([[q EXCEPT !.outcome = "fail"] EXCEPT !.pc = "done"], p)
    OBVIOUS
  <2>2. q.billing => Good([[q1 EXCEPT !.outcome = "fail"] EXCEPT !.pc = "done"], p)
    OBVIOUS
  <2> HIDE DEF Good
  <2>3. QED
    BY <1>r, <2>1, <2>2
<1>4. ASSUME NEW fee \in Nat
      PROVE  Good([[Refund(q) EXCEPT !.outcome = "fail"] EXCEPT
                   !.pc = "postFund", !.post = fee], p)
  <2>1. q.funded = 0 =>
          Good([[q EXCEPT !.outcome = "fail"] EXCEPT
                  !.pc = "postFund", !.post = fee], p)
    OBVIOUS
  <2>2. q.billing =>
          Good([[q1 EXCEPT !.outcome = "fail"] EXCEPT
                  !.pc = "postFund", !.post = fee], p)
    OBVIOUS
  <2> HIDE DEF Good
  <2>3. QED
    BY <1>r, <2>1, <2>2
<1>5. Good([q EXCEPT !.pc = "done", !.outcome = "panic"], p)
  OBVIOUS
<1> HIDE DEF Good
<1>6. QED
  BY <1>1, <1>2, <1>3, <1>4, <1>5

\* A debit of n on the source the request draws on.
OnSource(q, p, n) ==
    IF DrawsOn(q) = "wallet" THEN OnWallet(p, n) ELSE OnSubscription(p, n)

\* Settling and charging without a session.
LEMMA CloseGood ==
    ASSUME NEW q \in Session, NEW p \in Account, Good(q, p)
    PROVE
      LET delta == q.actual - q.preConsumed
          qf == [q EXCEPT !.fundingSettled = TRUE]
          qs == [q EXCEPT !.settled = TRUE, !.pc = "done"]
          qd == [q EXCEPT !.pc = "done"]
      IN
      /\ q.pc = "settleFund" =>
           /\ IsPlayground(q) =>
                Good([qf EXCEPT !.settled = TRUE, !.pc = "done"], OnSource(q, p, delta))
           /\ ~IsPlayground(q) =>
                Good([qf EXCEPT !.pc = "settleToken"], OnSource(q, p, delta))
           /\ Good(qd, p)
           /\ Good([q EXCEPT !.pc = "done", !.clean = FALSE], OnSource(q, p, delta))
           /\ Good([q EXCEPT !.pc = "done", !.clean = FALSE], p)
      /\ q.pc = "settleToken" =>
           /\ Good(qs, OnToken(p, delta))
           /\ Good([qs EXCEPT !.clean = FALSE], OnToken(p, delta))
           /\ Good([qs EXCEPT !.clean = FALSE], p)
      /\ q.pc = "postFund" =>
           /\ IsPlayground(q) =>
                Good([q EXCEPT !.booked = q.post, !.pc = "done"], OnSource(q, p, q.post))
           /\ ~IsPlayground(q) =>
                Good([q EXCEPT !.booked = q.post, !.pc = "postToken"],
                     OnSource(q, p, q.post))
           /\ q.billing => Good(qd, p)
           /\ Good([q EXCEPT !.pc = "done", !.clean = FALSE], OnSource(q, p, q.post))
           /\ Good([q EXCEPT !.pc = "done", !.clean = FALSE], p)
      /\ q.pc = "postToken" =>
           /\ Good(qd, OnToken(p, q.post))
           /\ Good([qd EXCEPT !.clean = FALSE], OnToken(p, q.post))
           /\ Good([qd EXCEPT !.clean = FALSE], p)
<1> USE DEF Good, Shape, Covered, Exact, SourceDue, SourceHold, TokenDue,
   TokenHold, DrawsOn, TokenShare, IsPlayground, Session, Account, SubAmount,
   Opening, OnSource, OnWallet, OnSubscription, OnToken
<1> DEFINE delta == q.actual - q.preConsumed
           qf == [q EXCEPT !.fundingSettled = TRUE]
           qs == [q EXCEPT !.settled = TRUE, !.pc = "done"]
           qd == [q EXCEPT !.pc = "done"]
           qx == [q EXCEPT !.pc = "done", !.clean = FALSE]
<1>1. ASSUME q.pc = "settleFund", IsPlayground(q)
      PROVE  Good([qf EXCEPT !.settled = TRUE, !.pc = "done"], OnSource(q, p, delta))
  BY <1>1
<1>2. ASSUME q.pc = "settleFund", ~IsPlayground(q)
      PROVE  Good([qf EXCEPT !.pc = "settleToken"], OnSource(q, p, delta))
  BY <1>2
<1>3. ASSUME q.pc = "settleFund" PROVE Good(qd, p)
  BY <1>3
<1>4. ASSUME q.pc = "settleFund" PROVE Good(qx, OnSource(q, p, delta))
  BY <1>4
<1>5. ASSUME q.pc = "settleFund" PROVE Good(qx, p)
  BY <1>5
<1>6. ASSUME q.pc = "settleToken" PROVE Good(qs, OnToken(p, delta))
  BY <1>6
<1>7. ASSUME q.pc = "settleToken"
      PROVE  Good([qs EXCEPT !.clean = FALSE], OnToken(p, delta))
  BY <1>7
<1>8. ASSUME q.pc = "settleToken" PROVE Good([qs EXCEPT !.clean = FALSE], p)
  BY <1>8
<1>9. ASSUME q.pc = "postFund", IsPlayground(q)
      PROVE  Good([q EXCEPT !.booked = q.post, !.pc = "done"], OnSource(q, p, q.post))
  <2> DEFINE q2 == [q EXCEPT !.booked = q.post, !.pc = "done"]
             p2 == OnSource(q, p, q.post)
  <2>1. Shape(q2)
    BY <1>9
  <2>2. Covered(q2, p2)
    BY <1>9
  <2>3. Exact(q2, p2)
    <3>1. CASE DrawsOn(q) = "wallet"
      BY <1>9, <3>1
    <3>2. CASE DrawsOn(q) = "subscription"
      BY <1>9, <3>2
    <3>3. QED
      BY <3>1, <3>2
  <2>4. QED
    BY <2>1, <2>2, <2>3
<1>10. ASSUME q.pc = "postFund", ~IsPlayground(q)
       PROVE  Good([q EXCEPT !.booked = q.post, !.pc = "postToken"],
                   OnSource(q, p, q.post))
  <2> DEFINE q2 == [q EXCEPT !.booked = q.post, !.pc = "postToken"]
             p2 == OnSource(q, p, q.post)
  <2>1. Shape(q2)
    BY <1>10
  <2>2. Covered(q2, p2)
    BY <1>10
  <2>3. Exact(q2, p2)
    <3>1. CASE DrawsOn(q) = "wallet"
      BY <1>10, <3>1
    <3>2. CASE DrawsOn(q) = "subscription"
      BY <1>10, <3>2
    <3>3. QED
      BY <3>1, <3>2
  <2>4. QED
    BY <2>1, <2>2, <2>3
<1>11. ASSUME q.pc = "postFund", q.billing PROVE Good(qd, p)
  BY <1>11
<1>12. ASSUME q.pc = "postFund" PROVE Good(qx, OnSource(q, p, q.post))
  BY <1>12
<1>13. ASSUME q.pc = "postFund" PROVE Good(qx, p)
  BY <1>13
<1>14. ASSUME q.pc = "postToken" PROVE Good(qd, OnToken(p, q.post))
  BY <1>14
<1>15. ASSUME q.pc = "postToken"
       PROVE  Good([qd EXCEPT !.clean = FALSE], OnToken(p, q.post))
  BY <1>15
<1>16. ASSUME q.pc = "postToken" PROVE Good([qd EXCEPT !.clean = FALSE], p)
  BY <1>16
<1> HIDE DEF Good, IsPlayground, OnSource, OnToken
<1>17. QED
  BY <1>1, <1>2, <1>3, <1>4, <1>5, <1>6, <1>7, <1>8, <1>9, <1>10, <1>11, <1>12,
     <1>13, <1>14, <1>15, <1>16

\* The refund goroutine.
LEMMA RefundGood ==
    ASSUME NEW q \in Session, NEW p \in Account, Good(q, p)
    PROVE
      /\ q.gpc = "funding" /\ q.source = "wallet" =>
           /\ Good(FundingRefunded(q), OnWallet(p, -q.funded))
           /\ Good([FundingRefunded(q) EXCEPT !.clean = FALSE], OnWallet(p, -q.funded))
           /\ Good([FundingRefunded(q) EXCEPT !.clean = FALSE], p)
      /\ q.gpc = "funding" /\ q.source = "subscription" =>
           /\ Refundable(q) =>
                /\ Good([FundingRefunded(q) EXCEPT !.record = "refunded"],
                        OnSubscription(p, -q.funded))
                /\ Good([AttemptFailed(q) EXCEPT !.record = "refunded"],
                        OnSubscription(p, -q.funded))
                /\ Good([AttemptFailed(q) EXCEPT !.unmarked = @ + q.funded,
                                                 !.clean = FALSE],
                        OnSubscription(p, -q.funded))
           /\ ~Refundable(q) => Good(FundingRefunded(q), p)
           /\ Good(AttemptFailed(q), p)
      /\ q.gpc = "token" =>
           LET qe == [q EXCEPT !.gpc = "end"] IN
           /\ IsPlayground(q) \/ q.tokenConsumed = 0 => Good(qe, p)
           /\ ~IsPlayground(q) =>
                /\ Good(qe, OnToken(p, -q.tokenConsumed))
                /\ Good([qe EXCEPT !.clean = FALSE], OnToken(p, -q.tokenConsumed))
                /\ Good([qe EXCEPT !.clean = FALSE], p)
<1> USE DEF Good, Shape, Covered, Exact, SourceDue, SourceHold, TokenDue,
   TokenHold, DrawsOn, TokenShare, IsPlayground, Session, Account, SubAmount,
   Opening, OnWallet, OnSubscription, OnToken, FundingRefunded, AttemptFailed,
   Refundable
<1> DEFINE qe == [q EXCEPT !.gpc = "end"]
<1>1. ASSUME q.gpc = "funding", q.source = "wallet"
      PROVE  Good(FundingRefunded(q), OnWallet(p, -q.funded))
  BY <1>1
<1>2. ASSUME q.gpc = "funding", q.source = "wallet"
      PROVE  Good([FundingRefunded(q) EXCEPT !.clean = FALSE], OnWallet(p, -q.funded))
  BY <1>2
<1>3. ASSUME q.gpc = "funding", q.source = "wallet"
      PROVE  Good([FundingRefunded(q) EXCEPT !.clean = FALSE], p)
  BY <1>3
<1>4. ASSUME q.gpc = "funding", q.source = "subscription", Refundable(q)
      PROVE  Good([FundingRefunded(q) EXCEPT !.record = "refunded"],
                  OnSubscription(p, -q.funded))
  BY <1>4
<1>5. ASSUME q.gpc = "funding", q.source = "subscription", Refundable(q)
      PROVE  Good([AttemptFailed(q) EXCEPT !.record = "refunded"],
                  OnSubscription(p, -q.funded))
  <2>1. CASE q.tries + 1 < MaxAttempts
    BY <1>5, <2>1
  <2>2. CASE ~(q.tries + 1 < MaxAttempts)
    BY <1>5, <2>2
  <2>3. QED
    BY <2>1, <2>2
<1>u. ASSUME q.gpc = "funding", q.source = "subscription", Refundable(q)
      PROVE  Good([AttemptFailed(q) EXCEPT !.unmarked = @ + q.funded, !.clean = FALSE],
                  OnSubscription(p, -q.funded))
  <2>1. CASE q.tries + 1 < MaxAttempts
    BY <1>u, <2>1
  <2>2. CASE ~(q.tries + 1 < MaxAttempts)
    BY <1>u, <2>2
  <2>3. QED
    BY <2>1, <2>2
<1>6. ASSUME q.gpc = "funding", q.source = "subscription", ~Refundable(q)
      PROVE  Good(FundingRefunded(q), p)
  BY <1>6
<1>7. ASSUME q.gpc = "funding", q.source = "subscription"
      PROVE  Good(AttemptFailed(q), p)
  <2>1. CASE q.tries + 1 < MaxAttempts
    BY <1>7, <2>1
  <2>2. CASE ~(q.tries + 1 < MaxAttempts)
    BY <1>7, <2>2
  <2>3. QED
    BY <2>1, <2>2
<1>8. ASSUME q.gpc = "token", IsPlayground(q) \/ q.tokenConsumed = 0
      PROVE  Good(qe, p)
  BY <1>8
<1>9. ASSUME q.gpc = "token", ~IsPlayground(q)
      PROVE  Good(qe, OnToken(p, -q.tokenConsumed))
  BY <1>9
<1>10. ASSUME q.gpc = "token", ~IsPlayground(q)
       PROVE  Good([qe EXCEPT !.clean = FALSE], OnToken(p, -q.tokenConsumed))
  BY <1>10
<1>11. ASSUME q.gpc = "token", ~IsPlayground(q)
       PROVE  Good([qe EXCEPT !.clean = FALSE], p)
  BY <1>11
<1> HIDE DEF Good, IsPlayground, OnToken, OnWallet, OnSubscription, Refundable,
             FundingRefunded, AttemptFailed
<1>12. QED
  BY <1>1, <1>2, <1>3, <1>4, <1>5, <1>u, <1>6, <1>7, <1>8, <1>9, <1>10, <1>11

\* The steps of the upstream call keep the ledger.
LEMMA UpstreamLedger ==
    ASSUME TypeOK, LedgerInvariant, NEW r \in Requests, Upstream(r)
    PROVE  LedgerInvariant'
<1> DEFINE q == req[r]
           p == paid[r]
<1>q. q \in Session /\ p \in Account /\ Good(q, p)
  BY LedgerAt
<1>1. CASE Retry(r)
  BY <1>1, <1>q, UpstreamGood, LedgerStep DEF Retry
<1>2. CASE Succeed(r)
  <2>1. PICK actual \in ActualQuotas :
          LET q2 == [q EXCEPT !.outcome = "ok", !.actual = actual] IN
          \/ /\ q.billing /\ actual = q.preConsumed
             /\ Become(r, [q2 EXCEPT !.settled = TRUE, !.pc = "done"])
          \/ q.billing /\ Become(r, [q2 EXCEPT !.pc = "settleFund"])
          \/ ~q.billing /\ actual = 0 /\ Become(r, [q2 EXCEPT !.pc = "done"])
          \/ ~q.billing /\ Become(r, [q2 EXCEPT !.post = actual, !.pc = "postFund"])
    BY <1>2 DEF Succeed
  <2>2. actual \in Nat
    BY BillingAssumption
  <2>3. q.pc = "upstream" /\ NoDebit
    BY <1>2 DEF Succeed
  <2>4. QED
    BY <1>q, <2>1, <2>2, <2>3, UpstreamGood, LedgerStep
<1>3. CASE Fail(r)
  <2> DEFINE q2 == [Refund(q) EXCEPT !.outcome = "fail"]
  <2>1. /\ q.pc = "upstream" /\ NoDebit
        /\ \/ Become(r, [q2 EXCEPT !.pc = "done"])
           \/ Become(r, [q2 EXCEPT !.pc = "postFund", !.post = ViolationFee])
    BY <1>3 DEF Fail
  <2>2. ViolationFee \in Nat
    BY BillingAssumption
  <2>3. QED
    BY <1>q, <2>1, <2>2, UpstreamGood, LedgerStep
<1>4. CASE Panic(r)
  BY <1>4, <1>q, UpstreamGood, LedgerStep DEF Panic
<1>5. QED
  BY <1>1, <1>2, <1>3, <1>4 DEF Upstream

\* A debit of the source the request draws on, as one step of the ledger.
LEMMA SourceStep ==
    ASSUME TypeOK, LedgerInvariant, NEW r \in Requests, NEW q, NEW q2, NEW n,
           NEW c \in Copy, Become(r, q2), DebitSource(r, DrawsOn(q), c, n),
           Good(q2, OnSource(q, paid[r], n))
    PROVE  LedgerInvariant'
<1>1. CASE DrawsOn(q) = "wallet"
  BY <1>1, LedgerStep DEF DebitSource, OnSource
<1>2. CASE DrawsOn(q) # "wallet"
  <2>1. BookSubscription(r, n)
    BY <1>2 DEF DebitSource, BookSubscription, Transaction
  <2>2. QED
    BY <1>2, <2>1, LedgerStep DEF OnSource
<1>3. QED
  BY <1>1, <1>2

\* The steps of Settle and PostConsumeQuota keep the ledger.
LEMMA CloseLedger ==
    ASSUME TypeOK, LedgerInvariant, NEW r \in Requests, Close(r)
    PROVE  LedgerInvariant'
<1> DEFINE q == req[r]
           p == paid[r]
           delta == q.actual - q.preConsumed
           qd == [q EXCEPT !.pc = "done"]
           q1 == [q EXCEPT !.tx = Closed]
<1>q. q \in Session /\ p \in Account /\ Good(q, p)
  BY LedgerAt
<1>c. /\ q1 \in Session /\ Good(q1, p) /\ q.tx \in Copy
  BY <1>q, UpdateType, FieldType, CopyType, CopyKeeps
<1>1. CASE SettleFunding(r)
  <2> DEFINE qf == [q1 EXCEPT !.fundingSettled = TRUE]
             qc == [q1 EXCEPT !.pc = "done", !.clean = FALSE]
             dc == q1.actual - q1.preConsumed
  <2>1. q1.pc = "settleFund" /\ q1.source = DrawsOn(q1)
    BY <1>1, <1>c DEF SettleFunding, Good, Shape, DrawsOn
  <2>2. \/ /\ DebitSource(r, DrawsOn(q1), q.tx, dc)
           /\ \/ /\ IsPlayground(q1)
                 /\ Become(r, [qf EXCEPT !.settled = TRUE, !.pc = "done"])
              \/ ~IsPlayground(q1) /\ Become(r, [qf EXCEPT !.pc = "settleToken"])
              \/ Become(r, qc)
        \/ NoDebit /\ (Become(r, [q1 EXCEPT !.pc = "done"]) \/ Become(r, qc))
    BY <1>1, <2>1 DEF SettleFunding, Fails, Lost, Unacknowledged
  <2> HIDE DEF q1
  <2>3. QED
    BY <1>q, <1>c, <2>1, <2>2, CloseGood, SourceStep, LedgerStep
<1>2. CASE SettleToken(r)
  <2> DEFINE qs == [q EXCEPT !.settled = TRUE, !.pc = "done"]
  <2>1. qs.actual - qs.preConsumed = delta
    BY <1>q DEF Session
  <2>2. /\ q.pc = "settleToken"
        /\ \/ DebitToken(r, delta) /\ Become(r, qs)
           \/ DebitToken(r, delta) /\ Become(r, [qs EXCEPT !.clean = FALSE])
           \/ NoDebit /\ Become(r, [qs EXCEPT !.clean = FALSE])
    BY <1>2, <2>1 DEF SettleToken, Fails, Lost, Unacknowledged
  <2>3. QED
    BY <1>q, <2>2, CloseGood, LedgerStep
<1>3. CASE PostConsumeFunding(r)
  <2> DEFINE qc == [q1 EXCEPT !.pc = "done", !.clean = FALSE]
  <2>1. q1.pc = "postFund"
    BY <1>3 DEF PostConsumeFunding
  <2>2. \/ /\ DebitSource(r, DrawsOn(q1), q.tx, q1.post)
           /\ \/ /\ IsPlayground(q1)
                 /\ Become(r, [q1 EXCEPT !.booked = q1.post, !.pc = "done"])
              \/ /\ ~IsPlayground(q1)
                 /\ Become(r, [q1 EXCEPT !.booked = q1.post, !.pc = "postToken"])
              \/ Become(r, qc)
        \/ /\ NoDebit
           /\ (q1.billing /\ Become(r, [q1 EXCEPT !.pc = "done"])) \/ Become(r, qc)
    BY <1>3 DEF PostConsumeFunding, DrawsOn, SourceRefuses, Fails, Lost, Unacknowledged
  <2> HIDE DEF q1
  <2>3. QED
    BY <1>q, <1>c, <2>1, <2>2, CloseGood, SourceStep, LedgerStep
<1>4. CASE PostConsumeToken(r)
  <2>1. qd.post = q.post
    BY <1>q DEF Session
  <2>2. /\ q.pc = "postToken"
        /\ \/ DebitToken(r, q.post) /\ Become(r, qd)
           \/ DebitToken(r, q.post) /\ Become(r, [qd EXCEPT !.clean = FALSE])
           \/ NoDebit /\ Become(r, [qd EXCEPT !.clean = FALSE])
    BY <1>4, <2>1 DEF PostConsumeToken, Fails, Lost, Unacknowledged
  <2>3. QED
    BY <1>q, <2>2, CloseGood, LedgerStep
<1>5. QED
  BY <1>1, <1>2, <1>3, <1>4 DEF Close

\* Reading the subscription keeps the ledger.
LEMMA ReadLedger ==
    ASSUME TypeOK, LedgerInvariant, NEW r \in Requests,
           ReadSubscription(r) \/ ReadForRefund(r)
    PROVE  LedgerInvariant'
<1>1. req[r] \in Session /\ Good(req[r], paid[r]) /\ ReadRow \in Copy
  BY LedgerAt, CopyType
<1>2. /\ Good([req[r] EXCEPT !.tx = ReadRow], paid[r])
      /\ Good([req[r] EXCEPT !.gtx = ReadRow], paid[r])
  BY <1>1, CopyKeeps
<1>3. QED
  BY <1>2, LedgerStep DEF ReadSubscription, ReadForRefund

\* The refund goroutine keeps the ledger.  An attempt that gave back and lost the
\* mark on its record is in the session's unmarked.
LEMMA RefundLedger ==
    ASSUME TypeOK, LedgerInvariant, NEW r \in Requests, RefundGoroutine(r)
    PROVE  LedgerInvariant'
<1> DEFINE q == req[r]
           p == paid[r]
<1>q. q \in Session /\ p \in Account /\ Good(q, p)
  BY LedgerAt
<1>1. CASE RefundWallet(r)
  <2>1. /\ q.gpc = "funding" /\ q.source = "wallet"
        /\ \/ /\ DebitWallet(r, -q.funded)
              /\ \/ Become(r, FundingRefunded(q))
                 \/ Become(r, [FundingRefunded(q) EXCEPT !.clean = FALSE])
           \/ NoDebit /\ Become(r, [FundingRefunded(q) EXCEPT !.clean = FALSE])
    BY <1>1 DEF RefundWallet, Fails, Lost, Unacknowledged
  <2>2. QED
    BY <1>q, <2>1, RefundGood, LedgerStep
<1>2. CASE RefundSubscription(r)
  <2> DEFINE q1 == [q EXCEPT !.gtx = Closed]
  <2>0. q1 \in Session /\ Good(q1, p) /\ q.gtx \in Copy
    BY <1>q, UpdateType, FieldType, CopyType, CopyKeeps
  <2>1. /\ q1.gpc = "funding" /\ q1.source = "subscription"
        /\ \/ /\ Refundable(q1) /\ BookSubscription(r, -q1.funded)
              /\ \/ Become(r, [FundingRefunded(q1) EXCEPT !.record = "refunded"])
                 \/ Become(r, [AttemptFailed(q1) EXCEPT !.record = "refunded"])
                 \/ Become(r, [AttemptFailed(q1) EXCEPT !.unmarked = @ + q1.funded,
                                                        !.clean = FALSE])
           \/ ~Refundable(q1) /\ NoDebit /\ Become(r, FundingRefunded(q1))
           \/ NoDebit /\ Become(r, AttemptFailed(q1))
    BY <1>2, <2>0 DEF RefundSubscription, Lost, Unacknowledged, BookSubscription, Transaction
  <2> HIDE DEF q1
  <2>2. QED
    BY <1>q, <2>0, <2>1, RefundGood, LedgerStep
<1>3. CASE RefundToken(r)
  <2> DEFINE qe == [q EXCEPT !.gpc = "end"]
  <2>1. qe.tokenConsumed = q.tokenConsumed /\ (IsPlayground(qe) <=> IsPlayground(q))
    BY <1>q DEF Session, IsPlayground
  <2>2. q.tokenConsumed > 0 \/ q.tokenConsumed = 0
    BY <1>q DEF Session
  <2>3. /\ q.gpc = "token"
        /\ \/ NoDebit /\ Become(r, qe) /\ (IsPlayground(q) \/ q.tokenConsumed = 0)
           \/ /\ ~IsPlayground(q) /\ DebitToken(r, -q.tokenConsumed)
              /\ Become(r, qe) \/ Become(r, [qe EXCEPT !.clean = FALSE])
           \/ ~IsPlayground(q) /\ NoDebit /\ Become(r, [qe EXCEPT !.clean = FALSE])
    BY <1>3, <2>1, <2>2 DEF RefundToken, Fails, Lost, Unacknowledged
  <2>4. QED
    BY <1>q, <2>3, RefundGood, LedgerStep
<1>4. QED
  BY <1>1, <1>2, <1>3, ReadLedger DEF RefundGoroutine

\* What every session remembers is what it has booked, whichever writes fail.
THEOREM LedgerHolds == Spec => []LedgerInvariant
<1>1. Init => LedgerInvariant
  BY DEF Init, LedgerInvariant, NewRequest, Shape, Covered, Exact, SourceDue,
     SourceHold, TokenDue, TokenHold, DrawsOn, TokenShare, IsPlayground,
     SubAmount, Opening
<1>2. TypeOK /\ LedgerInvariant /\ [Next]_vars => LedgerInvariant'
  <2> SUFFICES ASSUME TypeOK, LedgerInvariant, [Next]_vars
               PROVE  LedgerInvariant'
    OBVIOUS
  <2>1. ASSUME NEW r \in Requests, Handler(r) \/ RefundGoroutine(r)
        PROVE  LedgerInvariant'
    BY <2>1, OpenLedger, UpstreamLedger, CloseLedger, ReadLedger, RefundLedger DEF Handler
  <2>2. CASE ExpireSubscription \/ PeriodEnds \/ ResetDueSubscriptions
    BY <2>2 DEF ExpireSubscription, PeriodEnds, ResetDueSubscriptions, ResetReads,
       ResetSaves, LedgerInvariant
  <2>3. CASE UNCHANGED vars
    BY <2>3 DEF vars, LedgerInvariant
  <2>4. QED
    BY <2>1, <2>2, <2>3 DEF Next
<1>3. QED
  BY <1>1, <1>2, TypeCorrect, PTL DEF Spec

\* Whichever store writes fail, and wherever: no request ever gives back more than
\* it took on its wallet or token, nor on its subscription beyond the attempts that
\* lost the mark on the record.
THEOREM NoOverRefund == Spec => []NeverOverRefunded
<1>1. TypeOK /\ LedgerInvariant => NeverOverRefunded
  <2> SUFFICES ASSUME TypeOK, LedgerInvariant, NEW r \in Requests
               PROVE  /\ paid[r].wallet >= 0 /\ paid[r].token >= 0
                      /\ paid[r].sub + req[r].unmarked >= 0
                      /\ req[r].clean => paid[r].sub >= 0
    BY DEF NeverOverRefunded
  <2>1. /\ Shape(req[r]) /\ Covered(req[r], paid[r])
        /\ paid[r].sub \in Int /\ req[r].unmarked \in Nat
    BY DEF LedgerInvariant, TypeOK, Session, Account
  <2>2. /\ paid[r].wallet >= 0 /\ paid[r].token >= 0
        /\ paid[r].sub + req[r].unmarked >= 0
    BY <2>1 DEF Covered
  <2>3. req[r].clean => req[r].unmarked = 0
    BY <2>1 DEF Shape
  <2>4. QED
    BY <2>1, <2>2, <2>3
<1>2. QED
  BY <1>1, TypeCorrect, LedgerHolds, PTL

\* A finished request whose writes all succeeded has cost exactly what it
\* should, once, on its funding source and on its token.
THEOREM ChargeCorrect == Spec => []ChargeMatchesOutcome
<1>1. TypeOK /\ LedgerInvariant => ChargeMatchesOutcome
  <2> SUFFICES ASSUME TypeOK, LedgerInvariant, NEW r \in Requests,
                      Ended(req[r]), req[r].clean
               PROVE  \E due \in Due(req[r]) :
                        /\ FundingPaid(r) = due
                        /\ paid[r].token = TokenShare(req[r], due)
    BY DEF ChargeMatchesOutcome
  <2> DEFINE q == req[r]
             p == paid[r]
  <2>1. q \in Session /\ p \in Account /\ Good(q, p)
    BY LedgerAt
  <2>2. /\ p.wallet + p.sub = SourceDue(q)
        /\ p.token = TokenShare(q, TokenDue(q))
    BY <2>1 DEF Good, Exact, DrawsOn, Session, Account, SourceDue, SourceHold
  <2>3. SourceDue(q) = TokenDue(q) /\ SourceDue(q) \in Due(q)
    <3> USE DEF Good, Shape, Ended, SourceDue, TokenDue, SourceHold, TokenHold,
                Due, Session, Opening
    <3>1. CASE q.outcome = "ok"
      <4>1. CASE q.billing /\ q.settled
        BY <2>1, <3>1, <4>1
      <4>2. CASE q.billing /\ ~q.settled
        BY <2>1, <3>1, <4>2
      <4>3. CASE ~q.billing
        BY <2>1, <3>1, <4>3
      <4>4. QED
        BY <4>1, <4>2, <4>3
    <3>2. CASE q.outcome = "fail"
      BY <2>1, <3>2
    <3>3. CASE q.outcome = "panic"
      BY <2>1, <3>3
    <3>4. CASE q.outcome = "rejected"
      BY <2>1, <3>4
    <3>5. q.outcome \in {"ok", "fail", "panic", "rejected"}
      BY <2>1 DEF Outcomes
    <3>6. QED
      BY <3>1, <3>2, <3>3, <3>4, <3>5
  <2>4. QED
    BY <2>2, <2>3 DEF FundingPaid
<1>2. QED
  BY <1>1, TypeCorrect, LedgerHolds, PTL

\* A request whose writes all succeeded is never charged on the wallet and on
\* the subscription at once, at any step of NewBillingSession's fallback and of
\* what follows it.
THEOREM OneSource == Spec => []OneFundingSource
<1>1. TypeOK /\ LedgerInvariant => OneFundingSource
  <2> SUFFICES ASSUME TypeOK, LedgerInvariant, NEW r \in Requests, req[r].clean
               PROVE  paid[r].wallet = 0 \/ paid[r].sub = 0
    BY DEF OneFundingSource
  <2>1. Exact(req[r], paid[r])
    BY DEF LedgerInvariant
  <2>2. QED
    BY <2>1 DEF Exact
<1>2. QED
  BY <1>1, TypeCorrect, LedgerHolds, PTL

-----------------------------------------------------------------------------
(* The wallet's gate: tryWallet checks the balance, PreConsume debits later. *)

\* What a session is about to take from the wallet, its remembered balance covers.
Gated(q) ==
    q.pc \in {"token", "tokenDec", "fund"} /\ q.source = "wallet" =>
        q.amount <= q.userQuota

AllGated == \A r \in Requests : Gated(req[r])

\* A step that replaces one request's session preserves the invariant if the
\* new session is gated.
LEMMA GatedBecome ==
    ASSUME TypeOK, AllGated, NEW r \in Requests, NEW q, Gated(q), Become(r, q)
    PROVE  AllGated'
BY DEF TypeOK, AllGated, Become

\* The sessions the factory builds have passed the gate, have yet to, or do not
\* draw on the wallet.
LEMMA GatedTry ==
    ASSUME NEW q \in Session
    PROVE  Gated(TryWallet(q)) /\ Gated(TrySubscription(q))
BY DEF Gated, TryWallet, TrySubscription, Try, Session

\* A rejected opening starts over or ends.
LEMMA GatedReject ==
    ASSUME TypeOK, AllGated, NEW r \in Requests, NEW q \in Session, Reject(r, q)
    PROVE  AllGated'
<1>1. Gated(Rejected(q)) /\ Gated([q EXCEPT !.pc = "open", !.retry = @ + 1])
  BY DEF Gated, Rejected, Session
<1>2. \A q2 \in Rejections(q) : Gated(q2)
  BY <1>1 DEF Rejections
<1>3. QED
  BY <1>2, GatedBecome DEF Reject

\* Past the opening steps nothing is taken through the gate.
LEMMA GatedElsewhere ==
    ASSUME NEW q, q.pc \notin {"token", "tokenDec", "fund"}
    PROVE  Gated(q)
BY DEF Gated

\* Opening a session takes from the wallet only what the gate has checked.
LEMMA GatedOpen ==
    ASSUME TypeOK, AllGated, NEW r \in Requests, Open(r)
    PROVE  AllGated'
<1> DEFINE q == req[r]
<1>q. q \in Session /\ Gated(q)
  BY DEF TypeOK, AllGated
<1>1. CASE Begin(r)
  <2>1. PICK kind \in Kinds, pref \in Prefs, pre \in PreQuotas, free \in BOOLEAN :
          Become(r, [q EXCEPT
            !.kind = kind, !.pref = pref, !.free = free,
            !.pre = IF free THEN 0 ELSE pre,
            !.tokenQuota = IF kind = "playground" THEN 0 ELSE token,
            !.pc = IF free THEN "upstream" ELSE "open"])
    BY <1>1 DEF Begin
  <2> DEFINE q2 == [q EXCEPT
            !.kind = kind, !.pref = pref, !.free = free,
            !.pre = IF free THEN 0 ELSE pre,
            !.tokenQuota = IF kind = "playground" THEN 0 ELSE token,
            !.pc = IF free THEN "upstream" ELSE "open"]
  <2>2. q2.pc \in {"upstream", "open"}
    BY <1>q DEF Session
  <2>3. Gated(q2)
    BY <2>2, GatedElsewhere
  <2> HIDE DEF q2
  <2>4. QED
    BY <2>1, <2>3, GatedBecome DEF q2
<1>2. CASE NewBillingSession(r)
  <2>1. Gated([q EXCEPT !.pc = "hasSub"])
    BY <1>q DEF Gated, Session
  <2>2. QED
    BY <1>2, <1>q, <2>1, GatedTry, GatedBecome DEF NewBillingSession
<1>3. CASE HasActiveUserSubscription(r)
  BY <1>3, <1>q, GatedTry, GatedReject, GatedBecome DEF HasActiveUserSubscription
<1>4. CASE WalletGate(r)
  <2> DEFINE held == IF ShouldTrust(q, wallet) THEN 0 ELSE q.pre
             q2 == [q EXCEPT !.userQuota = wallet, !.amount = held,
                             !.pc = IF held > 0 THEN "token" ELSE "fund"]
  <2>1. held \in Nat /\ held <= q.pre /\ wallet \in Int /\ q.pre \in Nat
    BY <1>q DEF Session, TypeOK
  <2>2. WalletCovers(q) => Gated(q2)
    <3> HIDE DEF held
    <3>1. q2.amount = held /\ q2.userQuota = wallet
      BY <1>q DEF Session
    <3>2. QED
      BY <2>1, <3>1 DEF Gated, WalletCovers
  <2>3. \/ WalletCovers(q) /\ Become(r, q2)
        \/ Become(r, TrySubscription(q)) \/ Reject(r, q)
    BY <1>4 DEF WalletGate
  <2>4. QED
    <3> HIDE DEF q2
    <3> QED BY <1>q, <2>2, <2>3, GatedTry, GatedReject, GatedBecome
<1>5. CASE PreConsumeTokenQuota(r)
  <2>1. \/ Become(r, [q EXCEPT !.pc = "fund", !.tokenConsumed = q.amount])
        \/ Become(r, [q EXCEPT !.pc = "tokenDec"])
        \/ Reject(r, q)
    BY <1>5 DEF PreConsumeTokenQuota
  <2>2. q.pc = "token"
    BY <1>5 DEF PreConsumeTokenQuota
  <2>3. /\ Gated([q EXCEPT !.pc = "fund", !.tokenConsumed = q.amount])
        /\ Gated([q EXCEPT !.pc = "tokenDec"])
    BY <1>q, <2>2 DEF Gated, Session
  <2>4. QED
    BY <1>q, <2>1, <2>3, GatedReject, GatedBecome
<1>6. CASE DecreaseTokenQuota(r)
  <2>1. \/ Become(r, [q EXCEPT !.pc = "fund", !.tokenConsumed = q.amount])
        \/ Reject(r, q)
        \/ Reject(r, [q EXCEPT !.clean = FALSE])
    BY <1>6 DEF DecreaseTokenQuota
  <2>2. q.pc = "tokenDec"
    BY <1>6 DEF DecreaseTokenQuota
  <2>3. Gated([q EXCEPT !.pc = "fund", !.tokenConsumed = q.amount])
    BY <1>q, <2>2 DEF Gated, Session
  <2>4. [q EXCEPT !.clean = FALSE] \in Session
    BY <1>q, UpdateType
  <2>5. QED
    BY <1>q, <2>1, <2>3, <2>4, GatedReject, GatedBecome
<1>7. CASE FundFromWallet(r)
  <2>1. \/ Become(r, Opened(q))
        \/ Become(r, [q EXCEPT !.pc = "rollback"])
        \/ Become(r, [q EXCEPT !.pc = "rollback", !.clean = FALSE])
    BY <1>7 DEF FundFromWallet
  <2>2. /\ Gated(Opened(q)) /\ Gated([q EXCEPT !.pc = "rollback"])
        /\ Gated([q EXCEPT !.pc = "rollback", !.clean = FALSE])
    BY <1>q DEF Gated, Opened, Session
  <2>3. QED
    BY <2>1, <2>2, GatedBecome
<1>8. CASE FundFromSubscription(r)
  <2> DEFINE q1 == [q EXCEPT !.tx = Closed]
             q2 == [q1 EXCEPT !.record = "consumed"]
  <2>1. \/ Become(r, Opened(q2)) \/ Become(r, Opened(q1))
        \/ \E masked \in BOOLEAN :
             Become(r, [q1 EXCEPT !.pc = "rollback", !.insufficient = masked])
        \/ Become(r, [q2 EXCEPT !.pc = "rollback", !.clean = FALSE])
    BY <1>8 DEF FundFromSubscription
  <2>2. q1 \in Session /\ q2 \in Session
    BY <1>q, UpdateType, CopyType
  <2> HIDE DEF q1
  <2>3. Gated(Opened(q1)) /\ Gated(Opened(q2))
    BY <2>2 DEF Gated, Opened, Session
  <2>4. \A masked \in BOOLEAN :
          Gated([q1 EXCEPT !.pc = "rollback", !.insufficient = masked])
    BY <2>2 DEF Gated, Session
  <2>5. Gated([q2 EXCEPT !.pc = "rollback", !.clean = FALSE])
    BY <2>2 DEF Gated, Session
  <2> HIDE DEF q2
  <2>6. QED
    BY <2>1, <2>3, <2>4, <2>5, GatedBecome
<1>9. CASE RollbackToken(r)
  <2> DEFINE q2 == [q EXCEPT !.tokenConsumed = 0]
             q3 == [q2 EXCEPT !.clean = FALSE]
  <2>1. q2 \in Session /\ q3 \in Session
    BY <1>q, UpdateType, 0 \in Nat
  <2>2. \/ Become(r, TryWallet(q2)) \/ Reject(r, q2)
        \/ Become(r, TryWallet(q3)) \/ Reject(r, q3)
    BY <1>9 DEF RollbackToken
  <2>3. QED
    <3> HIDE DEF q2, q3
    <3> QED BY <2>1, <2>2, GatedTry, GatedReject, GatedBecome
<1>10. QED
  BY <1>1, <1>2, <1>3, <1>4, <1>5, <1>6, <1>7, <1>8, <1>9 DEF Open

\* The upstream call, the settlement and the refund leave the gate behind.
LEMMA GatedAfter ==
    ASSUME TypeOK, AllGated, NEW r \in Requests,
           Upstream(r) \/ Close(r) \/ ReadSubscription(r) \/ RefundGoroutine(r)
    PROVE  AllGated'
<1> DEFINE q == req[r]
           q1 == [q EXCEPT !.tx = Closed]
<1>q. q \in Session /\ Gated(q)
  BY DEF TypeOK, AllGated
<1>c. q1 \in Session
  BY <1>q, UpdateType, CopyType
<1>k. \A c \in Copy : /\ [q EXCEPT !.gtx = c] \in Session
                      /\ Gated([q EXCEPT !.tx = c]) /\ Gated([q EXCEPT !.gtx = c])
  BY <1>q DEF Gated, Session
<1>0. CASE ReadSubscription(r) \/ ReadForRefund(r)
  BY <1>0, <1>k, CopyType, GatedBecome DEF ReadSubscription, ReadForRefund
<1>1. CASE Upstream(r)
  <2>1. CASE Retry(r)
    <3>1. [q EXCEPT !.retry = @ + 1, !.pc = NextAttempt(q)].pc \in {"open", "upstream"}
      BY <1>q DEF NextAttempt, Session
    <3>2. QED
      BY <2>1, <3>1, GatedElsewhere, GatedBecome DEF Retry
  <2>2. CASE Succeed(r)
    <3>1. PICK actual \in ActualQuotas :
            LET q2 == [q EXCEPT !.outcome = "ok", !.actual = actual] IN
            \/ Become(r, [q2 EXCEPT !.settled = TRUE, !.pc = "done"])
            \/ Become(r, [q2 EXCEPT !.pc = "settleFund"])
            \/ Become(r, [q2 EXCEPT !.pc = "done"])
            \/ Become(r, [q2 EXCEPT !.post = actual, !.pc = "postFund"])
      BY <2>2 DEF Succeed
    <3> DEFINE q2 == [q EXCEPT !.outcome = "ok", !.actual = actual]
    <3>2. /\ [q2 EXCEPT !.settled = TRUE, !.pc = "done"].pc = "done"
          /\ [q2 EXCEPT !.pc = "settleFund"].pc = "settleFund"
          /\ [q2 EXCEPT !.pc = "done"].pc = "done"
          /\ [q2 EXCEPT !.post = actual, !.pc = "postFund"].pc = "postFund"
      BY <1>q DEF Session
    <3> HIDE DEF q2
    <3>3. /\ Gated([q2 EXCEPT !.settled = TRUE, !.pc = "done"])
          /\ Gated([q2 EXCEPT !.pc = "settleFund"])
          /\ Gated([q2 EXCEPT !.pc = "done"])
          /\ Gated([q2 EXCEPT !.post = actual, !.pc = "postFund"])
      BY <3>2, GatedElsewhere
    <3>4. QED
      BY <3>1, <3>3, GatedBecome DEF q2
  <2>3. CASE Fail(r)
    <3> DEFINE q2 == [Refund(q) EXCEPT !.outcome = "fail"]
    <3>1. Refund(q) \in Session
      BY <1>q, UpdateType DEF Refund
    <3>2. q2 \in Session
      BY <3>1, UpdateType, Enumerations
    <3>3. \/ Become(r, [q2 EXCEPT !.pc = "done"])
          \/ Become(r, [q2 EXCEPT !.pc = "postFund", !.post = ViolationFee])
      BY <2>3 DEF Fail
    <3> HIDE DEF q2
    <3>4. /\ Gated([q2 EXCEPT !.pc = "done"])
          /\ Gated([q2 EXCEPT !.pc = "postFund", !.post = ViolationFee])
      BY <3>2 DEF Gated, Session
    <3>5. QED
      BY <3>3, <3>4, GatedBecome
  <2>4. CASE Panic(r)
    <3>1. Gated([q EXCEPT !.pc = "done", !.outcome = "panic"])
      BY <1>q DEF Gated, Session
    <3>2. QED
      BY <2>4, <3>1, GatedBecome DEF Panic
  <2>5. QED
    BY <1>1, <2>1, <2>2, <2>3, <2>4 DEF Upstream
<1>p. \A q2 \in Session :
        /\ Gated([q2 EXCEPT !.pc = "done"])
        /\ Gated([q2 EXCEPT !.settled = TRUE, !.pc = "done"])
        /\ Gated([[q2 EXCEPT !.settled = TRUE, !.pc = "done"] EXCEPT !.clean = FALSE])
        /\ Gated([[q2 EXCEPT !.pc = "done"] EXCEPT !.clean = FALSE])
        /\ Gated([q2 EXCEPT !.pc = "settleToken"])
        /\ Gated([q2 EXCEPT !.pc = "done", !.clean = FALSE])
  BY DEF Gated, Session
<1>2. CASE Close(r)
  <2>1. CASE SettleFunding(r)
    <3> DEFINE q2 == [q1 EXCEPT !.fundingSettled = TRUE]
    <3>1. \/ Become(r, [q2 EXCEPT !.settled = TRUE, !.pc = "done"])
          \/ Become(r, [q2 EXCEPT !.pc = "settleToken"])
          \/ Become(r, [q1 EXCEPT !.pc = "done"])
          \/ Become(r, [q1 EXCEPT !.pc = "done", !.clean = FALSE])
      BY <2>1 DEF SettleFunding
    <3> HIDE DEF q1
    <3>2. q2 \in Session
      BY <1>c, UpdateType
    <3> HIDE DEF q2
    <3>3. QED
      BY <1>c, <1>p, <3>1, <3>2, GatedBecome
  <2>2. CASE SettleToken(r)
    <3>1. \/ Become(r, [q EXCEPT !.settled = TRUE, !.pc = "done"])
          \/ Become(r, [[q EXCEPT !.settled = TRUE, !.pc = "done"] EXCEPT !.clean = FALSE])
      BY <2>2 DEF SettleToken
    <3>2. QED
      BY <1>q, <1>p, <3>1, GatedBecome
  <2>3. CASE PostConsumeFunding(r)
    <3> DEFINE q2 == [q1 EXCEPT !.booked = q1.post,
                                !.pc = IF IsPlayground(q1) THEN "done" ELSE "postToken"]
    <3>1. \/ Become(r, q2)
          \/ Become(r, [q1 EXCEPT !.pc = "done"])
          \/ Become(r, [q1 EXCEPT !.pc = "done", !.clean = FALSE])
      BY <2>3 DEF PostConsumeFunding
    <3> HIDE DEF q1
    <3>2. q2.pc \in {"done", "postToken"}
      BY <1>c DEF Session
    <3>3. Gated(q2)
      BY <3>2, GatedElsewhere
    <3> HIDE DEF q2
    <3>4. QED
      BY <1>c, <1>p, <3>1, <3>3, GatedBecome
  <2>4. CASE PostConsumeToken(r)
    <3>1. \/ Become(r, [q EXCEPT !.pc = "done"])
          \/ Become(r, [[q EXCEPT !.pc = "done"] EXCEPT !.clean = FALSE])
      BY <2>4 DEF PostConsumeToken
    <3>2. QED
      BY <1>q, <1>p, <3>1, GatedBecome
  <2>5. QED
    BY <1>2, <2>1, <2>2, <2>3, <2>4 DEF Close
<1>r. \A q2 \in Session : Gated(q2) =>
        /\ FundingRefunded(q2) \in Session /\ Gated(FundingRefunded(q2))
        /\ AttemptFailed(q2) \in Session /\ Gated(AttemptFailed(q2))
        /\ Gated([q2 EXCEPT !.clean = FALSE])
        /\ Gated([q2 EXCEPT !.record = "refunded"])
        /\ \A n \in Nat : Gated([q2 EXCEPT !.unmarked = n, !.clean = FALSE])
        /\ [q2 EXCEPT !.gpc = "end"] \in Session /\ Gated([q2 EXCEPT !.gpc = "end"])
  <2> SUFFICES ASSUME NEW q2 \in Session, Gated(q2)
               PROVE  /\ FundingRefunded(q2) \in Session /\ Gated(FundingRefunded(q2))
                      /\ AttemptFailed(q2) \in Session /\ Gated(AttemptFailed(q2))
                      /\ Gated([q2 EXCEPT !.clean = FALSE])
                      /\ Gated([q2 EXCEPT !.record = "refunded"])
                      /\ \A n \in Nat : Gated([q2 EXCEPT !.unmarked = n, !.clean = FALSE])
                      /\ [q2 EXCEPT !.gpc = "end"] \in Session
                      /\ Gated([q2 EXCEPT !.gpc = "end"])
    OBVIOUS
  <2>1. FundingRefunded(q2) \in Session /\ Gated(FundingRefunded(q2))
    BY UpdateType DEF FundingRefunded, Gated, Session
  <2>2. /\ [FundingRefunded(q2) EXCEPT !.clean = FALSE] \in Session
        /\ Gated([FundingRefunded(q2) EXCEPT !.clean = FALSE])
    <3>1. [FundingRefunded(q2) EXCEPT !.clean = FALSE] \in Session
      BY <2>1, UpdateType
    <3>2. \A q3 \in Session : Gated(q3) => Gated([q3 EXCEPT !.clean = FALSE])
      BY DEF Gated, Session
    <3>3. QED
      BY <2>1, <3>1, <3>2
  <2>3. [q2 EXCEPT !.tries = @ + 1] \in Session /\ Gated([q2 EXCEPT !.tries = @ + 1])
    BY UpdateType, FieldType DEF Gated, Session
  <2>4. AttemptFailed(q2) \in Session /\ Gated(AttemptFailed(q2))
    BY <2>2, <2>3 DEF AttemptFailed
  <2>5. /\ Gated([q2 EXCEPT !.clean = FALSE])
        /\ Gated([q2 EXCEPT !.record = "refunded"])
        /\ [q2 EXCEPT !.gpc = "end"] \in Session
        /\ Gated([q2 EXCEPT !.gpc = "end"])
    BY UpdateType DEF Gated, Session
  <2>6. \A n \in Nat : Gated([q2 EXCEPT !.unmarked = n, !.clean = FALSE])
    BY DEF Gated, Session
  <2>7. QED
    BY <2>1, <2>4, <2>5, <2>6
<1>3. CASE RefundGoroutine(r)
  <2>1. CASE RefundWallet(r)
    <3>1. \/ Become(r, FundingRefunded(q))
          \/ Become(r, [FundingRefunded(q) EXCEPT !.clean = FALSE])
      BY <2>1 DEF RefundWallet
    <3>2. QED
      BY <1>q, <1>r, <3>1, GatedBecome
  <2>2. CASE RefundSubscription(r)
    <3> DEFINE qg == [q EXCEPT !.gtx = Closed]
               qa == AttemptFailed(qg)
    <3>1. \/ Become(r, [FundingRefunded(qg) EXCEPT !.record = "refunded"])
          \/ Become(r, FundingRefunded(qg))
          \/ Become(r, qa)
          \/ Become(r, [qa EXCEPT !.record = "refunded"])
          \/ Become(r, [qa EXCEPT !.unmarked = qa.unmarked + qg.funded, !.clean = FALSE])
      BY <2>2 DEF RefundSubscription
    <3>2. qg \in Session /\ Gated(qg)
      BY <1>k, CopyType
    <3> HIDE DEF qg
    <3>3. qa \in Session /\ Gated(qa)
          /\ FundingRefunded(qg) \in Session /\ Gated(FundingRefunded(qg))
      BY <1>r, <3>2
    <3> HIDE DEF qa
    <3>4. qa.unmarked + qg.funded \in Nat
      BY <3>2, <3>3 DEF Session
    <3>5. QED
      BY <1>r, <3>1, <3>3, <3>4, GatedBecome
  <2>3. CASE RefundToken(r)
    <3>1. \/ Become(r, [q EXCEPT !.gpc = "end"])
          \/ Become(r, [[q EXCEPT !.gpc = "end"] EXCEPT !.clean = FALSE])
      BY <2>3 DEF RefundToken
    <3>2. QED
      BY <1>q, <1>r, <3>1, GatedBecome
  <2>4. QED
    BY <1>0, <1>3, <2>1, <2>2, <2>3 DEF RefundGoroutine
<1>4. QED
  BY <1>0, <1>1, <1>2, <1>3

\* Only the session that takes a step changes, and a session that is about to
\* fund either debits the wallet by what it holds or leaves it no poorer.
LEMMA FundingDebit ==
    ASSUME TypeOK, [Next]_vars, NEW r \in Requests, req[r].pc = "fund",
           req'[r] # req[r], wallet' < wallet
    PROVE  req[r].source = "wallet" /\ wallet' = wallet - req[r].amount
<1> DEFINE q == req[r]
<1>q. q \in Session
  BY DEF TypeOK
<1>f. wallet \in Int /\ q.funded \in Nat /\ wallet - (-q.funded) >= wallet
  BY <1>q DEF TypeOK, Session
<1>w. wallet' # wallet
  BY <1>f
<1>1. PICK s \in Requests : Handler(s) \/ RefundGoroutine(s)
  BY <1>w DEF Next, ExpireSubscription, PeriodEnds, ResetDueSubscriptions, ResetReads,
     ResetSaves, vars
<1>2. \E q2 : Become(s, q2)
  <2>1. CASE Open(s)
    BY <2>1 DEF Open, Begin, NewBillingSession, HasActiveUserSubscription, WalletGate,
       PreConsumeTokenQuota, DecreaseTokenQuota, FundFromWallet, FundFromSubscription,
       RollbackToken, Reject
  <2>2. CASE Upstream(s)
    BY <2>2 DEF Upstream, Retry, Succeed, Fail, Panic
  <2>3. CASE Close(s)
    BY <2>3 DEF Close, SettleFunding, SettleToken, PostConsumeFunding, PostConsumeToken
  <2>4. CASE RefundGoroutine(s)
    BY <2>4 DEF RefundGoroutine, RefundWallet, ReadForRefund, RefundSubscription, RefundToken
  <2>5. CASE ReadSubscription(s)
    BY <2>5 DEF ReadSubscription
  <2>6. QED
    BY <1>1, <2>1, <2>2, <2>3, <2>4, <2>5 DEF Handler
<1>3. s = r
  BY <1>2 DEF Become, TypeOK
<1>c. [q EXCEPT !.tx = Closed].pc = "fund"
  BY <1>q DEF Session
<1>4. ~Upstream(r) /\ ~Close(r) /\ ~ReadSubscription(r)
  <2>1. ~Upstream(r) /\ ~SettleToken(r) /\ ~PostConsumeToken(r)
    BY DEF Upstream, Retry, Succeed, Fail, Panic, SettleToken, PostConsumeToken
  <2>2. ~SettleFunding(r) /\ ~PostConsumeFunding(r)
    BY <1>c DEF SettleFunding, PostConsumeFunding
  <2>3. ~ReadSubscription(r)
    BY <1>w DEF ReadSubscription, NoDebit
  <2>4. QED
    BY <2>1, <2>2, <2>3 DEF Close
<1>5. ~RefundGoroutine(r)
  <2>1. ~RefundWallet(r) /\ ~RefundToken(r) /\ ~ReadForRefund(r)
    BY <1>f, <1>w DEF RefundWallet, RefundToken, ReadForRefund, Fails,
       Lost, Unacknowledged, NoDebit, DebitWallet, DebitToken
  <2>2. ~RefundSubscription(r)
    BY <1>w DEF RefundSubscription, Lost, Unacknowledged, NoDebit, DebitSubscription
  <2>3. QED
    BY <2>1, <2>2 DEF RefundGoroutine
<1>6. FundFromWallet(r)
  <2>1. ~FundFromSubscription(r)
    BY <1>w DEF FundFromSubscription, ConsumeSubscription, Unacknowledged, Lost, NoDebit
  <2>2. QED
    BY <1>1, <1>3, <1>4, <1>5, <1>w, <2>1 DEF Handler, Open, Begin, NewBillingSession,
       HasActiveUserSubscription, WalletGate, PreConsumeTokenQuota, DecreaseTokenQuota,
       RollbackToken
<1>7. QED
  BY <1>6, <1>w DEF FundFromWallet, DebitWallet, Unacknowledged, Lost, NoDebit

\* For any requests, balances, prices and failures: a pre-consumption overdraws
\* the wallet only if the balance is no longer the one tryWallet checked.
THEOREM OverdraftRaced == Spec => OverdraftNeedsRace
<1>1. Init => AllGated
  BY DEF Init, AllGated, Gated, NewRequest
<1>2. TypeOK /\ AllGated /\ [Next]_vars => AllGated'
  <2> SUFFICES ASSUME TypeOK, AllGated, [Next]_vars PROVE AllGated'
    OBVIOUS
  <2>1. ASSUME NEW r \in Requests, Handler(r) \/ RefundGoroutine(r)
        PROVE  AllGated'
    BY <2>1, GatedOpen, GatedAfter DEF Handler
  <2>2. CASE \/ ExpireSubscription \/ PeriodEnds \/ ResetDueSubscriptions
             \/ UNCHANGED vars
    BY <2>2 DEF ExpireSubscription, PeriodEnds, ResetDueSubscriptions, ResetReads,
       ResetSaves, vars, AllGated
  <2>3. QED
    BY <2>1, <2>2 DEF Next
<1>3. TypeOK /\ AllGated /\ [Next]_vars =>
        [\A r \in Requests :
           req[r].pc = "fund" /\ wallet' < wallet /\ wallet' < 0
             /\ req'[r] # req[r] => wallet # req[r].userQuota]_vars
  <2> SUFFICES ASSUME TypeOK, AllGated, [Next]_vars, NEW r \in Requests,
                      req[r].pc = "fund", wallet' < wallet, wallet' < 0,
                      req'[r] # req[r]
               PROVE  wallet # req[r].userQuota
    OBVIOUS
  <2>1. req[r].source = "wallet" /\ wallet' = wallet - req[r].amount
    BY FundingDebit
  <2>2. req[r].amount <= req[r].userQuota
    BY <2>1 DEF AllGated, Gated
  <2>3. req[r].amount \in Nat /\ req[r].userQuota \in Int /\ wallet \in Int
    BY DEF TypeOK, Session
  <2>4. QED
    BY <2>1, <2>2, <2>3
<1>4. QED
  BY <1>1, <1>2, <1>3, TypeCorrect, PTL DEF Spec, OverdraftNeedsRace

-----------------------------------------------------------------------------
(* What is booked on a subscription, added up over the requests.  SumOver is a *)
(* fold, so its lemmas are inductions; the library's induction rules take an   *)
(* operator, hence they are stated here about sets.                            *)

\* Induction over the natural numbers, about a set.
LEMMA AllNaturals ==
    ASSUME NEW N, 0 \in N, \A n \in Nat : n \in N => n + 1 \in N
    PROVE  \A n \in Nat : n \in N
<1> SUFFICES ASSUME Nat \ N # {} PROVE FALSE
  OBVIOUS
<1> DEFINE R == {ss \in Nat \X Nat : ss[1] < ss[2]}
<1>0. IsWellFoundedOn(R, Nat)
  BY NatLessThanWellFounded DEF OpToRel
<1> HIDE DEF R
<1>1. PICK m \in Nat \ N : \A k \in Nat \ N : ~ (<<k, m>> \in R)
  BY <1>0, WFMin
<1>2. \A k \in Nat \ N : ~(k < m)
  BY <1>1 DEF R
<1>3. m # 0 /\ m - 1 \in Nat
  OBVIOUS
<1>4. m - 1 \in N
  BY <1>2, <1>3
<1>5. QED
  BY <1>3, <1>4

\* g adds up f over the subsets of S, one chosen element at a time.
Adds(g, S, f) ==
    g = [s \in SUBSET S |->
           IF s = {} THEN 0
           ELSE LET x == CHOOSE x \in s : TRUE IN g[s \ {x}] + f[x]]

LEMMA SumChosen ==
    ASSUME NEW S, NEW f, \E g : Adds(g, S, f)
    PROVE  \E g : Adds(g, S, f) /\ SumOver(S, f) = g[S]
<1> DEFINE g == CHOOSE g : Adds(g, S, f)
<1>1. SumOver(S, f) = g[S]
  BY DEF SumOver, FoldSet, MapThenFoldSet, Adds
<1>2. Adds(g, S, f)
  OBVIOUS
<1>3. QED
  BY <1>1, <1>2

\* What g should be on s.
Total(g, f, s) ==
    IF s = {} THEN 0 ELSE LET x == CHOOSE x \in s : TRUE IN g[s \ {x}] + f[x]

\* A set without its chosen element is one smaller.
LEMMA OneLess ==
    ASSUME NEW S, IsFiniteSet(S), NEW s \in SUBSET S, s # {}, NEW x, x = CHOOSE y \in s : TRUE
    PROVE  /\ x \in s /\ s \ {x} \in SUBSET S /\ IsFiniteSet(s)
           /\ Cardinality(s) \in Nat \ {0} /\ Cardinality(s \ {x}) = Cardinality(s) - 1
<1>1. x \in s
  OBVIOUS
<1>2. IsFiniteSet(s)
  BY FS_Subset
<1>3. Cardinality(s) \in Nat /\ Cardinality(s) # 0
  BY <1>2, FS_CardinalityType, FS_EmptySet
<1>4. Cardinality(s \ {x}) = Cardinality(s) - 1
  BY <1>1, <1>2, FS_RemoveElement
<1>5. QED
  BY <1>1, <1>2, <1>3, <1>4

\* The recursion of SumOver has a solution: on the subsets of up to n elements for
\* every n.
LEMMA SumExists ==
    ASSUME NEW S, IsFiniteSet(S), NEW f
    PROVE  \E g : Adds(g, S, f)
<1> DEFINE Lev(n) == {s \in SUBSET S : Cardinality(s) <= n}
           N == {n \in Nat : \E g : \A s \in Lev(n) : g[s] = Total(g, f, s)}
<1>s. \A s \in SUBSET S : Cardinality(s) \in Nat /\ Cardinality(s) <= Cardinality(S)
  BY FS_Subset, FS_CardinalityType
<1>1. 0 \in N
  <2>1. \A s \in Lev(0) : s = {}
    <3> SUFFICES ASSUME NEW s \in SUBSET S, Cardinality(s) <= 0 PROVE s = {}
      OBVIOUS
    <3>1. IsFiniteSet(s) /\ Cardinality(s) = 0
      BY <1>s, FS_Subset
    <3>2. QED
      BY <3>1, FS_EmptySet
  <2> DEFINE g == [s \in SUBSET S |-> 0]
  <2>2. \A s \in Lev(0) : g[s] = Total(g, f, s)
    BY <2>1 DEF Total
  <2>3. QED
    BY <2>2
<1>2. ASSUME NEW n \in Nat, n \in N PROVE n + 1 \in N
  <2>1. PICK g : \A s \in Lev(n) : g[s] = Total(g, f, s)
    BY <1>2
  <2> DEFINE h == [s \in SUBSET S |-> IF Cardinality(s) <= n THEN g[s] ELSE Total(g, f, s)]
  <2>2. ASSUME NEW s \in Lev(n + 1) PROVE h[s] = Total(h, f, s)
    <3> DEFINE x == CHOOSE x \in s : TRUE
    <3>1. CASE s = {}
      <4>1. Cardinality(s) <= n
        BY <3>1, FS_EmptySet
      <4>2. g[s] = Total(g, f, s)
        BY <2>1, <4>1
      <4>3. QED
        BY <3>1, <4>1, <4>2 DEF Total
    <3>2. CASE s # {}
      <4>1. /\ s \ {x} \in SUBSET S /\ Cardinality(s) \in Nat \ {0}
            /\ Cardinality(s \ {x}) = Cardinality(s) - 1
        BY <3>2, OneLess
      <4>2. Cardinality(s \ {x}) <= n
        BY <4>1
      <4>3. h[s \ {x}] = g[s \ {x}]
        BY <4>1, <4>2
      <4>4. Total(h, f, s) = Total(g, f, s)
        BY <3>2, <4>3 DEF Total
      <4>5. h[s] = Total(g, f, s)
        <5>1. Cardinality(s) <= n => g[s] = Total(g, f, s)
          BY <2>1
        <5> HIDE DEF x
        <5>2. QED
          BY <5>1
      <4>6. QED
        BY <4>4, <4>5
    <3>3. QED
      BY <3>1, <3>2
  <2> HIDE DEF h
  <2>3. QED
    BY <2>2
<1>3. Cardinality(S) \in N
  <2> HIDE DEF N
  <2>1. QED
    BY <1>1, <1>2, AllNaturals, FS_CardinalityType
<1>4. PICK g : \A s \in SUBSET S : g[s] = Total(g, f, s)
  BY <1>3, <1>s
<1> DEFINE h == [s \in SUBSET S |-> g[s]]
<1>5. \A s \in SUBSET S : Total(h, f, s) = Total(g, f, s)
  <2> SUFFICES ASSUME NEW s \in SUBSET S PROVE Total(h, f, s) = Total(g, f, s)
    OBVIOUS
  <2> DEFINE x == CHOOSE x \in s : TRUE
  <2>1. h[s \ {x}] = g[s \ {x}]
    OBVIOUS
  <2>2. QED
    BY <2>1 DEF Total
<1>6. h = [s \in SUBSET S |-> Total(h, f, s)]
  BY <1>4, <1>5
<1>7. Adds(h, S, f)
  BY <1>6 DEF Adds, Total
<1>8. QED
  BY <1>7

\* g is the sum of f over each subset of S.
Sums(g, S, f) == SumOver(S, f) = g[S] /\ \A s \in SUBSET S : g[s] = Total(g, f, s)

\* SumOver unfolds.
LEMMA SumUnfolds ==
    ASSUME NEW S, IsFiniteSet(S), NEW f
    PROVE  \E g : Sums(g, S, f)
<1>1. PICK g : Adds(g, S, f) /\ SumOver(S, f) = g[S]
  BY SumExists, SumChosen
<1>2. g = [s \in SUBSET S |-> Total(g, f, s)]
  BY <1>1 DEF Adds, Total
<1>3. \A s \in SUBSET S : g[s] = Total(g, f, s)
  BY <1>2
<1>4. QED
  BY <1>1, <1>3 DEF Sums

\* A property of the subsets of S that a set has when it is empty, or when it holds of
\* the set without its chosen element, holds of S.
LEMMA SubsetInduction ==
    ASSUME NEW S, IsFiniteSet(S), NEW P, {} \in P,
           \A s \in SUBSET S : s # {} /\ s \ {CHOOSE x \in s : TRUE} \in P => s \in P
    PROVE  S \in P
<1> DEFINE N == {n \in Nat : \A s \in SUBSET S : Cardinality(s) <= n => s \in P}
<1>1. 0 \in N
  <2> SUFFICES ASSUME NEW s \in SUBSET S, Cardinality(s) <= 0 PROVE s \in P
    OBVIOUS
  <2>1. IsFiniteSet(s) /\ Cardinality(s) \in Nat
    BY FS_Subset, FS_CardinalityType
  <2>2. Cardinality(s) = 0
    BY <2>1
  <2>3. s = {}
    BY <2>1, <2>2, FS_EmptySet
  <2>4. QED
    BY <2>3
<1>2. ASSUME NEW n \in Nat, n \in N PROVE n + 1 \in N
  <2> SUFFICES ASSUME NEW s \in SUBSET S, Cardinality(s) <= n + 1 PROVE s \in P
    OBVIOUS
  <2> DEFINE x == CHOOSE x \in s : TRUE
  <2>1. CASE s # {}
    <3>1. /\ s \ {x} \in SUBSET S /\ Cardinality(s) \in Nat \ {0}
          /\ Cardinality(s \ {x}) = Cardinality(s) - 1
      BY <2>1, OneLess
    <3>2. s \ {x} \in P
      BY <1>2, <3>1
    <3>3. QED
      BY <2>1, <3>2
  <2>2. QED
    BY <2>1
<1>3. Cardinality(S) \in Nat /\ Cardinality(S) \in N
  <2>1. Cardinality(S) \in Nat
    BY FS_CardinalityType
  <2> HIDE DEF N
  <2>2. QED
    BY <1>1, <1>2, <2>1, AllNaturals
<1>4. QED
  BY <1>3

\* One summand grows by n.
LEMMA SumGrows ==
    ASSUME NEW S, IsFiniteSet(S), NEW f \in [S -> Int], NEW r \in S, NEW n \in Int,
           NEW h \in [S -> Int], h[r] = f[r] + n, \A x \in S \ {r} : h[x] = f[x]
    PROVE  SumOver(S, f) \in Int /\ SumOver(S, h) = SumOver(S, f) + n
<1>1. PICK a : Sums(a, S, f)
  BY SumUnfolds
<1>2. PICK b : Sums(b, S, h)
  BY SumUnfolds
<1> DEFINE P == {s \in SUBSET S : a[s] \in Int /\ b[s] = a[s] + (IF r \in s THEN n ELSE 0)}
<1>3. {} \in P
  <2>1. a[{}] = 0 /\ b[{}] = 0
    BY <1>1, <1>2 DEF Total, Sums
  <2>2. QED
    BY <2>1
<1>4. ASSUME NEW s \in SUBSET S, s # {}, s \ {CHOOSE x \in s : TRUE} \in P
      PROVE  s \in P
  <2> DEFINE x == CHOOSE x \in s : TRUE
  <2>1. x \in s
    BY <1>4
  <2>2. a[s] = a[s \ {x}] + f[x] /\ b[s] = b[s \ {x}] + h[x]
    BY <1>1, <1>2, <1>4 DEF Total, Sums
  <2>3. s \ {x} \in P
    BY <1>4
  <2> HIDE DEF x
  <2>4. a[s \ {x}] \in Int /\ b[s \ {x}] = a[s \ {x}] + (IF r \in s \ {x} THEN n ELSE 0)
    BY <2>3
  <2>5. CASE x = r
    BY <2>1, <2>2, <2>4, <2>5
  <2>6. CASE x # r
    BY <2>1, <2>2, <2>4, <2>6
  <2>7. QED
    BY <2>5, <2>6
<1>5. S \in P
  <2> HIDE DEF P
  <2>1. QED
    BY <1>3, <1>4, SubsetInduction
<1>6. QED
  BY <1>1, <1>2, <1>5 DEF Sums

\* A sum of nothing is nothing, and a sum of natural numbers is one.
LEMMA SumNatural ==
    ASSUME NEW S, IsFiniteSet(S), NEW f \in [S -> Nat]
    PROVE  SumOver(S, f) \in Nat /\ ((\A x \in S : f[x] = 0) => SumOver(S, f) = 0)
<1>1. PICK a : Sums(a, S, f)
  BY SumUnfolds
<1> DEFINE P == {s \in SUBSET S : a[s] \in Nat /\ ((\A x \in S : f[x] = 0) => a[s] = 0)}
<1>2. {} \in P
  BY <1>1 DEF Total, Sums
<1>3. ASSUME NEW s \in SUBSET S, s # {}, s \ {CHOOSE x \in s : TRUE} \in P
      PROVE  s \in P
  <2> DEFINE x == CHOOSE x \in s : TRUE
  <2>1. x \in s
    BY <1>3
  <2>2. a[s] = a[s \ {x}] + f[x]
    BY <1>1, <1>3 DEF Total, Sums
  <2>3. s \ {x} \in P
    BY <1>3
  <2> HIDE DEF x
  <2>4. QED
    BY <2>1, <2>2, <2>3
<1>4. S \in P
  <2> HIDE DEF P
  <2>1. QED
    BY <1>2, <1>3, SubsetInduction
<1>5. QED
  BY <1>1, <1>4 DEF Sums

-----------------------------------------------------------------------------
(* The subscription's books. *)

\* Every step of a request books an integer amount on one account, or nothing.
LEMMA StepBooks ==
    ASSUME TypeOK, NEW r \in Requests,
           Handler(r) \/ RefundGoroutine(r)
    PROVE  \E n \in Int : Booking(r, n)
<1> DEFINE q == req[r]
           q1 == [q EXCEPT !.tx = Closed]
           qg == [q EXCEPT !.gtx = Closed]
<1>q. /\ q \in Session /\ q.amount \in Nat /\ -q.tokenConsumed \in Int /\ -q.funded \in Int
      /\ q.actual - q.preConsumed \in Int /\ q.post \in Int
      /\ q.tx \in Copy /\ q.gtx \in Copy
  BY DEF TypeOK, Session
<1>c. /\ q1.amount = q.amount /\ q1.actual - q1.preConsumed = q.actual - q.preConsumed
      /\ q1.post = q.post /\ qg.funded = q.funded
  BY <1>q DEF Session
<1>0. NoDebit => Booking(r, 0)
  BY DEF Booking
<1>1. CASE Open(r)
  <2>1. CASE FundFromWallet(r)
    <3>1. NoDebit \/ DebitWallet(r, q.amount)
      BY <2>1 DEF FundFromWallet, Lost, Unacknowledged
    <3>2. QED
      BY <1>q, <3>1 DEF Booking
  <2>2. CASE FundFromSubscription(r)
    <3>1. NoDebit \/ ConsumeSubscription(r, q.tx, q.amount)
      BY <1>c, <2>2 DEF FundFromSubscription, Lost, Unacknowledged
    <3>2. QED
      BY <1>q, <3>1 DEF Booking, BookSubscription, Transaction
  <2>3. CASE DecreaseTokenQuota(r)
    <3>1. NoDebit \/ DebitToken(r, q.amount)
      BY <2>3 DEF DecreaseTokenQuota, Lost, Unacknowledged
    <3>2. QED
      BY <1>q, <3>1 DEF Booking
  <2>4. CASE RollbackToken(r)
    <3>1. NoDebit \/ DebitToken(r, -q.tokenConsumed)
      BY <2>4 DEF RollbackToken, Fails, Lost, Unacknowledged
    <3>2. QED
      BY <1>q, <3>1 DEF Booking
  <2>5. CASE \/ Begin(r) \/ NewBillingSession(r) \/ HasActiveUserSubscription(r)
             \/ WalletGate(r) \/ PreConsumeTokenQuota(r)
    <3>1. NoDebit
      BY <2>5 DEF Begin, NewBillingSession, HasActiveUserSubscription, WalletGate,
         PreConsumeTokenQuota
    <3>2. QED
      BY <1>0, <3>1
  <2>6. QED
    BY <1>1, <2>1, <2>2, <2>3, <2>4, <2>5 DEF Open
<1>2. CASE Upstream(r)
  <2>1. NoDebit
    BY <1>2 DEF Upstream, Retry, Succeed, Fail, Panic
  <2>2. QED
    BY <1>0, <2>1
<1>3. CASE Close(r)
  <2>1. CASE SettleFunding(r)
    <3>1. NoDebit \/ (\E source : DebitSource(r, source, q.tx, q.actual - q.preConsumed))
      BY <1>c, <2>1 DEF SettleFunding, Fails, Lost, Unacknowledged
    <3>2. QED
      BY <1>q, <3>1, SourceBooks DEF Booking
  <2>2. CASE SettleToken(r)
    <3>1. NoDebit \/ DebitToken(r, q.actual - q.preConsumed)
      BY <1>q, <2>2 DEF SettleToken, Fails, Lost, Unacknowledged, Session
    <3>2. QED
      BY <1>q, <3>1 DEF Booking
  <2>3. CASE PostConsumeFunding(r)
    <3>1. NoDebit \/ (\E source : DebitSource(r, source, q.tx, q.post))
      BY <1>c, <2>3 DEF PostConsumeFunding, Fails, Lost, Unacknowledged
    <3>2. QED
      BY <1>q, <3>1, SourceBooks DEF Booking
  <2>4. CASE PostConsumeToken(r)
    <3>1. NoDebit \/ DebitToken(r, q.post)
      BY <1>q, <2>4 DEF PostConsumeToken, Fails, Lost, Unacknowledged, Session
    <3>2. QED
      BY <1>q, <3>1 DEF Booking
  <2>5. QED
    BY <1>3, <2>1, <2>2, <2>3, <2>4 DEF Close
<1>4. CASE RefundGoroutine(r)
  <2>1. CASE RefundWallet(r)
    <3>1. NoDebit \/ DebitWallet(r, -q.funded)
      BY <2>1 DEF RefundWallet, Fails, Lost, Unacknowledged
    <3>2. QED
      BY <1>q, <3>1 DEF Booking
  <2>2. CASE RefundSubscription(r)
    <3>1. NoDebit \/ DebitSubscription(r, q.gtx, -q.funded)
      BY <1>c, <2>2 DEF RefundSubscription, Lost, Unacknowledged
    <3>2. QED
      BY <1>q, <3>1 DEF Booking, BookSubscription, Transaction
  <2>3. CASE RefundToken(r)
    <3>1. NoDebit \/ DebitToken(r, -q.tokenConsumed)
      BY <1>q, <2>3 DEF RefundToken, Fails, Lost, Unacknowledged, Session
    <3>2. QED
      BY <1>q, <3>1 DEF Booking
  <2>4. CASE ReadForRefund(r)
    BY <1>0, <2>4 DEF ReadForRefund
  <2>5. QED
    BY <1>4, <2>1, <2>2, <2>3, <2>4 DEF RefundGoroutine
<1>5. CASE ReadSubscription(r)
  BY <1>0, <1>5 DEF ReadSubscription
<1>6. QED
  BY <1>1, <1>2, <1>3, <1>4, <1>5 DEF Handler

\* What a session gave back unmarked it never forgets.
Remembers(q2, q) == q2.unmarked >= q.unmarked

LEMMA RejectRemembers ==
    ASSUME NEW q \in Session
    PROVE  /\ Remembers(TryWallet(q), q) /\ Remembers(TrySubscription(q), q)
           /\ \A q2 \in Rejections(q) : Remembers(q2, q)
<1>1. Remembers(TryWallet(q), q) /\ Remembers(TrySubscription(q), q)
  BY DEF Remembers, TryWallet, TrySubscription, Try, Session
<1>2. /\ Remembers(Rejected(q), q)
      /\ Remembers([q EXCEPT !.pc = "open", !.retry = @ + 1], q)
  BY DEF Remembers, Rejected, Session
<1>3. QED
  BY <1>1, <1>2 DEF Rejections

\* Opening a session.
LEMMA OpenRemembers ==
    ASSUME TypeOK, NEW r \in Requests, Open(r)
    PROVE  \E q2 : Become(r, q2) /\ Remembers(q2, req[r])
<1> DEFINE q == req[r]
           qd == [q EXCEPT !.clean = FALSE]
           qt == [q EXCEPT !.tokenConsumed = 0]
           qx == [qt EXCEPT !.clean = FALSE]
<1>q. q \in Session /\ q.unmarked \in Nat
  BY DEF TypeOK, Session
<1>s. qd \in Session /\ qt \in Session /\ qx \in Session
  BY <1>q, UpdateType, 0 \in Nat
<1>u. qd.unmarked = q.unmarked /\ qt.unmarked = q.unmarked /\ qx.unmarked = q.unmarked
  BY <1>q DEF Session
<1>j. \A q2 : q2 \in {q, qd, qt, qx} =>
        /\ Become(r, TryWallet(q2)) \/ Become(r, TrySubscription(q2)) \/ Reject(r, q2) =>
             \E q3 : Become(r, q3) /\ Remembers(q3, q)
  BY <1>q, <1>s, <1>u, RejectRemembers DEF Reject, Remembers
<1>1. CASE Begin(r)
  <2>1. PICK kind \in Kinds, pref \in Prefs, pre \in PreQuotas, free \in BOOLEAN :
          Become(r, [q EXCEPT
            !.kind = kind, !.pref = pref, !.free = free,
            !.pre = IF free THEN 0 ELSE pre,
            !.tokenQuota = IF kind = "playground" THEN 0 ELSE token,
            !.pc = IF free THEN "upstream" ELSE "open"])
    BY <1>1 DEF Begin
  <2> DEFINE n == IF free THEN 0 ELSE pre
             t == IF kind = "playground" THEN 0 ELSE token
             c == IF free THEN "upstream" ELSE "open"
             q2 == [q EXCEPT !.kind = kind, !.pref = pref, !.free = free,
                             !.pre = n, !.tokenQuota = t, !.pc = c]
  <2>2. Become(r, q2)
    BY <2>1
  <2> HIDE DEF n, t, c
  <2>3. Remembers(q2, q)
    BY <1>q DEF Remembers, Session
  <2> HIDE DEF q2
  <2>4. QED
    BY <2>2, <2>3
<1>6. CASE FundFromWallet(r)
  <2>1. \/ Become(r, Opened(q))
        \/ Become(r, [q EXCEPT !.pc = "rollback"])
        \/ Become(r, [q EXCEPT !.pc = "rollback", !.clean = FALSE])
    BY <1>6 DEF FundFromWallet
  <2>2. /\ Remembers(Opened(q), q)
        /\ Remembers([q EXCEPT !.pc = "rollback"], q)
        /\ Remembers([q EXCEPT !.pc = "rollback", !.clean = FALSE], q)
    BY <1>q DEF Opened, Remembers, Session
  <2>3. QED
    BY <2>1, <2>2
<1>7. CASE FundFromSubscription(r)
  <2> DEFINE q1 == [q EXCEPT !.tx = Closed]
             q2 == [q1 EXCEPT !.record = "consumed"]
  <2>1. \/ Become(r, Opened(q2)) \/ Become(r, Opened(q1))
        \/ \E masked \in BOOLEAN :
             Become(r, [q1 EXCEPT !.pc = "rollback", !.insufficient = masked])
        \/ Become(r, [q2 EXCEPT !.pc = "rollback", !.clean = FALSE])
    BY <1>7 DEF FundFromSubscription
  <2>2. /\ q1 \in Session /\ q1.unmarked = q.unmarked
        /\ q2 \in Session /\ q2.unmarked = q.unmarked
    <3>1. q1 \in Session /\ q2 \in Session
      BY <1>q, UpdateType, CopyType
    <3>2. QED
      BY <1>q, <3>1 DEF Session
  <2> HIDE DEF q1, q2
  <2>3. /\ Remembers(Opened(q1), q) /\ Remembers(Opened(q2), q)
        /\ \A m : Remembers([q1 EXCEPT !.pc = "rollback", !.insufficient = m], q)
        /\ Remembers([q2 EXCEPT !.pc = "rollback", !.clean = FALSE], q)
    BY <1>q, <2>2 DEF Opened, Remembers, Session
  <2>4. QED
    BY <2>1, <2>3
<1>2. CASE NewBillingSession(r) \/ HasActiveUserSubscription(r)
  <2>1. Remembers([q EXCEPT !.pc = "hasSub"], q)
    BY <1>q DEF Remembers, Session
  <2>2. \/ Become(r, [q EXCEPT !.pc = "hasSub"])
        \/ Become(r, TryWallet(q)) \/ Become(r, TrySubscription(q)) \/ Reject(r, q)
    BY <1>2 DEF NewBillingSession, HasActiveUserSubscription
  <2>3. QED
    BY <1>j, <2>1, <2>2
<1>3. CASE WalletGate(r)
  <2>1. \A u, n, pc : Remembers([q EXCEPT !.userQuota = u, !.amount = n, !.pc = pc], q)
    BY <1>q DEF Remembers, Session
  <2>2. \/ \E u, n, pc : Become(r, [q EXCEPT !.userQuota = u, !.amount = n, !.pc = pc])
        \/ Become(r, TrySubscription(q)) \/ Reject(r, q)
    BY <1>3 DEF WalletGate
  <2>3. QED
    BY <1>j, <2>1, <2>2
<1>4. CASE PreConsumeTokenQuota(r) \/ DecreaseTokenQuota(r)
  <2>1. \A pc, n : /\ Remembers([q EXCEPT !.pc = pc], q)
                   /\ Remembers([q EXCEPT !.pc = pc, !.tokenConsumed = n], q)
    BY <1>q DEF Remembers, Session
  <2>2. \/ \E pc, n : \/ Become(r, [q EXCEPT !.pc = pc])
                      \/ Become(r, [q EXCEPT !.pc = pc, !.tokenConsumed = n])
        \/ Reject(r, q) \/ Reject(r, qd)
    BY <1>4 DEF PreConsumeTokenQuota, DecreaseTokenQuota
  <2>3. QED
    BY <1>j, <2>1, <2>2
<1>5. CASE RollbackToken(r)
  <2>1. \/ Become(r, TryWallet(qt)) \/ Reject(r, qt)
        \/ Become(r, TryWallet(qx)) \/ Reject(r, qx)
    BY <1>5 DEF RollbackToken
  <2>2. QED
    BY <1>j, <2>1
<1>8. QED
  BY <1>1, <1>2, <1>3, <1>4, <1>5, <1>6, <1>7 DEF Open

\* The other steps of a request.
LEMMA StepRemembers ==
    ASSUME TypeOK, NEW r \in Requests, Handler(r) \/ RefundGoroutine(r)
    PROVE  \E q2 : Become(r, q2) /\ Remembers(q2, req[r])
<1> DEFINE q == req[r]
<1>q. q \in Session /\ q.unmarked \in Nat
  BY DEF TypeOK, Session
<1>1. CASE ReadSubscription(r) \/ ReadForRefund(r)
  BY <1>1, <1>q DEF ReadSubscription, ReadForRefund, Remembers, Session
<1>2. CASE Upstream(r)
  <2>1. CASE Retry(r) \/ Panic(r)
    <3>1. \A n, c, o : /\ Remembers([q EXCEPT !.retry = n, !.pc = c], q)
                       /\ Remembers([q EXCEPT !.pc = c, !.outcome = o], q)
      BY <1>q DEF Remembers, Session
    <3>2. \E n, c, o : \/ Become(r, [q EXCEPT !.retry = n, !.pc = c])
                       \/ Become(r, [q EXCEPT !.pc = c, !.outcome = o])
      BY <2>1 DEF Retry, Panic
    <3>3. QED
      BY <3>1, <3>2
  <2>2. CASE Succeed(r)
    <3>1. PICK actual \in ActualQuotas :
            LET q2 == [q EXCEPT !.outcome = "ok", !.actual = actual] IN
            \/ Become(r, [q2 EXCEPT !.settled = TRUE, !.pc = "done"])
            \/ Become(r, [q2 EXCEPT !.pc = "settleFund"])
            \/ Become(r, [q2 EXCEPT !.pc = "done"])
            \/ Become(r, [q2 EXCEPT !.post = actual, !.pc = "postFund"])
      BY <2>2 DEF Succeed
    <3> DEFINE q2 == [q EXCEPT !.outcome = "ok", !.actual = actual]
    <3>2. /\ Remembers([q2 EXCEPT !.settled = TRUE, !.pc = "done"], q)
          /\ Remembers([q2 EXCEPT !.pc = "settleFund"], q)
          /\ Remembers([q2 EXCEPT !.pc = "done"], q)
          /\ Remembers([q2 EXCEPT !.post = actual, !.pc = "postFund"], q)
      BY <1>q DEF Remembers, Session
    <3>3. QED
      BY <3>1, <3>2
  <2>3. CASE Fail(r)
    <3> DEFINE q2 == [Refund(q) EXCEPT !.outcome = "fail"]
    <3>1. Refund(q) \in Session /\ Refund(q).unmarked = q.unmarked
      <4>1. [q EXCEPT !.refunded = TRUE, !.gpc = "funding"].unmarked = q.unmarked
        BY <1>q DEF Session
      <4>2. QED
        BY <1>q, <4>1, UpdateType DEF Refund
    <3>2. \/ Become(r, [q2 EXCEPT !.pc = "done"])
          \/ Become(r, [q2 EXCEPT !.pc = "postFund", !.post = ViolationFee])
      BY <2>3 DEF Fail
    <3>3. /\ Remembers([q2 EXCEPT !.pc = "done"], q)
          /\ Remembers([q2 EXCEPT !.pc = "postFund", !.post = ViolationFee], q)
      BY <1>q, <3>1 DEF Remembers, Session
    <3> HIDE DEF q2
    <3>4. QED
      BY <3>2, <3>3
  <2>4. QED
    BY <1>2, <2>1, <2>2, <2>3 DEF Upstream
<1>3. CASE Close(r)
  <2> DEFINE q1 == [q EXCEPT !.tx = Closed]
             qf == [q1 EXCEPT !.fundingSettled = TRUE]
             qs == [q EXCEPT !.settled = TRUE, !.pc = "done"]
             qd == [q EXCEPT !.pc = "done"]
  <2>q. /\ q1 \in Session /\ q1.unmarked = q.unmarked
        /\ qf \in Session /\ qf.unmarked = q.unmarked
        /\ qs \in Session /\ qs.unmarked = q.unmarked
        /\ qd \in Session /\ qd.unmarked = q.unmarked
    <3>1. q1 \in Session /\ qf \in Session /\ qs \in Session /\ qd \in Session
      BY <1>q, UpdateType, CopyType, Enumerations
    <3>2. QED
      BY <1>q, <3>1 DEF Session
  <2>1. CASE SettleFunding(r)
    <3>1. \/ Become(r, [qf EXCEPT !.settled = TRUE, !.pc = "done"])
          \/ Become(r, [qf EXCEPT !.pc = "settleToken"])
          \/ Become(r, [q1 EXCEPT !.pc = "done"])
          \/ Become(r, [q1 EXCEPT !.pc = "done", !.clean = FALSE])
      BY <2>1 DEF SettleFunding
    <3> HIDE DEF q1, qf
    <3>2. /\ Remembers([qf EXCEPT !.settled = TRUE, !.pc = "done"], q)
          /\ Remembers([qf EXCEPT !.pc = "settleToken"], q)
          /\ Remembers([q1 EXCEPT !.pc = "done"], q)
          /\ Remembers([q1 EXCEPT !.pc = "done", !.clean = FALSE], q)
      BY <1>q, <2>q DEF Remembers, Session
    <3>3. QED
      BY <3>1, <3>2
  <2>2. CASE SettleToken(r) \/ PostConsumeToken(r)
    <3>1. \/ Become(r, qs) \/ Become(r, [qs EXCEPT !.clean = FALSE])
          \/ Become(r, qd) \/ Become(r, [qd EXCEPT !.clean = FALSE])
      BY <2>2 DEF SettleToken, PostConsumeToken
    <3> HIDE DEF qs, qd
    <3>2. /\ Remembers(qs, q) /\ Remembers([qs EXCEPT !.clean = FALSE], q)
          /\ Remembers(qd, q) /\ Remembers([qd EXCEPT !.clean = FALSE], q)
      BY <1>q, <2>q DEF Remembers, Session
    <3>3. QED
      BY <3>1, <3>2
  <2>3. CASE PostConsumeFunding(r)
    <3>1. \/ \E n, c : Become(r, [q1 EXCEPT !.booked = n, !.pc = c])
          \/ Become(r, [q1 EXCEPT !.pc = "done"])
          \/ Become(r, [q1 EXCEPT !.pc = "done", !.clean = FALSE])
      BY <2>3 DEF PostConsumeFunding
    <3> HIDE DEF q1
    <3>2. /\ \A n, c : Remembers([q1 EXCEPT !.booked = n, !.pc = c], q)
          /\ Remembers([q1 EXCEPT !.pc = "done"], q)
          /\ Remembers([q1 EXCEPT !.pc = "done", !.clean = FALSE], q)
      BY <1>q, <2>q DEF Remembers, Session
    <3>3. QED
      BY <3>1, <3>2
  <2>4. QED
    BY <1>3, <2>1, <2>2, <2>3 DEF Close
<1>4. CASE RefundWallet(r) \/ RefundToken(r)
  <2> DEFINE qe == [q EXCEPT !.gpc = "end"]
  <2>1. \/ Become(r, FundingRefunded(q))
        \/ Become(r, [FundingRefunded(q) EXCEPT !.clean = FALSE])
        \/ Become(r, qe) \/ Become(r, [qe EXCEPT !.clean = FALSE])
    BY <1>4 DEF RefundWallet, RefundToken
  <2>2. /\ Remembers(FundingRefunded(q), q)
        /\ Remembers([FundingRefunded(q) EXCEPT !.clean = FALSE], q)
        /\ Remembers(qe, q) /\ Remembers([qe EXCEPT !.clean = FALSE], q)
    BY <1>q DEF FundingRefunded, Remembers, Session
  <2>3. QED
    BY <2>1, <2>2
<1>5. CASE RefundSubscription(r)
  <2> DEFINE qg == [q EXCEPT !.gtx = Closed]
             qa == AttemptFailed(qg)
  <2>1. \/ Become(r, [FundingRefunded(qg) EXCEPT !.record = "refunded"])
        \/ Become(r, FundingRefunded(qg))
        \/ Become(r, qa)
        \/ Become(r, [qa EXCEPT !.record = "refunded"])
        \/ Become(r, [qa EXCEPT !.unmarked = qa.unmarked + qg.funded, !.clean = FALSE])
    BY <1>5 DEF RefundSubscription
  <2>2. qg \in Session /\ qg.unmarked = q.unmarked /\ qg.funded \in Nat
    <3>1. qg \in Session
      BY <1>q, UpdateType, CopyType
    <3>2. QED
      BY <1>q, <3>1 DEF Session
  <2> HIDE DEF qg
  <2>3. /\ Remembers(FundingRefunded(qg), q)
        /\ Remembers([FundingRefunded(qg) EXCEPT !.record = "refunded"], q)
    BY <1>q, <2>2 DEF FundingRefunded, Remembers, Session
  <2>4. /\ Remembers(qa, q)
        /\ Remembers([qa EXCEPT !.record = "refunded"], q)
        /\ Remembers([qa EXCEPT !.unmarked = qa.unmarked + qg.funded, !.clean = FALSE], q)
    <3>1. CASE qg.tries + 1 < MaxAttempts
      BY <1>q, <2>2, <3>1 DEF AttemptFailed, FundingRefunded, Remembers, Session
    <3>2. CASE ~(qg.tries + 1 < MaxAttempts)
      BY <1>q, <2>2, <3>2 DEF AttemptFailed, FundingRefunded, Remembers, Session
    <3>3. QED
      BY <3>1, <3>2
  <2> HIDE DEF qa
  <2>5. QED
    BY <2>1, <2>3, <2>4
<1>6. QED
  BY <1>1, <1>2, <1>3, <1>4, <1>5, OpenRemembers DEF Handler, RefundGoroutine

AllMarked == \A r \in Requests : req[r].unmarked = 0

\* So a refund that lost its mark is never taken for one that did not.
LEMMA MarkedBefore ==
    ASSUME TypeOK, NEW r \in Requests, Handler(r) \/ RefundGoroutine(r), AllMarked'
    PROVE  AllMarked
<1>1. PICK q2 : Become(r, q2) /\ Remembers(q2, req[r])
  BY StepRemembers
<1>2. \A x \in Requests : req[x].unmarked \in Nat
  BY DEF TypeOK, Session
<1>3. req'[r] = q2 /\ \A x \in Requests \ {r} : req'[x] = req[x]
  BY <1>1 DEF Become, TypeOK
<1>4. QED
  BY <1>1, <1>2, <1>3 DEF AllMarked, Remembers

\* What each request has booked on the subscription.
Shares == [r \in Requests |-> paid[r].sub]

\* The invariant behind SubscriptionBalanced: the sweep's copy is within the total
\* too.
Books ==
    /\ WithinTotal(sub.used) /\ WithinTotal(sweep.used)
    /\ ~raced => sub.used >= SumOver(Requests, Shares) - forgiven
    /\ ~raced /\ forgiven = 0 /\ AllMarked => sub.used = SumOver(Requests, Shares)

\* What a save writes and forgives.
LEMMA SaveWrites ==
    ASSUME TypeOK, NEW c \in Copy, NEW row \in Copy, Save(c, row)
    PROVE  /\ sub'.used = row.used
           /\ ~raced' => ~raced /\ c.used = sub.used /\ c.since = sub.since
           /\ forgiven' = forgiven + (IF row.since # c.since THEN c.used ELSE 0)
<1>1. sub'.used = row.used
  BY DEF Save, TypeOK
<1>2. ~raced' => ~raced /\ c.used = sub.used /\ c.since = sub.since
  BY DEF Save
<1>3. QED
  BY <1>1, <1>2 DEF Save

\* A transaction on the subscription moves its row and its books alike, unless its
\* save overwrites another; the clamp at zero has no effect as long as no request is
\* below zero.
LEMMA TransactionBalanced ==
    ASSUME IsFiniteSet(Requests), TypeOK, TypeOK', NeverOverRefunded', Books,
           AllMarked' => AllMarked,
           NEW r \in Requests, NEW n \in Int, BookSubscription(r, n)
    PROVE  Books'
<1>0. PICK c \in Copy : Transaction(r, c, n)
  BY DEF BookSubscription
<1>1. /\ Shares \in [Requests -> Int] /\ Shares' \in [Requests -> Int]
      /\ Shares'[r] = Shares[r] + n
      /\ \A x \in Requests \ {r} : Shares'[x] = Shares[x]
  <2>1. \A x \in Requests : paid[x] \in Account /\ paid[x].sub \in Int
    BY DEF TypeOK, Account
  <2>2. \A x \in Requests : paid'[x] \in Account /\ paid'[x].sub \in Int
    BY DEF TypeOK, Account
  <2>3. paid'[r].sub = paid[r].sub + n /\ \A x \in Requests \ {r} : paid'[x] = paid[x]
    BY <1>0, <2>1 DEF Transaction, DebitSubscription, ConsumeSubscription, Charge, TypeOK,
       Account
  <2>4. QED
    BY <2>1, <2>2, <2>3 DEF Shares
<1>2. AllMarked' => Shares' \in [Requests -> Nat]
  <2> SUFFICES ASSUME AllMarked' PROVE Shares' \in [Requests -> Nat]
    OBVIOUS
  <2>1. \A x \in Requests : paid'[x].sub \in Int /\ paid'[x].sub + req'[x].unmarked >= 0
    BY DEF NeverOverRefunded, TypeOK, Account
  <2>2. \A x \in Requests : req'[x].unmarked = 0
    BY DEF AllMarked
  <2>3. \A x \in Requests : paid'[x].sub \in Nat
    BY <2>1, <2>2
  <2>4. QED
    BY <2>3 DEF Shares
<1> DEFINE a == SumOver(Requests, Shares)
           b == SumOver(Requests, Shares')
<1>3. a \in Int /\ b = a + n
  <2> DEFINE x == Shares
             y == Shares'
  <2>1. x \in [Requests -> Int] /\ y \in [Requests -> Int]
        /\ y[r] = x[r] + n /\ \A z \in Requests \ {r} : y[z] = x[z]
    BY <1>1
  <2> HIDE DEF x, y
  <2>2. SumOver(Requests, x) \in Int /\ SumOver(Requests, y) = SumOver(Requests, x) + n
    BY <2>1, SumGrows
  <2>3. QED
    BY <2>2 DEF x, y
<1>4. AllMarked' => b \in Nat
  <2> DEFINE y == Shares'
  <2>1. AllMarked' => y \in [Requests -> Nat]
    BY <1>2
  <2> HIDE DEF y
  <2>2. AllMarked' => SumOver(Requests, y) \in Nat
    BY <2>1, SumNatural
  <2>3. QED
    BY <2>2 DEF y
<1>5. /\ ~raced => sub.used >= a - forgiven
      /\ ~raced /\ forgiven = 0 /\ AllMarked => sub.used = a
      /\ WithinTotal(sweep.used)
  BY DEF Books
<1>6. /\ sub.used \in Nat /\ forgiven \in Nat
      /\ c.used \in Nat /\ c.since \in Nat /\ c.now \in Nat
  BY DEF TypeOK, Copy
<1> HIDE DEF a, b
<1>7. CASE DebitSubscription(r, c, n)
  <2> DEFINE u == AtLeastZero(c.used + n)
             row == [c EXCEPT !.used = u]
  <2>1. u \in Nat /\ u >= c.used + n /\ (c.used + n >= 0 => u = c.used + n)
    BY <1>6 DEF AtLeastZero
  <2>2. WithinTotal(u) /\ Save(c, row) /\ sweep' = sweep
    BY <1>7 DEF DebitSubscription
  <2> HIDE DEF u
  <2>3. row \in Copy /\ row.used = u /\ row.since = c.since
    BY <2>1 DEF Copy
  <2> HIDE DEF row
  <2>4. /\ sub'.used = u /\ forgiven' = forgiven
        /\ ~raced' => ~raced /\ c.used = sub.used
    BY <1>6, <2>2, <2>3, SaveWrites
  <2>5. ~raced' => u >= b - forgiven
    BY <1>3, <1>5, <1>6, <2>1, <2>4
  <2>6. ~raced' /\ forgiven' = 0 /\ AllMarked' => u = b
    BY <1>3, <1>4, <1>5, <1>6, <2>1, <2>4
  <2>7. QED
    BY <1>5, <2>2, <2>4, <2>5, <2>6 DEF Books, b, WithinTotal
<1>8. CASE n \in Nat /\ ConsumeSubscription(r, c, n)
  <2> DEFINE u == Renewed(c).used + n
             row == [Renewed(c) EXCEPT !.used = u]
  <2>1. Renewed(c) \in Copy
    BY RowType
  <2>2. /\ \/ Renewed(c).used = c.used /\ Renewed(c).since = c.since
           \/ Renewed(c).used = 0 /\ Renewed(c).since # c.since
        /\ u \in Nat
    <3>1. \/ Renewed(c).used = c.used /\ Renewed(c).since = c.since
          \/ Renewed(c).used = 0 /\ Renewed(c).since # c.since
      BY <1>6 DEF Renewed, Copy
    <3>2. QED
      BY <1>6, <1>8, <3>1
  <2>3. WithinTotal(u) /\ Save(c, row) /\ sweep' = sweep
    BY <1>8 DEF ConsumeSubscription
  <2>4. row \in Copy /\ row.used = u /\ row.since = Renewed(c).since
    <3> HIDE DEF u
    <3> QED BY <2>1, <2>2 DEF Copy
  <2> HIDE DEF row
  <2>5. /\ sub'.used = u
        /\ forgiven' = forgiven + (IF Renewed(c).since # c.since THEN c.used ELSE 0)
        /\ ~raced' => ~raced /\ c.used = sub.used
    BY <2>3, <2>4, SaveWrites
  <2>6. ~raced' => u >= b - forgiven'
    BY <1>3, <1>5, <1>6, <2>2, <2>5
  <2>7. ~raced' /\ forgiven' = 0 /\ AllMarked' => u = b
    BY <1>3, <1>5, <1>6, <2>2, <2>5
  <2>8. QED
    BY <1>5, <2>3, <2>5, <2>6, <2>7 DEF Books, b, WithinTotal
<1>9. QED
  BY <1>0, <1>7, <1>8 DEF Transaction

\* A step that leaves the subscription's row and every request's share alone.
LEMMA ElsewhereBalanced ==
    ASSUME Books, sub'.used = sub.used, UNCHANGED <<raced, forgiven>>,
           WithinTotal(sweep'.used), AllMarked' => AllMarked,
           \A x \in Requests : paid'[x].sub = paid[x].sub
    PROVE  Books'
<1>1. Shares' = Shares
  BY DEF Shares
<1>2. SumOver(Requests, Shares)' = SumOver(Requests, Shares)
  BY <1>1
<1>3. QED
  BY <1>2 DEF Books, WithinTotal

\* The sweep's save: what it takes off is forgiven.
LEMMA ResetBalanced ==
    ASSUME IsFiniteSet(Requests), TypeOK, Books, ResetSaves
    PROVE  Books'
<1>1. sweep \in Copy /\ Renewed(sweep) \in Copy
  BY RowType DEF TypeOK
<1>2. /\ sub.used \in Nat /\ forgiven \in Nat /\ SumOver(Requests, Shares) \in Int
      /\ sweep.used \in Nat /\ sweep.since \in Nat /\ sweep.now \in Nat /\ SubTotal \in Nat
  <2>1. /\ sub.used \in Nat /\ forgiven \in Nat
        /\ sweep.used \in Nat /\ sweep.since \in Nat /\ sweep.now \in Nat
    BY DEF TypeOK, Copy
  <2>2. SumOver(Requests, Shares) \in Int
    <3> DEFINE x == Shares
    <3>1. x \in [Requests -> Int]
      BY DEF Shares, TypeOK, Account
    <3> HIDE DEF x
    <3>2. CASE Requests = {}
      <4>1. x \in [Requests -> Nat]
        BY <3>1, <3>2
      <4>2. QED
        BY <4>1, SumNatural DEF x
    <3>3. CASE Requests # {}
      <4>1. PICK r \in Requests : TRUE
        BY <3>3
      <4>2. x[r] = x[r] + 0
        BY <3>1
      <4>3. QED
        BY <3>1, <4>2, SumGrows DEF x
    <3>4. QED
      BY <3>2, <3>3
  <2>3. QED
    BY <2>1, <2>2, BillingAssumption
<1>3. /\ \/ Renewed(sweep).used = sweep.used /\ Renewed(sweep).since = sweep.since
         \/ Renewed(sweep).used = 0 /\ Renewed(sweep).since # sweep.since
  BY <1>1, <1>2 DEF Renewed, Copy
<1>4. /\ paid' = paid /\ req' = req /\ sweep'.used = 0
  BY DEF ResetSaves, Closed
<1>5. Shares' = Shares /\ AllMarked' = AllMarked
  BY <1>4 DEF Shares, AllMarked
<1>6. WithinTotal(sweep'.used) /\ WithinTotal(Renewed(sweep).used)
  BY <1>2, <1>3, <1>4 DEF WithinTotal, Books
<1>7. CASE UNCHANGED <<sub, raced, forgiven>>
  BY <1>4, <1>6, <1>7, ElsewhereBalanced DEF AllMarked
<1>8. CASE Save(sweep, Renewed(sweep))
  <2> DEFINE a == SumOver(Requests, Shares)
  <2>1. /\ sub'.used = Renewed(sweep).used
        /\ ~raced' => ~raced /\ sweep.used = sub.used
        /\ forgiven' = forgiven
                + (IF Renewed(sweep).since # sweep.since THEN sweep.used ELSE 0)
    BY <1>1, <1>8, SaveWrites
  <2>2. SumOver(Requests, Shares)' = a
    BY <1>5
  <2>3. /\ ~raced => sub.used >= a - forgiven
        /\ ~raced /\ forgiven = 0 /\ AllMarked => sub.used = a
    BY DEF Books
  <2>4. a \in Int
    BY <1>2
  <2> HIDE DEF a
  <2>5. ~raced' => sub'.used >= a - forgiven'
    BY <1>2, <1>3, <2>1, <2>3, <2>4
  <2>6. ~raced' /\ forgiven' = 0 /\ AllMarked' => sub'.used = a
    BY <1>2, <1>3, <1>5, <2>1, <2>3, <2>4
  <2>7. QED
    BY <1>6, <2>1, <2>2, <2>5, <2>6 DEF Books, WithinTotal
<1>9. QED
  BY <1>7, <1>8 DEF ResetSaves

\* For any finite set of concurrent requests, any prices, any failing writes and any
\* interleaving of unlocked transactions and resets: amount_used is never beyond the
\* total; it falls short of the requests' bookings less what was reset only if a save
\* has overwritten another, and without resets and unmarked refunds it equals them.
THEOREM SubscriptionExact ==
    ASSUME IsFiniteSet(Requests)
    PROVE  Spec => []SubscriptionBalanced
<1>1. Init => Books
  <2> SUFFICES ASSUME Init PROVE Books
    OBVIOUS
  <2> DEFINE a == Shares
  <2>1. a \in [Requests -> Nat] /\ \A x \in Requests : a[x] = 0
    BY DEF Init, Shares
  <2>2. sub.used = 0 /\ sweep.used = 0 /\ forgiven = 0 /\ SubTotal \in Nat
    BY BillingAssumption DEF Init, Closed
  <2> HIDE DEF a
  <2>3. SumOver(Requests, a) = 0
    BY <2>1, SumNatural
  <2>4. QED
    BY <2>2, <2>3 DEF Books, WithinTotal, a
<1>2. TypeOK /\ TypeOK' /\ NeverOverRefunded' /\ Books /\ [Next]_vars => Books'
  <2> SUFFICES ASSUME TypeOK, TypeOK', NeverOverRefunded', Books, [Next]_vars
               PROVE  Books'
    OBVIOUS
  <2>w. WithinTotal(sweep.used) /\ WithinTotal(sub.used)
    BY DEF Books
  <2>1. ASSUME NEW r \in Requests, Handler(r) \/ RefundGoroutine(r)
        PROVE  Books'
    <3>0. AllMarked' => AllMarked
      BY <2>1, MarkedBefore
    <3>1. PICK n \in Int : Booking(r, n)
      BY <2>1, StepBooks
    <3>2. CASE BookSubscription(r, n)
      BY <3>0, <3>2, TransactionBalanced
    <3>3. CASE DebitWallet(r, n) \/ DebitToken(r, n) \/ NoDebit
      <4>1. UNCHANGED subVars
        BY <3>3 DEF DebitWallet, DebitToken, NoDebit
      <4>2. \A x \in Requests : paid'[x].sub = paid[x].sub
        BY <3>3 DEF DebitWallet, DebitToken, NoDebit, Charge, TypeOK, Account
      <4>3. /\ sub'.used = sub.used /\ UNCHANGED <<raced, forgiven>>
            /\ WithinTotal(sweep'.used)
        BY <2>w, <4>1 DEF subVars
      <4>4. QED
        BY <3>0, <4>2, <4>3, ElsewhereBalanced
    <3>4. QED
      BY <3>1, <3>2, <3>3 DEF Booking
  <2>2. CASE ResetSaves
    BY <2>2, ResetBalanced
  <2>3. CASE ExpireSubscription \/ PeriodEnds \/ ResetReads \/ UNCHANGED vars
    <3>1. /\ sub'.used = sub.used /\ paid' = paid /\ req' = req
          /\ UNCHANGED <<raced, forgiven>>
      BY <2>3 DEF ExpireSubscription, PeriodEnds, ResetReads, vars, subVars, TypeOK
    <3>2. sweep' = sweep \/ sweep' = ReadRow
      BY <2>3 DEF ExpireSubscription, PeriodEnds, ResetReads, vars, subVars
    <3>3. WithinTotal(sweep'.used)
      BY <2>w, <3>2 DEF ReadRow
    <3>4. AllMarked' => AllMarked
      BY <3>1 DEF AllMarked
    <3>5. QED
      BY <3>1, <3>3, <3>4, ElsewhereBalanced
  <2>4. QED
    BY <2>1, <2>2, <2>3 DEF Next, ResetDueSubscriptions
<1>3. Books => SubscriptionBalanced
  BY DEF Books, SubscriptionBalanced, SubscriptionBooked, Shares, AllMarked
<1>4. QED
  BY <1>1, <1>2, <1>3, TypeCorrect, NoOverRefund, PTL DEF Spec
=============================================================================
