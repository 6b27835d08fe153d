---------------------------- MODULE AgentPayments ----------------------------
(***************************************************************************)
(* The payments an agent asks for over HTTP: the payment policy with its   *)
(* daily spending, the delegated authorizations (UAP), Razorpay orders,    *)
(* x402 payments and the payment timeline (apps/api/commerce/payments and  *)
(* the endpoints of routers/commerce.py that use them).                    *)
(*                                                                         *)
(* All of it is the memory of one process.  The endpoints are coroutines   *)
(* that never await, and the call to Razorpay blocks: while it runs, no    *)
(* other endpoint does, but time passes.                                   *)
(***************************************************************************)
EXTENDS Integers, Sequences, FiniteSets

CONSTANTS Agents, Receipts, Delegations, Amounts, Maxima,
          PerTransactionLimit, DailyLimit,
          RiskSteps,       \* the three amounts above which the risk score grows
          HalfDays,        \* bound on time, in half days
          MaxProofs,       \* bound on x402 payments
          MaxLives         \* bound on the process lives of a day

ASSUME LimitAssumption ==
  /\ PerTransactionLimit \in Nat /\ DailyLimit \in Nat
  /\ PerTransactionLimit <= DailyLimit
  /\ Amounts \subseteq Int /\ HalfDays \in Nat /\ MaxLives \in Nat

VARIABLES spending,        \* _daily_spending
          delegation,      \* _authorizations
          call,            \* the create-order request inside the Razorpay call
          now,
          settled,         \* _settled_payments
          timeline,        \* _timelines: the stages recorded for a receipt
          answered,        \* what orders answered as created add up to
          lives            \* how many lives of the process each day has seen

payVars == <<spending, delegation, call, now, settled, timeline, answered, lives>>

DayOf(t) == t \div 2
Days == {DayOf(t) : t \in 0 .. HalfDays}
Lifetime == 2   \* ttl_seconds of a delegation: 86400

NoDelegation == [status |-> "none"]
NoCall == [state |-> "idle"]
Idle == call = NoCall
---------------------------------------------------------------------------
(* The policy engine *)

(* The default policy: no other is ever registered *)
Policy ==
  [currencies |-> {"INR"}, categories |-> {"grocery", "electronics", "general"},
   providers |-> {"razorpay", "razorpay_test", "x402", "uap_delegated"}, risk |-> 2]

RiskScore(ctx) ==
  (IF ctx.amount > RiskSteps[3] THEN 3
   ELSE IF ctx.amount > RiskSteps[2] THEN 2
   ELSE IF ctx.amount > RiskSteps[1] THEN 1 ELSE 0)
  + (IF ctx.confirmed THEN 0 ELSE 5)

(* LOW, MEDIUM and HIGH are 1, 2 and 3 *)
ClassifyRisk(ctx) ==
  IF RiskScore(ctx) >= 6 THEN 3 ELSE IF RiskScore(ctx) >= 3 THEN 2 ELSE 1

SpentToday(a) == spending[a][DayOf(now)]

(* Fault: the new amount is not added to what was spent *)
ExceedsDailyStale(a, amount) == SpentToday(a) > DailyLimit

ExceedsDaily(a, amount) == SpentToday(a) + amount > DailyLimit

(* evaluate: the first check that fails blocks.  The endpoints pass a      *)
(* verified product and a merchant that is not new.                        *)
Evaluate(ctx) ==
  LET checks ==
        << [code |-> "HUMAN_CONFIRMATION_REQUIRED", ok |-> ctx.confirmed],
           [code |-> "DISALLOWED_CURRENCY", ok |-> ctx.currency \in Policy.currencies],
           [code |-> "PER_TRANSACTION_LIMIT_EXCEEDED", ok |-> ctx.amount <= PerTransactionLimit],
           [code |-> "DAILY_LIMIT_EXCEEDED", ok |-> ~ExceedsDaily(ctx.agent, ctx.amount)],
           [code |-> "DISALLOWED_CATEGORY", ok |-> ctx.category \in Policy.categories],
           [code |-> "DISALLOWED_PROVIDER", ok |-> ctx.provider \in Policy.providers],
           [code |-> "RISK_THRESHOLD_EXCEEDED", ok |-> ClassifyRisk(ctx) <= Policy.risk] >>
      failed == {i \in DOMAIN checks : ~checks[i].ok}
  IN IF failed = {} THEN "allowed"
     ELSE checks[CHOOSE i \in failed : \A j \in failed : i <= j].code

(* record_spending: on the day it is when the order has been made *)
RecordSpending(a, amount) ==
  spending' = [spending EXCEPT ![a][DayOf(now)] = @ + amount]

Record(receipt, stages) ==
  timeline' = [timeline EXCEPT ![receipt] = @ \cup stages]
---------------------------------------------------------------------------
(* Delegated authorizations *)

IssueDelegation(d, a, max) ==
  /\ Idle
  /\ delegation[d] = NoDelegation
  /\ delegation' = [delegation EXCEPT ![d] =
       [status |-> "ACTIVE", agent |-> a, max |-> max, expires |-> now + Lifetime]]
  /\ UNCHANGED <<spending, call, now, settled, timeline, answered, lives>>

(* Whatever the status was, an expired or consumed one included *)
RevokeDelegation(d) ==
  /\ Idle
  /\ delegation[d] # NoDelegation
  /\ delegation' = [delegation EXCEPT ![d].status = "REVOKED"]
  /\ UNCHANGED <<spending, call, now, settled, timeline, answered, lives>>

Lapsed(d) == delegation[d].status = "ACTIVE" /\ now > delegation[d].expires

DelegatedCategories == {"grocery", "general", "beverage"}

(* validate_authorization; the delegation's own daily limit is not read *)
Validated(d, ctx) ==
  /\ delegation[d].status = "ACTIVE"
  /\ ~Lapsed(d)
  /\ delegation[d].agent = ctx.agent
  /\ ctx.category \in DelegatedCategories
  /\ ctx.amount <= delegation[d].max

(* Finding a delegation past its time marks it *)
MarkLapsed(ds) ==
  delegation' = [d \in Delegations |->
    IF d \in ds /\ Lapsed(d) THEN [delegation[d] EXCEPT !.status = "EXPIRED"]
    ELSE delegation[d]]
---------------------------------------------------------------------------
(* Razorpay orders *)

Context(a, amount, confirmed, category, provider) ==
  [agent |-> a, amount |-> amount, confirmed |-> confirmed, currency |-> "INR",
   category |-> category, provider |-> provider]

(* With a token (ds is its delegation) the UAP adapter decides, without    *)
(* one (ds is empty) the Razorpay adapter.                                 *)
Authorization(ds, ctx) ==
  IF ds = {} THEN Evaluate(ctx)
  ELSE IF \E d \in ds : ~Validated(d, ctx) THEN "UAP_VALIDATION_FAILED"
  ELSE Evaluate([ctx EXCEPT !.provider = "uap_delegated"])

OrderBlocked(receipt, ds, ctx) ==
  /\ Idle
  /\ Authorization(ds, ctx) # "allowed"
  /\ MarkLapsed(ds)
  /\ Record(receipt, {"POLICY_BLOCKED"})
  /\ UNCHANGED <<spending, call, now, settled, answered, lives>>

(* create_test_order refuses an amount that is not positive *)
OrderInvalid(receipt, ds, ctx) ==
  /\ Idle
  /\ Authorization(ds, ctx) = "allowed"
  /\ ctx.amount <= 0
  /\ Record(receipt, {"ORDER_CREATION_FAILED"})
  /\ UNCHANGED <<spending, delegation, call, now, settled, answered, lives>>

OrderSent(receipt, ds, ctx) ==
  /\ Idle
  /\ Authorization(ds, ctx) = "allowed"
  /\ ctx.amount > 0
  /\ call' = [state |-> "sent", receipt |-> receipt, agent |-> ctx.agent,
              amount |-> ctx.amount]
  /\ UNCHANGED <<spending, delegation, now, settled, timeline, answered, lives>>

OrderCreated ==
  /\ ~Idle
  /\ RecordSpending(call.agent, call.amount)
  /\ Record(call.receipt, {"RAZORPAY_ORDER_CREATED"})
  /\ answered' = [answered EXCEPT ![call.agent][DayOf(now)] = @ + call.amount]
  /\ call' = NoCall
  /\ UNCHANGED <<delegation, now, settled, lives>>

(* An error or a timeout.  The provider may have made the order all the    *)
(* same: it is not counted then, and not answered either.                  *)
OrderFailed ==
  /\ ~Idle
  /\ Record(call.receipt, {"ORDER_CREATION_FAILED"})
  /\ call' = NoCall
  /\ UNCHANGED <<spending, delegation, now, settled, answered, lives>>

VerifyPayment(receipt, valid) ==
  /\ Idle
  /\ Record(receipt, {IF valid THEN "PAYMENT_VERIFIED" ELSE "SIGNATURE_VERIFICATION_FAILED"})
  /\ UNCHANGED <<spending, delegation, call, now, settled, answered, lives>>
---------------------------------------------------------------------------
(* x402 and the timeline *)

(* Every request makes a requirement and a proof of its own, so the proof  *)
(* has never been used; nothing is added to the daily spending.            *)
X402Pay(receipt, a, amount, confirmed) ==
  /\ Idle
  /\ settled < MaxProofs
  /\ amount > 0
  /\ Evaluate(Context(a, amount, confirmed, "general", "x402")) = "allowed"
  /\ settled' = settled + 1
  /\ Record(receipt, {"X402_PROOF_GENERATED"})
  /\ UNCHANGED <<spending, delegation, call, now, answered, lives>>

DefaultTimeline ==
  {"INTENT_RECEIVED", "RESEARCH_COMPLETED", "EVIDENCE_VERIFIED", "CART_OPTIMIZED",
   "PURCHASE_PLAN_CREATED"}

(* Reading a timeline that has no events makes them up and records them *)
GetTimeline(receipt) ==
  /\ Idle
  /\ timeline[receipt] = {}
  /\ Record(receipt, DefaultTimeline)
  /\ UNCHANGED <<spending, delegation, call, now, settled, answered, lives>>

Tick ==
  /\ now < HalfDays
  /\ now' = now + 1
  /\ UNCHANGED <<spending, delegation, call, settled, timeline, answered, lives>>
---------------------------------------------------------------------------
NothingSpent == [a \in Agents |-> [d \in Days |-> 0]]

PaymentInit ==
  /\ spending = NothingSpent
  /\ delegation = [d \in Delegations |-> NoDelegation]
  /\ call = NoCall
  /\ now = 0
  /\ settled = 0
  /\ timeline = [r \in Receipts |-> {}]
  /\ answered = NothingSpent
  /\ lives = [d \in Days |-> 1]

(* A restart forgets everything the process knew, what was spent today     *)
(* included; the orders it answered stay answered.                         *)
PaymentRestart ==
  /\ lives[DayOf(now)] < MaxLives
  /\ lives' = [lives EXCEPT ![DayOf(now)] = @ + 1]
  /\ spending' = NothingSpent
  /\ delegation' = [d \in Delegations |-> NoDelegation]
  /\ call' = NoCall
  /\ settled' = 0
  /\ timeline' = [r \in Receipts |-> {}]
  /\ UNCHANGED <<now, answered>>

PaymentNext ==
  \/ \E d \in Delegations, a \in Agents, max \in Maxima : IssueDelegation(d, a, max)
  \/ \E d \in Delegations : RevokeDelegation(d)
  \/ \E receipt \in Receipts, ds \in {{}} \cup {{d} : d \in Delegations}, a \in Agents,
        amount \in Amounts, confirmed \in BOOLEAN,
        category \in {"grocery", "electronics", "travel"} :
       LET ctx == Context(a, amount, confirmed, category, "razorpay_test")
       IN \/ OrderBlocked(receipt, ds, ctx)
          \/ OrderInvalid(receipt, ds, ctx)
          \/ OrderSent(receipt, ds, ctx)
  \/ OrderCreated
  \/ OrderFailed
  \/ \E receipt \in Receipts, a \in Agents, amount \in Amounts, confirmed \in BOOLEAN :
       X402Pay(receipt, a, amount, confirmed)
  \/ \E receipt \in Receipts : GetTimeline(receipt)
  \/ \E receipt \in Receipts, valid \in BOOLEAN : VerifyPayment(receipt, valid)
  \/ Tick
=============================================================================
