-------------------------- MODULE AgentCheckoutProofs --------------------------
(***************************************************************************)
(* Proofs about AgentCheckout for any merchants, keys, grants, calls,      *)
(* agents, amounts, purchase requests, search answers and merchant orders. *)
(*                                                                         *)
(* The groups of endpoints share no state, so the inductive invariant IInv *)
(* is a conjunction of one part per group, and a step is a step of one     *)
(* part that leaves the others alone.  The shopping endpoints keep no      *)
(* state: what they answer is best by the lemmas about discovery, the      *)
(* ranking and the cart optimizer at the end.                              *)
(***************************************************************************)
EXTENDS AgentCheckout, FiniteSetTheorems, WellFoundedInduction, TLAPS

(* The least element of a set of numbers, for the CHOOSEs that take the    *)
(* first of several.                                                       *)
LEMMA NatMin ==
  ASSUME NEW S \in SUBSET Nat, S # {}
  PROVE  \E x \in S : \A y \in S : x <= y
<1> DEFINE R == OpToRel(<, Nat)
<1>1. IsWellFoundedOn(R, Nat)
  BY NatLessThanWellFounded
<1> HIDE DEF R
<1>2. PICK x \in S : \A y \in S : ~ (<<y, x>> \in R)
  BY <1>1, WFMin, Zenon
<1>3. \A y \in S : ~(y < x)
  <2> SUFFICES ASSUME NEW y \in S, y < x PROVE FALSE
    OBVIOUS
  <2>1. y \in Nat /\ x \in Nat
    OBVIOUS
  <2>2. <<y, x>> \in {ss \in Nat \X Nat : ss[1] < ss[2]}
    BY <2>1
  <2>3. <<y, x>> \in R
    BY <2>2 DEF R, OpToRel
  <2> QED
    BY <2>3, <1>2
<1> QED
  BY <1>3

--------------------------------------------------------------------------------
(* Agent payments: the daily limit *)

SentOrder ==
  [state : {"sent"}, receipt : Receipts, agent : Agents, amount : Int]

(* What earlier lives of today's process answered is at most a limit for   *)
(* each, and what this one answered was counted; the days to come are      *)
(* free, and an order inside the provider call fits the day it is and any  *)
(* later one.                                                              *)
PayInv ==
  /\ now \in 0 .. HalfDays
  /\ spending \in [Agents -> [Days -> Nat]]
  /\ answered \in [Agents -> [Days -> Nat]]
  /\ lives \in [Days -> Nat \ {0}]
  /\ DailyLimitPerLife
  /\ \A a \in Agents, d \in Days :
       d >= DayOf(now) => answered[a][d] + DailyLimit <= spending[a][d] + DailyLimit * lives[d]
  /\ call = NoCall \/ call \in SentOrder
  /\ \A a \in Agents, d \in Days :
       /\ spending[a][d] <= DailyLimit
       /\ d > DayOf(now) => spending[a][d] = 0
  /\ call # NoCall =>
       /\ 0 < call.amount /\ call.amount <= PerTransactionLimit
       /\ spending[call.agent][DayOf(now)] + call.amount <= DailyLimit

(* The policy lets nothing through that exceeds the limit of a payment or  *)
(* of the day.                                                             *)
LEMMA AllowedFits ==
  ASSUME NEW ctx, Evaluate(ctx) = "allowed"
  PROVE  ctx.amount <= PerTransactionLimit /\ ~ExceedsDaily(ctx.agent, ctx.amount)
<1> DEFINE checks ==
        << [code |-> "HUMAN_CONFIRMATION_REQUIRED", ok |-> ctx.confirmed],
           [code |-> "DISALLOWED_CURRENCY", ok |-> ctx.currency \in Policy.currencies],
           [code |-> "PER_TRANSACTION_LIMIT_EXCEEDED", ok |-> ctx.amount <= PerTransactionLimit],
           [code |-> "DAILY_LIMIT_EXCEEDED", ok |-> ~ExceedsDaily(ctx.agent, ctx.amount)],
           [code |-> "DISALLOWED_CATEGORY", ok |-> ctx.category \in Policy.categories],
           [code |-> "DISALLOWED_PROVIDER", ok |-> ctx.provider \in Policy.providers],
           [code |-> "RISK_THRESHOLD_EXCEEDED", ok |-> ClassifyRisk(ctx) <= Policy.risk] >>
       failed == {i \in DOMAIN checks : ~checks[i].ok}
<1>1. failed \in SUBSET Nat /\ failed \subseteq DOMAIN checks
  OBVIOUS
<1>2. \A i \in DOMAIN checks : checks[i].code # "allowed"
  OBVIOUS
<1>3. failed = {}
  <2> SUFFICES ASSUME failed # {} PROVE FALSE
    OBVIOUS
  <2> DEFINE least == CHOOSE i \in failed : \A j \in failed : i <= j
  <2>1. least \in failed
    <3> HIDE DEF failed
    <3> QED
      BY <1>1, NatMin
  <2>2. Evaluate(ctx) = checks[least].code
    BY DEF Evaluate
  <2> HIDE DEF least, checks, failed
  <2> QED
    BY <2>1, <2>2, <1>1, <1>2
<1>4. checks[3].ok /\ checks[4].ok /\ 3 \in DOMAIN checks /\ 4 \in DOMAIN checks
  <2>1. 3 \in DOMAIN checks /\ 4 \in DOMAIN checks
    OBVIOUS
  <2> HIDE DEF checks
  <2> QED
    BY <2>1, <1>3
<1>5. checks[3].ok = (ctx.amount <= PerTransactionLimit)
  OBVIOUS
<1>6. checks[4].ok = ~ExceedsDaily(ctx.agent, ctx.amount)
  OBVIOUS
<1> QED
  BY <1>4, <1>5, <1>6, Zenon

(* With or without a delegation, the same policy decides *)
LEMMA AuthorizedFits ==
  ASSUME NEW ds, NEW a \in Agents, NEW amount \in Amounts, NEW confirmed, NEW category,
         NEW provider, SpentToday(a) \in Nat,
         Authorization(ds, Context(a, amount, confirmed, category, provider)) = "allowed"
  PROVE  amount <= PerTransactionLimit /\ SpentToday(a) + amount <= DailyLimit
<1> DEFINE ctx == Context(a, amount, confirmed, category, provider)
           uap == [ctx EXCEPT !.provider = "uap_delegated"]
<1>1. ctx.agent = a /\ ctx.amount = amount /\ uap.agent = a /\ uap.amount = amount
  BY DEF Context
<1>2. Evaluate(ctx) = "allowed" \/ Evaluate(uap) = "allowed"
  BY DEF Authorization
<1>3. amount <= PerTransactionLimit /\ ~ExceedsDaily(a, amount)
  BY <1>1, <1>2, AllowedFits
<1> QED
  BY <1>3, LimitAssumption DEF ExceedsDaily

--------------------------------------------------------------------------------

(* The day never goes back, and it is one of the days counted *)
LEMMA DayIsCounted ==
  ASSUME NEW t \in 0 .. HalfDays
  PROVE  /\ DayOf(t) \in Days /\ DayOf(t) \in Nat
         /\ DayOf(t) <= DayOf(t + 1) /\ DayOf(t + 1) <= DayOf(t) + 1
  BY LimitAssumption DEF DayOf, Days

LEMMA PayInitInv == PaymentInit => PayInv
<1> SUFFICES ASSUME PaymentInit PROVE PayInv
  OBVIOUS
<1>1. now \in 0 .. HalfDays
  BY LimitAssumption DEF PaymentInit
<1>2. /\ spending \in [Agents -> [Days -> Nat]] /\ answered = spending
      /\ lives \in [Days -> Nat \ {0}]
  BY DEF PaymentInit, NothingSpent
<1>3. /\ \A a \in Agents, d \in Days : spending[a][d] = 0
      /\ \A d \in Days : DailyLimit * lives[d] = DailyLimit
  BY LimitAssumption DEF PaymentInit, NothingSpent
<1>4. DailyLimitPerLife
  BY <1>2, <1>3, LimitAssumption DEF DailyLimitPerLife
<1> QED
  BY <1>1, <1>2, <1>3, <1>4, LimitAssumption DEF PaymentInit, PayInv

LEMMA PayStepInv == PayInv /\ (PayNext \/ UNCHANGED payVars) => PayInv'
<1> SUFFICES ASSUME PayInv, PayNext \/ UNCHANGED payVars PROVE PayInv'
  OBVIOUS
<1>0. DayOf(now) \in Days /\ DayOf(now) \in Nat /\ now \in 0 .. HalfDays
  BY DayIsCounted DEF PayInv
<1>1. ASSUME UNCHANGED <<spending, answered, lives, call, now>> PROVE PayInv'
  BY <1>1 DEF PayInv, DailyLimitPerLife
<1>2. ASSUME NEW receipt \in Receipts, NEW ds, NEW a \in Agents, NEW amount \in Amounts,
             NEW confirmed, NEW category,
             OrderSent(receipt, ds, Context(a, amount, confirmed, category, "razorpay_test"))
      PROVE  PayInv'
  <2> DEFINE ctx == Context(a, amount, confirmed, category, "razorpay_test")
  <2>1. ctx.agent = a /\ ctx.amount = amount /\ amount \in Int
    BY LimitAssumption DEF Context
  <2>2. amount > 0 /\ Authorization(ds, ctx) = "allowed"
    BY <1>2, <2>1 DEF OrderSent
  <2>3. SpentToday(a) \in Nat
    BY <1>0 DEF PayInv, SpentToday
  <2>4. amount <= PerTransactionLimit /\ spending[a][DayOf(now)] + amount <= DailyLimit
    BY <2>2, <2>3, AuthorizedFits DEF SpentToday
  <2>5. call' = [state |-> "sent", receipt |-> receipt, agent |-> a, amount |-> amount]
    BY <1>2, <2>1 DEF OrderSent
  <2>6. UNCHANGED <<spending, answered, lives, now>>
    BY <1>2 DEF OrderSent
  <2>7. call' \in SentOrder /\ call'.amount = amount /\ call'.agent = a
    BY <2>1, <2>5 DEF SentOrder
  <2> QED
    BY <2>1, <2>2, <2>4, <2>6, <2>7 DEF PayInv, DailyLimitPerLife
<1>3. CASE OrderCreated
  <2>1. call \in SentOrder
    BY <1>3 DEF PayInv, OrderCreated, Idle
  <2> DEFINE a == call.agent
             d == DayOf(now)
  <2>2. a \in Agents /\ call.amount \in Nat /\ d \in Days
    BY <2>1, <1>0, <1>3 DEF PayInv, SentOrder, OrderCreated, Idle
  <2>3. spending' = [spending EXCEPT ![a][d] = @ + call.amount]
    BY <1>3 DEF OrderCreated, RecordSpending
  <2>4. answered' = [answered EXCEPT ![a][d] = @ + call.amount] /\ call' = NoCall /\ now' = now
        /\ lives' = lives
    BY <1>3 DEF OrderCreated
  <2>5. spending' \in [Agents -> [Days -> Nat]] /\ answered' \in [Agents -> [Days -> Nat]]
    BY <2>2, <2>3, <2>4 DEF PayInv
  <2>6. \A b \in Agents, e \in Days :
          /\ spending'[b][e] = IF b = a /\ e = d THEN spending[a][d] + call.amount
                               ELSE spending[b][e]
          /\ answered'[b][e] = IF b = a /\ e = d THEN answered[a][d] + call.amount
                               ELSE answered[b][e]
    BY <2>2, <2>3, <2>4 DEF PayInv
  <2>7. \A b \in Agents, e \in Days :
          /\ spending'[b][e] <= DailyLimit
          /\ e > DayOf(now') => spending'[b][e] = 0
    <3>1. spending[a][d] + call.amount <= DailyLimit
      BY <1>3 DEF PayInv, OrderCreated, Idle
    <3>2. \A e \in Days : e > d => e # d
      BY <1>0
    <3> HIDE DEF a, d
    <3>3. d = DayOf(now')
      BY <2>4 DEF d
    <3> QED
      BY <2>6, <3>1, <3>2, <3>3 DEF PayInv, d
  <2>8. ASSUME NEW b \in Agents, NEW e \in Days
        PROVE  /\ answered'[b][e] <= DailyLimit * lives'[e]
               /\ e >= DayOf(now') =>
                    answered'[b][e] + DailyLimit <= spending'[b][e] + DailyLimit * lives'[e]
    <3>1. PICK most : most = DailyLimit * lives[e]
      OBVIOUS
    <3>2. /\ most \in Int /\ lives'[e] = lives[e] /\ DailyLimit * lives'[e] = most
          /\ DailyLimit \in Nat
      BY <2>4, <3>1, LimitAssumption DEF PayInv
    <3>3. /\ answered[b][e] <= most
          /\ e >= DayOf(now) => answered[b][e] + DailyLimit <= spending[b][e] + most
          /\ answered[b][e] \in Nat /\ spending[b][e] \in Nat
      BY <3>1 DEF PayInv, DailyLimitPerLife
    <3>4. CASE b = a /\ e = d
      <4>1. spending[a][d] + call.amount <= DailyLimit
        BY <1>3 DEF PayInv, OrderCreated, Idle
      <4>2. DayOf(now') = DayOf(now) /\ d >= DayOf(now)
        BY <2>4, <1>0
      <4>3. answered'[b][e] = answered[b][e] + call.amount /\ spending'[b][e] = spending[b][e] + call.amount
        BY <2>6, <3>4
      <4> HIDE DEF a, d
      <4> QED
        BY <2>2, <3>2, <3>3, <3>4, <4>1, <4>2, <4>3
    <3>5. CASE ~(b = a /\ e = d)
      <4>1. answered'[b][e] = answered[b][e] /\ spending'[b][e] = spending[b][e] /\ now' = now
        BY <2>4, <2>6, <3>5
      <4> QED
        BY <3>2, <3>3, <4>1
    <3> QED
      BY <3>4, <3>5
  <2>9. lives' \in [Days -> Nat \ {0}]
    BY <2>4 DEF PayInv
  <2> QED
    BY <2>4, <2>5, <2>7, <2>8, <2>9, <1>0 DEF PayInv, DailyLimitPerLife
<1>4. CASE OrderFailed
  BY <1>4 DEF OrderFailed, PayInv, DailyLimitPerLife
<1>5. CASE Tick
  <2>1. now' \in 0 .. HalfDays /\ now' = now + 1 /\ UNCHANGED <<spending, answered, lives, call>>
    BY <1>5, LimitAssumption DEF Tick, PayInv
  <2> DEFINE d == DayOf(now)
             e == DayOf(now')
  <2>2. d \in Nat /\ e \in Nat /\ e \in Days /\ d \in Days /\ d <= e
    BY <1>0, <2>1, DayIsCounted
  <2>3. \A x \in Days : x \in Nat
    BY LimitAssumption DEF Days, DayOf
  <2> HIDE DEF d, e
  <2>4. \A b \in Agents, x \in Days : x > e => spending[b][x] = 0
    BY <2>2, <2>3 DEF PayInv, d
  <2>5. call # NoCall =>
          /\ 0 < call.amount /\ call.amount <= PerTransactionLimit
          /\ spending[call.agent][e] + call.amount <= DailyLimit
    <3> SUFFICES ASSUME call # NoCall
                 PROVE  spending[call.agent][e] + call.amount <= DailyLimit
      BY DEF PayInv
    <3>1. call.agent \in Agents /\ call.amount \in Int
      BY DEF PayInv, SentOrder
    <3>2. CASE e = d
      BY <3>2 DEF PayInv, d
    <3>3. CASE e > d
      <4>1. spending[call.agent][e] = 0
        BY <3>1, <3>3, <2>2 DEF PayInv, d
      <4> QED
        BY <4>1, <3>1, LimitAssumption DEF PayInv
    <3> QED
      BY <3>2, <3>3, <2>2
  <2>6. ASSUME NEW b \in Agents, NEW x \in Days, x >= e
        PROVE  answered[b][x] + DailyLimit <= spending[b][x] + DailyLimit * lives[x]
    <3>1. x >= d
      BY <2>2, <2>3, <2>6
    <3> QED
      BY <3>1 DEF PayInv, d
  <2> QED
    BY <2>1, <2>4, <2>5, <2>6 DEF PayInv, DailyLimitPerLife, e
<1>6. CASE PaymentRestart
  <2>1. /\ spending' \in [Agents -> [Days -> Nat]] /\ answered' = answered /\ now' = now
        /\ lives' = [lives EXCEPT ![DayOf(now)] = @ + 1]
    BY <1>6 DEF PaymentRestart, NothingSpent
  <2>2. \A b \in Agents, x \in Days : spending'[b][x] = 0
    BY <1>6 DEF PaymentRestart, NothingSpent
  <2>3. lives' \in [Days -> Nat \ {0}] /\ call' = NoCall
    BY <1>0, <1>6, <2>1 DEF PaymentRestart, PayInv
  <2>4. ASSUME NEW b \in Agents, NEW x \in Days
        PROVE  /\ answered[b][x] <= DailyLimit * lives'[x]
               /\ x >= DayOf(now) =>
                    answered[b][x] + DailyLimit <= spending'[b][x] + DailyLimit * lives'[x]
    <3>0. PICK n \in Nat, day \in Nat : n = lives[x] /\ day = DayOf(now)
      BY <1>0 DEF PayInv
    <3>1. PICK most : most = DailyLimit * n
      OBVIOUS
    <3>2. most \in Int /\ DailyLimit \in Nat /\ DailyLimit * (n + 1) = most + DailyLimit
      BY <3>1, LimitAssumption
    <3>3. /\ answered[b][x] <= most /\ answered[b][x] \in Nat
          /\ x >= day => answered[b][x] + DailyLimit <= spending[b][x] + most
          /\ x > day => spending[b][x] = 0
          /\ x \in Nat /\ spending'[b][x] = 0
      <4>1. x \in Nat
        BY LimitAssumption DEF Days, DayOf
      <4>2. answered[b][x] <= DailyLimit * lives[x] /\ answered[b][x] \in Nat
        BY DEF PayInv, DailyLimitPerLife
      <4>3. /\ x >= DayOf(now) => answered[b][x] + DailyLimit <= spending[b][x] + DailyLimit * lives[x]
            /\ x > DayOf(now) => spending[b][x] = 0
        BY DEF PayInv
      <4> QED
        BY <2>2, <3>0, <3>1, <4>1, <4>2, <4>3
    <3>4. CASE x = day
      <4>1. lives'[x] = n + 1
        BY <1>0, <2>1, <3>0, <3>4 DEF PayInv
      <4> QED
        <5>1. DailyLimit * lives'[x] = most + DailyLimit
          BY <3>2, <4>1
        <5> QED
          BY <3>0, <3>2, <3>3, <3>4, <5>1
    <3>5. CASE x # day
      <4>1. lives'[x] = n
        BY <1>0, <2>1, <3>0, <3>5 DEF PayInv
      <4> QED
        <5>1. DailyLimit * lives'[x] = most
          BY <3>1, <4>1
        <5>2. x > day \/ ~(x >= day)
          BY <3>0, <3>3, <3>5
        <5> QED
          BY <3>0, <3>2, <3>3, <5>1, <5>2
    <3> QED
      BY <3>4, <3>5
  <2>5. now' \in 0 .. HalfDays
    BY <1>0, <2>1
  <2> QED
    BY <2>1, <2>2, <2>3, <2>4, <2>5, LimitAssumption DEF PayInv, DailyLimitPerLife
<1>7. ASSUME NEW d \in Delegations, RevokeDelegation(d) \/ \E a \in Agents, max \in Maxima : IssueDelegation(d, a, max)
      PROVE UNCHANGED <<spending, answered, lives, call, now>>
  BY <1>7 DEF RevokeDelegation, IssueDelegation
<1>8. ASSUME NEW receipt \in Receipts, NEW ds, NEW ctx,
             OrderBlocked(receipt, ds, ctx) \/ OrderInvalid(receipt, ds, ctx)
      PROVE  UNCHANGED <<spending, answered, lives, call, now>>
  BY <1>8 DEF OrderBlocked, OrderInvalid
<1>9. ASSUME NEW receipt \in Receipts,
             \/ \E a \in Agents, amount \in Amounts, confirmed \in BOOLEAN :
                  X402Pay(receipt, a, amount, confirmed)
             \/ GetTimeline(receipt) \/ McpTimeline(receipt)
             \/ \E valid \in BOOLEAN : VerifyPayment(receipt, valid)
      PROVE  UNCHANGED <<spending, answered, lives, call, now>>
  BY <1>9 DEF X402Pay, GetTimeline, McpTimeline, VerifyPayment
<1>10. CASE UNCHANGED payVars
  BY <1>10, <1>1 DEF payVars
<1>11. CASE PaymentNext
  BY <1>11, <1>1, <1>2, <1>3, <1>4, <1>5, <1>7, <1>8, <1>9 DEF PaymentNext
<1> QED
  BY <1>1, <1>6, <1>9, <1>10, <1>11 DEF PayNext
--------------------------------------------------------------------------------

(* Merchant orders *)

OrderRecord ==
  [payment : Payments, amount : {offer.price : offer \in Offers}, status : {"ORDER_CONFIRMED"}]

OrderOutcome ==
  [status : {"none", "ORDER_UNKNOWN", "ORDER_VERIFIED"}, payment : Payments \cup {NoPayment},
   order : 0 .. MaxOrders, evidence : Payments \cup {NoPayment}]

(* Bindings lead to orders of the same payment, and an order that is not   *)
(* made yet is bound to nothing and has no outcome.                        *)
OrderInv ==
  /\ orders \in Seq(OrderRecord) /\ Len(orders) <= MaxOrders
  /\ txMap \in [Payments -> 0 .. MaxOrders]
  /\ orderMap \in [OrderIds -> Payments \cup {NoPayment}]
  /\ outcome \in [OrderIds -> OrderOutcome]
  /\ \A p \in Payments :
       txMap[p] # 0 => txMap[p] \in DOMAIN orders /\ orders[txMap[p]].payment = p
  /\ \A o \in OrderIds :
       o > Len(orders) => outcome[o] = NoOutcome /\ orderMap[o] = NoPayment
  /\ OrdersAccounted

LEMMA NoOutcomeTyped == NoOutcome \in OrderOutcome
  BY OrderAssumption DEF NoOutcome, OrderOutcome

LEMMA OrderFresh ==
  ASSUME /\ orders = <<>>
         /\ txMap = [p \in Payments |-> 0]
         /\ orderMap = [o \in OrderIds |-> NoPayment]
         /\ outcome = [o \in OrderIds |-> NoOutcome]
  PROVE  OrderInv
<1>1. orders \in Seq(OrderRecord) /\ Len(orders) = 0 /\ DOMAIN orders = {}
  OBVIOUS
<1>3. /\ txMap \in [Payments -> 0 .. MaxOrders]
      /\ orderMap \in [OrderIds -> Payments \cup {NoPayment}]
      /\ outcome \in [OrderIds -> OrderOutcome]
  BY NoOutcomeTyped, OrderAssumption DEF OrderIds
<1>4. \A p \in Payments, o \in OrderIds : (txMap[p] = o) <=> (orderMap[o] = p)
  BY OrderAssumption DEF OrderIds
<1> QED
  BY <1>1, <1>3, <1>4, OrderAssumption DEF OrderInv, OrdersAccounted

LEMMA OrderInitInv == OrderInit => OrderInv
  BY OrderFresh DEF OrderInit

(* The new order, bound or orphaned *)
LEMMA NewOrder ==
  ASSUME OrderInv, NEW p \in Payments, NEW offer \in Offers, CreateMerchantOrder(p, offer)
  PROVE  OrderInv'
<1> DEFINE n == Len(orders) + 1
           new == ConnectorOrder(p, offer)
<1>1. /\ new \in OrderRecord /\ new.payment = p
      /\ orders \in Seq(OrderRecord) /\ n \in OrderIds /\ n \in Nat
  BY OrderAssumption DEF OrderInv, ConnectorOrder, OrderRecord, CreateMerchantOrder, OrderIds
<1>2. /\ orders' \in Seq(OrderRecord) /\ Len(orders') = n
      /\ DOMAIN orders' = DOMAIN orders \cup {n} /\ n \notin DOMAIN orders
      /\ orders'[n] = new
      /\ \A o \in DOMAIN orders : orders'[o] = orders[o]
      /\ n <= MaxOrders
  BY <1>1, OrderAssumption DEF CreateMerchantOrder
<1>3. outcome[n] = NoOutcome /\ orderMap[n] = NoPayment /\ NoPayment # p
  BY <1>1, OrderAssumption DEF OrderInv
<1>4. \A o \in DOMAIN orders : o \in Nat /\ o # n /\ o \in OrderIds
  BY <1>1, OrderAssumption DEF OrderInv, OrderIds
<1> HIDE DEF new, n
<1>5. CASE OrderBound(p, n)
  <2>1. txMap[p] = 0
    <3>1. txMap[p] \in {0, n}
      BY <1>5 DEF OrderBound, Bindable
    <3> QED
      BY <3>1, <1>2, <1>1, OrderAssumption DEF OrderInv, OrderIds
  <2>2. \A o \in DOMAIN orders : orders[o].payment # p
    BY <2>1, <1>4 DEF OrderInv, OrdersAccounted
  <2>3. /\ txMap' = [txMap EXCEPT ![p] = n]
        /\ orderMap' = [orderMap EXCEPT ![n] = p]
        /\ outcome' = [outcome EXCEPT ![n] = VerifyOrderOutcome(outcome[n], p, n, TRUE)]
    BY <1>5 DEF OrderBound
  <2> DEFINE made == VerifyOrderOutcome(NoOutcome, p, n, TRUE)
  <2>4. made \in OrderOutcome /\ made.status = "ORDER_VERIFIED" /\ made.evidence = p
    <3> DEFINE written == [NoOutcome EXCEPT !.payment = p, !.order = n]
    <3>1. n # 0 /\ n \in 0 .. MaxOrders
      BY <1>1, OrderAssumption DEF OrderIds
    <3>2. made = [written EXCEPT !.status = "ORDER_VERIFIED", !.evidence = p]
      BY <3>1 DEF VerifyOrderOutcome
    <3>3. written \in OrderOutcome
      BY <3>1, NoOutcomeTyped DEF OrderOutcome
    <3> HIDE DEF written, made
    <3> QED
      BY <3>2, <3>3 DEF OrderOutcome
  <2> HIDE DEF made
  <2>5. /\ txMap' \in [Payments -> 0 .. MaxOrders]
        /\ orderMap' \in [OrderIds -> Payments \cup {NoPayment}]
        /\ outcome' \in [OrderIds -> OrderOutcome]
        /\ outcome'[n] = made
    <3>1. n \in 0 .. MaxOrders
      BY <1>1, OrderAssumption DEF OrderIds
    <3>2. outcome' = [outcome EXCEPT ![n] = made]
      BY <2>3, <1>3 DEF made
    <3> QED
      BY <2>3, <2>4, <1>1, <3>1, <3>2 DEF OrderInv
  <2>6. /\ txMap'[p] = n /\ \A q \in Payments : q # p => txMap'[q] = txMap[q]
        /\ orderMap'[n] = p /\ \A o \in OrderIds : o # n => orderMap'[o] = orderMap[o]
        /\ \A o \in OrderIds : o # n => outcome'[o] = outcome[o]
    BY <2>3, <1>1 DEF OrderInv
  <2>7. \A q \in Payments :
          txMap'[q] # 0 => txMap'[q] \in DOMAIN orders' /\ orders'[txMap'[q]].payment = q
    BY <2>6, <1>1, <1>2 DEF OrderInv
  <2>8. \A o \in OrderIds :
          o > Len(orders') => outcome'[o] = NoOutcome /\ orderMap'[o] = NoPayment
    <3> SUFFICES ASSUME NEW o \in OrderIds, o > Len(orders')
                 PROVE  outcome'[o] = NoOutcome /\ orderMap'[o] = NoPayment
      OBVIOUS
    <3>1. o # n /\ o > Len(orders)
      BY <1>1, <1>2, OrderAssumption DEF OrderIds, n
    <3> QED
      BY <3>1, <2>6 DEF OrderInv
  <2>9. \A q \in Payments, o \in OrderIds : (txMap'[q] = o) <=> (orderMap'[o] = q)
    <3> SUFFICES ASSUME NEW q \in Payments, NEW o \in OrderIds
                 PROVE  (txMap'[q] = o) <=> (orderMap'[o] = q)
      OBVIOUS
    <3>1. CASE q = p
      <4>1. orderMap[o] # p
        BY <2>1, OrderAssumption DEF OrderInv, OrdersAccounted, OrderIds
      <4> QED
        BY <3>1, <4>1, <2>6
    <3>2. CASE q # p
      <4>1. txMap[q] # n
        BY <1>2, <1>1 DEF OrderInv
      <4> QED
        BY <3>2, <4>1, <2>6 DEF OrderInv, OrdersAccounted
    <3> QED
      BY <3>1, <3>2
  <2>10. ASSUME NEW o \in DOMAIN orders'
         PROVE  LET bound == txMap'[orders'[o].payment]
                IN /\ bound \in DOMAIN orders'
                   /\ orders'[bound].payment = orders'[o].payment
                   /\ outcome'[bound].status = "ORDER_VERIFIED"
                   /\ outcome'[bound].evidence = orders'[o].payment
                   /\ o # bound => outcome'[o] = NoOutcome
    <3>1. CASE o = n
      BY <3>1, <1>1, <1>2, <2>4, <2>5, <2>6
    <3>2. CASE o \in DOMAIN orders
      <4>1. orders'[o] = orders[o] /\ orders[o].payment \in Payments /\ orders[o].payment # p
        <5>1. orders[o] \in OrderRecord
          BY <3>2, <1>1
        <5> QED
          BY <5>1, <3>2, <1>2, <2>2 DEF OrderRecord
      <4> DEFINE bound == txMap[orders[o].payment]
      <4>2. txMap'[orders'[o].payment] = bound /\ bound \in DOMAIN orders
        BY <4>1, <2>6, <3>2 DEF OrderInv, OrdersAccounted
      <4>3. outcome'[bound] = outcome[bound] /\ outcome'[o] = outcome[o]
            /\ orders'[bound] = orders[bound]
        BY <4>2, <1>4, <3>2, <2>6, <1>2
      <4>4. /\ orders[bound].payment = orders[o].payment
            /\ outcome[bound].status = "ORDER_VERIFIED"
            /\ outcome[bound].evidence = orders[o].payment
            /\ o # bound => outcome[o] = NoOutcome
        BY <3>2 DEF OrderInv, OrdersAccounted
      <4> HIDE DEF bound
      <4> QED
        BY <4>1, <4>2, <4>3, <4>4, <1>2
    <3> QED
      BY <3>1, <3>2, <1>2
  <2> QED
    BY <2>5, <2>7, <2>8, <2>9, <2>10, <1>2 DEF OrderInv, OrdersAccounted
<1>6. CASE OrderOrphaned(p, n)
  <2>1. UNCHANGED <<txMap, orderMap, outcome>>
    BY <1>6 DEF OrderOrphaned
  <2>2. txMap[p] # 0 /\ txMap[p] # n
    BY <1>6, <1>3 DEF OrderOrphaned, Bindable
  <2> DEFINE b == txMap[p]
  <2>3. /\ b \in DOMAIN orders /\ orders[b].payment = p
        /\ outcome[b].status = "ORDER_VERIFIED" /\ outcome[b].evidence = p
    BY <2>2 DEF OrderInv, OrdersAccounted
  <2>4. ASSUME NEW o \in DOMAIN orders'
        PROVE  LET bound == txMap'[orders'[o].payment]
               IN /\ bound \in DOMAIN orders'
                  /\ orders'[bound].payment = orders'[o].payment
                  /\ outcome'[bound].status = "ORDER_VERIFIED"
                  /\ outcome'[bound].evidence = orders'[o].payment
                  /\ o # bound => outcome'[o] = NoOutcome
    <3>1. CASE o = n
      BY <3>1, <2>1, <2>3, <1>1, <1>2, <1>3
    <3>2. CASE o \in DOMAIN orders
      BY <3>2, <2>1, <1>2, <1>4, SMTT(20) DEF OrderInv, OrdersAccounted
    <3> QED
      BY <3>1, <3>2, <1>2
  <2>5. \A o \in OrderIds :
          o > Len(orders') => outcome'[o] = NoOutcome /\ orderMap'[o] = NoPayment
    BY <2>1, <1>1, <1>2, OrderAssumption DEF OrderInv, n, OrderIds
  <2>6. \A q \in Payments :
          txMap'[q] # 0 => txMap'[q] \in DOMAIN orders' /\ orders'[txMap'[q]].payment = q
    BY <2>1, <1>2 DEF OrderInv
  <2> QED
    BY <2>1, <2>4, <2>5, <2>6, <1>2, SMTT(20) DEF OrderInv, OrdersAccounted
<1> QED
  BY <1>5, <1>6 DEF CreateMerchantOrder, n

LEMMA OrderStepInv == OrderInv /\ (OrderNext \/ UNCHANGED orderVars) => OrderInv'
<1> SUFFICES ASSUME OrderInv, OrderNext \/ UNCHANGED orderVars PROVE OrderInv'
  OBVIOUS
<1>1. ASSUME UNCHANGED <<orders, txMap, orderMap, outcome>> PROVE OrderInv'
  BY <1>1 DEF OrderInv, OrdersAccounted
<1>2. CASE OrderRestart
  <2>1. /\ orders' = <<>>
        /\ txMap' = [p \in Payments |-> 0]
        /\ orderMap' = [o \in OrderIds |-> NoPayment]
        /\ outcome' = [o \in OrderIds |-> NoOutcome]
    BY <1>2 DEF OrderRestart
  <2>2. orders' \in Seq(OrderRecord) /\ Len(orders') = 0 /\ DOMAIN orders' = {}
    BY <2>1
  <2>4. /\ txMap' \in [Payments -> 0 .. MaxOrders]
        /\ orderMap' \in [OrderIds -> Payments \cup {NoPayment}]
        /\ outcome' \in [OrderIds -> OrderOutcome]
    BY <2>1, NoOutcomeTyped, OrderAssumption DEF OrderIds
  <2>5. \A p \in Payments, o \in OrderIds : (txMap'[p] = o) <=> (orderMap'[o] = p)
    BY <2>1, OrderAssumption DEF OrderIds
  <2> QED
    BY <2>1, <2>2, <2>4, <2>5, OrderAssumption DEF OrderInv, OrdersAccounted
<1>3. ASSUME \/ \E offer \in Offers, recheck \in Rechecks : PrepareCheckout(offer, recheck)
             \/ \E e \in MerchantEvents : ProcessWebhook(e)
             \/ \E claim \in Claims : ReconcileTransaction(claim)
      PROVE  UNCHANGED <<orders, txMap, orderMap, outcome>>
  BY <1>3 DEF PrepareCheckout, ProcessWebhook, ReconcileTransaction
<1>4. CASE UNCHANGED orderVars
  BY <1>4, <1>1 DEF orderVars
<1> QED
  BY <1>1, <1>2, <1>3, <1>4, NewOrder DEF OrderNext
--------------------------------------------------------------------------------

(* Purchase plans *)

(* The items a live search can answer with, and the plans made of them *)
LiveItems ==
  UNION {{live.tavily[i] : i \in DOMAIN live.tavily}
           \cup {live.brave[i] : i \in DOMAIN live.brave}
           \cup LET open == OpenSourceSearch(live.open, live.production)
                IN {open[i] : i \in DOMAIN open} : live \in LiveAnswers}
Plans == {Normalize(item) : item \in LiveItems}

Planned ==
  [status : {"AWAITING_CONFIRMATION", "PLANNING", "COMMITTED"}, plan : Plans,
   confirm : BOOLEAN, max : Int]
Rejected == [status |-> "REJECTED"]

Tokens == {NoToken} \cup {Token(r, plan) : r \in Requests, plan \in Plans}
Commit == [request : Requests, token : Tokens, amount : Int, max : Int, confirm : BOOLEAN]

(* The token of a confirmed plan is consumed as long as the plan is known, *)
(* and a plan keeps saying whether it asks for confirmation.               *)
PlanInv ==
  /\ requests \in [Requests -> {Unborn, Forgotten, Rejected} \cup Planned]
  /\ commits \in Seq(Commit)
  /\ \A r \in Requests :
       requests[r] \in Planned =>
         0 < requests[r].plan.amount /\ requests[r].plan.amount <= requests[r].max
  /\ \A i \in DOMAIN commits :
       LET r == commits[i].request
       IN \/ requests[r] = Forgotten
          \/ /\ requests[r] \in Planned
             /\ requests[r].confirm = commits[i].confirm
             /\ commits[i].confirm => Token(r, requests[r].plan) \in consumed
  /\ CommitOnce

LEMMA PlanAmounts == \A plan \in Plans : plan.amount \in Int
<1> SUFFICES ASSUME NEW item \in LiveItems PROVE Normalize(item).amount \in Int
  BY DEF Plans
<1>1. item.quote \in Int
  <2>1. PICK live \in LiveAnswers :
          \/ item \in {live.tavily[i] : i \in DOMAIN live.tavily}
          \/ item \in {live.brave[i] : i \in DOMAIN live.brave}
          \/ \E i \in DOMAIN OpenSourceSearch(live.open, live.production) :
               item = OpenSourceSearch(live.open, live.production)[i]
    BY DEF LiveItems
  <2>2. CASE item \in {live.tavily[i] : i \in DOMAIN live.tavily}
    BY <2>2, PlanAssumption
  <2>3. CASE item \in {live.brave[i] : i \in DOMAIN live.brave}
    BY <2>3, PlanAssumption
  <2>4. CASE \E i \in DOMAIN OpenSourceSearch(live.open, live.production) :
               item = OpenSourceSearch(live.open, live.production)[i]
    BY <2>4 DEF OpenSourceSearch
  <2> QED
    BY <2>1, <2>2, <2>3, <2>4
<1> QED
  BY <1>1, ShoppingAssumption DEF Normalize, ExtractEvidence

(* What a live search finds: candidates made of its items, within the      *)
(* limit, at places that are numbers.                                      *)
Within(candidates, max) ==
  /\ DOMAIN candidates # {} /\ DOMAIN candidates \subseteq Nat
  /\ \A i \in DOMAIN candidates :
       /\ candidates[i] \in Plans
       /\ 0 < candidates[i].amount /\ candidates[i].amount <= max

LEMMA SearchWithin ==
  ASSUME NEW live \in LiveAnswers, NEW max \in Int, SearchLiveProducts(live, max) # <<>>
  PROVE  Within(SearchLiveProducts(live, max), max)
<1> DEFINE open == OpenSourceSearch(live.open, live.production)
           answers == <<live.tavily, live.brave, open>>
           found == {p \in DOMAIN answers : DOMAIN LiveCandidates(answers[p], max) # {}}
           first == CHOOSE p \in found : \A q \in found : p <= q
<1>1. found # {} /\ SearchLiveProducts(live, max) = LiveCandidates(answers[first], max)
  BY DEF SearchLiveProducts
<1>2. first \in found
  <2>1. found \in SUBSET Nat
    OBVIOUS
  <2> HIDE DEF found
  <2> QED
    BY <1>1, <2>1, NatMin
<1>3. /\ DOMAIN live.tavily \subseteq Nat /\ DOMAIN live.brave \subseteq Nat
      /\ DOMAIN open \subseteq Nat
  <2>1. DOMAIN open \subseteq Nat
    BY PlanAssumption DEF OpenSourceSearch
  <2> QED
    BY <2>1, PlanAssumption
<1>4. \A p \in DOMAIN answers :
        /\ DOMAIN answers[p] \subseteq Nat
        /\ \A i \in DOMAIN answers[p] : Normalize(answers[p][i]) \in Plans
  <2> SUFFICES ASSUME NEW items \in {live.tavily, live.brave, open}
               PROVE  /\ DOMAIN items \subseteq Nat
                      /\ \A i \in DOMAIN items : Normalize(items[i]) \in Plans
    OBVIOUS
  <2>1. \A i \in DOMAIN items : items[i] \in LiveItems
    BY DEF LiveItems
  <2> QED
    BY <1>3, <2>1 DEF Plans
<1> DEFINE items == answers[first]
<1>5. DOMAIN LiveCandidates(items, max) # {} /\ first \in DOMAIN answers
  BY <1>2
<1> HIDE DEF first, answers, found, items
<1>6. Within(LiveCandidates(items, max), max)
  BY <1>4, <1>5 DEF Within, LiveCandidates, items
<1> QED
  BY <1>1, <1>6 DEF items

(* The cheapest candidate is one of them *)
LEMMA SelectedWithin ==
  ASSUME NEW candidates, NEW max \in Int, Within(candidates, max)
  PROVE  /\ Selected(candidates) \in Plans
         /\ 0 < Selected(candidates).amount /\ Selected(candidates).amount <= max
<1> DEFINE dom == DOMAIN candidates
           cheapest(i) == \A j \in dom :
             \/ candidates[i].amount < candidates[j].amount
             \/ candidates[i].amount = candidates[j].amount /\ i <= j
           amounts == {candidates[i].amount : i \in dom}
<1>1. \A i \in dom : candidates[i].amount \in Nat /\ i \in Nat
  BY PlanAmounts DEF Within
<1>2. PICK m \in amounts : \A y \in amounts : m <= y
  <2>1. amounts \in SUBSET Nat /\ amounts # {}
    BY <1>1 DEF Within
  <2> HIDE DEF amounts
  <2> QED
    BY <2>1, NatMin
<1> DEFINE at == {i \in dom : candidates[i].amount = m}
<1>3. PICK k \in at : \A y \in at : k <= y
  <2>1. at \in SUBSET Nat /\ at # {}
    BY <1>1, <1>2
  <2> HIDE DEF at
  <2> QED
    BY <2>1, NatMin
<1>4. k \in dom /\ cheapest(k)
  <2>1. k \in dom /\ candidates[k].amount = m
    BY <1>3
  <2> SUFFICES ASSUME NEW j \in dom
               PROVE  \/ candidates[k].amount < candidates[j].amount
                      \/ candidates[k].amount = candidates[j].amount /\ k <= j
    BY <2>1
  <2>2. m <= candidates[j].amount /\ m \in Nat /\ candidates[j].amount \in Nat
    BY <1>1, <1>2
  <2>3. candidates[j].amount = m => k <= j
    BY <1>3
  <2> QED
    BY <2>1, <2>2, <2>3
<1> DEFINE chosen == CHOOSE i \in dom : cheapest(i)
<1>5. chosen \in dom
  <2> HIDE DEF cheapest
  <2> QED
    BY <1>4, Zenon
<1>6. Selected(candidates) = candidates[chosen]
  BY DEF Selected
<1> HIDE DEF chosen
<1> QED
  BY <1>5, <1>6 DEF Within

--------------------------------------------------------------------------------

LEMMA PlanInitInv ==
  ASSUME requests = [r \in Requests |-> Unborn], consumed = {}, commits = <<>>
  PROVE  PlanInv
<1>1. requests \in [Requests -> {Unborn, Forgotten, Rejected} \cup Planned]
  OBVIOUS
<1>2. Unborn \notin Planned
  BY DEF Unborn, Planned
<1>3. commits \in Seq(Commit) /\ DOMAIN commits = {}
  OBVIOUS
<1> QED
  BY <1>1, <1>2, <1>3 DEF PlanInv, CommitOnce

(* A request is in one of four shapes, and only one of them has a plan *)
LEMMA PlanShapes ==
  /\ Unborn # Forgotten /\ Unborn # Rejected /\ Forgotten # Rejected
  /\ Unborn \notin Planned /\ Forgotten \notin Planned /\ Rejected \notin Planned
<1>1. Unborn.status # Forgotten.status /\ Unborn.status # Rejected.status
      /\ Forgotten.status # Rejected.status
  BY DEF Unborn, Forgotten, Rejected
<1>2. \A x \in Planned : x.status \notin {Unborn.status, Forgotten.status, Rejected.status}
  BY DEF Unborn, Forgotten, Rejected, Planned
<1> QED
  BY <1>1, <1>2

LEMMA PlanOfRequest ==
  ASSUME PlanInv, NEW r \in Requests
  PROVE  HasPlan(r) <=> requests[r] \in Planned
<1>1. requests[r] \in {Unborn, Forgotten, Rejected} \cup Planned
  BY DEF PlanInv
<1> QED
  BY <1>1 DEF HasPlan, Unborn, Forgotten, Rejected, Planned

(* A new request changes no plan there is *)
LEMMA CreateStep ==
  ASSUME PlanInv, NEW r \in Requests, NEW prompt \in Prompts, NEW live \in LiveAnswers,
         NEW again \in LiveAnswers, CreateAgentRequest(r, prompt, live, again)
  PROVE  PlanInv'
<1> DEFINE intent == ExtractIntent(prompt)
           candidates == Found(live, again, intent)
           new == Decision(intent, candidates)
<1>1. intent.max \in Int /\ intent.confirm \in BOOLEAN
  <2> DEFINE limit == IF prompt.limited THEN 100 * prompt.limit ELSE 20000
             max == IF prompt.kind = "exceed budget" THEN 10000000 ELSE limit
  <2>1. limit \in Int
    BY PlanAssumption, SMT
  <2>2. max \in Int
    <3> HIDE DEF limit
    <3> QED
      BY <2>1, SMT
  <2>3. intent = [max |-> max, confirm |-> prompt.kind # "do not purchase"]
    BY SMT DEF ExtractIntent
  <2> HIDE DEF max, intent
  <2> QED
    BY <2>2, <2>3
<1>2. requests[r] = Unborn /\ requests' = [requests EXCEPT ![r] = new]
      /\ UNCHANGED <<consumed, commits>>
  BY DEF CreateAgentRequest
<1> HIDE DEF intent
<1>3. candidates # <<>> => Within(candidates, intent.max)
  BY <1>1, SearchWithin DEF Found
<1>4. \/ new = Rejected
      \/ new \in Planned /\ 0 < new.plan.amount /\ new.plan.amount <= new.max
  <2> HIDE DEF candidates
  <2>1. CASE candidates = <<>>
    BY <2>1 DEF Decision, Rejected
  <2>2. CASE candidates # <<>>
    <3> DEFINE plan == Selected(candidates)
    <3>1. plan \in Plans /\ 0 < plan.amount /\ plan.amount <= intent.max
      BY <2>2, <1>1, <1>3, SelectedWithin
    <3>2. new = [status |-> IF intent.confirm THEN "AWAITING_CONFIRMATION" ELSE "PLANNING",
                 plan |-> plan, confirm |-> intent.confirm, max |-> intent.max]
      BY <2>2 DEF Decision
    <3> HIDE DEF plan, new
    <3> QED
      BY <3>1, <3>2, <1>1 DEF Planned
  <2> QED
    BY <2>1, <2>2
<1> HIDE DEF new
<1>5. /\ requests' \in [Requests -> {Unborn, Forgotten, Rejected} \cup Planned]
      /\ requests'[r] = new
      /\ \A q \in Requests : q # r => requests'[q] = requests[q]
  BY <1>2, <1>4 DEF PlanInv
<1>6. \A q \in Requests :
        requests'[q] \in Planned =>
          0 < requests'[q].plan.amount /\ requests'[q].plan.amount <= requests'[q].max
  BY <1>4, <1>5, PlanShapes DEF PlanInv
<1>7. \A i \in DOMAIN commits : commits[i].request \in Requests /\ commits[i].request # r
  <2> SUFFICES ASSUME NEW i \in DOMAIN commits
               PROVE  commits[i].request \in Requests /\ commits[i].request # r
    OBVIOUS
  <2>1. commits[i] \in Commit
    BY DEF PlanInv
  <2>2. commits[i].request \in Requests
    BY <2>1 DEF Commit
  <2> QED
    BY <2>2, <1>2, PlanShapes DEF PlanInv
<1>8. \A i \in DOMAIN commits' :
       LET q == commits'[i].request
       IN \/ requests'[q] = Forgotten
          \/ /\ requests'[q] \in Planned
             /\ requests'[q].confirm = commits'[i].confirm
             /\ commits'[i].confirm => Token(q, requests'[q].plan) \in consumed'
  BY <1>2, <1>5, <1>7 DEF PlanInv
<1> QED
  BY <1>2, <1>5, <1>6, <1>8 DEF PlanInv, CommitOnce

(* A confirmation: the token of a plan that asks for one is used up *)
LEMMA ConfirmStep ==
  ASSUME PlanInv, NEW r \in Requests, NEW token \in OfferedTokens, ConfirmAgentRequest(r, token)
  PROVE  PlanInv'
<1> DEFINE old == requests[r]
           mine == Token(r, old.plan)
           n == Len(commits) + 1
           new == [request |-> r, token |-> token, amount |-> old.plan.amount,
                   max |-> old.max, confirm |-> old.confirm]
<1>1. old \in Planned /\ 0 < old.plan.amount /\ old.plan.amount <= old.max
  BY PlanOfRequest DEF ConfirmAgentRequest, PlanInv
<1>2. requests' = [requests EXCEPT ![r].status = "COMMITTED"] /\ commits' = Append(commits, new)
  BY DEF ConfirmAgentRequest
<1>3. /\ requests'[r] \in Planned /\ requests'[r].plan = old.plan
      /\ requests'[r].confirm = old.confirm /\ requests'[r].max = old.max
      /\ requests' \in [Requests -> {Unborn, Forgotten, Rejected} \cup Planned]
      /\ \A q \in Requests : q # r => requests'[q] = requests[q]
  <2> DEFINE now2 == [old EXCEPT !.status = "COMMITTED"]
  <2>1. /\ now2 \in Planned /\ now2.plan = old.plan /\ now2.confirm = old.confirm
        /\ now2.max = old.max
    <3> HIDE DEF old
    <3> QED
      BY <1>1 DEF Planned
  <2>2. requests' = [requests EXCEPT ![r] = now2]
    BY <1>2
  <2> HIDE DEF now2
  <2> QED
    BY <2>1, <2>2 DEF PlanInv
<1>4. token \in Tokens
  <2>1. CASE token = NoToken
    BY <2>1 DEF Tokens
  <2>2. CASE token # NoToken
    <3>1. PICK q \in Requests : HasPlan(q) /\ token = Token(q, requests[q].plan)
      BY <2>2 DEF OfferedTokens
    <3>2. requests[q].plan \in Plans
      BY <3>1, PlanOfRequest DEF Planned
    <3> QED
      BY <3>1, <3>2 DEF Tokens
  <2> QED
    BY <2>1, <2>2
<1>5. new \in Commit
  <2>1. old.plan \in Plans /\ old.max \in Int /\ old.confirm \in BOOLEAN
    BY <1>1 DEF Planned
  <2>2. old.plan.amount \in Int
    BY <2>1, PlanAmounts
  <2> HIDE DEF old
  <2> QED
    BY <2>1, <2>2, <1>4 DEF Commit
<1>6. /\ consumed \subseteq consumed'
      /\ old.confirm => mine \notin consumed /\ mine \in consumed' /\ token = mine
  BY <1>1 DEF ConfirmAgentRequest, ExecutionBoundary, VerifyAndConsumeToken
<1>7. /\ commits' \in Seq(Commit) /\ DOMAIN commits' = DOMAIN commits \cup {n}
      /\ n \notin DOMAIN commits /\ commits'[n] = new
      /\ \A i \in DOMAIN commits : commits'[i] = commits[i]
  <2> HIDE DEF new
  <2> QED
    BY <1>2, <1>5 DEF PlanInv
<1>8. new.request = r /\ new.confirm = old.confirm /\ new.token = token
      /\ new.amount = old.plan.amount /\ new.max = old.max
  OBVIOUS
<1>9. \A i \in DOMAIN commits :
        /\ commits[i].request \in Requests
        /\ commits[i].request = r =>
             commits[i].confirm = old.confirm /\ ~commits[i].confirm
  <2> SUFFICES ASSUME NEW i \in DOMAIN commits
               PROVE  /\ commits[i].request \in Requests
                      /\ commits[i].request = r =>
                           commits[i].confirm = old.confirm /\ ~commits[i].confirm
    OBVIOUS
  <2>1. commits[i] \in Commit
    BY DEF PlanInv
  <2>2. commits[i].request \in Requests /\ commits[i].confirm \in BOOLEAN
    BY <2>1 DEF Commit
  <2>3. ASSUME commits[i].request = r
        PROVE  commits[i].confirm = old.confirm
               /\ (commits[i].confirm => mine \in consumed)
    BY <2>3, <1>1, PlanShapes DEF PlanInv
  <2> QED
    BY <2>2, <2>3, <1>6
<1> HIDE DEF new, n, old
<1>10. \A q \in Requests :
         requests'[q] \in Planned =>
           0 < requests'[q].plan.amount /\ requests'[q].plan.amount <= requests'[q].max
  BY <1>1, <1>3 DEF PlanInv
<1>11. ASSUME NEW i \in DOMAIN commits'
       PROVE  LET q == commits'[i].request
              IN \/ requests'[q] = Forgotten
                 \/ /\ requests'[q] \in Planned
                    /\ requests'[q].confirm = commits'[i].confirm
                    /\ commits'[i].confirm => Token(q, requests'[q].plan) \in consumed'
  <2>1. CASE i = n
    BY <2>1, <1>3, <1>6, <1>7, <1>8
  <2>2. CASE i \in DOMAIN commits /\ commits[i].request = r
    BY <2>2, <1>3, <1>7, <1>9
  <2>3. CASE i \in DOMAIN commits /\ commits[i].request # r
    <3>1. requests'[commits[i].request] = requests[commits[i].request]
      BY <2>3, <1>3, <1>9
    <3> QED
      BY <2>3, <3>1, <1>6, <1>7 DEF PlanInv
  <2> QED
    BY <2>1, <2>2, <2>3, <1>7
<1>12. \A i, j \in DOMAIN commits' :
         commits'[i].confirm /\ commits'[i].request = commits'[j].request => i = j
  <2> SUFFICES ASSUME NEW i \in DOMAIN commits', NEW j \in DOMAIN commits', i # j,
                      commits'[i].confirm, commits'[i].request = commits'[j].request
               PROVE  FALSE
    OBVIOUS
  <2>1. CASE i = n
    <3>1. j \in DOMAIN commits /\ commits[j].request = r /\ old.confirm
      BY <2>1, <1>7, <1>8
    <3> QED
      BY <3>1, <1>9
  <2>2. CASE j = n
    <3>1. i \in DOMAIN commits /\ commits[i].request = r /\ commits[i].confirm
      BY <2>2, <1>7, <1>8
    <3> QED
      BY <3>1, <1>9
  <2>3. CASE i \in DOMAIN commits /\ j \in DOMAIN commits
    BY <2>3, <1>7 DEF PlanInv, CommitOnce
  <2> QED
    BY <2>1, <2>2, <2>3, <1>7
<1>13. \A i \in DOMAIN commits' :
         /\ 0 < commits'[i].amount /\ commits'[i].amount <= commits'[i].max
         /\ commits'[i].confirm => commits'[i].token[2] = commits'[i].request
  <2>1. old.confirm => token[2] = r
    BY <1>6 DEF Token
  <2> SUFFICES ASSUME NEW i \in DOMAIN commits'
               PROVE  /\ 0 < commits'[i].amount /\ commits'[i].amount <= commits'[i].max
                      /\ commits'[i].confirm => commits'[i].token[2] = commits'[i].request
    OBVIOUS
  <2>2. CASE i = n
    BY <2>1, <2>2, <1>1, <1>7, <1>8
  <2>3. CASE i \in DOMAIN commits
    BY <2>3, <1>7 DEF PlanInv, CommitOnce
  <2> QED
    BY <2>2, <2>3, <1>7
<1> QED
  BY <1>3, <1>7, <1>10, <1>11, <1>12, <1>13 DEF PlanInv, CommitOnce

LEMMA PlanStepInv == PlanInv /\ (PlanNext \/ UNCHANGED planVars) => PlanInv'
<1> SUFFICES ASSUME PlanInv, PlanNext \/ UNCHANGED planVars PROVE PlanInv'
  OBVIOUS
<1>1. CASE PlanRestart
  <2>1. /\ requests' = [r \in Requests |-> IF requests[r] = Unborn THEN Unborn ELSE Forgotten]
        /\ commits' = commits
    BY <1>1 DEF PlanRestart
  <2>2. \A r \in Requests : requests'[r] \in {Unborn, Forgotten}
    BY <2>1
  <2>3. requests' \in [Requests -> {Unborn, Forgotten, Rejected} \cup Planned]
    BY <2>1
  <2>4. \A i \in DOMAIN commits : requests'[commits[i].request] = Forgotten
    <3> SUFFICES ASSUME NEW i \in DOMAIN commits
                 PROVE  requests'[commits[i].request] = Forgotten
      OBVIOUS
    <3>1. commits[i] \in Commit
      BY DEF PlanInv
    <3>2. commits[i].request \in Requests
      BY <3>1 DEF Commit
    <3>3. requests[commits[i].request] # Unborn
      BY PlanShapes DEF PlanInv
    <3> QED
      BY <2>1, <3>2, <3>3
  <2> QED
    BY <2>1, <2>2, <2>3, <2>4, PlanShapes DEF PlanInv, CommitOnce
<1>2. CASE UNCHANGED planVars
  BY <1>2 DEF planVars, PlanInv, CommitOnce
<1> QED
  BY <1>1, <1>2, CreateStep, ConfirmStep DEF PlanNext
--------------------------------------------------------------------------------

(* Merchants, credentials and calls *)

CredentialType ==
  [status : {"ACTIVE", "REVOKED"}, shop : {g.shop : g \in Grants} \cup {"mer_default"},
   scopes : {g.scopes : g \in Grants} \cup {"*"}, expires : Nat, used : BOOLEAN]

CallType ==
  [pc : {"lookup", "verify", "endpoint", "refuse", "served"}, key : ApiKeys,
   want : Shops \cup {Operator}, barred : BOOLEAN, seen : {NoCredential} \cup CredentialType]

AccessTypeOK ==
  /\ client \in ApiKeys
  /\ database \in {"none", "up", "down"}
  /\ policyRows \in [Shops -> Nat] /\ accepted \in [Shops -> Nat] /\ kept \in [Shops -> Nat]
  /\ credentials \in [KeyPrefixes -> {NoCredential} \cup CredentialType]
  /\ calls \in [Calls -> {NotCalled} \cup CallType]
  /\ clock \in Nat

(* With a database, a policy that was accepted is the row there is *)
PolicyInv ==
  \A s \in Shops :
    /\ Configured /\ accepted[s] # 0 => policyRows[s] = accepted[s]
    /\ s \in merchantRows => policyRows[s] # 0

RevokedInv ==
  \A p \in revoked :
    p \in KeyPrefixes /\ credentials[p] \in CredentialType /\ credentials[p].status = "REVOKED"

(* The row a call has seen and the row there is differ at most in their    *)
(* status and last use.                                                    *)
SameGrant(seen, row) ==
  /\ row \in CredentialType /\ seen \in CredentialType
  /\ row.shop = seen.shop /\ row.scopes = seen.scopes /\ row.expires = seen.expires

(* Where a call stands, what it has seen is what its key was granted, and  *)
(* a call that must not be served meets a revoked or an expired row.       *)
CallOk(c) ==
  LET call1 == calls[c]
      p == calls[c].key.prefix
  IN /\ call1.pc = "lookup" /\ call1.barred => Barred(p)
     /\ call1.pc # "lookup" =>
          call1.seen = NoCredential \/ SameGrant(call1.seen, credentials[p])
     /\ call1.pc = "verify" /\ call1.barred /\ call1.seen # NoCredential =>
          call1.seen.status = "REVOKED" \/ call1.seen.expires < clock
     /\ call1.pc \in {"endpoint", "served"} =>
          call1.seen # NoCredential /\ call1.key.genuine /\ ~call1.barred
     /\ call1.pc = "served" => MayAccess(call1.seen, call1.want)

CallInv == Configured => \A c \in Calls : calls[c] \in CallType => CallOk(c)

AccessInv == AccessTypeOK /\ PolicyInv /\ RevokedInv /\ CallInv

(* What no step undoes: a credential keeps its grant, a revocation stands, *)
(* time does not go back and a database is there or it is not.             *)
Onward ==
  /\ \A p \in KeyPrefixes :
       credentials[p] \in CredentialType => SameGrant(credentials[p], credentials'[p])
  /\ revoked \subseteq revoked'
  /\ clock <= clock' /\ clock' \in Nat
  /\ Configured' <=> Configured

LEMMA CallShapes == NotCalled \notin CallType /\ NoCredential \notin CredentialType
  BY DEF NotCalled, CallType, NoCredential, CredentialType

LEMMA NothingMoved ==
  ASSUME AccessInv, UNCHANGED <<credentials, revoked, clock, database>>
  PROVE  Onward
  BY DEF AccessInv, AccessTypeOK, Onward, SameGrant, Configured

(* A call that does not move stays as it should be *)
LEMMA CallKept ==
  ASSUME AccessInv, Onward, Configured, NEW c \in Calls,
         calls'[c] = calls[c], calls[c] \in CallType
  PROVE  CallOk(c)'
<1> DEFINE call1 == calls[c]
           p == calls[c].key.prefix
<1>1. CallOk(c) /\ p \in KeyPrefixes
  BY DEF AccessInv, CallInv, KeyPrefixes, CallType
<1>2. Barred(p) => Barred(p)'
  <2>1. ASSUME p \in revoked PROVE Barred(p)'
    BY <2>1 DEF Onward, Barred
  <2>2. ASSUME credentials[p] # NoCredential, credentials[p].expires < clock
        PROVE  Barred(p)'
    <3>1. SameGrant(credentials[p], credentials'[p])
      BY <1>1, <2>2 DEF AccessInv, AccessTypeOK, Onward
    <3>2. credentials'[p] # NoCredential /\ credentials'[p].expires < clock'
      <4>1. credentials[p].expires \in Nat /\ credentials'[p].expires = credentials[p].expires
        BY <3>1 DEF SameGrant, CredentialType
      <4> QED
        BY <3>1, <4>1, <2>2, CallShapes DEF Onward, AccessInv, AccessTypeOK, SameGrant
    <3> QED
      BY <3>2 DEF Barred
  <2> QED
    BY <2>1, <2>2 DEF Barred
<1>3. ASSUME SameGrant(call1.seen, credentials[p])
      PROVE  SameGrant(call1.seen, credentials'[p])
  <2>1. SameGrant(credentials[p], credentials'[p])
    BY <1>1, <1>3 DEF Onward, SameGrant
  <2> QED
    BY <1>3, <2>1 DEF SameGrant
<1>4. call1.seen # NoCredential => call1.seen.expires \in Nat
  BY DEF CallType, CredentialType
<1>5. call1.seen # NoCredential /\ call1.seen.expires < clock => call1.seen.expires < clock'
  BY <1>4 DEF Onward, AccessInv, AccessTypeOK
<1>6. calls'[c] = call1 /\ calls'[c].key.prefix = p
  OBVIOUS
<1>7. MayAccess(call1.seen, call1.want) => MayAccess(calls'[c].seen, calls'[c].want)
  BY <1>6
<1> QED
  BY <1>1, <1>2, <1>3, <1>5, <1>6 DEF CallOk, MayAccess, OperatorPrincipal,
     ValidateMerchantAccess
--------------------------------------------------------------------------------

(* One call moves, the others stay *)
LEMMA OneCallMoves ==
  ASSUME AccessInv, Onward, NEW c \in Calls,
         \A d \in Calls : d # c => calls'[d] = calls[d],
         Configured /\ calls'[c] \in CallType => CallOk(c)'
  PROVE  CallInv'
<1> SUFFICES ASSUME Configured, NEW d \in Calls, calls'[d] \in CallType
             PROVE  CallOk(d)'
  BY DEF CallInv, Onward
<1>1. CASE d = c
  BY <1>1
<1>2. CASE d # c
  BY <1>2, CallKept
<1> QED
  BY <1>1, <1>2

(* Nor does any call when other parts of the state do *)
LEMMA NoCallMoves ==
  ASSUME AccessInv, Onward, UNCHANGED calls
  PROVE  CallInv'
<1> SUFFICES ASSUME Configured, NEW d \in Calls, calls'[d] \in CallType
             PROVE  CallOk(d)'
  BY DEF CallInv, Onward
<1> QED
  BY CallKept

(* A call ends, or moves on with its credential row unwritten *)
LEMMA CallEndsInv ==
  ASSUME AccessInv, NEW c \in Calls, EndCall(c),
         UNCHANGED <<client, database, kept, merchantRows, policyRows, credentials, clock,
                     accepted, revoked>>
  PROVE  AccessInv'
<1>1. Onward
  BY NothingMoved
<1>2. /\ calls' \in [Calls -> {NotCalled} \cup CallType] /\ calls'[c] = NotCalled
      /\ \A d \in Calls : d # c => calls'[d] = calls[d]
  BY DEF EndCall, AccessInv, AccessTypeOK
<1>3. CallInv'
  BY <1>1, <1>2, OneCallMoves, CallShapes
<1> QED
  BY <1>2, <1>3 DEF AccessInv, AccessTypeOK, PolicyInv, RevokedInv, Configured

LEMMA CallMovesInv ==
  ASSUME AccessInv, NEW c \in Calls, NEW next \in CallType,
         calls' = [calls EXCEPT ![c] = next],
         Configured => CallOk(c)',
         UNCHANGED <<client, database, kept, merchantRows, policyRows, credentials, clock,
                     accepted, revoked>>
  PROVE  AccessInv'
<1>1. Onward
  BY NothingMoved
<1>2. /\ calls' \in [Calls -> {NotCalled} \cup CallType]
      /\ \A d \in Calls : d # c => calls'[d] = calls[d]
  BY DEF AccessInv, AccessTypeOK
<1>3. CallInv'
  BY <1>1, <1>2, OneCallMoves
<1> QED
  BY <1>2, <1>3 DEF AccessInv, AccessTypeOK, PolicyInv, RevokedInv, Configured

LEMMA CallAt ==
  ASSUME AccessInv, NEW c \in Calls, calls[c].pc # "idle"
  PROVE  /\ calls[c] \in CallType /\ calls[c].key.prefix \in KeyPrefixes
         /\ Configured => CallOk(c)
<1>1. calls[c] \in CallType
  BY DEF AccessInv, AccessTypeOK, NotCalled
<1> QED
  BY <1>1 DEF AccessInv, CallInv, CallType, KeyPrefixes

LEMMA ArriveInv ==
  ASSUME AccessInv, NEW c \in Calls, NEW want \in Shops \cup {Operator},
         Arrive(c, client, want),
         UNCHANGED <<client, database, kept, merchantRows, policyRows, clock, accepted, revoked>>
  PROVE  AccessInv'
<1>1. UNCHANGED credentials
  BY DEF Arrive
<1>2. CASE UNCHANGED calls
  <2>1. CallInv'
    BY <1>1, <1>2, NothingMoved, NoCallMoves
  <2> QED
    BY <1>1, <1>2, <2>1 DEF AccessInv, AccessTypeOK, PolicyInv, RevokedInv, Configured
<1> DEFINE next == [pc |-> "lookup", key |-> client, want |-> want,
                    barred |-> Barred(client.prefix), seen |-> NoCredential]
<1>3. CASE calls' = [calls EXCEPT ![c] = next]
  <2>1. next \in CallType
    <3>1. Barred(client.prefix) \in BOOLEAN /\ client \in ApiKeys
      BY DEF Barred, AccessInv, AccessTypeOK
    <3> QED
      BY <3>1 DEF CallType
  <2>2. calls'[c] = next
    BY <1>3 DEF AccessInv, AccessTypeOK
  <2>3. CallOk(c)'
    <3>1. /\ calls'[c].pc = "lookup" /\ calls'[c].barred = Barred(client.prefix)
          /\ calls'[c].key.prefix = client.prefix
      BY <2>2
    <3> QED
      BY <1>1, <3>1 DEF CallOk, Barred
  <2> HIDE DEF next
  <2> QED
    BY <1>1, <1>3, <2>1, <2>3, CallMovesInv
<1> QED
  BY <1>2, <1>3 DEF Arrive

LEMMA LookupInv ==
  ASSUME AccessInv, NEW c \in Calls, Lookup(c),
         UNCHANGED <<client, database, kept, merchantRows, policyRows, clock, accepted, revoked>>
  PROVE  AccessInv'
<1>1. UNCHANGED credentials /\ calls[c].pc = "lookup" /\ Configured
  BY DEF Lookup, At
<1>2. CASE EndCall(c)
  BY <1>1, <1>2, CallEndsInv
<1> DEFINE p == calls[c].key.prefix
           next == [calls[c] EXCEPT !.pc = "verify", !.seen = credentials[p]]
<1>3. CASE calls' = [calls EXCEPT ![c].pc = "verify", ![c].seen = CredentialByPrefix(calls[c].key)]
  <2>1. calls[c] \in CallType /\ p \in KeyPrefixes /\ CallOk(c)
    BY <1>1, CallAt
  <2>2. credentials[p] \in {NoCredential} \cup CredentialType
    BY <2>1 DEF AccessInv, AccessTypeOK
  <2>3. /\ next \in CallType /\ next.pc = "verify" /\ next.seen = credentials[p]
        /\ next.key = calls[c].key /\ next.barred = calls[c].barred
    BY <2>1, <2>2 DEF CallType
  <2>4. calls' = [calls EXCEPT ![c] = next]
    BY <1>3 DEF CredentialByPrefix
  <2>5. calls'[c] = next
    BY <2>4 DEF AccessInv, AccessTypeOK
  <2>6. calls[c].barred => Barred(p)
    BY <1>1, <2>1 DEF CallOk
  <2>7. calls[c].barred /\ credentials[p] # NoCredential =>
          credentials[p].status = "REVOKED" \/ credentials[p].expires < clock
    BY <2>6 DEF Barred, AccessInv, RevokedInv
  <2>8. credentials[p] # NoCredential => SameGrant(credentials[p], credentials[p])
    BY <2>2 DEF SameGrant
  <2> HIDE DEF next
  <2>9. CallOk(c)'
    BY <1>1, <2>3, <2>5, <2>7, <2>8 DEF CallOk
  <2> QED
    BY <1>1, <2>3, <2>4, <2>9, CallMovesInv
<1> QED
  BY <1>2, <1>3 DEF Lookup

LEMMA LookupWithoutDatabaseInv ==
  ASSUME AccessInv, NEW c \in Calls, LookupWithoutDatabase(c),
         UNCHANGED <<client, database, kept, merchantRows, policyRows, clock, accepted, revoked>>
  PROVE  AccessInv'
<1>1. UNCHANGED credentials /\ calls[c].pc = "lookup" /\ ~Configured
  BY DEF LookupWithoutDatabase, At
<1> DEFINE place == IF calls[c].key.shaped THEN "endpoint" ELSE "refuse"
           next == [calls[c] EXCEPT !.pc = place, !.seen = DevFallback]
<1>2. DevFallback \in CredentialType
  BY AccessAssumption DEF DevFallback, CredentialRow, CredentialType, Never
<1>3. next \in CallType
  <2>1. calls[c] \in CallType /\ place \in {"endpoint", "refuse"}
    BY <1>1, CallAt
  <2> HIDE DEF place
  <2> QED
    BY <1>2, <2>1 DEF CallType
<1>4. calls' = [calls EXCEPT ![c] = next]
  BY DEF LookupWithoutDatabase
<1> HIDE DEF next
<1> QED
  BY <1>1, <1>3, <1>4, CallMovesInv
--------------------------------------------------------------------------------

(* The one step of a call that writes its credential: the last use *)
LEMMA AuthenticateInv ==
  ASSUME AccessInv, NEW c \in Calls, AuthenticateWithUow(c),
         UNCHANGED <<client, database, kept, merchantRows, policyRows, clock, accepted, revoked>>
  PROVE  AccessInv'
<1>1. calls[c].pc = "verify"
  BY DEF AuthenticateWithUow, At
<1> DEFINE p == calls[c].key.prefix
           old == calls[c]
<1>2. old \in CallType /\ p \in KeyPrefixes /\ (Configured => CallOk(c))
  BY <1>1, CallAt
<1>3. ASSUME EndCall(c), UNCHANGED credentials PROVE AccessInv'
  BY <1>3, CallEndsInv
<1>4. ASSUME Goes(c, "refuse"), UNCHANGED credentials PROVE AccessInv'
  <2> DEFINE next == [old EXCEPT !.pc = "refuse"]
  <2>1. /\ next \in CallType /\ next.pc = "refuse" /\ next.seen = old.seen
        /\ next.key = old.key
    <3> HIDE DEF old
    <3> QED
      BY <1>2 DEF CallType
  <2>2. calls' = [calls EXCEPT ![c] = next]
    BY <1>4 DEF Goes
  <2>3. calls'[c] = next
    BY <2>2 DEF AccessInv, AccessTypeOK
  <2> HIDE DEF next
  <2>4. Configured => CallOk(c)'
    BY <1>1, <1>2, <1>4, <2>1, <2>3 DEF CallOk
  <2> QED
    BY <1>4, <2>1, <2>2, <2>4, CallMovesInv
<1>5. ASSUME database = "up", Verified(c), Goes(c, "endpoint"),
             credentials' = UpdateLastUsed(c)
      PROVE  AccessInv'
  <2>1. Configured /\ CallOk(c)
    BY <1>2, <1>5 DEF Configured
  <2>2. old.seen.status = "ACTIVE" /\ old.seen.expires >= clock /\ old.key.genuine
    BY <1>5 DEF Verified
  <2>3. old.seen # NoCredential
    BY <2>2 DEF NoCredential
  <2>4. SameGrant(old.seen, credentials[p])
    BY <1>1, <2>1, <2>3 DEF CallOk
  <2>5. ~old.barred
    <3>1. old.seen.expires \in Nat /\ clock \in Nat
      BY <2>4 DEF SameGrant, CredentialType, AccessInv, AccessTypeOK
    <3> QED
      BY <1>1, <2>1, <2>2, <2>3, <3>1 DEF CallOk
  <2> DEFINE row == [credentials[p] EXCEPT !.used = TRUE]
  <2>6. SameGrant(credentials[p], row) /\ row.status = credentials[p].status
    BY <2>4 DEF SameGrant, CredentialType
  <2>7. credentials' = [credentials EXCEPT ![p] = row]
    BY <1>5 DEF UpdateLastUsed
  <2> HIDE DEF row
  <2>8. /\ credentials' \in [KeyPrefixes -> {NoCredential} \cup CredentialType]
        /\ credentials'[p] = row
        /\ \A q \in KeyPrefixes : q # p => credentials'[q] = credentials[q]
    BY <1>2, <2>6, <2>7 DEF AccessInv, AccessTypeOK, SameGrant
  <2>9. Onward
    <3>1. \A q \in KeyPrefixes :
            credentials[q] \in CredentialType => SameGrant(credentials[q], credentials'[q])
      BY <2>6, <2>8 DEF SameGrant
    <3> QED
      BY <3>1 DEF Onward, Configured, AccessInv, AccessTypeOK
  <2>10. RevokedInv'
    BY <2>6, <2>8 DEF AccessInv, RevokedInv, SameGrant
  <2> DEFINE next == [old EXCEPT !.pc = "endpoint"]
  <2>11. /\ next \in CallType /\ next.pc = "endpoint" /\ next.seen = old.seen
         /\ next.key = old.key /\ next.barred = old.barred
    <3> HIDE DEF old
    <3> QED
      BY <1>2 DEF CallType
  <2>12. calls' = [calls EXCEPT ![c] = next]
    BY <1>5 DEF Goes
  <2> HIDE DEF next
  <2>13. /\ calls' \in [Calls -> {NotCalled} \cup CallType] /\ calls'[c] = next
         /\ \A d \in Calls : d # c => calls'[d] = calls[d]
    BY <2>11, <2>12 DEF AccessInv, AccessTypeOK
  <2>14. SameGrant(old.seen, credentials'[p])
    BY <2>4, <2>6, <2>8 DEF SameGrant
  <2>15. CallOk(c)'
    BY <2>2, <2>3, <2>5, <2>11, <2>13, <2>14 DEF CallOk
  <2>16. CallInv'
    BY <2>9, <2>13, <2>15, OneCallMoves
  <2> QED
    BY <2>8, <2>10, <2>13, <2>16 DEF AccessInv, AccessTypeOK, PolicyInv, Configured
<1> QED
  BY <1>3, <1>4, <1>5 DEF AuthenticateWithUow

LEMMA EndpointInv ==
  ASSUME AccessInv, NEW c \in Calls, Endpoint(c),
         UNCHANGED <<client, database, kept, merchantRows, policyRows, clock, accepted, revoked>>
  PROVE  AccessInv'
<1>1. calls[c].pc = "endpoint" /\ UNCHANGED credentials
  BY DEF Endpoint, At
<1>2. CASE EndCall(c)
  BY <1>1, <1>2, CallEndsInv
<1> DEFINE old == calls[c]
           next == [old EXCEPT !.pc = "served"]
<1>3. CASE Goes(c, "served") /\ MayAccess(old.seen, old.want)
  <2>1. old \in CallType /\ (Configured => CallOk(c))
    BY <1>1, CallAt
  <2>2. /\ next \in CallType /\ next.pc = "served" /\ next.seen = old.seen
        /\ next.key = old.key /\ next.barred = old.barred /\ next.want = old.want
    <3> HIDE DEF old
    <3> QED
      BY <2>1 DEF CallType
  <2>3. calls' = [calls EXCEPT ![c] = next]
    BY <1>3 DEF Goes
  <2> HIDE DEF next
  <2>4. calls'[c] = next
    BY <2>3 DEF AccessInv, AccessTypeOK
  <2>5. Configured => CallOk(c)'
    BY <1>1, <1>3, <2>1, <2>2, <2>4 DEF CallOk, MayAccess, OperatorPrincipal,
       ValidateMerchantAccess
  <2> QED
    BY <1>1, <2>2, <2>3, <2>5, CallMovesInv
<1> QED
  BY <1>2, <1>3 DEF Endpoint

LEMMA CallNextInv ==
  ASSUME AccessInv, CallNext, UNCHANGED client
  PROVE  AccessInv'
<1>1. UNCHANGED <<client, database, kept, merchantRows, policyRows, clock, accepted, revoked>>
  BY DEF CallNext
<1>2. ASSUME NEW c \in Calls, Refuse(c) \/ CallEnds(c) PROVE AccessInv'
  BY <1>1, <1>2, CallEndsInv DEF Refuse, CallEnds
<1> QED
  BY <1>1, <1>2, ArriveInv, LookupInv, LookupWithoutDatabaseInv, AuthenticateInv, EndpointInv
  DEF CallNext

(* Merchants and policies: the row follows what is accepted *)
LEMMA MerchantsInv ==
  ASSUME AccessInv, UNCHANGED client, NEW s \in Shops,
         CreateMerchant(s) \/ UpdateMerchantPolicy(s)
  PROVE  AccessInv'
<1>1. UNCHANGED <<database, credentials, calls, clock, revoked>>
  BY DEF CreateMerchant, UpdateMerchantPolicy
<1>2. CallInv' /\ RevokedInv'
  BY <1>1, NothingMoved, NoCallMoves DEF AccessInv, RevokedInv
<1>3. CASE CreateMerchant(s)
  <2>1. /\ policyRows' \in [Shops -> Nat] /\ accepted' \in [Shops -> Nat]
        /\ kept' \in [Shops -> Nat]
    BY <1>3 DEF CreateMerchant, PersistMerchant, AccessInv, AccessTypeOK
  <2>2. PolicyInv'
    <3>1. CASE database = "up"
      BY <1>1, <1>3, <3>1 DEF CreateMerchant, PersistMerchant, AccessInv, AccessTypeOK,
         PolicyInv, Configured
    <3>2. CASE database # "up"
      BY <1>1, <1>3, <3>2 DEF CreateMerchant, PersistMerchant, AccessInv, AccessTypeOK,
         PolicyInv, Configured
    <3> QED
      BY <3>1, <3>2
  <2> QED
    BY <1>1, <1>2, <2>1, <2>2 DEF AccessInv, AccessTypeOK
<1>4. CASE UpdateMerchantPolicy(s)
  <2>1. /\ policyRows' \in [Shops -> Nat] /\ accepted' \in [Shops -> Nat]
        /\ kept' \in [Shops -> Nat] /\ merchantRows' = merchantRows
    BY <1>4 DEF UpdateMerchantPolicy, AccessInv, AccessTypeOK
  <2>2. ~CreatePolicy(s)
    BY DEF CreatePolicy, PolicyRowFits, AccessInv, PolicyInv
  <2>3. policyRows' = policyRows
    BY <1>4, <2>2 DEF UpdateMerchantPolicy, AccessInv, AccessTypeOK
  <2>4. Configured => accepted' = accepted
    BY <1>4, <2>2 DEF UpdateMerchantPolicy, UpdateAccepted, AccessInv, AccessTypeOK
  <2>5. PolicyInv'
    BY <1>1, <2>1, <2>3, <2>4 DEF AccessInv, PolicyInv, Configured
  <2> QED
    BY <1>1, <1>2, <2>1, <2>5 DEF AccessInv, AccessTypeOK
<1> QED
  BY <1>3, <1>4

(* Credentials are granted once and revoked for good *)
LEMMA CredentialsInv ==
  ASSUME AccessInv, UNCHANGED client,
         \/ \E grant \in Grants : CreateMerchantCredential(grant)
         \/ \E q \in KeyPrefixes : RevokeCredential(q)
  PROVE  AccessInv'
<1>1. UNCHANGED <<database, kept, merchantRows, policyRows, calls, clock, accepted>>
  BY DEF CreateMerchantCredential, RevokeCredential
<1>2. PICK p \in KeyPrefixes, row \in CredentialType :
        /\ credentials' = [credentials EXCEPT ![p] = row]
        /\ credentials[p] \in CredentialType => SameGrant(credentials[p], row)
        /\ p \in revoked' => row.status = "REVOKED"
        /\ revoked \subseteq revoked' /\ revoked' \subseteq revoked \cup {p}
  <2>1. ASSUME NEW grant \in Grants, CreateMerchantCredential(grant)
        PROVE  \E p \in KeyPrefixes, row \in CredentialType :
                 /\ credentials' = [credentials EXCEPT ![p] = row]
                 /\ credentials[p] \in CredentialType => SameGrant(credentials[p], row)
                 /\ p \in revoked' => row.status = "REVOKED"
                 /\ revoked \subseteq revoked' /\ revoked' \subseteq revoked \cup {p}
    <3> DEFINE row == CredentialRow(grant.shop, grant.scopes, grant.expires, FALSE)
    <3>1. row \in CredentialType /\ grant.prefix \in KeyPrefixes
      BY AccessAssumption DEF CredentialRow, CredentialType
    <3>2. credentials[grant.prefix] \notin CredentialType
      BY <2>1, CallShapes DEF CreateMerchantCredential
    <3>3. grant.prefix \notin revoked /\ revoked' = revoked
      BY <2>1, <3>2 DEF CreateMerchantCredential, AccessInv, RevokedInv
    <3>4. credentials' = [credentials EXCEPT ![grant.prefix] = row]
      BY <2>1 DEF CreateMerchantCredential, CreateCredential
    <3> HIDE DEF row
    <3> QED
      BY <3>1, <3>2, <3>3, <3>4
  <2>2. ASSUME NEW q \in KeyPrefixes, RevokeCredential(q)
        PROVE  \E p \in KeyPrefixes, row \in CredentialType :
                 /\ credentials' = [credentials EXCEPT ![p] = row]
                 /\ credentials[p] \in CredentialType => SameGrant(credentials[p], row)
                 /\ p \in revoked' => row.status = "REVOKED"
                 /\ revoked \subseteq revoked' /\ revoked' \subseteq revoked \cup {p}
    <3> DEFINE row == [credentials[q] EXCEPT !.status = "REVOKED"]
    <3>1. credentials[q] \in CredentialType
      BY <2>2 DEF RevokeCredential, AccessInv, AccessTypeOK
    <3>2. row \in CredentialType /\ SameGrant(credentials[q], row) /\ row.status = "REVOKED"
      BY <3>1 DEF CredentialType, SameGrant
    <3>3. credentials' = [credentials EXCEPT ![q] = row] /\ revoked' = revoked \cup {q}
      BY <2>2 DEF RevokeCredential
    <3> HIDE DEF row
    <3> QED
      BY <3>2, <3>3
  <2> QED
    BY <2>1, <2>2
<1>3. /\ credentials' \in [KeyPrefixes -> {NoCredential} \cup CredentialType]
      /\ credentials'[p] = row
      /\ \A q \in KeyPrefixes : q # p => credentials'[q] = credentials[q]
  BY <1>2 DEF AccessInv, AccessTypeOK
<1>4. Onward
  <2>1. \A q \in KeyPrefixes :
          credentials[q] \in CredentialType => SameGrant(credentials[q], credentials'[q])
    BY <1>2, <1>3 DEF SameGrant
  <2> QED
    BY <1>1, <1>2, <2>1 DEF Onward, Configured, AccessInv, AccessTypeOK
<1>5. RevokedInv'
  BY <1>2, <1>3 DEF AccessInv, RevokedInv
<1>6. CallInv'
  BY <1>1, <1>4, NoCallMoves
<1> QED
  BY <1>1, <1>3, <1>5, <1>6 DEF AccessInv, AccessTypeOK, PolicyInv, Configured

(* The demo journey, the clock, the database and the process *)
LEMMA DemoJourneyInv ==
  ASSUME AccessInv, UNCHANGED client, NEW c \in Calls, NEW s \in Shops, DemoJourney(c, s)
  PROVE  AccessInv'
<1>1. UNCHANGED <<database, kept, credentials, clock, accepted, revoked>> /\ EndCall(c)
  BY DEF DemoJourney
<1>2. /\ policyRows' = [policyRows EXCEPT ![s] = 1] /\ merchantRows' = merchantRows \cup {s}
      /\ accepted[s] = 0
  BY DEF DemoJourney, PersistMerchant
<1>3. PolicyInv' /\ policyRows' \in [Shops -> Nat]
  BY <1>1, <1>2 DEF AccessInv, AccessTypeOK, PolicyInv, Configured
<1>4. /\ calls' \in [Calls -> {NotCalled} \cup CallType] /\ calls'[c] = NotCalled
      /\ \A d \in Calls : d # c => calls'[d] = calls[d]
  BY <1>1 DEF EndCall, AccessInv, AccessTypeOK
<1>5. CallInv'
  BY <1>1, <1>4, NothingMoved, OneCallMoves, CallShapes
<1> QED
  BY <1>1, <1>3, <1>4, <1>5 DEF AccessInv, AccessTypeOK, RevokedInv

LEMMA EnvironmentInv ==
  ASSUME AccessInv, UNCHANGED client, ClockTicks \/ DatabaseChanges \/ ProcessRestarts
  PROVE  AccessInv'
<1>1. CASE ClockTicks \/ DatabaseChanges
  <2>1. /\ UNCHANGED <<kept, merchantRows, policyRows, credentials, calls, accepted, revoked>>
        /\ database' \in {"none", "up", "down"} /\ (Configured' <=> Configured)
        /\ clock' \in Nat /\ clock <= clock'
    <3>1. CASE ClockTicks
      <4>1. /\ clock' = clock + 1
            /\ UNCHANGED <<database, kept, merchantRows, policyRows, credentials, calls,
                           accepted, revoked>>
        BY <3>1, Zenon DEF ClockTicks
      <4> QED
        BY <4>1 DEF AccessInv, AccessTypeOK, Configured
    <3>2. CASE DatabaseChanges
      BY <3>2 DEF DatabaseChanges, AccessInv, AccessTypeOK, Configured
    <3> QED
      BY <1>1, <3>1, <3>2
  <2>2. Onward
    BY <2>1 DEF Onward, SameGrant
  <2>3. CallInv'
    BY <2>1, <2>2, NoCallMoves
  <2> QED
    BY <2>1, <2>3 DEF AccessInv, AccessTypeOK, PolicyInv, RevokedInv
<1>2. CASE ProcessRestarts
  <2>1. /\ UNCHANGED <<database, merchantRows, policyRows, credentials, clock, accepted, revoked>>
        /\ calls' = [c \in Calls |-> NotCalled] /\ kept' \in [Shops -> Nat]
    BY <1>2 DEF ProcessRestarts
  <2>2. calls' \in [Calls -> {NotCalled} \cup CallType] /\ CallInv'
    BY <2>1, CallShapes DEF CallInv
  <2> QED
    BY <2>1, <2>2 DEF AccessInv, AccessTypeOK, PolicyInv, RevokedInv, Configured
<1> QED
  BY <1>1, <1>2

LEMMA AccessInitInv == AccessInit => AccessInv
<1> SUFFICES ASSUME AccessInit PROVE AccessInv
  OBVIOUS
<1>1. AccessTypeOK
  BY DEF AccessInit, AccessTypeOK
<1>2. PolicyInv /\ RevokedInv
  BY DEF AccessInit, PolicyInv, RevokedInv
<1>3. CallInv
  BY CallShapes DEF AccessInit, CallInv
<1> QED
  BY <1>1, <1>2, <1>3 DEF AccessInv

LEMMA AccessStepInv == AccessInv /\ (AccessNext \/ UNCHANGED accessVars) => AccessInv'
<1> SUFFICES ASSUME AccessInv, AccessNext \/ UNCHANGED accessVars PROVE AccessInv'
  OBVIOUS
<1>1. CASE UNCHANGED accessVars
  <2>1. CallInv'
    BY <1>1, NothingMoved, NoCallMoves DEF accessVars
  <2> QED
    BY <1>1, <2>1 DEF accessVars, AccessInv, AccessTypeOK, PolicyInv, RevokedInv, Configured
<1> QED
  BY <1>1, CallNextInv, MerchantsInv, CredentialsInv, DemoJourneyInv, EnvironmentInv
  DEF AccessNext
--------------------------------------------------------------------------------
(* The rate limiter: what it counts is what it let through *)

(* What TimesWithin keeps of the first n times *)
Keeps(f, s, at, n) ==
  /\ f \in [0 .. n -> Seq(Nat)]
  /\ f[0] = <<>>
  /\ \A i \in 1 .. n :
       f[i] = IF s[i] + Window > at THEN Append(f[i - 1], s[i]) ELSE f[i - 1]

LEMMA KeepsExist ==
  ASSUME NEW s \in Seq(Nat), NEW at \in Nat
  PROVE  \E f : Keeps(f, s, at, Len(s))
<1>0. PICK bad : bad = {n \in 0 .. Len(s) : ~ \E f : Keeps(f, s, at, n)}
  OBVIOUS
<1>1. SUFFICES ASSUME bad # {} PROVE FALSE
  <2>1. Len(s) \in 0 .. Len(s)
    OBVIOUS
  <2> QED
    BY <1>0, <2>1
<1>2. PICK n \in bad : \A m \in bad : n <= m
  <2>1. bad \in SUBSET Nat
    BY <1>0
  <2> QED
    BY <1>1, <2>1, NatMin
<1>3. n # 0
  <2>1. Keeps([i \in 0 .. 0 |-> <<>>], s, at, 0)
    BY DEF Keeps
  <2> QED
    BY <1>0, <1>2, <2>1
<1>4. n - 1 \in 0 .. Len(s) /\ n \in 1 .. Len(s) /\ n \in Nat /\ n - 1 \notin bad
  <2>1. n \in 0 .. Len(s) /\ Len(s) \in Nat
    BY <1>0, <1>2
  <2>2. n \in Nat /\ n - 1 \in 0 .. Len(s) /\ n \in 1 .. Len(s)
    BY <2>1, <1>3
  <2>3. ~ (n <= n - 1)
    BY <2>2
  <2> QED
    BY <1>2, <2>2, <2>3
<1>5. PICK f : Keeps(f, s, at, n - 1)
  BY <1>0, <1>4
<1>6. f[n - 1] \in Seq(Nat) /\ s[n] \in Nat
  <2>1. n - 1 \in 0 .. (n - 1)
    BY <1>4
  <2> QED
    BY <1>4, <1>5, <2>1, SMTT(20) DEF Keeps
<1>7. PICK last \in Seq(Nat) :
        last = IF s[n] + Window > at THEN Append(f[n - 1], s[n]) ELSE f[n - 1]
  <2>1. Append(f[n - 1], s[n]) \in Seq(Nat)
    BY <1>6
  <2> QED
    BY <1>6, <2>1
<1>8. PICK g : g = [i \in 0 .. n |-> IF i = n THEN last ELSE f[i]]
  OBVIOUS
<1>9. /\ g \in [0 .. n -> Seq(Nat)] /\ g[0] = <<>> /\ g[n] = last
      /\ \A i \in 0 .. (n - 1) : g[i] = f[i]
  <2>1. \A i \in 0 .. n : i # n => i \in 0 .. (n - 1)
    BY <1>4
  <2>2. \A i \in 0 .. (n - 1) : i \in 0 .. n /\ i # n
    BY <1>4
  <2>3. f \in [0 .. (n - 1) -> Seq(Nat)] /\ f[0] = <<>> /\ 0 \in 0 .. (n - 1) /\ n \in 0 .. n
    BY <1>4, <1>5 DEF Keeps
  <2> QED
    BY <1>7, <1>8, <2>1, <2>2, <2>3
<1>10. ASSUME NEW i \in 1 .. n
       PROVE  g[i] = IF s[i] + Window > at THEN Append(g[i - 1], s[i]) ELSE g[i - 1]
  <2>1. CASE i = n
    <3>1. n - 1 \in 0 .. (n - 1)
      BY <1>4
    <3> QED
      BY <1>7, <1>9, <2>1, <3>1
  <2>2. CASE i # n
    <3>1. i \in 1 .. (n - 1) /\ i \in 0 .. (n - 1) /\ i - 1 \in 0 .. (n - 1)
      BY <1>4, <2>2
    <3>2. f[i] = IF s[i] + Window > at THEN Append(f[i - 1], s[i]) ELSE f[i - 1]
      BY <1>5, <3>1 DEF Keeps
    <3> QED
      BY <1>9, <3>1, <3>2
  <2> QED
    BY <2>1, <2>2
<1>11. Keeps(g, s, at, n)
  BY <1>9, <1>10 DEF Keeps
<1> QED
  BY <1>0, <1>2, <1>11

(* It depends only on those times *)
SameUpTo(s, t, n) == \A i \in 1 .. n : s[i] = t[i]

LEMMA KeepsAgree ==
  ASSUME NEW s, NEW t, NEW at, NEW n \in Nat, NEW f, NEW g,
         Keeps(f, s, at, n), Keeps(g, t, at, n), SameUpTo(s, t, n)
  PROVE  \A i \in 0 .. n : f[i] = g[i]
<1>0. PICK bad : bad = {i \in 0 .. n : f[i] # g[i]}
  OBVIOUS
<1>1. SUFFICES ASSUME bad # {} PROVE FALSE
  BY <1>0
<1>2. PICK i \in bad : \A j \in bad : i <= j
  <2>1. bad \in SUBSET Nat
    BY <1>0
  <2> QED
    BY <1>1, <2>1, NatMin
<1>3. i # 0
  BY <1>0, <1>2 DEF Keeps
<1>4. i \in 1 .. n /\ i - 1 \in 0 .. n /\ i - 1 \notin bad
  BY <1>0, <1>2, <1>3
<1>5. f[i - 1] = g[i - 1] /\ s[i] = t[i]
  BY <1>0, <1>4 DEF SameUpTo
<1>6. /\ f[i] = IF s[i] + Window > at THEN Append(f[i - 1], s[i]) ELSE f[i - 1]
      /\ g[i] = IF t[i] + Window > at THEN Append(g[i - 1], t[i]) ELSE g[i - 1]
  BY <1>4 DEF Keeps
<1>7. f[i] = g[i]
  BY <1>5, <1>6
<1> QED
  BY <1>0, <1>2, <1>7

(* TimesWithin is what is kept of all the times *)
LEMMA WithinIs ==
  ASSUME NEW s \in Seq(Nat), NEW at \in Nat, NEW f, Keeps(f, s, at, Len(s))
  PROVE  TimesWithin(s, at) = f[Len(s)]
<1> DEFINE R(g) == g = [i \in 0 .. Len(s) |->
                          IF i = 0 THEN <<>>
                          ELSE IF s[i] + Window > at THEN Append(g[i - 1], s[i]) ELSE g[i - 1]]
<1>1. ASSUME NEW i \in 0 .. Len(s), i # 0
      PROVE  i \in 1 .. Len(s) /\ i - 1 \in 0 .. Len(s)
  BY <1>1
<1>2. R(f)
  <2>1. ASSUME NEW i \in 0 .. Len(s)
        PROVE  f[i] = IF i = 0 THEN <<>>
                      ELSE IF s[i] + Window > at THEN Append(f[i - 1], s[i]) ELSE f[i - 1]
    BY <1>1 DEF Keeps
  <2> QED
    BY <2>1 DEF Keeps
<1>3. PICK g : g = CHOOSE h : R(h)
  OBVIOUS
<1>4. R(g)
  BY <1>2, <1>3
<1>5. TimesWithin(s, at) = g[Len(s)]
  BY <1>3 DEF TimesWithin
<1>0. PICK bad : bad = {i \in 0 .. Len(s) : f[i] # g[i]}
  OBVIOUS
<1>6. SUFFICES ASSUME bad # {} PROVE FALSE
  <2>1. Len(s) \in 0 .. Len(s)
    OBVIOUS
  <2> QED
    BY <1>0, <1>5, <2>1
<1>7. PICK i \in bad : \A j \in bad : i <= j
  <2>1. bad \in SUBSET Nat
    BY <1>0
  <2> QED
    BY <1>6, <2>1, NatMin
<1>8. i # 0
  BY <1>0, <1>4, <1>7 DEF Keeps
<1>9. i \in 1 .. Len(s) /\ i - 1 \in 0 .. Len(s) /\ i - 1 \notin bad /\ i \in 0 .. Len(s)
  BY <1>0, <1>7, <1>8
<1>10. f[i - 1] = g[i - 1]
  BY <1>0, <1>9
<1>11. g[i] = IF s[i] + Window > at THEN Append(g[i - 1], s[i]) ELSE g[i - 1]
  BY <1>4, <1>8, <1>9
<1>12. f[i] = IF s[i] + Window > at THEN Append(f[i - 1], s[i]) ELSE f[i - 1]
  BY <1>9 DEF Keeps
<1> QED
  BY <1>0, <1>7, <1>10, <1>11, <1>12

LEMMA WithinType ==
  ASSUME NEW s \in Seq(Nat), NEW at \in Nat
  PROVE  TimesWithin(s, at) \in Seq(Nat) /\ Len(TimesWithin(s, at)) <= Len(s)
<1>1. PICK f : Keeps(f, s, at, Len(s))
  BY KeepsExist
<1>2. TimesWithin(s, at) = f[Len(s)]
  BY <1>1, WithinIs
<1>0. PICK bad : bad = {i \in 0 .. Len(s) : ~ (Len(f[i]) <= i)}
  OBVIOUS
<1>3. bad = {}
  <2> SUFFICES ASSUME bad # {} PROVE FALSE
    OBVIOUS
  <2>0. bad \in SUBSET Nat
    BY <1>0
  <2>1. PICK i \in bad : \A j \in bad : i <= j
    BY <2>0, NatMin
  <2>2. i # 0
    BY <1>0, <1>1, <2>1 DEF Keeps
  <2>3. i \in 1 .. Len(s) /\ i - 1 \in 0 .. Len(s) /\ i - 1 \notin bad
    BY <1>0, <2>1, <2>2, SMTT(20)
  <2>4. Len(f[i - 1]) <= i - 1 /\ f[i - 1] \in Seq(Nat) /\ s[i] \in Nat
    <3>1. Len(f[i - 1]) <= i - 1
      BY <1>0, <2>3
    <3>2. f[i - 1] \in Seq(Nat)
      BY <1>1, <2>3 DEF Keeps
    <3>3. s[i] \in Nat
      BY <2>3
    <3> QED
      BY <3>1, <3>2, <3>3
  <2>5. f[i] = IF s[i] + Window > at THEN Append(f[i - 1], s[i]) ELSE f[i - 1]
    BY <2>3, <1>1 DEF Keeps
  <2>6. Len(f[i]) <= i
    BY <2>3, <2>4, <2>5
  <2> QED
    BY <1>0, <2>1, <2>6
<1>4. Len(s) \in 0 .. Len(s)
  OBVIOUS
<1> QED
  BY <1>0, <1>1, <1>2, <1>3, <1>4 DEF Keeps

LEMMA WithinNone ==
  ASSUME NEW at \in Nat
  PROVE  TimesWithin(<<>>, at) = <<>>
<1>0. << >> \in Seq(Nat) /\ Len(<< >>) = 0
  OBVIOUS
<1>1. TimesWithin(<<>>, at) \in Seq(Nat) /\ Len(TimesWithin(<<>>, at)) <= 0
  <2>1. TimesWithin(<<>>, at) \in Seq(Nat) /\ Len(TimesWithin(<<>>, at)) <= Len(<< >>)
    BY <1>0, WithinType, Zenon
  <2> QED
    BY <1>0, <2>1
<1> QED
  BY <1>0, <1>1

LEMMA WithinAppend ==
  ASSUME NEW s \in Seq(Nat), NEW at \in Nat, NEW u \in Nat
  PROVE  TimesWithin(Append(s, u), at) =
           IF u + Window > at THEN Append(TimesWithin(s, at), u) ELSE TimesWithin(s, at)
<1>0. Append(s, u) \in Seq(Nat) /\ Len(s) \in Nat
  OBVIOUS
<1>1. PICK t \in Seq(Nat) : t = Append(s, u)
  BY <1>0
<1>2. Len(t) = Len(s) + 1 /\ t[Len(t)] = u /\ \A i \in 1 .. Len(s) : s[i] = t[i]
  BY <1>1
<1>3. PICK f : Keeps(f, s, at, Len(s))
  BY KeepsExist
<1>4. PICK g : Keeps(g, t, at, Len(t))
  BY KeepsExist
<1>5. PICK h : h = [i \in 0 .. Len(s) |-> g[i]]
  OBVIOUS
<1>6. Keeps(h, t, at, Len(s))
  <2>1. \A i \in 0 .. Len(s) : i \in 0 .. Len(t) /\ h[i] = g[i]
    BY <1>2, <1>5
  <2>2. \A i \in 1 .. Len(s) : i \in 1 .. Len(t) /\ i \in 0 .. Len(s) /\ i - 1 \in 0 .. Len(s)
    BY <1>2
  <2>3. h \in [0 .. Len(s) -> Seq(Nat)] /\ h[0] = <<>>
    BY <1>4, <1>5, <2>1 DEF Keeps
  <2>4. ASSUME NEW i \in 1 .. Len(s)
        PROVE  h[i] = IF t[i] + Window > at THEN Append(h[i - 1], t[i]) ELSE h[i - 1]
    <3>1. g[i] = IF t[i] + Window > at THEN Append(g[i - 1], t[i]) ELSE g[i - 1]
      BY <1>4, <2>2 DEF Keeps
    <3> QED
      BY <2>1, <2>2, <3>1
  <2> QED
    BY <2>3, <2>4 DEF Keeps
<1>7. f[Len(s)] = h[Len(s)] /\ h[Len(s)] = g[Len(s)]
  <2>1. \A i \in 0 .. Len(s) : f[i] = h[i]
    <3>1. Len(s) \in Nat /\ SameUpTo(s, t, Len(s))
      BY <1>0, <1>2 DEF SameUpTo
    <3> QED
      BY <1>3, <1>6, <3>1, KeepsAgree
  <2> QED
    BY <1>5, <2>1
<1>8. g[Len(t)] = IF u + Window > at THEN Append(g[Len(s)], u) ELSE g[Len(s)]
  <2>1. Len(t) \in 1 .. Len(t) /\ Len(t) - 1 = Len(s)
    BY <1>2
  <2> QED
    BY <1>2, <1>4, <2>1 DEF Keeps
<1>9. TimesWithin(s, at) = f[Len(s)] /\ TimesWithin(t, at) = g[Len(t)]
  BY <1>3, <1>4, WithinIs
<1> QED
  BY <1>1, <1>7, <1>8, <1>9

(* Cutting the list early changes nothing later *)
LEMMA WithinTwice ==
  ASSUME NEW s \in Seq(Nat), NEW at \in Nat, NEW later \in Nat, at <= later
  PROVE  TimesWithin(TimesWithin(s, at), later) = TimesWithin(s, later)
<1>1. PICK f : Keeps(f, s, at, Len(s))
  BY KeepsExist
<1>2. PICK g : Keeps(g, s, later, Len(s))
  BY KeepsExist
<1>3. TimesWithin(s, at) = f[Len(s)] /\ TimesWithin(s, later) = g[Len(s)]
  BY <1>1, <1>2, WithinIs
<1>0. PICK bad : bad = {i \in 0 .. Len(s) : TimesWithin(f[i], later) # g[i]}
  OBVIOUS
<1>4. SUFFICES ASSUME bad # {} PROVE FALSE
  <2>1. Len(s) \in 0 .. Len(s)
    OBVIOUS
  <2> QED
    BY <1>0, <1>3, <2>1
<1>5. PICK i \in bad : \A j \in bad : i <= j
  <2>1. bad \in SUBSET Nat
    BY <1>0
  <2> QED
    BY <1>4, <2>1, NatMin
<1>6. i # 0
  BY <1>0, <1>1, <1>2, <1>5, WithinNone DEF Keeps
<1>7. i \in 1 .. Len(s) /\ i - 1 \in 0 .. Len(s) /\ i - 1 \notin bad /\ s[i] \in Nat
  BY <1>0, <1>5, <1>6
<1>8. TimesWithin(f[i - 1], later) = g[i - 1] /\ f[i - 1] \in Seq(Nat)
  BY <1>0, <1>1, <1>7 DEF Keeps
<1>9. /\ f[i] = IF s[i] + Window > at THEN Append(f[i - 1], s[i]) ELSE f[i - 1]
      /\ g[i] = IF s[i] + Window > later THEN Append(g[i - 1], s[i]) ELSE g[i - 1]
  BY <1>1, <1>2, <1>7 DEF Keeps
<1>10. TimesWithin(Append(f[i - 1], s[i]), later) =
         IF s[i] + Window > later THEN Append(g[i - 1], s[i]) ELSE g[i - 1]
  BY <1>7, <1>8, WithinAppend
<1>11. TimesWithin(f[i], later) = g[i]
  <2>1. CASE s[i] + Window > at
    BY <1>9, <1>10, <2>1
  <2>2. CASE ~ (s[i] + Window > at)
    <3>1. ~ (s[i] + Window > later)
      BY <1>7, <2>2, AccessAssumption
    <3> QED
      BY <1>8, <1>9, <2>2, <3>1
  <2> QED
    BY <2>1, <2>2
<1> QED
  BY <1>0, <1>5, <1>11

(* What the limiter counts is what it let through and what lies within the *)
(* window, however late the list is cut.                                   *)
LimitInv ==
  /\ history \in [Categories -> [ApiKeys -> Seq(Nat)]]
  /\ passed \in [Categories -> [ApiKeys -> Seq(Nat)]]
  /\ \A g \in Categories, k \in ApiKeys :
       /\ passed[g][k] = TimesWithin(history[g][k], clock)
       /\ Len(passed[g][k]) <= CategoryLimits[g]

LEMMA CheckRateLimitInv ==
  ASSUME AccessInv, LimitInv, NEW g \in Categories, NEW k \in ApiKeys, CheckRateLimit(g, k),
         UNCHANGED clock
  PROVE  LimitInv'
<1>1. PICK now1 \in Nat : now1 = clock
  BY DEF AccessInv, AccessTypeOK
<1>2. PICK old \in Seq(Nat) : old = history[g][k]
  BY DEF LimitInv
<1>3. PICK valid : valid = TimesWithin(old, now1)
  OBVIOUS
<1>4. valid \in Seq(Nat) /\ TimesWithin(valid, now1) = valid
  BY <1>3, WithinType, WithinTwice
<1>5. passed[g][k] = valid /\ Len(valid) <= CategoryLimits[g]
  BY <1>1, <1>2, <1>3 DEF LimitInv
<1>6. /\ ValidTimestamps(history[g][k]) = valid
      /\ IsAllowed(g, k) <=> Len(valid) < CategoryLimits[g]
  BY <1>1, <1>2, <1>3 DEF ValidTimestamps, IsAllowed
<1>7. Append(valid, now1) \in Seq(Nat) /\ Len(Append(valid, now1)) = Len(valid) + 1
  BY <1>4
<1>8. TimesWithin(Append(valid, now1), now1) = Append(valid, now1)
  <2>1. now1 + Window > now1
    BY AccessAssumption
  <2> QED
    BY <1>4, <2>1, WithinAppend
<1>9. \E next \in Seq(Nat) :
        /\ history' = [history EXCEPT ![g][k] = next]
        /\ passed' = [passed EXCEPT ![g][k] = next]
        /\ TimesWithin(next, now1) = next /\ Len(next) <= CategoryLimits[g]
  <2>1. CASE IsAllowed(g, k)
    <3>1. /\ history' = [history EXCEPT ![g][k] = Append(valid, now1)]
          /\ passed' = [passed EXCEPT ![g][k] = Append(valid, now1)]
      BY <1>1, <1>5, <1>6, <2>1 DEF CheckRateLimit, LimitInv
    <3>2. Len(Append(valid, now1)) <= CategoryLimits[g]
      BY <1>4, <1>6, <1>7, <2>1, AccessAssumption
    <3> QED
      BY <1>7, <1>8, <3>1, <3>2
  <2>2. CASE ~ IsAllowed(g, k)
    <3>1. history' = [history EXCEPT ![g][k] = valid] /\ passed' = passed
      BY <1>6, <2>2 DEF CheckRateLimit
    <3>2. passed = [passed EXCEPT ![g][k] = valid]
      BY <1>5 DEF LimitInv
    <3> QED
      BY <1>4, <1>5, <3>1, <3>2
  <2> QED
    BY <2>1, <2>2
<1>10. PICK next \in Seq(Nat) :
         /\ history' = [history EXCEPT ![g][k] = next]
         /\ passed' = [passed EXCEPT ![g][k] = next]
         /\ TimesWithin(next, now1) = next /\ Len(next) <= CategoryLimits[g]
  BY <1>9
<1>11. /\ history' \in [Categories -> [ApiKeys -> Seq(Nat)]]
       /\ passed' \in [Categories -> [ApiKeys -> Seq(Nat)]]
  BY <1>10 DEF LimitInv
<1>12. ASSUME NEW h \in Categories, NEW j \in ApiKeys
       PROVE  /\ passed'[h][j] = TimesWithin(history'[h][j], now1)
              /\ Len(passed'[h][j]) <= CategoryLimits[h]
  <2>1. CASE h = g /\ j = k
    <3>1. passed'[h][j] = next /\ history'[h][j] = next
      BY <1>10, <2>1 DEF LimitInv
    <3> QED
      BY <1>10, <2>1, <3>1
  <2>2. CASE ~ (h = g /\ j = k)
    <3>1. passed'[h][j] = passed[h][j] /\ history'[h][j] = history[h][j]
      BY <1>10, <2>2 DEF LimitInv
    <3> QED
      BY <1>1, <3>1 DEF LimitInv
  <2> QED
    BY <2>1, <2>2
<1>13. clock' = now1
  BY <1>1
<1> QED
  BY <1>11, <1>12, <1>13 DEF LimitInv

LEMMA NotLimitedInv ==
  ASSUME LimitInv, UNCHANGED <<history, passed, clock>>
  PROVE  LimitInv'
  BY DEF LimitInv

LEMMA ClockTicksLimits ==
  ASSUME AccessInv, LimitInv, ClockTicks
  PROVE  LimitInv'
<1>1. PICK now1 \in Nat : now1 = clock
  BY DEF AccessInv, AccessTypeOK
<1>2. /\ clock' = now1 + 1 /\ history' = history
      /\ passed' = [g \in Categories |-> [k \in ApiKeys |->
                       TimesWithin(passed[g][k], now1 + 1)]]
  BY <1>1 DEF ClockTicks
<1>3. ASSUME NEW g \in Categories, NEW k \in ApiKeys
      PROVE  /\ passed'[g][k] = TimesWithin(history'[g][k], now1 + 1)
             /\ passed'[g][k] \in Seq(Nat)
             /\ Len(passed'[g][k]) <= CategoryLimits[g]
  <2>1. PICK old \in Seq(Nat) : old = history[g][k]
    BY DEF LimitInv
  <2>2. PICK was \in Seq(Nat) : was = passed[g][k]
    BY DEF LimitInv
  <2>3. was = TimesWithin(old, now1) /\ Len(was) <= CategoryLimits[g]
    BY <1>1, <2>1, <2>2 DEF LimitInv
  <2>4. passed'[g][k] = TimesWithin(was, now1 + 1) /\ history'[g][k] = old
    BY <1>2, <2>1, <2>2
  <2>5. now1 + 1 \in Nat /\ now1 <= now1 + 1
    OBVIOUS
  <2>6. TimesWithin(was, now1 + 1) = TimesWithin(old, now1 + 1)
    BY <2>3, <2>5, WithinTwice
  <2>7. TimesWithin(was, now1 + 1) \in Seq(Nat) /\ Len(TimesWithin(was, now1 + 1)) <= Len(was)
    BY <2>5, WithinType
  <2>8. CategoryLimits[g] \in Nat
    BY AccessAssumption
  <2> QED
    BY <2>3, <2>4, <2>6, <2>7, <2>8
<1>4. passed' \in [Categories -> [ApiKeys -> Seq(Nat)]]
  BY <1>2, <1>3
<1> QED
  BY <1>2, <1>3, <1>4 DEF LimitInv

(* No call has been counted *)
LEMMA BlankLimits ==
  ASSUME NEW at \in Nat, NEW none, none = Blank(<<>>)
  PROVE  /\ none \in [Categories -> [ApiKeys -> Seq(Nat)]]
         /\ \A g \in Categories, k \in ApiKeys :
              none[g][k] = TimesWithin(none[g][k], at) /\ Len(none[g][k]) <= CategoryLimits[g]
<1>1. TimesWithin(<<>>, at) = <<>>
  BY WithinNone
<1>2. \A g \in Categories : CategoryLimits[g] \in Nat
  BY AccessAssumption
<1> QED
  BY <1>1, <1>2 DEF Blank

LEMMA LimitStepInv ==
  ASSUME AccessInv, LimitInv, AccessNext \/ UNCHANGED accessVars
  PROVE  LimitInv'
<1>1. CASE UNCHANGED accessVars
  BY <1>1, NotLimitedInv DEF accessVars
<1>2. CASE CallNext
  <2>1. UNCHANGED clock
    BY <1>2 DEF CallNext
  <2>2. {"GENERAL_API", "AUTH_FAILURES"} \subseteq Categories /\ client \in ApiKeys
    BY AccessAssumption DEF AccessInv, AccessTypeOK
  <2>3. ASSUME NEW c \in Calls, NEW want, Arrive(c, client, want) PROVE LimitInv'
    BY <2>1, <2>2, <2>3, NotLimitedInv, CheckRateLimitInv DEF Arrive, NotLimited
  <2>4. ASSUME NEW c \in Calls, Refuse(c) PROVE LimitInv'
    <3>1. calls[c].key \in ApiKeys
      <4>1. calls[c].pc = "refuse"
        BY <2>4 DEF Refuse, At
      <4> QED
        BY <4>1 DEF AccessInv, AccessTypeOK, NotCalled, CallType
    <3> QED
      BY <2>1, <2>2, <2>4, <3>1, NotLimitedInv, CheckRateLimitInv DEF Refuse, NotLimited
  <2>5. ASSUME NEW c \in Calls,
               Lookup(c) \/ LookupWithoutDatabase(c) \/ AuthenticateWithUow(c)
                 \/ Endpoint(c) \/ CallEnds(c)
        PROVE  LimitInv'
    <3>1. NotLimited
      BY <2>5 DEF Lookup, LookupWithoutDatabase, AuthenticateWithUow, Endpoint, CallEnds
    <3> QED
      BY <2>1, <3>1, NotLimitedInv DEF NotLimited
  <2> QED
    BY <1>2, <2>3, <2>4, <2>5 DEF CallNext
<1>3. CASE ProcessRestarts
  <2>1. PICK none : none = Blank(<<>>)
    OBVIOUS
  <2>2. PICK at \in Nat : at = clock
    BY DEF AccessInv, AccessTypeOK
  <2>3. history' = none /\ passed' = none /\ clock' = at
    BY <1>3, <2>1, <2>2 DEF ProcessRestarts
  <2> QED
    BY <2>1, <2>3, BlankLimits DEF LimitInv
<1>4. CASE UNCHANGED <<history, passed, clock>>
  BY <1>4, NotLimitedInv
<1>5. CASE \E s \in Shops : CreateMerchant(s) \/ UpdateMerchantPolicy(s)
  BY <1>4, <1>5 DEF CreateMerchant, UpdateMerchantPolicy
<1>6. CASE \E grant \in Grants : CreateMerchantCredential(grant)
  BY <1>4, <1>6 DEF CreateMerchantCredential
<1>7. CASE \E p \in KeyPrefixes : RevokeCredential(p)
  BY <1>4, <1>7 DEF RevokeCredential
<1>8. CASE \E c \in Calls, s \in Shops : DemoJourney(c, s)
  BY <1>4, <1>8 DEF DemoJourney
<1>9. CASE DatabaseChanges
  BY <1>4, <1>9 DEF DatabaseChanges
<1> QED
  BY <1>1, <1>2, <1>3, <1>5, <1>6, <1>7, <1>8, <1>9, ClockTicksLimits DEF AccessNext

LEMMA LimitInitInv == AccessInit => LimitInv
<1> SUFFICES ASSUME AccessInit PROVE LimitInv
  OBVIOUS
<1>1. PICK none : none = Blank(<<>>)
  OBVIOUS
<1>2. history = none /\ passed = none /\ clock = 0
  BY <1>1 DEF AccessInit
<1>3. 0 \in Nat
  OBVIOUS
<1> QED
  BY <1>1, <1>2, <1>3, BlankLimits DEF LimitInv
--------------------------------------------------------------------------------

(* The composition *)

IInv == AccessInv /\ LimitInv /\ PayInv /\ OrderInv /\ PlanInv

(* The inductive invariant of the endpoints holds in every state: each     *)
(* group of endpoints keeps its own part and leaves the others alone.      *)
THEOREM Invariance == Spec => []IInv
<1>1. Init => IInv
  BY AccessInitInv, LimitInitInv, PayInitInv, OrderInitInv, PlanInitInv DEF Init, IInv
<1>2. IInv /\ [Next]_vars => IInv'
  <2> SUFFICES ASSUME IInv, [Next]_vars PROVE IInv'
    OBVIOUS
  <2>1. /\ AccessNext \/ UNCHANGED accessVars
        /\ PayNext \/ UNCHANGED payVars
        /\ OrderNext \/ UNCHANGED orderVars
        /\ PlanNext \/ UNCHANGED planVars
    BY DEF Next, vars
  <2> QED
    BY <2>1, AccessStepInv, LimitStepInv, PayStepInv, OrderStepInv, PlanStepInv DEF IInv
<1> QED
  BY <1>1, <1>2, PTL DEF Spec

(* Within any window of the limiter no key gets more calls past it, and no *)
(* more refusals answered as such, than the category allows (is_allowed),  *)
(* although the list it counts from is cut only when the key calls again.  *)
THEOREM LimitsHold == Spec => []CallsAreLimited
<1>1. IInv => CallsAreLimited
  BY DEF IInv, LimitInv, CallsAreLimited
<1> QED
  BY <1>1, Invariance, PTL

(* A merchant's record or an operator endpoint is answered only to the     *)
(* genuine key of a credential that covers it and that was neither revoked *)
(* nor expired when the call began (get_current_principal), whatever other *)
(* calls with that key write between reading the row and using it.         *)
THEOREM ServiceToHolders == Spec => []ServedToHolder
<1>1. IInv => ServedToHolder
  <2> SUFFICES ASSUME AccessInv, NEW c \in Calls, calls[c].pc = "served", Configured
               PROVE  LET row == credentials[calls[c].key.prefix]
                      IN /\ row # NoCredential /\ calls[c].key.genuine
                         /\ MayAccess(row, calls[c].want)
                         /\ ~calls[c].barred
    BY DEF IInv, ServedToHolder
  <2>1. CallOk(c)
    BY CallAt
  <2> DEFINE row == credentials[calls[c].key.prefix]
             seen == calls[c].seen
  <2>2. /\ seen # NoCredential /\ calls[c].key.genuine /\ ~calls[c].barred
        /\ MayAccess(seen, calls[c].want) /\ SameGrant(seen, row)
    BY <2>1 DEF CallOk
  <2>3. row # NoCredential /\ MayAccess(row, calls[c].want)
    BY <2>2, CallShapes DEF SameGrant, MayAccess, OperatorPrincipal, ValidateMerchantAccess
  <2> QED
    BY <2>2, <2>3
<1> QED
  BY <1>1, Invariance, PTL

(* The policy served while the database answers is the one last accepted   *)
(* (update_merchant_policy, get_merchant_policy), across restarts, outages *)
(* and updates that memory took and the database refused.                  *)
THEOREM PoliciesServed == Spec => []AcceptedPolicyServed
<1>1. IInv => AcceptedPolicyServed
  BY DEF IInv, AccessInv, PolicyInv, AcceptedPolicyServed, GetMerchantPolicy, ActivePolicy,
     Configured
<1> QED
  BY <1>1, Invariance, PTL

(* What an agent was answered orders for on a day stays within one daily   *)
(* limit (evaluate, record_spending) for each life of the process on that  *)
(* day, although it is checked before the provider is called and counted   *)
(* after it, perhaps on the next day.                                      *)
THEOREM DailyLimitKept == Spec => []DailyLimitPerLife
<1>1. IInv => DailyLimitPerLife
  BY DEF IInv, PayInv
<1> QED
  BY <1>1, Invariance, PTL

(* Every payment of a confirmed order is bound to exactly one order, which *)
(* has the verified outcome (create_merchant_order), however often a       *)
(* request is repeated and the binding refused.                            *)
THEOREM OrdersAccountedFor == Spec => []OrdersAccounted
<1>1. IInv => OrdersAccounted
  BY DEF IInv, OrderInv
<1> QED
  BY <1>1, Invariance, PTL

(* A plan that asks for confirmation is committed at most once, with its   *)
(* own token and for a price within its prompt                             *)
(* (verify_and_consume_token), for any search answers and restarts.        *)
THEOREM CommitsOnce == Spec => []CommitOnce
<1>1. IInv => CommitOnce
  BY DEF IInv, PlanInv
<1> QED
  BY <1>1, Invariance, PTL
--------------------------------------------------------------------------------
(* The answers of the shopping endpoints *)

(* What a property of the beginning that every step preserves says of the  *)
(* whole of a function on 0 .. n.                                          *)
Closed(g, n, T) ==
  /\ g[0] \in T
  /\ \A i \in 1 .. n : g[i - 1] \in T => g[i] \in T

LEMMA ClosedAll ==
  ASSUME NEW g, NEW n \in Nat, NEW T, Closed(g, n, T)
  PROVE  \A i \in 0 .. n : g[i] \in T
<1>0. PICK bad : bad = {i \in 0 .. n : g[i] \notin T}
  OBVIOUS
<1>1. SUFFICES ASSUME bad # {} PROVE FALSE
  BY <1>0
<1>2. PICK i \in bad : \A j \in bad : i <= j
  <2>1. bad \in SUBSET Nat
    BY <1>0
  <2> QED
    BY <1>1, <2>1, NatMin
<1>3. i # 0
  BY <1>0, <1>2 DEF Closed
<1>4. i \in 1 .. n /\ i - 1 \in 0 .. n /\ i - 1 \notin bad
  BY <1>0, <1>2, <1>3
<1> QED
  BY <1>0, <1>2, <1>4 DEF Closed

(* A function may be defined by its beginning and a step *)
Follows(f, n, T, base, step) ==
  /\ f \in [0 .. n -> T]
  /\ f[0] = base
  /\ \A i \in 1 .. n : f[i] = step[i][f[i - 1]]

LEMMA FollowsExists ==
  ASSUME NEW n \in Nat, NEW T, NEW base \in T, NEW step \in [1 .. n -> [T -> T]]
  PROVE  \E f : Follows(f, n, T, base, step)
<1>0. PICK bad : bad = {k \in 0 .. n : ~ \E f : Follows(f, k, T, base, step)}
  OBVIOUS
<1>1. SUFFICES ASSUME bad # {} PROVE FALSE
  <2>1. n \in 0 .. n
    OBVIOUS
  <2> QED
    BY <1>0, <2>1
<1>2. PICK k \in bad : \A j \in bad : k <= j
  <2>1. bad \in SUBSET Nat
    BY <1>0
  <2> QED
    BY <1>1, <2>1, NatMin
<1>3. k # 0
  <2>1. Follows([i \in 0 .. 0 |-> base], 0, T, base, step)
    BY DEF Follows
  <2> QED
    BY <1>0, <1>2, <2>1
<1>4. k - 1 \in 0 .. n /\ k \in 1 .. n /\ k \in Nat /\ k - 1 \notin bad
  <2>1. k \in 0 .. n
    BY <1>0, <1>2
  <2>2. k \in Nat /\ k - 1 \in 0 .. n /\ k \in 1 .. n
    BY <2>1, <1>3
  <2>3. ~ (k <= k - 1)
    BY <2>2
  <2> QED
    BY <1>2, <2>2, <2>3
<1>5. PICK f : Follows(f, k - 1, T, base, step)
  BY <1>0, <1>4
<1>6. PICK g : g = [i \in 0 .. k |-> IF i = k THEN step[k][f[k - 1]] ELSE f[i]]
  OBVIOUS
<1>7. /\ f \in [0 .. (k - 1) -> T] /\ f[0] = base
      /\ 0 \in 0 .. (k - 1) /\ k - 1 \in 0 .. (k - 1) /\ k \in 0 .. k
  BY <1>4, <1>5 DEF Follows
<1>8. /\ g \in [0 .. k -> T] /\ g[0] = base /\ g[k] = step[k][f[k - 1]]
      /\ \A i \in 0 .. (k - 1) : g[i] = f[i]
  <2>1. \A i \in 0 .. k : i # k => i \in 0 .. (k - 1)
    BY <1>4
  <2>2. \A i \in 0 .. (k - 1) : i \in 0 .. k /\ i # k
    BY <1>4
  <2>3. step[k][f[k - 1]] \in T
    BY <1>4, <1>7
  <2>4. \A i \in 0 .. k : g[i] \in T
    BY <1>6, <1>7, <2>1, <2>3
  <2> QED
    BY <1>6, <1>7, <2>2, <2>4
<1>9. ASSUME NEW i \in 1 .. k
      PROVE  g[i] = step[i][g[i - 1]]
  <2>1. CASE i = k
    BY <1>7, <1>8, <2>1
  <2>2. CASE i # k
    <3>1. i \in 1 .. (k - 1) /\ i \in 0 .. (k - 1) /\ i - 1 \in 0 .. (k - 1)
      BY <1>4, <2>2
    <3> QED
      BY <1>5, <1>8, <3>1 DEF Follows
  <2> QED
    BY <2>1, <2>2
<1>10. Follows(g, k, T, base, step)
  BY <1>8, <1>9 DEF Follows
<1> QED
  BY <1>0, <1>2, <1>10

(* The elements at some places are elements at those places *)
LEMMA ElementsAtType ==
  ASSUME NEW S, NEW list \in Seq(S), NEW places
  PROVE  ElementsAt(list, places) \in Seq({list[i] : i \in places \cap DOMAIN list})
<1>1. PICK n : n = Len(list)
  OBVIOUS
<1>2. n \in Nat /\ DOMAIN list = 1 .. n
  BY <1>1
<1>3. PICK U : U = {list[i] : i \in places \cap DOMAIN list}
  OBVIOUS
<1>4. PICK step : step = [i \in 1 .. n |-> [k \in Seq(U) |->
                            IF i \in places THEN Append(k, list[i]) ELSE k]]
  OBVIOUS
<1>5. ASSUME NEW i \in 1 .. n, NEW k \in Seq(U)
      PROVE  /\ step[i][k] = IF i \in places THEN Append(k, list[i]) ELSE k
             /\ step[i][k] \in Seq(U)
  <2>1. step[i][k] = IF i \in places THEN Append(k, list[i]) ELSE k
    BY <1>4
  <2>2. i \in places => list[i] \in U
    BY <1>2, <1>3
  <2> QED
    BY <2>1, <2>2
<1>6. step \in [1 .. n -> [Seq(U) -> Seq(U)]]
  BY <1>4, <1>5
<1>7. << >> \in Seq(U)
  OBVIOUS
<1>8. PICK f : Follows(f, n, Seq(U), << >>, step)
  BY <1>2, <1>6, <1>7, FollowsExists
<1> DEFINE R(g) == g = [i \in 0 .. Len(list) |->
                          IF i = 0 THEN <<>>
                          ELSE IF i \in places THEN Append(g[i - 1], list[i]) ELSE g[i - 1]]
<1>9. ASSUME NEW i \in 0 .. n, i # 0
      PROVE  i \in 1 .. n /\ i - 1 \in 0 .. n
  BY <1>2, <1>9
<1>10. R(f)
  <2>1. ASSUME NEW i \in 0 .. n
        PROVE  f[i] = IF i = 0 THEN <<>>
                      ELSE IF i \in places THEN Append(f[i - 1], list[i]) ELSE f[i - 1]
    <3>1. CASE i = 0
      BY <1>8, <3>1 DEF Follows
    <3>2. CASE i # 0
      <4>1. i \in 1 .. n /\ f[i - 1] \in Seq(U) /\ f[i] = step[i][f[i - 1]]
        BY <1>8, <1>9, <3>2 DEF Follows
      <4> QED
        BY <1>5, <3>2, <4>1
    <3> QED
      BY <3>1, <3>2
  <2> QED
    BY <1>1, <1>8, <2>1 DEF Follows
<1>11. PICK g : g = CHOOSE h : R(h)
  OBVIOUS
<1>12. R(g)
  BY <1>10, <1>11
<1>13. ElementsAt(list, places) = g[Len(list)]
  BY <1>11 DEF ElementsAt
<1>14. Closed(g, n, Seq(U))
  <2>1. g[0] = << >>
    BY <1>1, <1>2, <1>12
  <2>2. ASSUME NEW i \in 1 .. n, g[i - 1] \in Seq(U) PROVE g[i] \in Seq(U)
    <3>1. g[i] = IF i \in places THEN Append(g[i - 1], list[i]) ELSE g[i - 1]
      <4>1. i \in 0 .. Len(list) /\ i # 0
        BY <1>1, <1>2
      <4> QED
        BY <1>12, <4>1
    <3>2. i \in places => list[i] \in U
      BY <1>2, <1>3
    <3> QED
      BY <2>2, <3>1, <3>2
  <2> QED
    BY <1>7, <2>1, <2>2 DEF Closed
<1>15. g[n] \in Seq(U)
  <2>1. n \in 0 .. n
    BY <1>2
  <2> QED
    BY <1>2, <1>14, <2>1, ClosedAll
<1> QED
  BY <1>1, <1>3, <1>13, <1>15

(* What discovery makes sure of a candidate *)
Sound(p, max) ==
  /\ p.price \in Nat
  /\ p.price > 0 => p.status = "PRODUCT_VERIFIED"
  /\ p.capability = "DISCOVERY_ONLY" /\ p.availability = "UNKNOWN"
  /\ max > 0 => p.price <= max

SoundSet(S, max) == \A p \in S : Sound(p, max)
SoundList(list, max) == \E S : SoundSet(S, max) /\ list \in Seq(S)

Answered(results) ==
  /\ results \in Seq({results[i] : i \in DOMAIN results})
  /\ \A i \in DOMAIN results : results[i].explicit \in Seq(Nat) /\ results[i].currency \in Seq(Nat)

LEMMA PriceIsNat ==
  ASSUME NEW result, NEW query, result.explicit \in Seq(Nat), result.currency \in Seq(Nat)
  PROVE  ExtractedPrice(result, query) \in Nat
<1> DEFINE named(v) == query.limited /\ v \in query.numbers
<1>1. PICK quoted : quoted = result.explicit \o result.currency
  OBVIOUS
<1>2. quoted \in Seq(Nat)
  BY <1>1
<1>3. PICK places : places = {i \in DOMAIN quoted : quoted[i] > 0 /\ ~named(quoted[i])}
  OBVIOUS
<1>4. PICK prices : prices = ElementsAt(quoted, places)
  OBVIOUS
<1>5. prices \in Seq({quoted[i] : i \in places \cap DOMAIN quoted})
  BY <1>2, <1>4, ElementsAtType
<1>6. prices # << >> => prices[1] \in Nat
  <2>1. {quoted[i] : i \in places \cap DOMAIN quoted} \subseteq Nat
    BY <1>2
  <2> QED
    BY <1>5, <2>1
<1>7. ExtractedPrice(result, query) = IF prices = << >> THEN 0 ELSE 100 * prices[1]
  BY <1>1, <1>3, <1>4 DEF ExtractedPrice
<1> QED
  BY <1>6, <1>7

(* The sound ones among the products made of the usable results *)
LEMMA ElementsSound ==
  ASSUME NEW S, NEW list \in Seq(S), NEW places, NEW max,
         \A i \in DOMAIN list : i \in places => Sound(list[i], max)
  PROVE  SoundList(ElementsAt(list, places), max)
<1>1. ElementsAt(list, places) \in Seq({list[i] : i \in places \cap DOMAIN list})
  BY ElementsAtType
<1>2. SoundSet({list[i] : i \in places \cap DOMAIN list}, max)
  BY DEF SoundSet
<1> QED
  BY <1>1, <1>2 DEF SoundList

LEMMA ProductSound ==
  ASSUME NEW source, NEW result, NEW price \in Nat, NEW max \in Nat,
         WithinLimit(CanonicalProduct(source, result, price), max)
  PROVE  Sound(CanonicalProduct(source, result, price), max)
BY DEF WithinLimit, CanonicalProduct, Sound

LEMMA UsableAnswered ==
  ASSUME NEW results, Answered(results)
  PROVE  /\ Len(Usable(results)) \in Nat /\ DOMAIN Usable(results) = 1 .. Len(Usable(results))
         /\ \A i \in DOMAIN Usable(results) :
              Usable(results)[i].explicit \in Seq(Nat) /\ Usable(results)[i].currency \in Seq(Nat)
<1>1. PICK S : S = {results[i] : i \in DOMAIN results}
  OBVIOUS
<1>2. results \in Seq(S)
  BY <1>1 DEF Answered
<1>3. PICK places : places = {i \in DOMAIN results : results[i].usable}
  OBVIOUS
<1>4. PICK usable : usable = ElementsAt(results, places)
  OBVIOUS
<1>5. usable \in Seq({results[i] : i \in places \cap DOMAIN results})
  BY <1>2, <1>4, ElementsAtType
<1>6. usable = Usable(results)
  BY <1>3, <1>4 DEF Usable
<1>7. \A r \in {results[i] : i \in places \cap DOMAIN results} :
         r.explicit \in Seq(Nat) /\ r.currency \in Seq(Nat)
  BY DEF Answered
<1>8. /\ Len(usable) \in Nat /\ DOMAIN usable = 1 .. Len(usable)
      /\ \A i \in DOMAIN usable : usable[i].explicit \in Seq(Nat) /\ usable[i].currency \in Seq(Nat)
  <2>1. PICK U : U = {results[i] : i \in places \cap DOMAIN results}
    OBVIOUS
  <2>2. Len(usable) \in Nat /\ DOMAIN usable = 1 .. Len(usable) /\ \A i \in DOMAIN usable : usable[i] \in U
    BY <1>5, <2>1
  <2> QED
    BY <1>7, <2>1, <2>2
<1> QED
  BY <1>6, <1>8

LEMMA TavilySound ==
  ASSUME NEW results, Answered(results), NEW query, NEW max \in Nat
  PROVE  SoundList(TavilyWebSearch(results, query, max), max)
<1>1. PICK usable : usable = Usable(results)
  OBVIOUS
<1>2. /\ Len(usable) \in Nat /\ DOMAIN usable = 1 .. Len(usable)
      /\ \A i \in DOMAIN usable : usable[i].explicit \in Seq(Nat) /\ usable[i].currency \in Seq(Nat)
  BY <1>1, UsableAnswered
<1>3. PICK products : products = [i \in DOMAIN usable |->
                         CanonicalProduct("tavily", usable[i], ExtractedPrice(usable[i], query))]
  OBVIOUS
<1>4. PICK places : places = {i \in DOMAIN products :
                                WithinLimit(products[i], max) /\ ~Mispriced(products[i])}
  OBVIOUS
<1>5. products \in Seq({products[i] : i \in DOMAIN products})
  <2>1. DOMAIN products = 1 .. Len(usable)
    BY <1>2, <1>3
  <2> QED
    BY <1>2, <1>3, <2>1
<1>6. ASSUME NEW i \in DOMAIN products, i \in places
      PROVE  Sound(products[i], max)
  <2>1. i \in DOMAIN usable /\ WithinLimit(products[i], max)
    BY <1>3, <1>4, <1>6
  <2>2. PICK price : price = ExtractedPrice(usable[i], query)
    OBVIOUS
  <2>3. price \in Nat
    BY <1>2, <2>1, <2>2, PriceIsNat
  <2>4. products[i] = CanonicalProduct("tavily", usable[i], price)
    BY <1>3, <2>1, <2>2
  <2> QED
    BY <2>1, <2>3, <2>4, ProductSound
<1>7. SoundList(ElementsAt(products, places), max)
  BY <1>5, <1>6, ElementsSound
<1> QED
  BY <1>1, <1>3, <1>4, <1>7 DEF TavilyWebSearch

LEMMA PublicSound ==
  ASSUME NEW results, Answered(results), NEW max \in Nat
  PROVE  SoundList(OpenFoodFacts(results, max), max)
<1>1. PICK usable : usable = Usable(results)
  OBVIOUS
<1>2. Len(usable) \in Nat /\ DOMAIN usable = 1 .. Len(usable)
  BY <1>1, UsableAnswered
<1>3. PICK products : products = [i \in DOMAIN usable |-> CanonicalProduct("openfoodfacts", usable[i], 0)]
  OBVIOUS
<1>4. PICK places : places = {i \in DOMAIN products : WithinLimit(products[i], max)}
  OBVIOUS
<1>5. products \in Seq({products[i] : i \in DOMAIN products})
  <2>1. DOMAIN products = 1 .. Len(usable)
    BY <1>2, <1>3
  <2> QED
    BY <1>2, <1>3, <2>1
<1>6. ASSUME NEW i \in DOMAIN products, i \in places
      PROVE  Sound(products[i], max)
  <2>1. i \in DOMAIN usable /\ WithinLimit(products[i], max)
    BY <1>3, <1>4, <1>6
  <2>2. products[i] = CanonicalProduct("openfoodfacts", usable[i], 0)
    BY <1>3, <2>1
  <2> QED
    BY <2>1, <2>2, ProductSound
<1>7. SoundList(ElementsAt(products, places), max)
  BY <1>5, <1>6, ElementsSound
<1> QED
  BY <1>1, <1>3, <1>4, <1>7 DEF OpenFoodFacts

LEMMA DiscoverySound ==
  ASSUME NEW web, Answered(web.tavily), Answered(web.public), NEW query, NEW max \in Nat
  PROVE  SoundList(DiscoverCandidates(web, query, max), max)
BY TavilySound, PublicSound DEF DiscoverCandidates

(* Deduplication keeps candidates it was given *)
LEMMA KeepType ==
  ASSUME NEW S, NEW before \in Seq(S), NEW p \in S
  PROVE  Keep(before, p) \in Seq(S)
<1>1. PICK twins : twins = {i \in DOMAIN before : AreDuplicates(p, before[i])}
  OBVIOUS
<1>2. PICK first : first = CHOOSE i \in twins : \A j \in twins : i <= j
  OBVIOUS
<1>3. twins # {} => first \in DOMAIN before
  <2>1. twins \in SUBSET Nat /\ twins \subseteq DOMAIN before
    BY <1>1
  <2>2. twins # {} => \E i \in twins : \A j \in twins : i <= j
    BY <2>1, NatMin
  <2> QED
    BY <1>2, <2>1, <2>2
<1>4. Append(before, p) \in Seq(S)
  OBVIOUS
<1>5. twins # {} => [before EXCEPT ![first] = p] \in Seq(S)
  BY <1>3
<1>6. \/ Keep(before, p) = Append(before, p)
      \/ twins # {} /\ Keep(before, p) = [before EXCEPT ![first] = p]
      \/ Keep(before, p) = before
  BY <1>1, <1>2 DEF Keep
<1> QED
  BY <1>4, <1>5, <1>6

LEMMA DeduplicateType ==
  ASSUME NEW S, NEW list \in Seq(S)
  PROVE  Deduplicate(list) \in Seq(S)
<1>1. PICK n : n = Len(list)
  OBVIOUS
<1>2. n \in Nat /\ DOMAIN list = 1 .. n /\ \A i \in 1 .. n : list[i] \in S
  BY <1>1
<1>3. PICK step : step = [i \in 1 .. n |-> [k \in Seq(S) |-> Keep(k, list[i])]]
  OBVIOUS
<1>4. ASSUME NEW i \in 1 .. n, NEW k \in Seq(S)
      PROVE  step[i][k] = Keep(k, list[i]) /\ Keep(k, list[i]) \in Seq(S)
  BY <1>2, <1>3, KeepType
<1>5. step \in [1 .. n -> [Seq(S) -> Seq(S)]]
  BY <1>3, <1>4
<1>6. << >> \in Seq(S)
  OBVIOUS
<1>7. PICK f : Follows(f, n, Seq(S), << >>, step)
  BY <1>2, <1>5, <1>6, FollowsExists
<1> DEFINE R(g) == g = [i \in 0 .. Len(list) |-> IF i = 0 THEN <<>> ELSE Keep(g[i - 1], list[i])]
<1>8. R(f)
  <2>1. ASSUME NEW i \in 0 .. n
        PROVE  f[i] = IF i = 0 THEN <<>> ELSE Keep(f[i - 1], list[i])
    <3>1. CASE i = 0
      BY <1>7, <3>1 DEF Follows
    <3>2. CASE i # 0
      <4>1. i \in 1 .. n /\ i - 1 \in 0 .. n
        BY <1>2, <3>2
      <4>2. f[i - 1] \in Seq(S) /\ f[i] = step[i][f[i - 1]]
        BY <1>7, <4>1 DEF Follows
      <4> QED
        BY <1>4, <3>2, <4>1, <4>2
    <3> QED
      BY <3>1, <3>2
  <2> QED
    BY <1>1, <1>7, <2>1 DEF Follows
<1>9. PICK g : g = CHOOSE h : R(h)
  OBVIOUS
<1>10. R(g)
  BY <1>8, <1>9
<1>11. Deduplicate(list) = g[n]
  BY <1>1, <1>9 DEF Deduplicate
<1>12. Closed(g, n, Seq(S))
  <2>1. g[0] = << >>
    BY <1>1, <1>2, <1>10
  <2>2. ASSUME NEW i \in 1 .. n, g[i - 1] \in Seq(S) PROVE g[i] \in Seq(S)
    <3>1. g[i] = Keep(g[i - 1], list[i])
      <4>1. i \in 0 .. Len(list) /\ i # 0
        BY <1>1, <1>2
      <4> QED
        BY <1>10, <4>1
    <3> QED
      BY <1>2, <2>2, <3>1, KeepType
  <2> QED
    BY <1>6, <2>1, <2>2 DEF Closed
<1>13. n \in 0 .. n
  BY <1>2
<1> QED
  BY <1>2, <1>11, <1>12, <1>13, ClosedAll

LEMMA DeduplicateSound ==
  ASSUME NEW list, NEW max, SoundList(list, max)
  PROVE  SoundList(Deduplicate(list), max)
BY DeduplicateType DEF SoundList

--------------------------------------------------------------------------------
(* Scores that have a bound have a best one *)
Bounded(score, R, bound) == \A c \in R : score[c] \in Int /\ score[c] <= bound

LEMMA BestScore ==
  ASSUME NEW R, R # {}, NEW score, NEW bound \in Int, Bounded(score, R, bound)
  PROVE  \E c \in R : \A d \in R : score[d] <= score[c]
<1>1. PICK gaps : gaps = {bound - score[c] : c \in R}
  OBVIOUS
<1>2. gaps \in SUBSET Nat
  <2>1. \A c \in R : bound - score[c] \in Nat
    BY DEF Bounded
  <2> QED
    BY <1>1, <2>1
<1>3. gaps # {}
  BY <1>1
<1>4. PICK x \in gaps : \A y \in gaps : x <= y
  BY <1>2, <1>3, NatMin
<1>5. PICK c \in R : x = bound - score[c]
  BY <1>1, <1>4
<1>6. ASSUME NEW d \in R PROVE score[d] <= score[c]
  <2>1. bound - score[c] <= bound - score[d]
    BY <1>1, <1>4, <1>5
  <2> QED
    BY <2>1, <1>5 DEF Bounded
<1> QED
  BY <1>6

LEMMA FirstBest ==
  ASSUME NEW R \in SUBSET Nat, R # {}, NEW score, NEW bound \in Int, Bounded(score, R, bound)
  PROVE  \E i \in R : \A j \in R : score[j] < score[i] \/ (score[j] = score[i] /\ i <= j)
<1>1. PICK b \in R : \A j \in R : score[j] <= score[b]
  BY BestScore
<1>2. PICK top : top = {i \in R : score[i] = score[b]}
  OBVIOUS
<1>3. top \in SUBSET Nat /\ top # {}
  BY <1>2
<1>4. PICK i \in top : \A j \in top : i <= j
  BY <1>3, NatMin
<1>5. ASSUME NEW j \in R
      PROVE  score[j] < score[i] \/ (score[j] = score[i] /\ i <= j)
  <2>1. i \in R /\ score[i] = score[b] /\ score[j] <= score[b]
    BY <1>1, <1>2, <1>4
  <2>2. score[j] \in Int /\ score[b] \in Int
    BY DEF Bounded
  <2>3. CASE j \in top
    BY <1>2, <1>4, <2>1, <2>3
  <2>4. CASE j \notin top
    BY <1>2, <2>1, <2>2, <2>4
  <2> QED
    BY <2>3, <2>4
<1> QED
  BY <1>2, <1>5

(* What a sound candidate with a price scores *)
LEMMA ScoreOf ==
  ASSUME NEW p, NEW max \in Nat, NEW trusted, Sound(p, max), p.price > 0
  PROVE  LET scale == IF max > 0 THEN max ELSE 1
         IN ScoreCandidate(p, max, trusted) =
              (IF p.domain \in trusted THEN 55 * scale ELSE 50 * scale)
              + (IF p.price <= max THEN 20 * max - 5 * p.price ELSE 0)
<1>1. p.price \in Nat /\ p.status = "PRODUCT_VERIFIED" /\ p.availability # "AVAILABLE"
  BY DEF Sound
<1>2. CapabilityPoints(p.capability, 15, 10, 5) = 5
  BY DEF Sound, CapabilityPoints
<1> QED
  BY <1>1, <1>2 DEF ScoreCandidate

LEMMA RecommendedBest ==
  ASSUME NEW found, NEW max \in Nat, NEW trusted, SoundList(found, max)
  PROVE  RecommendationIsBest(found, max, RankCandidates(found, max, trusted))
<1>1. PICK S : SoundSet(S, max) /\ found \in Seq(S)
  BY DEF SoundList
<1>2. /\ DOMAIN found \in SUBSET Nat /\ 0 \notin DOMAIN found
      /\ \A i \in DOMAIN found : Sound(found[i], max)
  <2>1. \A i \in DOMAIN found : found[i] \in S /\ i \in Nat /\ i # 0
    BY <1>1
  <2> QED
    BY <1>1, <2>1 DEF SoundSet
<1>3. PICK ranked : ranked = {i \in DOMAIN found : Recommendable(found[i])}
  OBVIOUS
<1>4. PICK score : score = [i \in DOMAIN found |-> ScoreCandidate(found[i], max, trusted)]
  OBVIOUS
<1>5. PICK best : best = RankCandidates(found, max, trusted)
  OBVIOUS
<1>6. ranked \in SUBSET Nat /\ ranked \subseteq DOMAIN found
  BY <1>2, <1>3
<1>7. \A i \in DOMAIN found : i \in ranked <=> found[i].price > 0
  <2> SUFFICES ASSUME NEW i \in DOMAIN found PROVE i \in ranked <=> found[i].price > 0
    OBVIOUS
  <2>1. Sound(found[i], max)
    BY <1>2
  <2> QED
    BY <1>3, <2>1 DEF Recommendable, Sound
<1> DEFINE scale == IF max > 0 THEN max ELSE 1
<1>8. ASSUME NEW i \in ranked
      PROVE  /\ found[i].price \in Nat /\ found[i].price > 0
             /\ max > 0 => found[i].price <= max
             /\ score[i] = (IF found[i].domain \in trusted THEN 55 * scale ELSE 50 * scale)
                           + (IF found[i].price <= max THEN 20 * max - 5 * found[i].price ELSE 0)
  <2>1. i \in DOMAIN found /\ Sound(found[i], max) /\ found[i].price > 0
    BY <1>2, <1>6, <1>7
  <2>2. score[i] = ScoreCandidate(found[i], max, trusted)
    BY <1>4, <2>1
  <2>3. found[i].price \in Nat /\ (max > 0 => found[i].price <= max)
    BY <2>1 DEF Sound
  <2> QED
    BY <2>1, <2>2, <2>3, ScoreOf
<1> DEFINE Points(i) == ScoreCandidate(found[i], max, trusted)
<1> DEFINE First(i) == \A j \in ranked :
                         Points(j) < Points(i) \/ (Points(j) = Points(i) /\ i <= j)
<1>9. best = IF ranked = {} THEN 0 ELSE CHOOSE i \in ranked : First(i)
  BY <1>3, <1>5 DEF RankCandidates
<1>14. \A i \in ranked : Points(i) = score[i]
  BY <1>4, <1>6
<1>10. CASE ranked = {}
  <2>1. best = 0
    BY <1>9, <1>10
  <2>2. \A i \in DOMAIN found : found[i].price = 0
    BY <1>2, <1>7, <1>10 DEF Sound
  <2> QED
    BY <1>5, <2>1, <2>2 DEF RecommendationIsBest
<1>11. CASE ranked # {}
  <2>1. Bounded(score, ranked, 55 * scale + 20 * max)
    <3> SUFFICES ASSUME NEW i \in ranked
                 PROVE  score[i] \in Int /\ score[i] <= 55 * scale + 20 * max
      BY DEF Bounded
    <3>1. /\ found[i].price \in Nat
          /\ score[i] = (IF found[i].domain \in trusted THEN 55 * scale ELSE 50 * scale)
                        + (IF found[i].price <= max THEN 20 * max - 5 * found[i].price ELSE 0)
      BY <1>8
    <3>2. PICK price \in Nat : price = found[i].price
      BY <3>1
    <3>3. \/ score[i] = 55 * scale + (20 * max - 5 * price)
          \/ score[i] = 50 * scale + (20 * max - 5 * price)
          \/ score[i] = 55 * scale
          \/ score[i] = 50 * scale
      BY <3>1, <3>2
    <3>4. scale \in Nat
      OBVIOUS
    <3> HIDE DEF scale
    <3> QED
      BY <3>3, <3>4
  <2>2. \E i \in ranked : First(i)
    <3>1. 55 * scale + 20 * max \in Int
      OBVIOUS
    <3>2. PICK bound \in Int : bound = 55 * scale + 20 * max
      BY <3>1
    <3>3. PICK i \in ranked : \A j \in ranked :
            score[j] < score[i] \/ (score[j] = score[i] /\ i <= j)
      BY <1>6, <1>11, <2>1, <3>2, FirstBest
    <3>4. First(i)
      BY <1>14, <3>3
    <3> QED
      BY <3>4
  <2>3. best \in ranked /\ \A j \in ranked :
          score[j] < score[best] \/ (score[j] = score[best] /\ best <= j)
    <3>1. best \in ranked /\ First(best)
      <4> HIDE DEF First
      <4> QED
        BY <1>9, <1>11, <2>2
    <3> QED
      BY <1>14, <3>1
  <2>4. best # 0 /\ best \in DOMAIN found
    BY <1>2, <1>6, <2>3
  <2>5. 0 < found[best].price /\ (max > 0 => found[best].price <= max)
    BY <1>8, <2>3
  <2>6. ASSUME NEW i \in DOMAIN found,
               max > 0, found[i].price > 0, found[i].domain = found[best].domain
        PROVE  found[best].price <= found[i].price
    <3>1. i \in ranked
      BY <1>7, <2>6
    <3>2. score[i] <= score[best] /\ score[i] \in Int /\ score[best] \in Int
      BY <1>8, <2>3, <3>1
    <3>3. /\ score[i] = (IF found[i].domain \in trusted THEN 55 * max ELSE 50 * max)
                        + (20 * max - 5 * found[i].price)
          /\ score[best] = (IF found[i].domain \in trusted THEN 55 * max ELSE 50 * max)
                           + (20 * max - 5 * found[best].price)
      BY <1>8, <2>3, <2>6, <3>1
    <3>4. found[i].price \in Nat /\ found[best].price \in Nat
      BY <1>8, <2>3, <3>1
    <3> QED
      BY <3>2, <3>3, <3>4
  <2> QED
    BY <1>5, <2>4, <2>5, <2>6 DEF RecommendationIsBest
<1> QED
  BY <1>10, <1>11

--------------------------------------------------------------------------------
(* The lists the cart optimizer chooses from *)
Offered(lists, request) ==
  /\ Len(lists) \in Nat \ {0} /\ DOMAIN lists = 1 .. Len(lists)
  /\ request.budget \in Nat
  /\ \A i \in DOMAIN lists :
       /\ request.items[i].quantity \in Nat
       /\ Len(lists[i]) \in Nat
       /\ \A k \in 1 .. Len(lists[i]) :
            /\ lists[i][k].price \in Nat /\ lists[i][k].status = "PRODUCT_VERIFIED"
            /\ lists[i][k].availability = "UNKNOWN"
            /\ lists[i][k].capability = "DISCOVERY_ONLY"

LEMMA CartChoice ==
  ASSUME NEW lists, NEW request, Offered(lists, request), NEW cart \in Carts(lists)
  PROVE  /\ cart \in [1 .. Len(lists) -> Nat]
         /\ \A i \in DOMAIN lists : cart[i] \in 1 .. Len(lists[i])
<1>1. cart \in [1 .. Len(lists) -> 1 .. PrunedTo]
      /\ \A i \in DOMAIN lists : cart[i] <= Len(lists[i])
  BY DEF Carts, Offered
<1>2. 1 .. PrunedTo \subseteq Nat
  BY ShoppingAssumption
<1>3. \A i \in DOMAIN lists : cart[i] \in Nat /\ 1 <= cart[i] /\ Len(lists[i]) \in Nat
  BY <1>1, ShoppingAssumption DEF Offered
<1> QED
  BY <1>1, <1>2, <1>3

LEMMA CostIsNat ==
  ASSUME NEW lists, NEW request, Offered(lists, request), NEW cart \in Carts(lists)
  PROVE  CartCost(cart, lists, request) \in Nat
<1>1. PICK n : n = Len(lists)
  OBVIOUS
<1>2. n \in Nat /\ DOMAIN lists = 1 .. n
  BY <1>1 DEF Offered
<1>3. PICK price : price = [i \in 1 .. n |-> request.items[i].quantity * lists[i][cart[i]].price]
  OBVIOUS
<1>4. ASSUME NEW i \in 1 .. n
      PROVE  price[i] \in Nat /\ price[i] = request.items[i].quantity * lists[i][cart[i]].price
  <2>1. i \in DOMAIN lists /\ cart[i] \in 1 .. Len(lists[i])
    BY <1>2, CartChoice
  <2>2. request.items[i].quantity \in Nat /\ lists[i][cart[i]].price \in Nat
    BY <2>1 DEF Offered
  <2> QED
    BY <1>3, <2>2
<1>5. PICK step : step = [i \in 1 .. n |-> [k \in Nat |-> k + price[i]]]
  OBVIOUS
<1>6. step \in [1 .. n -> [Nat -> Nat]]
  BY <1>4, <1>5
<1>7. PICK f : Follows(f, n, Nat, 0, step)
  BY <1>2, <1>6, FollowsExists
<1> DEFINE R(g) == g = [i \in 0 .. Len(lists) |->
                          IF i = 0 THEN 0
                          ELSE g[i - 1] + request.items[i].quantity * lists[i][cart[i]].price]
<1>8. R(f)
  <2>1. ASSUME NEW i \in 0 .. n
        PROVE  f[i] = IF i = 0 THEN 0
                      ELSE f[i - 1] + request.items[i].quantity * lists[i][cart[i]].price
    <3>1. CASE i = 0
      BY <1>7, <3>1 DEF Follows
    <3>2. CASE i # 0
      <4>1. i \in 1 .. n /\ i - 1 \in 0 .. n
        BY <1>2, <3>2
      <4>2. f[i - 1] \in Nat /\ f[i] = step[i][f[i - 1]]
        BY <1>7, <4>1 DEF Follows
      <4>3. f[i] = f[i - 1] + price[i]
        BY <1>5, <4>1, <4>2
      <4> QED
        BY <1>4, <3>2, <4>1, <4>3
    <3> QED
      BY <3>1, <3>2
  <2> QED
    BY <1>1, <1>7, <2>1 DEF Follows
<1>9. PICK g : g = CHOOSE h : R(h)
  OBVIOUS
<1>10. R(g)
  BY <1>8, <1>9
<1>11. CartCost(cart, lists, request) = g[n]
  BY <1>1, <1>9 DEF CartCost
<1>12. Closed(g, n, Nat)
  <2>1. g[0] = 0
    BY <1>1, <1>2, <1>10
  <2>2. ASSUME NEW i \in 1 .. n, g[i - 1] \in Nat PROVE g[i] \in Nat
    <3>1. g[i] = g[i - 1] + price[i]
      <4>1. i \in 0 .. Len(lists) /\ i # 0
        BY <1>1, <1>2
      <4>2. g[i] = g[i - 1] + request.items[i].quantity * lists[i][cart[i]].price
        BY <1>10, <4>1
      <4> QED
        BY <1>4, <4>2
    <3> QED
      BY <1>4, <2>2, <3>1
  <2> QED
    BY <2>1, <2>2 DEF Closed
<1>13. n \in 0 .. n
  BY <1>2
<1> QED
  BY <1>2, <1>11, <1>12, <1>13, ClosedAll

LEMMA SellersPositive ==
  ASSUME NEW lists, NEW request, Offered(lists, request), NEW cart
  PROVE  MerchantCount(cart, lists) \in Nat \ {0}
<1>1. PICK n : n = Len(lists)
  OBVIOUS
<1>2. n \in Nat \ {0} /\ DOMAIN lists = 1 .. n
  BY <1>1 DEF Offered
<1>3. PICK T : T = {lists[i][cart[i]].domain : i \in 1 .. n}
  OBVIOUS
<1>4. PICK f : f = [i \in 1 .. n |-> lists[i][cart[i]].domain]
  OBVIOUS
<1>5. f \in Surjection(1 .. n, T)
  BY <1>3, <1>4 DEF Surjection
<1>6. IsFiniteSet(1 .. n)
  BY <1>2, FS_Interval
<1>7. IsFiniteSet(T)
  BY <1>5, <1>6, FS_Surjection
<1>8. T # {}
  <2>1. 1 \in 1 .. n
    BY <1>2
  <2> QED
    BY <1>3, <2>1
<1>9. Cardinality(T) \in Nat /\ Cardinality(T) # 0
  BY <1>7, <1>8, FS_CardinalityType, FS_EmptySet
<1> QED
  BY <1>2, <1>3, <1>9 DEF MerchantCount
--------------------------------------------------------------------------------
(* The order of the carts has a first one in every set of carts *)
Ahead(c, F, k) == \A d \in F : SameUpTo(c, d, k) \/ Precedes(c, d)

LEMMA LexFirst ==
  ASSUME NEW n \in Nat, NEW F \in SUBSET [1 .. n -> Nat], F # {}
  PROVE  \E c \in F : \A d \in F \ {c} : Precedes(c, d)
<1>0. PICK bad : bad = {k \in 0 .. n : ~ \E c \in F : Ahead(c, F, k)}
  OBVIOUS
<1>1. bad = {}
  <2> SUFFICES ASSUME bad # {} PROVE FALSE
    OBVIOUS
  <2>1. bad \in SUBSET Nat
    BY <1>0
  <2>2. PICK k \in bad : \A j \in bad : k <= j
    BY <2>1, NatMin
  <2>3. k # 0
    <3>1. \A c \in F : Ahead(c, F, 0)
      BY DEF Ahead, SameUpTo
    <3> QED
      BY <1>0, <2>2, <3>1
  <2>4. k \in 1 .. n /\ k - 1 \in 0 .. n /\ k \in Nat
    BY <1>0, <2>2, <2>3
  <2>5. PICK c \in F : Ahead(c, F, k - 1)
    <3>1. ~ (k <= k - 1)
      BY <2>4
    <3> QED
      BY <1>0, <2>2, <2>4, <3>1
  <2>6. PICK G : G = {d \in F : SameUpTo(c, d, k - 1)}
    OBVIOUS
  <2>7. PICK values : values = {d[k] : d \in G}
    OBVIOUS
  <2>8. values \in SUBSET Nat /\ values # {}
    <3>1. c \in G
      BY <2>5, <2>6 DEF SameUpTo
    <3>2. \A d \in G : d[k] \in Nat
      BY <2>4, <2>6
    <3> QED
      BY <2>7, <3>1, <3>2
  <2>9. PICK x \in values : \A y \in values : x <= y
    BY <2>8, NatMin
  <2>10. PICK b \in G : x = b[k]
    BY <2>7, <2>9
  <2>11. b \in F /\ SameUpTo(c, b, k - 1) /\ b[k] \in Nat /\ DOMAIN b = 1 .. n
    BY <2>4, <2>6, <2>10
  <2>12. ASSUME NEW d \in F PROVE SameUpTo(b, d, k) \/ Precedes(b, d)
    <3>1. CASE SameUpTo(c, d, k - 1)
      <4>1. d \in G /\ b[k] <= d[k] /\ d[k] \in Nat
        BY <2>4, <2>6, <2>7, <2>9, <2>10, <3>1
      <4>2. \A j \in 1 .. (k - 1) : b[j] = d[j]
        BY <2>11, <3>1 DEF SameUpTo
      <4>3. CASE b[k] = d[k]
        <5>1. \A j \in 1 .. k : j = k \/ j \in 1 .. (k - 1)
          BY <2>4
        <5>2. \A j \in 1 .. k : b[j] = d[j]
          BY <4>2, <4>3, <5>1
        <5> QED
          BY <5>2 DEF SameUpTo
      <4>4. CASE b[k] < d[k]
        BY <2>4, <2>11, <4>2, <4>4 DEF Precedes
      <4>5. b[k] = d[k] \/ b[k] < d[k]
        <5>1. PICK x1 \in Nat, x2 \in Nat : x1 = b[k] /\ x2 = d[k]
          BY <2>11, <4>1
        <5> QED
          BY <4>1, <5>1
      <4> QED
        BY <4>3, <4>4, <4>5
    <3>2. CASE ~SameUpTo(c, d, k - 1)
      <4>1. Precedes(c, d)
        BY <2>5, <3>2 DEF Ahead
      <4>2. PICK i \in DOMAIN c : c[i] < d[i] /\ \A j \in 1 .. (i - 1) : c[j] = d[j]
        BY <4>1 DEF Precedes
      <4>3. i \in 1 .. n /\ i \in Nat
        BY <2>5, <4>2
      <4>4. i \in 1 .. (k - 1)
        <5> SUFFICES ASSUME i \notin 1 .. (k - 1) PROVE FALSE
          OBVIOUS
        <5>1. \A j \in 1 .. (k - 1) : j \in 1 .. (i - 1)
          BY <2>4, <4>3
        <5> QED
          BY <3>2, <4>2, <5>1 DEF SameUpTo
      <4>5. b[i] = c[i] /\ \A j \in 1 .. (i - 1) : b[j] = c[j]
        <5>1. \A j \in 1 .. (i - 1) : j \in 1 .. (k - 1)
          BY <2>4, <4>4
        <5> QED
          BY <2>11, <4>4, <5>1 DEF SameUpTo
      <4>6. i \in DOMAIN b /\ b[i] < d[i] /\ \A j \in 1 .. (i - 1) : b[j] = d[j]
        BY <2>11, <4>2, <4>3, <4>5
      <4> QED
        BY <4>6 DEF Precedes
    <3> QED
      BY <3>1, <3>2
  <2>13. Ahead(b, F, k)
    BY <2>12 DEF Ahead
  <2> QED
    BY <1>0, <2>2, <2>11, <2>13
<1>2. PICK c \in F : Ahead(c, F, n)
  <2>1. n \in 0 .. n
    OBVIOUS
  <2> QED
    BY <1>0, <1>1, <2>1
<1>3. ASSUME NEW d \in F \ {c} PROVE Precedes(c, d)
  <2>1. SameUpTo(c, d, n) => c = d
    <3>1. c \in [1 .. n -> Nat] /\ d \in [1 .. n -> Nat]
      OBVIOUS
    <3> QED
      BY <3>1 DEF SameUpTo
  <2> QED
    BY <1>2, <2>1 DEF Ahead
<1> QED
  BY <1>3

--------------------------------------------------------------------------------
(* What remains of a cart's score once all its products are alike: what it *)
(* costs and how many sellers it has.                                      *)
Weighed(score, strategy, favours) == IF strategy = favours THEN (3 * score) \div 2 ELSE score

CartPoints(whole, spent, sellers, strategy, rest) ==
  Weighed(25 * whole - 180 * spent, strategy, "LOWEST_TOTAL_PRICE")
  + Weighed((20 * whole) \div sellers, strategy, "FEWEST_MERCHANTS") + rest

LEMMA PointsBound ==
  ASSUME NEW whole \in Nat, NEW spent \in Nat, NEW sellers \in {1, 2, 3},
         NEW strategy, NEW rest \in Nat
  PROVE  /\ CartPoints(whole, spent, sellers, strategy, rest) \in Int
         /\ CartPoints(whole, spent, sellers, strategy, rest) <= 90 * whole + rest
<1>1. PICK m \in Nat : m = (20 * whole) \div sellers /\ m <= 20 * whole
  <2>1. CASE sellers = 1
    BY <2>1
  <2>2. CASE sellers = 2
    BY <2>2
  <2>3. CASE sellers = 3
    BY <2>3
  <2> QED
    BY <2>1, <2>2, <2>3
<1>2. Weighed(m, strategy, "FEWEST_MERCHANTS") \in Int /\ Weighed(m, strategy, "FEWEST_MERCHANTS") <= 40 * whole
  BY <1>1 DEF Weighed
<1>3. /\ Weighed(25 * whole - 180 * spent, strategy, "LOWEST_TOTAL_PRICE") \in Int
      /\ Weighed(25 * whole - 180 * spent, strategy, "LOWEST_TOTAL_PRICE") <= 50 * whole
  BY DEF Weighed
<1> QED
  BY <1>1, <1>2, <1>3 DEF CartPoints

LEMMA WeighedMore ==
  ASSUME NEW a \in Int, NEW b \in Int, a <= b, NEW strategy, NEW favours
  PROVE  /\ Weighed(a, strategy, favours) \in Int /\ Weighed(b, strategy, favours) \in Int
         /\ Weighed(a, strategy, favours) <= Weighed(b, strategy, favours)
         /\ a < b => Weighed(a, strategy, favours) < Weighed(b, strategy, favours)
BY DEF Weighed

LEMMA ShareGrows ==
  ASSUME NEW whole \in Nat, whole >= 3, NEW k \in {1, 2, 3}, NEW m \in {1, 2, 3}, k <= m
  PROVE  /\ (20 * whole) \div k \in Int /\ (20 * whole) \div m \in Int
         /\ (20 * whole) \div m <= (20 * whole) \div k
         /\ k < m => (20 * whole) \div m < (20 * whole) \div k
<1>1. (20 * whole) \div 1 = 20 * whole
  OBVIOUS
<1>2. (20 * whole) \div 2 = 10 * whole
  OBVIOUS
<1>3. (20 * whole) \div 3 \in Int /\ (20 * whole) \div 3 < 10 * whole
  OBVIOUS
<1>4. 10 * whole < 20 * whole
  OBVIOUS
<1> QED
  BY <1>1, <1>2, <1>3, <1>4

(* A cart that costs less or has fewer sellers has more points *)
LEMMA PointsGrow ==
  ASSUME NEW whole \in Nat, whole >= 3, NEW spent \in Nat, NEW more \in Nat,
         NEW sellers \in {1, 2, 3}, NEW others \in {1, 2, 3},
         NEW strategy, NEW rest \in Nat,
         spent <= more, sellers <= others, spent < more \/ sellers < others
  PROVE  CartPoints(whole, more, others, strategy, rest)
           < CartPoints(whole, spent, sellers, strategy, rest)
<1>0. 25 * whole - 180 * more \in Int /\ 25 * whole - 180 * spent \in Int
  OBVIOUS
<1>1. PICK x \in Int, y \in Int : x = 25 * whole - 180 * more /\ y = 25 * whole - 180 * spent
  BY <1>0, Zenon
<1>2. x <= y /\ (spent < more => x < y)
  BY <1>1
<1>3. PICK u \in Int, v \in Int : u = (20 * whole) \div others /\ v = (20 * whole) \div sellers
  BY ShareGrows
<1>4. u <= v /\ (sellers < others => u < v)
  BY <1>3, ShareGrows
<1>5. /\ Weighed(x, strategy, "LOWEST_TOTAL_PRICE") \in Int /\ Weighed(y, strategy, "LOWEST_TOTAL_PRICE") \in Int
      /\ Weighed(x, strategy, "LOWEST_TOTAL_PRICE") <= Weighed(y, strategy, "LOWEST_TOTAL_PRICE")
      /\ x < y => Weighed(x, strategy, "LOWEST_TOTAL_PRICE") < Weighed(y, strategy, "LOWEST_TOTAL_PRICE")
  BY <1>2, WeighedMore
<1>6. /\ Weighed(u, strategy, "FEWEST_MERCHANTS") \in Int /\ Weighed(v, strategy, "FEWEST_MERCHANTS") \in Int
      /\ Weighed(u, strategy, "FEWEST_MERCHANTS") <= Weighed(v, strategy, "FEWEST_MERCHANTS")
      /\ u < v => Weighed(u, strategy, "FEWEST_MERCHANTS") < Weighed(v, strategy, "FEWEST_MERCHANTS")
  BY <1>4, WeighedMore
<1>7. /\ CartPoints(whole, more, others, strategy, rest)
           = Weighed(x, strategy, "LOWEST_TOTAL_PRICE") + Weighed(u, strategy, "FEWEST_MERCHANTS") + rest
      /\ CartPoints(whole, spent, sellers, strategy, rest)
           = Weighed(y, strategy, "LOWEST_TOTAL_PRICE") + Weighed(v, strategy, "FEWEST_MERCHANTS") + rest
  BY <1>1, <1>3 DEF CartPoints
<1> QED
  BY <1>2, <1>4, <1>5, <1>6, <1>7

LEMMA TimesPositive ==
  ASSUME NEW n \in Nat \ {0}, NEW a \in Nat, NEW b \in Nat
  PROVE  /\ n * a \in Nat
         /\ a <= b => n * a <= n * b
         /\ a < b => n * a < n * b
OBVIOUS

LEMMA ScoreIsPoints ==
  ASSUME NEW lists, NEW request, Offered(lists, request)
  PROVE  \E rest \in Nat : \A cart \in Carts(lists) :
           ScoreCart(cart, lists, request) =
             CartPoints(24 * request.budget * Len(lists),
                        Len(lists) * CartCost(cart, lists, request),
                        MerchantCount(cart, lists),
                        request.strategy, rest)
<1>0. PICK n \in Nat \ {0}, budget \in Nat : n = Len(lists) /\ budget = request.budget
  BY DEF Offered
<1>1. PICK whole : n = Len(lists) /\ budget = request.budget /\ whole = 24 * budget * n
  BY <1>0
<1>2. DOMAIN lists = 1 .. n
  BY <1>1 DEF Offered
<1>3. PICK rest : rest = 24 * budget * (20 * n + 15 * 0) + whole * (3 + 10)
  OBVIOUS
<1>6. 24 * budget * (20 * n + 15 * 0) \in Nat
  <2>1. 24 * budget \in Nat /\ 20 * n + 15 * 0 \in Nat
    BY <1>1
  <2>2. \A a \in Nat, b \in Nat : a * b \in Nat
    OBVIOUS
  <2> QED
    BY <2>1, <2>2
<1>4. whole \in Nat /\ rest \in Nat
  <2>1. 24 * budget \in Nat
    BY <1>1
  <2>2. whole \in Nat
    BY <1>1, <2>1, TimesPositive
  <2> QED
    BY <1>3, <1>6, <2>2
<1>5. ASSUME NEW cart \in Carts(lists)
      PROVE  ScoreCart(cart, lists, request) =
               CartPoints(whole, n * CartCost(cart, lists, request),
                          MerchantCount(cart, lists),
                          request.strategy, rest)
  <2>1. \A i \in 1 .. n :
          /\ lists[i][cart[i]].status = "PRODUCT_VERIFIED"
          /\ lists[i][cart[i]].availability # "AVAILABLE"
          /\ lists[i][cart[i]].capability = "DISCOVERY_ONLY"
    <3> SUFFICES ASSUME NEW i \in 1 .. n
                 PROVE  /\ lists[i][cart[i]].status = "PRODUCT_VERIFIED"
                        /\ lists[i][cart[i]].availability # "AVAILABLE"
                        /\ lists[i][cart[i]].capability = "DISCOVERY_ONLY"
      OBVIOUS
    <3>1. i \in DOMAIN lists /\ cart[i] \in 1 .. Len(lists[i])
      BY <1>2, CartChoice
    <3> QED
      BY <3>1 DEF Offered
  <2>2. PICK verified : verified = {i \in DOMAIN lists : lists[i][cart[i]].status = "PRODUCT_VERIFIED"}
    OBVIOUS
  <2>3. PICK available : available = {i \in DOMAIN lists : lists[i][cart[i]].availability = "AVAILABLE"}
    OBVIOUS
  <2>8. Cardinality(verified) = n
    <3>1. verified = 1 .. n
      BY <1>2, <2>1, <2>2
    <3>2. Cardinality(1 .. n) = n
      BY FS_Interval
    <3> QED
      BY <3>1, <3>2
  <2>9. Cardinality(available) = 0
    <3>1. available = {}
      BY <1>2, <2>1, <2>3
    <3> QED
      BY <3>1, FS_EmptySet
  <2>4. CapabilityPoints(CartCapability(cart, lists), 10, 7, 3) = 3
    <3>1. CartCapability(cart, lists) = "DISCOVERY_ONLY"
      <4>1. 1 \in 1 .. n
        OBVIOUS
      <4>2. "DISCOVERY_ONLY" \in {lists[i][cart[i]].capability : i \in DOMAIN lists}
        BY <1>2, <2>1, <4>1
      <4> QED
        BY <4>2 DEF CartCapability
    <3> QED
      BY <3>1 DEF CapabilityPoints
  <2>5. PICK cost \in Nat : cost = CartCost(cart, lists, request)
    BY CostIsNat
  <2>6. 180 * n * cost = 180 * (n * cost)
    OBVIOUS
  <2>7. ScoreCart(cart, lists, request) =
          Weighed(25 * whole - 180 * n * cost, request.strategy, "LOWEST_TOTAL_PRICE")
          + Weighed((20 * whole) \div MerchantCount(cart, lists),
                    request.strategy, "FEWEST_MERCHANTS")
          + 24 * budget * (20 * Cardinality(verified) + 15 * Cardinality(available))
          + whole * (CapabilityPoints(CartCapability(cart, lists), 10, 7, 3) + 10)
    BY <1>1, <2>2, <2>3, <2>5 DEF ScoreCart, Weighed
  <2>10. PICK a, b, c, d :
           /\ a = Weighed(25 * whole - 180 * n * cost, request.strategy, "LOWEST_TOTAL_PRICE")
           /\ b = Weighed((20 * whole) \div MerchantCount(cart, lists),
                          request.strategy, "FEWEST_MERCHANTS")
           /\ c = 24 * budget * (20 * n + 15 * 0)
           /\ d = whole * (3 + 10)
    OBVIOUS
  <2>11. a \in Int /\ b \in Int /\ c \in Int /\ d \in Int
    <3>1. a \in Int
      <4>1. n * cost \in Nat
        BY <2>5, TimesPositive
      <4>2. 25 * whole - 180 * n * cost \in Int
        BY <1>4, <2>6, <4>1
      <4> QED
        BY <2>10, <4>2 DEF Weighed
    <3>2. b \in Int
      <4>1. (20 * whole) \div MerchantCount(cart, lists) \in Int
        BY <1>4, SellersPositive
      <4> QED
        BY <2>10, <4>1 DEF Weighed
    <3>3. c \in Int
      BY <1>6, <2>10
    <3> QED
      BY <1>4, <2>10, <3>1, <3>2, <3>3
  <2>12. ScoreCart(cart, lists, request) = a + b + c + d
    BY <2>4, <2>7, <2>8, <2>9, <2>10
  <2>13. CartPoints(whole, n * cost, MerchantCount(cart, lists),
                    request.strategy, rest) = a + b + (c + d)
    BY <1>3, <2>6, <2>10 DEF CartPoints
  <2>14. a + b + c + d = a + b + (c + d)
    BY <2>11
  <2> QED
    BY <2>5, <2>12, <2>13, <2>14
<1> QED
  BY <1>1, <1>4, <1>5

(* A cart of those feasible has the best score and comes first of those *)
LEMMA BestCartExists ==
  ASSUME NEW lists, NEW request, Offered(lists, request), FeasibleCarts(lists, request) # {}
  PROVE  /\ BestCart(lists, request) \in FeasibleCarts(lists, request)
         /\ \A d \in FeasibleCarts(lists, request) :
              /\ ScoreCart(d, lists, request) \in Int
              /\ ScoreCart(BestCart(lists, request), lists, request) \in Int
              /\ ScoreCart(d, lists, request) <= ScoreCart(BestCart(lists, request), lists, request)
<1>1. PICK F : F = FeasibleCarts(lists, request)
  OBVIOUS
<1>2. ASSUME NEW c \in F
      PROVE  c \in Carts(lists) /\ MerchantCount(c, lists) \in {1, 2, 3}
  <2>1. c \in Carts(lists) /\ MerchantCount(c, lists) <= MaxMerchants
    BY <1>1 DEF FeasibleCarts, CartsWithinBudget
  <2>2. MerchantCount(c, lists) \in Nat \ {0}
    BY SellersPositive
  <2> QED
    BY <2>1, <2>2, ShoppingAssumption
<1>3. PICK score : score = [c \in F |-> ScoreCart(c, lists, request)]
  OBVIOUS
<1>4. PICK bound \in Int : Bounded(score, F, bound)
  <2>1. PICK rest \in Nat : \A cart \in Carts(lists) :
           ScoreCart(cart, lists, request) =
             CartPoints(24 * request.budget * Len(lists),
                        Len(lists) * CartCost(cart, lists, request),
                        MerchantCount(cart, lists),
                        request.strategy, rest)
    BY ScoreIsPoints
  <2>2. PICK n \in Nat \ {0} : n = Len(lists)
    BY DEF Offered
  <2>3. 24 * request.budget * n \in Nat
    <3>1. 24 * request.budget \in Nat
      BY DEF Offered
    <3> QED
      BY <3>1
  <2>4. PICK whole \in Nat : whole = 24 * request.budget * n
    BY <2>3
  <2>5. 90 * whole + rest \in Int
    OBVIOUS
  <2>6. ASSUME NEW c \in F PROVE score[c] \in Int /\ score[c] <= 90 * whole + rest
    <3>1. PICK cost \in Nat : cost = CartCost(c, lists, request)
      BY <1>2, CostIsNat
    <3>2. n * cost \in Nat
      BY <2>2, <3>1, TimesPositive
    <3>3. score[c] = CartPoints(whole, n * cost, MerchantCount(c, lists),
                                request.strategy, rest)
      BY <1>2, <1>3, <2>1, <2>2, <2>4, <3>1
    <3>4. PICK strategy : strategy = request.strategy
      OBVIOUS
    <3>5. PICK spent \in Nat, sellers \in {1, 2, 3} :
            score[c] = CartPoints(whole, spent, sellers, strategy, rest)
      BY <1>2, <3>2, <3>3, <3>4
    <3> QED
      BY <3>5, PointsBound
  <2> QED
    BY <2>5, <2>6 DEF Bounded
<1>5. PICK b \in F : \A d \in F : score[d] <= score[b]
  BY <1>1, <1>4, BestScore
<1>6. PICK top : top = {c \in F : score[c] = score[b]}
  OBVIOUS
<1>7. PICK c \in top : \A d \in top \ {c} : Precedes(c, d)
  <2>1. PICK n \in Nat : n = Len(lists)
    BY DEF Offered
  <2>2. top \in SUBSET [1 .. n -> Nat]
    BY <1>2, <1>6, <2>1, CartChoice
  <2>3. top # {}
    BY <1>5, <1>6
  <2> QED
    BY <2>1, <2>2, <2>3, LexFirst
<1> DEFINE Points(x) == ScoreCart(x, lists, request)
<1> DEFINE First(x) == \A d \in F \ {x} :
                         Points(d) < Points(x) \/ (Points(d) = Points(x) /\ Precedes(x, d))
<1>8. \A x \in F : Points(x) = score[x] /\ score[x] \in Int
  BY <1>3, <1>4 DEF Bounded
<1>9. BestCart(lists, request) = CHOOSE x \in F : First(x)
  BY <1>1 DEF BestCart
<1>10. c \in F /\ First(c)
  <2>1. c \in F /\ score[c] = score[b]
    BY <1>6, <1>7
  <2>2. ASSUME NEW d \in F \ {c}
        PROVE  score[d] < score[c] \/ (score[d] = score[c] /\ Precedes(c, d))
    <3>1. CASE d \in top
      BY <1>6, <1>7, <2>1, <3>1
    <3>2. CASE d \notin top
      BY <1>5, <1>6, <1>8, <2>1, <3>2
    <3> QED
      BY <3>1, <3>2
  <2> QED
    BY <1>8, <2>1, <2>2
<1>11. PICK best : best = BestCart(lists, request)
  OBVIOUS
<1>12. best \in F /\ First(best)
  <2> HIDE DEF First
  <2> QED
    BY <1>9, <1>10, <1>11
<1>13. ASSUME NEW d \in F
       PROVE  Points(d) \in Int /\ Points(best) \in Int /\ Points(d) <= Points(best)
  <2>1. Points(d) \in Int /\ Points(best) \in Int
    BY <1>8, <1>12
  <2>2. d = best \/ Points(d) < Points(best) \/ Points(d) = Points(best)
    BY <1>12
  <2> QED
    BY <2>1, <2>2
<1> QED
  BY <1>1, <1>11, <1>12, <1>13

(* A cart that dominates another has a better score *)
LEMMA DominatesScores ==
  ASSUME NEW lists, NEW request, Offered(lists, request), request.budget # 0,
         NEW c \in FeasibleCarts(lists, request), NEW d \in FeasibleCarts(lists, request),
         Dominates(d, c, lists, request)
  PROVE  ScoreCart(c, lists, request) < ScoreCart(d, lists, request)
<1>1. ASSUME NEW x \in FeasibleCarts(lists, request)
      PROVE  x \in Carts(lists) /\ MerchantCount(x, lists) \in {1, 2, 3}
             /\ CartCost(x, lists, request) \in Nat
  <2>1. x \in Carts(lists) /\ MerchantCount(x, lists) <= MaxMerchants
    BY DEF FeasibleCarts, CartsWithinBudget
  <2>2. MerchantCount(x, lists) \in Nat \ {0}
    BY SellersPositive
  <2> QED
    BY <2>1, <2>2, ShoppingAssumption, CostIsNat
<1>2. PICK rest \in Nat : \A cart \in Carts(lists) :
         ScoreCart(cart, lists, request) =
           CartPoints(24 * request.budget * Len(lists),
                      Len(lists) * CartCost(cart, lists, request),
                      MerchantCount(cart, lists),
                      request.strategy, rest)
  BY ScoreIsPoints
<1>3. PICK n \in Nat \ {0} : n = Len(lists)
  BY DEF Offered
<1>4. PICK whole \in Nat : whole = 24 * request.budget * n /\ whole >= 3
  <2>1. PICK most \in Nat \ {0} : most = 24 * request.budget /\ most >= 24
    BY DEF Offered
  <2>2. most * n \in Nat /\ most * n >= 24
    <3>1. most * 1 <= most * n
      BY TimesPositive
    <3> QED
      BY <2>1, <3>1
  <2> QED
    BY <2>1, <2>2
<1>5. PICK less \in Nat, more \in Nat :
        less = CartCost(d, lists, request) /\ more = CartCost(c, lists, request)
  BY <1>1
<1>6. PICK k \in {1, 2, 3}, m \in {1, 2, 3} :
        k = MerchantCount(d, lists) /\ m = MerchantCount(c, lists)
  BY <1>1
<1>7. less <= more /\ k <= m /\ (less < more \/ k < m)
  BY <1>5, <1>6 DEF Dominates
<1>8. /\ n * less \in Nat /\ n * more \in Nat /\ n * less <= n * more
      /\ n * less < n * more \/ k < m
  BY <1>7, TimesPositive
<1>9. PICK strategy : strategy = request.strategy
  OBVIOUS
<1>10. /\ ScoreCart(c, lists, request) = CartPoints(whole, n * more, m, strategy, rest)
       /\ ScoreCart(d, lists, request) = CartPoints(whole, n * less, k, strategy, rest)
  BY <1>1, <1>2, <1>3, <1>4, <1>5, <1>6, <1>9
<1>11. PICK spent \in Nat, dear \in Nat : spent = n * less /\ dear = n * more
  BY <1>8
<1>12. spent <= dear /\ k <= m /\ (spent < dear \/ k < m)
  BY <1>7, <1>8, <1>11
<1>13. CartPoints(whole, dear, m, strategy, rest) < CartPoints(whole, spent, k, strategy, rest)
  BY <1>4, <1>12, PointsGrow
<1> QED
  BY <1>10, <1>11, <1>13

LEMMA OptimizedBest ==
  ASSUME NEW lists, NEW request, Offered(lists, request),
         request.budget # 0 \/ OptimizeCart(lists, request) = NoCart
  PROVE  CartIsBest(lists, request, OptimizeCart(lists, request))
<1>1. PICK F : F = FeasibleCarts(lists, request)
  OBVIOUS
<1>2. F = {c \in Carts(lists) : /\ CartCost(c, lists, request) <= request.budget
                                /\ MerchantCount(c, lists) <= MaxMerchants}
  BY <1>1 DEF FeasibleCarts, CartsWithinBudget
<1>3. \A c \in F : c # NoCart
  <2> SUFFICES ASSUME NEW c \in F PROVE c # NoCart
    OBVIOUS
  <2>1. c \in [1 .. Len(lists) -> Nat] /\ Len(lists) \in Nat \ {0}
    BY <1>2, CartChoice DEF Offered
  <2>2. 1 \in DOMAIN c
    BY <2>1
  <2> QED
    BY <2>2 DEF NoCart
<1>4. (\E i \in DOMAIN lists : lists[i] = <<>>) => F = {}
  <2> SUFFICES ASSUME NEW i \in DOMAIN lists, lists[i] = << >>, NEW c \in F PROVE FALSE
    OBVIOUS
  <2>1. c \in Carts(lists)
    BY <1>2
  <2>2. c[i] \in 1 .. Len(lists[i])
    BY <2>1, CartChoice
  <2>3. Len(lists[i]) = 0
    OBVIOUS
  <2> QED
    BY <2>2, <2>3
<1>5. CASE F = {}
  <2>1. OptimizeCart(lists, request) = NoCart
    BY <1>1, <1>5 DEF OptimizeCart
  <2> QED
    BY <1>2, <1>5, <2>1 DEF CartIsBest
<1>6. CASE F # {}
  <2>1. PICK best : best = OptimizeCart(lists, request)
    OBVIOUS
  <2>2. best = BestCart(lists, request)
    BY <1>1, <1>4, <1>6, <2>1 DEF OptimizeCart
  <2>3. best \in F /\ best # NoCart
    BY <1>1, <1>3, <1>6, <2>2, BestCartExists
  <2>4. ASSUME NEW d \in F, Dominates(d, best, lists, request) PROVE FALSE
    <3>1. request.budget # 0
      BY <2>1, <2>3
    <3>2. /\ ScoreCart(d, lists, request) \in Int /\ ScoreCart(best, lists, request) \in Int
          /\ ScoreCart(d, lists, request) <= ScoreCart(best, lists, request)
      BY <1>1, <1>6, <2>2, BestCartExists
    <3>3. ScoreCart(best, lists, request) < ScoreCart(d, lists, request)
      BY <1>1, <2>3, <2>4, <3>1, DominatesScores
    <3> QED
      BY <3>2, <3>3
  <2> QED
    BY <1>2, <2>1, <2>3, <2>4 DEF CartIsBest
<1> QED
  BY <1>5, <1>6

--------------------------------------------------------------------------------
(* What the endpoints answer *)
LEMMA WordAnswered ==
  ASSUME NEW web \in Webs, NEW word \in DOMAIN web
  PROVE  Answered(web[word].tavily) /\ Answered(web[word].public)
BY ShopAssumption DEF Answered

Asked(request, web) ==
  /\ request.budget \in Nat
  /\ Len(request.items) \in Nat \ {0} /\ DOMAIN request.items = 1 .. Len(request.items)
  /\ \A i \in DOMAIN request.items :
       request.items[i].quantity \in Nat /\ request.items[i].query \in DOMAIN web

LEMMA PromptAsked ==
  ASSUME NEW prompt \in CartPrompts, NEW default \in Nat, NEW web \in Webs
  PROVE  Asked(ParsePrompt(prompt, default), web)
<1>1. PICK request : request = ParsePrompt(prompt, default)
  OBVIOUS
<1>2. request.budget \in Nat
  <2>1. prompt.amount \in Nat
    BY ShopAssumption
  <2>2. request.budget = IF prompt.amount > 0 THEN 100 * prompt.amount ELSE default
    BY <1>1 DEF ParsePrompt
  <2> QED
    BY <2>1, <2>2
<1>3. PICK items : items = prompt.items
  OBVIOUS
<1>4. /\ items \in Seq({items[i] : i \in DOMAIN items})
      /\ \A i \in DOMAIN items : items[i].quantity \in Nat /\ items[i].query \in DOMAIN web
  BY <1>3, ShopAssumption
<1>5. CASE items = << >>
  <2>1. PICK one : one = [query |-> "coffee", quantity |-> 1]
    OBVIOUS
  <2>2. request.items = << one >>
    BY <1>1, <1>3, <1>5, <2>1 DEF ParsePrompt
  <2>3. one.quantity \in Nat /\ one.query \in DOMAIN web
    BY <2>1, ShopAssumption
  <2>4. Len(<< one >>) = 1 /\ DOMAIN << one >> = 1 .. 1 /\ << one >>[1] = one
    OBVIOUS
  <2>5. \A i \in 1 .. 1 : i = 1
    OBVIOUS
  <2>6. /\ Len(<< one >>) \in Nat \ {0} /\ DOMAIN << one >> = 1 .. Len(<< one >>)
        /\ \A i \in DOMAIN << one >> :
             << one >>[i].quantity \in Nat /\ << one >>[i].query \in DOMAIN web
    BY <2>3, <2>4, <2>5
  <2> QED
    BY <1>1, <1>2, <2>2, <2>6 DEF Asked
<1>6. CASE items # << >>
  <2>1. request.items = items
    BY <1>1, <1>3, <1>6 DEF ParsePrompt
  <2>2. Len(items) \in Nat \ {0} /\ DOMAIN items = 1 .. Len(items)
    BY <1>4, <1>6
  <2> QED
    BY <1>1, <1>2, <1>4, <2>1, <2>2 DEF Asked
<1> QED
  BY <1>5, <1>6

LEMMA ResearchOffered ==
  ASSUME NEW web \in Webs, NEW request, Asked(request, web)
  PROVE  Offered(ResearchShoppingRequest(web, request), request)
<1>1. PICK lists : lists = ResearchShoppingRequest(web, request)
  OBVIOUS
<1>2. PICK n \in Nat \ {0} : n = Len(request.items) /\ DOMAIN request.items = 1 .. n
  BY DEF Asked
<1>3. lists = [i \in 1 .. n |-> ResearchItem(web, request.items[i], request.budget)]
  BY <1>1, <1>2 DEF ResearchShoppingRequest
<1>4. DOMAIN lists = 1 .. n /\ Len(lists) = n
  BY <1>3
<1>5. ASSUME NEW i \in 1 .. n
      PROVE  /\ Len(lists[i]) \in Nat
             /\ \A k \in 1 .. Len(lists[i]) :
                  /\ lists[i][k].price \in Nat /\ lists[i][k].status = "PRODUCT_VERIFIED"
                  /\ lists[i][k].availability = "UNKNOWN"
                  /\ lists[i][k].capability = "DISCOVERY_ONLY"
  <2>1. PICK word : word = request.items[i].query
    OBVIOUS
  <2>2. word \in DOMAIN web /\ request.budget \in Nat
    BY <1>2, <2>1 DEF Asked
  <2>3. PICK found : found = DiscoverCandidates(web[word], [limited |-> FALSE, numbers |-> {}],
                                                request.budget)
    OBVIOUS
  <2>4. SoundList(found, request.budget)
    BY <2>2, <2>3, WordAnswered, DiscoverySound
  <2>5. PICK S : SoundSet(S, request.budget) /\ found \in Seq(S)
    BY <2>4 DEF SoundList
  <2>6. PICK places : places = {j \in DOMAIN found : Recommendable(found[j])}
    OBVIOUS
  <2>7. PICK U : U = {found[j] : j \in places \cap DOMAIN found}
    OBVIOUS
  <2>8. lists[i] = ElementsAt(found, places)
    BY <1>3, <2>1, <2>3, <2>6 DEF ResearchItem
  <2>9. lists[i] \in Seq(U)
    BY <2>5, <2>7, <2>8, ElementsAtType
  <2>10. ASSUME NEW p \in U
         PROVE  /\ p.price \in Nat /\ p.status = "PRODUCT_VERIFIED"
                /\ p.availability = "UNKNOWN" /\ p.capability = "DISCOVERY_ONLY"
    <3>1. PICK j \in places \cap DOMAIN found : p = found[j]
      BY <2>7
    <3>2. Recommendable(p) /\ p \in S
      BY <2>5, <2>6, <3>1
    <3> QED
      BY <2>5, <3>2 DEF SoundSet, Sound, Recommendable
  <2>11. Len(lists[i]) \in Nat /\ \A k \in 1 .. Len(lists[i]) : lists[i][k] \in U
    BY <2>9
  <2> QED
    BY <2>10, <2>11
<1> QED
  BY <1>1, <1>2, <1>4, <1>5 DEF Offered, Asked

LEMMA CartAnswerBest ==
  ASSUME NEW web \in Webs, NEW prompt \in CartPrompts, NEW default \in Nat,
         Scored(CartFor(web, ParsePrompt(prompt, default)))
  PROVE  LET answer == CartFor(web, ParsePrompt(prompt, default))
         IN answer.kind = "cart" /\ CartIsBest(answer.lists, answer.request, answer.cart)
<1>1. PICK request : request = ParsePrompt(prompt, default)
  OBVIOUS
<1>2. PICK lists : lists = ResearchShoppingRequest(web, request)
  OBVIOUS
<1>3. PICK cart : cart = OptimizeCart(lists, request)
  OBVIOUS
<1>4. CartFor(web, request) = [kind |-> "cart", request |-> request, lists |-> lists, cart |-> cart]
  BY <1>2, <1>3 DEF CartFor
<1>5. Offered(lists, request)
  BY <1>1, <1>2, PromptAsked, ResearchOffered
<1>6. request.budget # 0 \/ cart = NoCart
  BY <1>1, <1>4 DEF Scored
<1>7. CartIsBest(lists, request, cart)
  BY <1>3, <1>5, <1>6, OptimizedBest
<1> QED
  BY <1>1, <1>4, <1>7

LEMMA ShopStepBest == ShopNext => AnswersAreBest'
<1> SUFFICES ASSUME ShopNext PROVE AnswersAreBest'
  OBVIOUS
<1>1. ASSUME NEW web \in Webs, NEW query \in Queries, NEW max \in PriceLimits,
             \/ shown' = CompareProducts(web, query, max)
             \/ shown' = CompareProductsTool(web, query, max)
      PROVE  AnswersAreBest'
  <2>1. shown'.kind = "compared"
    BY <1>1 DEF CompareProducts, CompareProductsTool
  <2> QED
    BY <2>1 DEF AnswersAreBest
<1>2. ASSUME NEW web \in Webs, NEW query \in Queries, NEW max \in PriceLimits,
             shown' = RecommendProduct(web, query, max)
      PROVE  AnswersAreBest'
  <2>1. max \in Nat /\ query.word \in DOMAIN web
    BY ShopAssumption
  <2>2. PICK found : found = SearchProducts(web, query, max)
    OBVIOUS
  <2>3. SoundList(found, max)
    <3>1. SoundList(DiscoverCandidates(web[query.word], query, max), max)
      BY <2>1, WordAnswered, DiscoverySound
    <3> QED
      BY <2>2, <3>1, DeduplicateSound DEF SearchProducts
  <2>4. PICK best : best = RankCandidates(found, max, TrustedDomains)
    OBVIOUS
  <2>5. RecommendationIsBest(found, max, best)
    BY <2>1, <2>3, <2>4, RecommendedBest
  <2>6. shown' = [kind |-> "recommended", max |-> max, found |-> found, best |-> best]
    BY <1>2, <2>2, <2>4 DEF RecommendProduct
  <2> QED
    BY <2>5, <2>6 DEF AnswersAreBest
<1>3. ASSUME NEW web \in Webs, NEW prompt \in CartPrompts, NEW budget \in PriceLimits,
             \/ shown' = OptimizeShoppingCart(web, prompt, budget)
             \/ /\ Scored(OptimizeCartTool(web, prompt, budget))
                /\ shown' = OptimizeCartTool(web, prompt, budget)
      PROVE  AnswersAreBest'
  <2>1. PICK default \in Nat :
          /\ shown' = CartFor(web, ParsePrompt(prompt, default))
          /\ Scored(CartFor(web, ParsePrompt(prompt, default)))
    <3>1. CASE /\ Scored(OptimizeCartTool(web, prompt, budget))
               /\ shown' = OptimizeCartTool(web, prompt, budget)
      <4>1. budget \in Nat
        BY ShopAssumption
      <4> QED
        BY <3>1, <4>1 DEF OptimizeCartTool
    <3>2. CASE shown' = OptimizeShoppingCart(web, prompt, budget)
      <4>1. PICK default \in Nat \ {0} : default = IF budget = 0 THEN DefaultBudget ELSE budget
        BY ShopAssumption DEF DefaultBudget
      <4>2. PICK request : request = ParsePrompt(prompt, default)
        OBVIOUS
      <4>3. request.budget # 0
        <5>1. prompt.amount \in Nat
          BY ShopAssumption
        <5>2. request.budget = IF prompt.amount > 0 THEN 100 * prompt.amount ELSE default
          BY <4>2 DEF ParsePrompt
        <5> QED
          BY <4>1, <5>1, <5>2
      <4>4. CartFor(web, request).request = request
        BY DEF CartFor
      <4>5. Scored(CartFor(web, request))
        BY <4>3, <4>4 DEF Scored
      <4>6. shown' = CartFor(web, request)
        BY <3>2, <4>1, <4>2 DEF OptimizeShoppingCart
      <4> QED
        BY <4>1, <4>2, <4>5, <4>6
    <3> QED
      BY <1>3, <3>1, <3>2
  <2>2. PICK answer : answer = CartFor(web, ParsePrompt(prompt, default))
    OBVIOUS
  <2>3. answer.kind = "cart" /\ CartIsBest(answer.lists, answer.request, answer.cart)
    BY <2>1, <2>2, CartAnswerBest
  <2>4. shown' = answer
    BY <2>1, <2>2
  <2> QED
    BY <2>3, <2>4 DEF AnswersAreBest
<1> QED
  BY <1>1, <1>2, <1>3 DEF ShopNext

(* AnswersBest: whatever the search services answered, the cart the        *)
(* optimizer proposes (cart_optimizer.py) is within the budget and the     *)
(* sellers allowed and none it considers dominates it, and the product     *)
(* recommended (recommendation_engine.py) is the seller's cheapest that    *)
(* fits the limit; nothing is answered only when there is nothing.         *)
THEOREM AnswersBest == Spec => []AnswersAreBest
<1>1. Init => AnswersAreBest
  BY DEF Init, AnswersAreBest, Nothing
<1>2. AnswersAreBest /\ [Next]_vars => AnswersAreBest'
  <2> SUFFICES ASSUME AnswersAreBest, [Next]_vars PROVE AnswersAreBest'
    OBVIOUS
  <2>1. ShopNext \/ UNCHANGED shown
    BY DEF Next, vars
  <2>2. CASE UNCHANGED shown
    BY <2>2 DEF AnswersAreBest
  <2> QED
    BY <2>1, <2>2, ShopStepBest
<1> QED
  BY <1>1, <1>2, PTL DEF Spec
================================================================================
