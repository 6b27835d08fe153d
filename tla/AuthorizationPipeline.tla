------------------------- MODULE AuthorizationPipeline -------------------------
(***************************************************************************)
(* Callers that take a proposal through the in-process engines: normalize, *)
(* evaluate, replay protection, nonce, step-up, aggregate, execute.  The   *)
(* engines (ReplayProtectionEngine, NonceEngine, StepUpEngine,             *)
(* PaymentExecutionService) are shared by the threads of a process; each   *)
(* of their methods runs under the engine's RLock and is one step here.    *)
(* The order in which a caller uses them is that of the integration tests. *)
(***************************************************************************)
EXTENDS InMemoryExecution

CONSTANTS Callers,      \* threads
          Proposals,    \* what an agent may propose
          Mandates,     \* the buyer's mandate, one of these
          Policies,     \* the merchant's policy, one of these
          BudgetAnswers,\* what the budget engine may answer here
          Ttl,          \* lifetime of a nonce, a challenge and a fingerprint
          MaxTime       \* bound on the clock

(* Amounts, limits and the products' places in their order are integers,   *)
(* and a cart's items are a list.                                          *)
ASSUME PipelineAssumption ==
  /\ Ttl \in Nat /\ MaxTime \in Nat /\ BudgetAnswers \subseteq Decision
  /\ \A m \in Mandates :
       /\ {"status", "issued", "buyer", "merchants", "cats", "cap"} \subseteq DOMAIN m
       /\ m.issued \in Int /\ m.cap \in Int
  /\ \A pol \in Policies : pol.limit \in Int
  /\ \A p \in Proposals :
       /\ DOMAIN p.items = 1 .. Len(p.items) /\ Len(p.items) \in Nat
       /\ p.tax \in Int /\ p.shipping \in Int
       /\ \A i \in DOMAIN p.items :
            p.items[i].product \in Int /\ p.items[i].qty \in Int /\ p.items[i].price \in Int

VARIABLES
  now, mandate, policy,
  nonces,      \* NonceEngine._records: the nonce issued for each transaction
  prints,      \* ReplayProtectionEngine._records: fingerprint and expiry
  challenges,  \* StepUpEngine._challenges: the challenge of each transaction
  call         \* per caller: where it is, its arguments, the verdicts so far

pipeVars == <<now, mandate, policy, nonces, prints, challenges, call>>
pvars == <<memoryVars, pipeVars>>

Idle == [pc |-> "idle"]
NoChallenge == [status |-> None]

Init ==
  /\ MemoryInit
  /\ now = 0
  /\ mandate \in Mandates
  /\ policy \in {pol \in Policies : PolicyValid(pol)}
  /\ nonces = [t \in Txs |-> [state |-> "ISSUED", issued |-> 0]]
  /\ prints = {}
  /\ challenges = [t \in Txs |-> NoChallenge]
  /\ call = [c \in Callers |-> Idle]

Approved(c) == NormalizedCart(call[c].proposal)
Presented(c) == NormalizedCart(call[c].presented)

Verdict(failure) == IF failure = "OK" THEN "ALLOW" ELSE "REJECT"

-------------------------------------------------------------------------------
(* A proposal arrives; one that cannot be normalized goes no further.  The *)
(* cart presented at execution time may be another one than was approved.  *)
Propose(c, t, p, q) ==
  /\ call[c] = Idle
  /\ NormalizationFailure(q) = "OK"
  /\ call' = [call EXCEPT ![c] =
       IF NormalizationFailure(p) = "OK"
       THEN [pc |-> "evaluate", tx |-> t, proposal |-> p, presented |-> q]
       ELSE [pc |-> "refused"]]
  /\ UNCHANGED <<memoryVars, now, mandate, policy, nonces, prints, challenges>>

(* The three evaluators on the objects of this moment, and the answer of   *)
(* the budget engine, which is a model of its own.                         *)
Evaluate(c) ==
  LET p == call[c].proposal  intent == NormalizedIntent(p)  cart == Approved(c) IN
  /\ call[c].pc = "evaluate"
  /\ \E budget \in BudgetAnswers :
       call' = [call EXCEPT ![c] =
         [pc |-> "replay", tx |-> @.tx, proposal |-> p, presented |-> @.presented,
          v |-> [MANDATE_EVALUATION |-> Verdict(MandateFailure(mandate, intent, cart, now)),
                 MERCHANT_POLICY |-> Verdict(PolicyFailure(policy, intent, cart, now)),
                 CART_INTEGRITY |-> Verdict(CartFailure(cart, Presented(c))),
                 BUDGET_RESERVATION |-> budget,
                 REPLAY_PROTECTION |-> None, NONCE_VALIDATION |-> None],
          stepUp |-> None]]
  /\ UNCHANGED <<memoryVars, now, mandate, policy, nonces, prints, challenges>>

Fingerprint(c) == <<call[c].tx, Presented(c).hash>>

(* The look-up of check_and_record: a record that has not expired *)
Replayed(c) == \E r \in prints : r.fp = Fingerprint(c) /\ now < r.until

(* check_and_record *)
CheckReplay(c) ==
  /\ call[c].pc = "replay"
  /\ call' = [call EXCEPT ![c].pc = "nonce",
       ![c].v["REPLAY_PROTECTION"] = IF Replayed(c) THEN "REJECT" ELSE "ALLOW"]
  /\ prints' = IF Replayed(c) THEN prints
               ELSE {r \in prints : r.fp # Fingerprint(c)}
                      \cup {[fp |-> Fingerprint(c), until |-> now + Ttl]}
  /\ UNCHANGED <<memoryVars, now, mandate, policy, nonces, challenges>>

(* The checks of validate_and_consume for the nonce of transaction n,      *)
(* submitted with transaction t: binding, state, not early, not expired    *)
NonceUsable(n, t) ==
  /\ n = t
  /\ nonces[n].state # "CONSUMED"
  /\ now >= nonces[n].issued
  /\ now < nonces[n].issued + Ttl

(* validate_and_consume; None stands for an unknown or empty nonce. *)
ConsumeNonce(c, n) ==
  LET ok == n # None /\ NonceUsable(n, call[c].tx) IN
  /\ call[c].pc = "nonce"
  /\ call' = [call EXCEPT ![c].pc = "stepup",
       ![c].v["NONCE_VALIDATION"] = IF ok THEN "ALLOW" ELSE "REJECT"]
  /\ nonces' = IF ok THEN [nonces EXCEPT ![n].state = "CONSUMED"] ELSE nonces
  /\ UNCHANGED <<memoryVars, now, mandate, policy, prints, challenges>>

(* The challenge ch presented for transaction t and cart, in the order of  *)
(* evaluate_authorization_step_up inside the step-up band                  *)
ChallengeFailure(ch, t, cart) ==
  IF ch = NoChallenge THEN "STEP_UP_CONFIRMATION_INVALID"
  ELSE FirstFailure(<<
    Rule(ch.status # "APPROVED", "STEP_UP_CONFIRMATION_INVALID"),
    Rule(now >= ch.expires, "STEP_UP_CONFIRMATION_EXPIRED"),
    Rule(ch.mandate # cart.mandate, "STEP_UP_CONFIRMATION_INVALID"),
    Rule(ch.tx # t, "STEP_UP_CONFIRMATION_INVALID"),
    Rule(ch.hash # cart.hash, "STEP_UP_CONFIRMATION_INVALID"),
    Rule(ch.merchant # cart.merchant, "STEP_UP_CONFIRMATION_INVALID"),
    Rule(ch.amount # cart.total, "STEP_UP_CONFIRMATION_INVALID")>>)

(* evaluate_authorization_step_up, with the challenge of transaction u or  *)
(* without one                                                             *)
StepUpDecision(c, u) ==
  LET cart == Approved(c)
      zone == StepUpZone(cart.total, mandate.cap, policy.pct)
  IN  IF zone = "AUTO_EXECUTE" THEN "ALLOW"
      ELSE IF zone = "HARD_REJECT" THEN "REJECT"
      ELSE IF u = None THEN "STEP_UP_REQUIRED"
      ELSE Verdict(ChallengeFailure(challenges[u], call[c].tx, cart))

(* The step-up control is asked, or left out by the caller. *)
EvaluateStepUp(c) ==
  /\ call[c].pc = "stepup"
  /\ \E u \in Txs \cup {None}, asked \in BOOLEAN :
       call' = [call EXCEPT ![c].pc = "execute",
         ![c].stepUp = IF asked THEN StepUpDecision(c, u) ELSE None]
  /\ UNCHANGED <<memoryVars, now, mandate, policy, nonces, prints, challenges>>

(* The transaction a caller builds for the approved cart, and what the     *)
(* agent asks to be executed *)
TxFor(c) ==
  LET cart == Approved(c) IN
  [state |-> "AUTHORIZED", merchant |-> cart.merchant, buyer |-> call[c].proposal.buyer,
   mandate |-> cart.mandate, amount |-> cart.total, currency |-> cart.currency,
   hash |-> cart.hash]
AskedFor(c) ==
  LET cart == Presented(c) IN
  [merchant |-> cart.merchant, buyer |-> call[c].presented.buyer, mandate |-> cart.mandate,
   amount |-> cart.total, currency |-> cart.currency, hash |-> cart.hash,
   op |-> call[c].presented.op]

(* aggregate and execute_payment; the conversion of a step-up result drops *)
(* its diff, so the aggregator never asks for a step-up on its account.    *)
Execute(c) ==
  /\ call[c].pc = "execute"
  /\ ExecutePayment(call[c].tx, TxFor(c), AskedFor(c),
                    Aggregate(call[c].v, call[c].stepUp, FALSE), call[c].v, call[c].stepUp)
  /\ call' = [call EXCEPT ![c] = [pc |-> "done", tx |-> @.tx, v |-> @.v,
                                  sent |-> dispatched'[@.tx] > dispatched[@.tx]]]
  /\ UNCHANGED <<now, mandate, policy, nonces, prints, challenges>>

-------------------------------------------------------------------------------
(* The buyer, the human approver, the clock *)

(* create_challenge *)
CreateChallenge(t, p) ==
  /\ challenges[t] = NoChallenge
  /\ NormalizationFailure(p) = "OK"
  /\ StepUpZone(ComputedTotal(p), mandate.cap, policy.pct) = "STEP_UP_REQUIRED"
  /\ challenges' = [challenges EXCEPT ![t] =
       [status |-> "PENDING", tx |-> t, mandate |-> p.mandate, merchant |-> p.merchant,
        hash |-> NormalizedCart(p).hash, amount |-> ComputedTotal(p), expires |-> now + Ttl]]
  /\ UNCHANGED <<memoryVars, now, mandate, policy, nonces, prints, call>>

(* record_human_confirmation for the proposal p: too late is written down  *)
(* as EXPIRED, another cart or amount raises.                              *)
ConfirmChallenge(t, p) ==
  LET ch == challenges[t] IN
  /\ ch # NoChallenge
  /\ ch.status = "PENDING"
  /\ \/ now >= ch.expires /\ challenges' = [challenges EXCEPT ![t].status = "EXPIRED"]
     \/ /\ now < ch.expires
        /\ ch.hash = NormalizedCart(p).hash
        /\ challenges' = [challenges EXCEPT ![t].status = "APPROVED"]
  /\ UNCHANGED <<memoryVars, now, mandate, policy, nonces, prints, call>>

(* activate_, suspend_, resume_, revoke_ and expire_mandate *)
TransitionMandate(target) ==
  /\ <<mandate.status, target>> \in MandateTransitions
  /\ mandate' = [mandate EXCEPT !.status = target]
  /\ UNCHANGED <<memoryVars, now, policy, nonces, prints, challenges, call>>

Tick ==
  /\ now < MaxTime
  /\ now' = now + 1
  /\ UNCHANGED <<memoryVars, mandate, policy, nonces, prints, challenges, call>>

(* Someone asks for the status of a transaction. *)
Reconcile(t) == ReconcileStatus(t) /\ UNCHANGED pipeVars

CallerStep(c) ==
  \/ \E t \in Txs, p, q \in Proposals : Propose(c, t, p, q)
  \/ Evaluate(c)
  \/ CheckReplay(c)
  \/ \E n \in Txs \cup {None} : ConsumeNonce(c, n)
  \/ EvaluateStepUp(c)
  \/ Execute(c)

Next ==
  \/ \E c \in Callers : CallerStep(c)
  \/ \E t \in Txs, p \in Proposals : CreateChallenge(t, p) \/ ConfirmChallenge(t, p)
  \/ \E s \in MandateStatus : TransitionMandate(s)
  \/ \E t \in Txs : Reconcile(t)
  \/ Tick

Spec == Init /\ [][Next]_pvars

-------------------------------------------------------------------------------
(* The amount that reached the provider is within the mandate's cap and    *)
(* the merchant's limit, and the buyer and the merchant are in scope.  A   *)
(* confirmed step-up does not lift the cap: the step-up engine would let a *)
(* tenth more pass, as PROJECT_CONTEXT.md means it to, but the mandate's   *)
(* evaluator has refused the amount by then.                               *)
WithinCaps ==
  \A t \in Txs : dispatched[t] > 0 =>
    LET tx == transactions[t] IN
    /\ tx.amount <= mandate.cap /\ tx.amount <= policy.limit
    /\ tx.buyer = mandate.buyer /\ tx.merchant = policy.merchant
    /\ mandate.merchants # {} => tx.merchant \in mandate.merchants

(* What reaches the provider was allowed by the buyer and by the merchant: *)
(* beside the caps, the amount is the sum of the hashed items, and their   *)
(* categories are in both scopes.                                          *)
WithinMandate ==
  /\ WithinCaps
  /\ \A t \in Txs : dispatched[t] > 0 =>
       LET tx == transactions[t]
           cats == {tx.hash.items[i].cat : i \in DOMAIN tx.hash.items}
       IN  /\ tx.amount = Subtotal(tx.hash.items) + tx.hash.tax + tx.hash.shipping
           /\ mandate.cats # {} => cats \subseteq mandate.cats
           /\ policy.cats # {} => cats \subseteq policy.cats

(* A transaction the execution service has answered, with a payment, a     *)
(* failure or a refusal, is never sent to the provider afterwards, by      *)
(* whichever caller and with whatever verdicts it comes back.              *)
AnsweredIsFinal ==
  [][\A t \in Txs : transactions[t] # NoTx => dispatched'[t] = dispatched[t]]_pvars

(* The first definite report on a payment that was sent decides, and       *)
(* nothing overturns it: the transaction is COMMITTED exactly when that    *)
(* report was SUCCESS and ROLLED_BACK exactly when it was FAILED, whether  *)
(* execute_payment or a later status query heard it.  A timeout, a query   *)
(* about a refused transaction and a contradicting report change neither;  *)
(* the cached result never says the opposite.  Whether the provider        *)
(* captured anything is the adapter's word.                                *)
MemoryTruthful ==
  \A t \in Txs :
    /\ transactions[t].state = "COMMITTED" <=> reported[t] = "SUCCESS"
    /\ transactions[t].state = "ROLLED_BACK" <=> reported[t] = "FAILED"
    /\ results[t] \in {"SUCCESS", "FAILED"} => results[t] = reported[t]

(* PolicyEngine and the two evaluators are separate implementations of the *)
(* same rules.  Where PolicyEngine allows a purchase, the evaluators allow *)
(* it too, provided the buyer, the policy's merchant, the mandate's        *)
(* regions and its start agree, which only the evaluators look at.         *)
EnginesAgree ==
  \A c \in Callers : call[c].pc \in {"evaluate", "replay"} =>
    LET p == call[c].proposal
        intent == NormalizedIntent(p)
        cart == Approved(c)
        e == [op |-> p.op, region |-> p.region, nonceFresh |-> TRUE, affordable |-> TRUE]
    IN  /\ EngineDecision(mandate, policy, cart, e, now) = "ALLOW"
        /\ p.buyer = mandate.buyer /\ p.merchant = policy.merchant
        /\ mandate.regions # {} => p.region \in mandate.regions
        /\ mandate.issued <= now
        => /\ MandateFailure(mandate, intent, cart, now) = "OK"
           /\ PolicyFailure(policy, intent, cart, now) = "OK"
===============================================================================
