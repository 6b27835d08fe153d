--------------------------- MODULE SecurityControls ---------------------------
(***************************************************************************)
(* The deterministic controls between an AI agent's purchase proposal and  *)
(* the payment: IntentNormalizer, MandateEvaluator, MerchantPolicyEngine,  *)
(* PolicyEngine, CartIntegrityVerifier, the step-up zones and the          *)
(* AuthorizationAggregator (all under apps/api/domain).                    *)
(*                                                                         *)
(* Every evaluator is a list of rules that are tried in order; the first   *)
(* one that fails gives the rejection reason.  Amounts are in paise,       *)
(* scaled down; identifiers and categories are opaque values.              *)
(***************************************************************************)
EXTENDS Integers, Sequences, FiniteSets, SequencesExt

CONSTANTS MaxItems,    \* MAX_ITEMS_PER_INTENT
          MaxQuantity, \* MAX_ITEM_QUANTITY
          MaxPrice,    \* MAX_SINGLE_ITEM_PRICE_PAISE
          MaxTotal     \* MAX_TOTAL_AMOUNT_PAISE

ASSUME ControlAssumption ==
  /\ MaxItems \in Nat \ {0} /\ MaxQuantity \in Nat \ {0}
  /\ MaxPrice \in Nat /\ MaxTotal \in Nat

(* A rule passes ("OK") or refuses with its reason; a control answers with *)
(* the first of its rules, or of its parts, that does not pass.            *)
Rule(refuses, reason) == IF refuses THEN reason ELSE "OK"

FirstFailure(answers) ==
  IF \E i \in DOMAIN answers : answers[i] # "OK"
  THEN answers[CHOOSE i \in DOMAIN answers :
                 answers[i] # "OK" /\ \A j \in 1 .. (i - 1) : answers[j] = "OK"]
  ELSE "OK"

None == "none"
Decision == {"ALLOW", "REJECT", "STEP_UP_REQUIRED"}

-------------------------------------------------------------------------------
(* IntentNormalizer *)

Operation == {"create_order", "create_payment_link", "fetch_payment",
              "payout", "settlement", "bank_transfer"}

(* is_blocked_by_default *)
BlockedByDefault == {"payout", "settlement", "bank_transfer"}

Region == {"IN", "US"}
Currency == {"INR", "USD"}

(* _validate_integer_amount: a negative value also stands for a float, a   *)
(* boolean, a malformed string or a missing amount.                        *)
ValidAmount(v) == v >= 0

Absent == -2     \* a total that was not declared
NoProduct == 0   \* a product_id that is not an identifier

(* _validate_item: the reason it is refused, in the order of the checks. *)
ItemFailure(item, p) == FirstFailure(<<
  Rule(item.injected, "INTENT_SECURITY_VIOLATION"),
  Rule(item.product = NoProduct, "INTENT_IDENTITY_INVALID"),
  Rule(item.merchant \notin {None, p.merchant}, "INTENT_AMBIGUOUS"),
  Rule(~item.described, "INTENT_STRUCTURAL_INVALID"),
  Rule(~ValidAmount(item.qty), "INTENT_MONETARY_INVALID"),
  Rule(item.qty \notin 1 .. MaxQuantity, "INTENT_MONETARY_INVALID"),
  Rule(~ValidAmount(item.price), "INTENT_MONETARY_INVALID"),
  Rule(item.price > MaxPrice, "INTENT_MONETARY_INVALID"),
  Rule(item.currency # None /\ item.currency \notin Currency, "INTENT_MONETARY_INVALID"),
  Rule(item.currency \notin {None, p.currency}, "INTENT_AMBIGUOUS")>>)

(* _parse_and_validate_structure, _scan_for_authority_injections (which    *)
(* looks into the items too and skips metadata), _validate_identifier,     *)
(* _sanitize_prompt, _validate_currency, _validate_region and              *)
(* _validate_operation: the stages of normalize before the items.          *)
HeaderFailure(p) == FirstFailure(<<
  Rule(~p.wellformed, "INTENT_STRUCTURAL_INVALID"),
  Rule(p.injected \/ \E i \in DOMAIN p.items : p.items[i].injected,
    "INTENT_SECURITY_VIOLATION"),
  Rule(None \in {p.buyer, p.merchant, p.mandate}, "INTENT_IDENTITY_INVALID"),
  Rule(~p.prompted, "INTENT_STRUCTURAL_INVALID"),
  Rule(p.currency \notin Currency, "INTENT_MONETARY_INVALID"),
  Rule(p.region \notin Region, "INTENT_STRUCTURAL_INVALID"),
  Rule(p.op \notin Operation, "INTENT_STRUCTURAL_INVALID"),
  Rule(Len(p.items) \notin 1 .. MaxItems, "INTENT_STRUCTURAL_INVALID")>>)

Subtotal(items) == SumFunction([i \in DOMAIN items |-> items[i].qty * items[i].price])

ComputedTotal(p) == Subtotal(p.items) + p.tax + p.shipping

(* normalize, the totals: each amount, the ceiling, the declared total *)
TotalFailure(p) == FirstFailure(<<
  Rule(~ValidAmount(p.tax) \/ ~ValidAmount(p.shipping), "INTENT_MONETARY_INVALID"),
  Rule(ComputedTotal(p) > MaxTotal, "INTENT_MONETARY_INVALID"),
  Rule(p.total # Absent /\ ~ValidAmount(p.total), "INTENT_MONETARY_INVALID"),
  Rule(p.total \notin {Absent, ComputedTotal(p)}, "INTENT_AMBIGUOUS")>>)

(* normalize: why a proposal is refused, or "OK". *)
NormalizationFailure(p) == FirstFailure(
  <<HeaderFailure(p)>> \o [i \in DOMAIN p.items |-> ItemFailure(p.items[i], p)]
  \o <<TotalFailure(p)>>)

-------------------------------------------------------------------------------
(* Carts and their integrity *)

(* sorted by product_id: the sort is stable *)
SortedItems(items) ==
  LET place(i) == Cardinality({j \in DOMAIN items :
        \/ items[j].product < items[i].product
        \/ items[j].product = items[i].product /\ j <= i})
  IN [n \in DOMAIN items |-> items[CHOOSE i \in DOMAIN items : place(i) = n]]

(* compute_cart_hash: SHA-256 of the canonical content is modelled by the  *)
(* content itself, with the items in product order and without their names *)
CartHash(cart) ==
  [merchant |-> cart.merchant, mandate |-> cart.mandate, currency |-> cart.currency,
   tax |-> cart.tax, shipping |-> cart.shipping, total |-> cart.total,
   items |-> SortedItems(cart.items)]

(* The Cart validator: one merchant, one currency, and a total that adds up *)
CartValid(cart) ==
  /\ cart.items # <<>>
  /\ \A i \in DOMAIN cart.items :
       cart.items[i].merchant = cart.merchant /\ cart.items[i].currency = cart.currency
  /\ cart.total = Subtotal(cart.items) + cart.tax + cart.shipping

NoHash == [total |-> -1]

WithHash(cart) == [cart EXCEPT !.hash = CartHash(cart)]

(* The cart and the intent that normalize builds from an accepted proposal. *)
(* Items take the proposal's merchant and currency where they name none.    *)
NormalizedCart(p) == WithHash(
  [merchant |-> p.merchant, mandate |-> p.mandate, currency |-> p.currency,
   items |-> [i \in DOMAIN p.items |->
     [product |-> p.items[i].product, merchant |-> p.merchant, cat |-> p.items[i].cat,
      qty |-> p.items[i].qty, price |-> p.items[i].price, currency |-> p.currency]],
   tax |-> p.tax, shipping |-> p.shipping, total |-> ComputedTotal(p), hash |-> NoHash])

MultiCategory == "multi-category"

NormalizedIntent(p) ==
  [buyer |-> p.buyer, merchant |-> p.merchant, currency |-> p.currency,
   region |-> p.region, op |-> p.op, budget |-> ComputedTotal(p),
   category |-> IF Len(p.items) = 1 THEN p.items[1].cat ELSE MultiCategory]

(* CartIntegrityVerifier.verify.  The hash a cart carries is trusted; it   *)
(* is computed only for a cart that carries none.  The fields are compared *)
(* after a mismatch of the hashes, to name the reason.                     *)
CartFailure(approved, current) ==
  LET HashOf(c) == IF c.hash # NoHash THEN c.hash ELSE CartHash(c) IN
  IF HashOf(approved) = HashOf(current) THEN "OK"
  ELSE FirstFailure(<<
    Rule(approved.merchant # current.merchant, "MERCHANT_MISMATCH"),
    Rule(approved.currency # current.currency, "CART_CURRENCY_MISMATCH"),
    Rule(approved.total # current.total, "CART_TOTAL_MISMATCH"),
    Rule(TRUE, "CART_INTEGRITY_VIOLATION")>>)

Categories(cart) == {cart.items[i].cat : i \in DOMAIN cart.items}

-------------------------------------------------------------------------------
(* MandateEvaluator.evaluate *)

MandateStatus == {"DRAFT", "ACTIVE", "SUSPENDED", "REVOKED", "EXPIRED"}

(* _MANDATE_LEGAL_TRANSITIONS with transition_mandate and its five callers *)
MandateTransitions ==
  { <<"DRAFT", "ACTIVE">>, <<"ACTIVE", "SUSPENDED">>, <<"ACTIVE", "REVOKED">>,
    <<"ACTIVE", "EXPIRED">>, <<"SUSPENDED", "ACTIVE">>, <<"SUSPENDED", "REVOKED">>,
    <<"SUSPENDED", "EXPIRED">> }

(* Rule 1: the status *)
MandateActive(m) == FirstFailure(<<
  Rule(m.status = "SUSPENDED", "MANDATE_NOT_ACTIVE"),
  Rule(m.status = "REVOKED", "MANDATE_REVOKED"),
  Rule(m.status = "EXPIRED", "MANDATE_EXPIRED"),
  Rule(m.status # "ACTIVE", "MANDATE_NOT_ACTIVE")>>)

(* Rules 2 and 3: autonomous execution, validity window *)
MandateInForce(m, at) == FirstFailure(<<
  Rule(~m.auto, "AUTONOMOUS_EXECUTION_DISABLED"),
  Rule(at < m.issued, "MANDATE_TTL_EXPIRED"),
  Rule(at >= m.expires, "MANDATE_EXPIRED")>>)

(* Rules 4 to 6: buyer, merchant scope (an empty scope is no limit), currency *)
MandateBinding(m, intent, cart) == FirstFailure(<<
  Rule(intent.buyer # m.buyer, "MANDATE_NOT_IN_SCOPE"),
  Rule(m.merchants # {} /\ intent.merchant # None /\ intent.merchant \notin m.merchants,
    "MERCHANT_NOT_IN_SCOPE"),
  Rule(m.merchants # {} /\ cart.merchant \notin m.merchants, "MERCHANT_NOT_IN_SCOPE"),
  Rule(intent.currency # m.currency, "CURRENCY_MISMATCH")>>)

(* Fault: the amount rule is missing. *)
MandateScope_NoCap(m, intent, cart) == FirstFailure(<<
  Rule(m.regions # {} /\ intent.region \notin m.regions, "REGION_NOT_ALLOWED"),
  Rule(m.cats # {} /\ ~ (Categories(cart) \subseteq m.cats), "CATEGORY_NOT_IN_SCOPE")>>)

(* Rules 7 to 9: region, category scope, amount *)
MandateScope(m, intent, cart) == FirstFailure(<<
  Rule(m.regions # {} /\ intent.region \notin m.regions, "REGION_NOT_ALLOWED"),
  Rule(m.cats # {} /\ intent.category \notin {None, MultiCategory} \cup m.cats,
    "CATEGORY_NOT_IN_SCOPE"),
  Rule(m.cats # {} /\ ~ (Categories(cart) \subseteq m.cats), "CATEGORY_NOT_IN_SCOPE"),
  Rule(cart.total > m.cap, "AMOUNT_EXCEEDS_MANDATE")>>)

MandateFailure(m, intent, cart, at) == FirstFailure(<<
  MandateActive(m), MandateInForce(m, at), MandateBinding(m, intent, cart),
  MandateScope(m, intent, cart)>>)

-------------------------------------------------------------------------------
(* MerchantPolicyEngine.evaluate and PolicyEngine.evaluate *)

(* The MerchantPolicy validator *)
PolicyValid(pol) == pol.allowed \cap pol.blocked = {}

(* Never is the expiry of a policy without one. *)
PolicyActive(pol, at) == at < pol.expires

(* Rules 1 to 3: active, AI commerce, merchant binding *)
PolicyStanding(pol, intent, cart, at) == FirstFailure(<<
  Rule(~PolicyActive(pol, at), "MERCHANT_POLICY_EXPIRED"),
  Rule(~pol.enabled, "AI_COMMERCE_DISABLED"),
  Rule(intent.merchant \notin {None, pol.merchant}, "MERCHANT_MISMATCH"),
  Rule(cart.merchant # pol.merchant, "MERCHANT_MISMATCH")>>)

(* Rules 4 to 6: operation (an empty set of allowed operations is no       *)
(* limit), currency, region                                                *)
PolicyOperation(pol, intent) == FirstFailure(<<
  Rule(intent.op \in pol.blocked, "OPERATION_NOT_ALLOWED"),
  Rule(pol.allowed # {} /\ intent.op \notin pol.allowed, "OPERATION_NOT_ALLOWED"),
  Rule(intent.currency # pol.currency, "MERCHANT_CURRENCY_NOT_SUPPORTED"),
  Rule(pol.regions # {} /\ intent.region \notin pol.regions, "REGION_NOT_ALLOWED")>>)

(* Rules 7 and 8: categories, autonomous limit *)
PolicyLimits(pol, intent, cart) == FirstFailure(<<
  Rule(pol.cats # {} /\ intent.category \notin {None, MultiCategory} \cup pol.cats,
    "MERCHANT_CATEGORY_NOT_ALLOWED"),
  Rule(pol.cats # {} /\ ~ (Categories(cart) \subseteq pol.cats),
    "MERCHANT_CATEGORY_NOT_ALLOWED"),
  Rule(cart.total > pol.limit, "MERCHANT_AMOUNT_LIMIT_EXCEEDED")>>)

PolicyFailure(pol, intent, cart, at) == FirstFailure(<<
  PolicyStanding(pol, intent, cart, at), PolicyOperation(pol, intent),
  PolicyLimits(pol, intent, cart)>>)

(* classify_step_up_zone; the band above the cap is rounded down. *)
StepUpZone(total, cap, pct) ==
  IF total <= cap THEN "AUTO_EXECUTE"
  ELSE IF total <= cap + (cap * pct) \div 100 THEN "STEP_UP_REQUIRED" ELSE "HARD_REJECT"

(* The checks of PolicyEngine.evaluate before its step-up zones.  Here an  *)
(* empty set of regions, operations, merchants or categories allows        *)
(* nothing, unlike in the two evaluators above.  The environment e holds   *)
(* the operation, the region, and what the nonce and the budget say.       *)
EngineFailure(m, pol, cart, e, at) == FirstFailure(<<
  Rule(~pol.enabled, "AI_COMMERCE_DISABLED"),
  Rule(~PolicyActive(pol, at), "POLICY_VERSION_INVALID"),
  Rule(e.region \notin pol.regions, "REGION_NOT_ALLOWED"),
  Rule(e.op \in pol.blocked \/ e.op \notin pol.allowed, "OPERATION_NOT_ALLOWED"),
  Rule(at >= m.expires, "MANDATE_EXPIRED"),
  Rule(m.status # "ACTIVE", "MANDATE_NOT_ACTIVE"),
  Rule(cart.merchant \notin m.merchants, "MERCHANT_NOT_IN_SCOPE"),
  Rule(~ (Categories(cart) \subseteq m.cats), "CATEGORY_NOT_IN_SCOPE"),
  Rule(~ (Categories(cart) \subseteq pol.cats), "MERCHANT_CATEGORY_NOT_ALLOWED"),
  Rule(cart.currency # m.currency, "CURRENCY_MISMATCH"),
  Rule(cart.currency # pol.currency, "MERCHANT_CURRENCY_NOT_SUPPORTED"),
  Rule(cart.hash = NoHash, "CART_INTEGRITY_VIOLATION"),
  Rule(~e.nonceFresh, "NONCE_ALREADY_CONSUMED"),
  Rule(~m.auto, "AUTONOMOUS_EXECUTION_DISABLED"),
  Rule(cart.total > pol.limit, "MERCHANT_AMOUNT_LIMIT_EXCEEDED"),
  Rule(~e.affordable, "BUDGET_INSUFFICIENT")>>)

(* Fault: the zones are not looked at. *)
EngineDecision_NoZone(m, pol, cart, e, at) ==
  IF EngineFailure(m, pol, cart, e, at) # "OK" THEN "REJECT" ELSE "ALLOW"

EngineDecision(m, pol, cart, e, at) ==
  LET zone == StepUpZone(cart.total, m.cap, pol.pct) IN
  IF EngineFailure(m, pol, cart, e, at) # "OK" \/ zone = "HARD_REJECT" THEN "REJECT"
  ELSE IF zone = "STEP_UP_REQUIRED" THEN "STEP_UP_REQUIRED" ELSE "ALLOW"

-------------------------------------------------------------------------------
(* AuthorizationAggregator.aggregate *)

Controls == {"MANDATE_EVALUATION", "MERCHANT_POLICY", "CART_INTEGRITY",
             "BUDGET_RESERVATION", "REPLAY_PROTECTION", "NONCE_VALIDATION"}

(* The decision on the outcomes v of the seven controls.  A merchant       *)
(* policy that asks for a step-up passes check 5; the step-up control      *)
(* counts only when it reports STEP_UP_REQUIRED together with a diff.      *)
Aggregate(v, stepUp, diff) ==
  IF \E c \in Controls : v[c] = "REJECT" THEN "REJECT"
  ELSE IF \/ v["MERCHANT_POLICY"] = "STEP_UP_REQUIRED"
          \/ stepUp = "STEP_UP_REQUIRED" /\ diff
  THEN "STEP_UP_REQUIRED"
  ELSE "ALLOW"
===============================================================================
