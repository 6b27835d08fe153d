--------------------------- MODULE AgentCheckout ---------------------------
(***************************************************************************)
(* What the endpoints of one API process keep in memory: the merchants and *)
(* the authentication of calls (MerchantAccess), the purchase plans and    *)
(* their confirmation (routers/agent.py), the agent payments               *)
(* (AgentPayments), the merchant orders with their bindings, outcomes and  *)
(* webhooks (routers/commerce.py, commerce_webhooks.py) and the answers of *)
(* the shopping endpoints (Shopping).                                      *)
(*                                                                         *)
(* No agent endpoint awaits anything between two uses of this state, so    *)
(* each is one step, and the five groups share nothing: a behaviour        *)
(* exercises the group its workload names.                                 *)
(***************************************************************************)
EXTENDS Shopping, AgentPayments, MerchantAccess

CONSTANTS Requests, Prompts, LiveAnswers, MaxCommits,
          Payments, Offers, Rechecks, MerchantEvents, Claims, MaxOrders,
          Webs, Queries, CartPrompts, PriceLimits, TrustedDomains

VARIABLES workload,
          requests, consumed, commits,
          orders, txMap, orderMap, outcome, prepared, served,
          processed, hooked, records,
          shown

planVars == <<requests, consumed, commits>>
orderVars == <<orders, txMap, orderMap, outcome, prepared, served, processed, hooked, records>>
vars == <<workload, planVars, payVars, orderVars, shown, accessVars>>
---------------------------------------------------------------------------
(* Purchase plans and their confirmation *)

(* A prompt names whole rupees and a search quotes them *)
ASSUME PlanAssumption ==
  /\ \A prompt \in Prompts : prompt.limit \in Nat
  /\ \A live \in LiveAnswers :
       /\ \A items \in {live.tavily, live.brave} :
            DOMAIN items \subseteq Nat /\ \A i \in DOMAIN items : items[i].quote \in Nat
       /\ DOMAIN live.open \subseteq Nat

Unborn == [status |-> "unborn"]
Forgotten == [status |-> "forgotten"]
HasPlan(r) == requests[r].status \in {"AWAITING_CONFIRMATION", "PLANNING", "COMMITTED"}

(* The patterns of a prompt injection *)
InspectPrompt(prompt) == prompt.kind # "injection"

(* AgentIntent.validate: an amount that is not positive is an error *)
ValidIntent(intent) == intent.max > 0

(* generate_token: a keyed hash of the request and its plan, the same      *)
(* however often it is computed.  Its expiry is answered and not kept.     *)
Token(r, plan) == <<"cnf", r, plan.seller, plan.id, plan.source, plan.amount>>
NoToken == <<>>

(* process_request: the live search, the registry's search tool when that  *)
(* finds nothing, the cheapest candidate.                                  *)
Found(live, again, intent) ==
  LET first == SearchLiveProducts(live, intent.max)
  IN IF first # <<>> THEN first ELSE SearchLiveProducts(again, intent.max)

Decision(intent, candidates) ==
  IF candidates = <<>> THEN [status |-> "REJECTED"]
  ELSE [status |-> IF intent.confirm THEN "AWAITING_CONFIRMATION" ELSE "PLANNING",
        plan |-> Selected(candidates), confirm |-> intent.confirm, max |-> intent.max]

(* A request whose intent or product is refused raises and leaves nothing *)
CreateAgentRequest(r, prompt, live, again) ==
  LET intent == ExtractIntent(prompt)
      candidates == Found(live, again, intent)
  IN /\ requests[r] = Unborn
     /\ InspectPrompt(prompt)
     /\ ValidIntent(intent)
     /\ candidates # <<>> => ValidateRecommendation(Selected(candidates), candidates)
     /\ requests' = [requests EXCEPT ![r] = Decision(intent, candidates)]
     /\ UNCHANGED <<consumed, commits>>

(* Fault: a consumed token is not remembered *)
VerifyTokenOnly(r, token) ==
  /\ token = Token(r, requests[r].plan)
  /\ consumed' = consumed

(* verify_and_consume_token; the caller passes no expiry *)
VerifyAndConsumeToken(r, token) ==
  /\ token \notin consumed
  /\ token = Token(r, requests[r].plan)
  /\ consumed' = consumed \cup {token}

(* validate_plan_execution_boundary: a plan that needs no confirmation is  *)
(* let through with any token, as often as it is asked for.                *)
ExecutionBoundary(r, token) ==
  IF requests[r].confirm
  THEN token # NoToken /\ VerifyAndConsumeToken(r, token)
  ELSE UNCHANGED consumed

ConfirmAgentRequest(r, token) ==
  /\ HasPlan(r)
  /\ Len(commits) < MaxCommits
  /\ ExecutionBoundary(r, token)
  /\ requests' = [requests EXCEPT ![r].status = "COMMITTED"]
  /\ commits' = Append(commits, [request |-> r, token |-> token,
       amount |-> requests[r].plan.amount, max |-> requests[r].max,
       confirm |-> requests[r].confirm])

OfferedTokens == {NoToken} \cup {Token(r, requests[r].plan) : r \in {q \in Requests : HasPlan(q)}}

PlanRestart ==
  /\ requests' = [r \in Requests |-> IF requests[r] = Unborn THEN Unborn ELSE Forgotten]
  /\ consumed' = {}
  /\ UNCHANGED commits

PlanNext ==
  \/ \E r \in Requests, prompt \in Prompts, live \in LiveAnswers, again \in LiveAnswers :
       CreateAgentRequest(r, prompt, live, again)
  \/ \E r \in Requests, token \in OfferedTokens : ConfirmAgentRequest(r, token)
  \/ PlanRestart
---------------------------------------------------------------------------
(* The tools of the MCP gateway.  The gateway passes no confirmation, and  *)
(* every tool but the timeline works on objects of its own: the shopping   *)
(* tools answer what the endpoints below do, the others constants.         *)

RestrictedTools == {"execute_payment", "execute_confirmed_purchase", "create_merchant_order"}

Permission(tool) ==
  IF tool = "execute_payment" THEN "CONFIRMATION_REQUIRED"
  ELSE IF tool \in {"create_purchase_plan", "create_merchant_order"} THEN "RESTRICTED"
  ELSE "SAFE_READ"

InvokeTool(tool) == Permission(tool) # "CONFIRMATION_REQUIRED"

McpCallable(tool) == tool \notin RestrictedTools /\ InvokeTool(tool)

McpTimeline(receipt) ==
  /\ McpCallable("get_payment_timeline")
  /\ GetTimeline(receipt)

PayNext ==
  \/ PaymentNext
  \/ \E receipt \in Receipts : McpTimeline(receipt)
  \/ PaymentRestart
---------------------------------------------------------------------------
(* Product truth and checkout.  An offer is a candidate the caller sends:  *)
(* its address (exact or a listing), domain, price, whether it claims to   *)
(* be source backed, and whether it is in stock.                           *)

EvaluateProduct(offer) ==
  IF offer.exact /\ offer.price >= PriceFloor /\ offer.domain # "unknown.local"
  THEN "PRODUCT_VERIFIED"
  ELSE IF offer.backed \/ ~offer.exact THEN "SOURCE_BACKED" ELSE "UNVERIFIED"

(* resolve_connector; a domain no connector has goes to the generic one *)
ResolveConnector(domain) ==
  CASE domain = "cafeacme.local" -> "connector_cafe_acme_api"
    [] domain = "openfoodfacts.org" -> "connector_openfoodfacts_public_api"
    [] OTHER -> "connector_generic_web"

ConnectorCapability(connector) ==
  IF connector = "connector_generic_web" THEN "CHECKOUT_HANDOFF" ELSE "VERIFIED_API"

ResolveCapability(offer) ==
  IF EvaluateProduct(offer) = "UNVERIFIED" \/ ~offer.inStock THEN "DISCOVERY_ONLY"
  ELSE ConnectorCapability(ResolveConnector(offer.domain))

(* A recheck is what the caller says of the product now; its price is 0    *)
(* when it says nothing of it.                                             *)
PriceChanged(offer, recheck) == recheck.price # 0 /\ recheck.price # offer.price

StockValid(offer, recheck) ==
  IF recheck.saysStock THEN recheck.inStock ELSE offer.inStock

ValidateHandoffUrl(offer) == offer.public /\ offer.domain # "unknown.local"

HandoffRefused(offer) ==
  ResolveCapability(offer) = "CHECKOUT_HANDOFF" /\ ~ValidateHandoffUrl(offer)

(* The preparation and the intent of it, in the orchestrator's own         *)
(* verifier: no other component looks it up again.                         *)
PrepareCheckout(offer, recheck) ==
  /\ EvaluateProduct(offer) # "UNVERIFIED"
  /\ ~PriceChanged(offer, recheck)
  /\ StockValid(offer, recheck)
  /\ ~HandoffRefused(offer)
  /\ prepared' = prepared \cup {[capability |-> ResolveCapability(offer), amount |-> offer.price]}
  /\ UNCHANGED <<orders, txMap, orderMap, outcome, served, processed, hooked, records>>
---------------------------------------------------------------------------
(* Merchant orders.  An order is known by its place in the connector's     *)
(* list: its id is new.                                                    *)

NoPayment == "none"

ASSUME OrderAssumption == NoPayment \notin Payments /\ MaxOrders \in Nat

NoOutcome == [status |-> "none", payment |-> NoPayment, order |-> 0, evidence |-> NoPayment]
OrderIds == 1 .. MaxOrders

(* verify_order_outcome: the payment and the order are written first, the  *)
(* amount is parsed after that, and an amount that is no number raises.    *)
VerifyOrderOutcome(old, payment, order, readable) ==
  LET written == [old EXCEPT !.payment = payment, !.order = order]
  IN IF order = 0 THEN [written EXCEPT !.status = "ORDER_UNKNOWN"]
     ELSE IF readable
          THEN [written EXCEPT !.status = "ORDER_VERIFIED", !.evidence = payment]
          ELSE [written EXCEPT !.status = IF old = NoOutcome THEN "ORDER_UNKNOWN" ELSE old.status]

(* create_order of the connector *)
ConnectorOrder(payment, offer) ==
  [payment |-> payment, amount |-> offer.price, status |-> "ORDER_CONFIRMED"]

(* Fault: a payment that is bound is bound again *)
BindAnyway(payment, order) == orderMap[order] \in {NoPayment, payment}

(* bind_transaction_to_order raises when either side is bound elsewhere *)
Bindable(payment, order) ==
  /\ txMap[payment] \in {0, order}
  /\ orderMap[order] \in {NoPayment, payment}

(* record_call: only the calls that succeed are recorded *)
RecordCall == served' = [served EXCEPT !.success = @ + 1]

OrderBound(payment, order) ==
  /\ Bindable(payment, order)
  /\ txMap' = [txMap EXCEPT ![payment] = order]
  /\ orderMap' = [orderMap EXCEPT ![order] = payment]
  /\ outcome' = [outcome EXCEPT ![order] = VerifyOrderOutcome(@, payment, order, TRUE)]
  /\ RecordCall

(* The order is made before it is bound: when the binding is refused, the  *)
(* order stays with the merchant.  Neither the preparation nor the         *)
(* confirmation token the caller names is looked at.                       *)
OrderOrphaned(payment, order) ==
  /\ ~Bindable(payment, order)
  /\ UNCHANGED <<txMap, orderMap, outcome, served>>

CreateMerchantOrder(payment, offer) ==
  /\ Len(orders) < MaxOrders
  /\ ResolveConnector(offer.domain) = "connector_cafe_acme_api"
  /\ orders' = Append(orders, ConnectorOrder(payment, offer))
  /\ \/ OrderBound(payment, Len(orders) + 1)
     \/ OrderOrphaned(payment, Len(orders) + 1)
  /\ UNCHANGED <<prepared, processed, hooked, records>>

(* A webhook of the merchant: signed, of the last 300 s *)
Authentic(e) == e.signed /\ e.recent

(* The event counts as processed before it is applied, and the handler     *)
(* has a verifier of its own.                                              *)
ProcessWebhook(e) ==
  /\ Authentic(e)
  /\ e.id \notin processed
  /\ processed' = processed \cup {e.id}
  /\ hooked' = IF e.kind = "order.confirmed"
               THEN [hooked EXCEPT ![e.outcome] =
                       VerifyOrderOutcome(@, e.payment, e.order, e.readable)]
               ELSE hooked
  /\ UNCHANGED <<orders, txMap, orderMap, outcome, prepared, served, records>>

(* reconcile_transaction compares what its caller says of the two ledgers *)
ReconciliationState(claim) ==
  CASE claim.paid /\ claim.ordered -> "BOTH_CONFIRMED"
    [] claim.paid /\ ~claim.ordered -> "PAYMENT_ONLY"
    [] ~claim.paid /\ claim.ordered -> "ORDER_ONLY"
    [] OTHER -> "UNRESOLVED"

ReconcileTransaction(claim) ==
  /\ records' = records \cup {[payment |-> claim.payment, state |-> ReconciliationState(claim)]}
  /\ UNCHANGED <<orders, txMap, orderMap, outcome, prepared, served, processed, hooked>>

OrderInit ==
  /\ orders = <<>>
  /\ txMap = [p \in Payments |-> 0]
  /\ orderMap = [o \in OrderIds |-> NoPayment]
  /\ outcome = [o \in OrderIds |-> NoOutcome]
  /\ prepared = {}
  /\ served = [success |-> 142, failure |-> 1]
  /\ processed = {}
  /\ hooked = [o \in 0 .. MaxOrders |-> NoOutcome]
  /\ records = {}

(* The connector of this process keeps its orders in memory too *)
OrderRestart ==
  /\ orders' = <<>>
  /\ txMap' = [p \in Payments |-> 0]
  /\ orderMap' = [o \in OrderIds |-> NoPayment]
  /\ outcome' = [o \in OrderIds |-> NoOutcome]
  /\ prepared' = {}
  /\ served' = [success |-> 142, failure |-> 1]
  /\ processed' = {}
  /\ hooked' = [o \in 0 .. MaxOrders |-> NoOutcome]
  /\ records' = {}

OrderNext ==
  \/ \E offer \in Offers, recheck \in Rechecks : PrepareCheckout(offer, recheck)
  \/ \E p \in Payments, offer \in Offers : CreateMerchantOrder(p, offer)
  \/ \E e \in MerchantEvents : ProcessWebhook(e)
  \/ \E claim \in Claims : ReconcileTransaction(claim)
  \/ OrderRestart
---------------------------------------------------------------------------
(* The shopping endpoints keep nothing, so one answer, shown with its      *)
(* input, stands for any.                                                  *)

(* The services answer lists of results that quote whole rupees, for every *)
(* word a query or a shopping list has; a list names amounts and counts.   *)
ASSUME ShopAssumption ==
  /\ PriceLimits \subseteq Nat
  /\ \A web \in Webs : \A word \in DOMAIN web :
       \A results \in {web[word].tavily, web[word].public} :
         /\ results \in Seq({results[i] : i \in DOMAIN results})
         /\ \A i \in DOMAIN results :
              results[i].explicit \in Seq(Nat) /\ results[i].currency \in Seq(Nat)
  /\ \A query \in Queries, web \in Webs : query.word \in DOMAIN web
  /\ \A prompt \in CartPrompts :
       /\ prompt.amount \in Nat
       /\ prompt.items \in Seq({prompt.items[i] : i \in DOMAIN prompt.items})
       /\ \A i \in DOMAIN prompt.items :
            /\ prompt.items[i].quantity \in Nat
            /\ \A web \in Webs : prompt.items[i].query \in DOMAIN web
  /\ \A web \in Webs : "coffee" \in DOMAIN web

Nothing == [kind |-> "nothing"]
DefaultBudget == 50000

(* /search, and what /compare and /recommend start from *)
SearchProducts(web, query, max) == Deduplicate(DiscoverCandidates(web[query.word], query, max))

CompareProducts(web, query, max) ==
  LET found == SearchProducts(web, query, max)
      best == RankCandidates(found, max, TrustedDomains)
  IN [kind |-> "compared", max |-> max, found |-> found,
      table |-> CompareCandidates(found, max, best)]

(* The tool compares and recommends nothing *)
CompareProductsTool(web, query, max) ==
  LET found == SearchProducts(web, query, max)
  IN [kind |-> "compared", max |-> max, found |-> found,
      table |-> CompareCandidates(found, max, 0)]

RecommendProduct(web, query, max) ==
  LET found == SearchProducts(web, query, max)
  IN [kind |-> "recommended", max |-> max, found |-> found,
      best |-> RankCandidates(found, max, TrustedDomains)]

CartFor(web, request) ==
  LET lists == ResearchShoppingRequest(web, request)
  IN [kind |-> "cart", request |-> request, lists |-> lists,
      cart |-> OptimizeCart(lists, request)]

(* The endpoint takes a budget of 0 for none, the tool passes it on *)
OptimizeShoppingCart(web, prompt, budget) ==
  CartFor(web, ParsePrompt(prompt, IF budget = 0 THEN DefaultBudget ELSE budget))

OptimizeCartTool(web, prompt, budget) == CartFor(web, ParsePrompt(prompt, budget))

(* The score of a cart divides by the budget: nothing is answered when     *)
(* there is a cart for a budget of 0.                                      *)
Scored(answer) == answer.request.budget # 0 \/ answer.cart = NoCart

ShopNext ==
  /\ shown = Nothing
  /\ \/ \E web \in Webs, query \in Queries, max \in PriceLimits :
          \/ shown' = CompareProducts(web, query, max)
          \/ shown' = CompareProductsTool(web, query, max)
          \/ shown' = RecommendProduct(web, query, max)
     \/ \E web \in Webs, prompt \in CartPrompts, budget \in PriceLimits :
          \/ shown' = OptimizeShoppingCart(web, prompt, budget)
          \/ /\ Scored(OptimizeCartTool(web, prompt, budget))
             /\ shown' = OptimizeCartTool(web, prompt, budget)
---------------------------------------------------------------------------
Workloads == {"plan", "pay", "order", "shop", "access"}

Init ==
  /\ workload \in Workloads
  /\ requests = [r \in Requests |-> Unborn]
  /\ consumed = {}
  /\ commits = <<>>
  /\ PaymentInit
  /\ OrderInit
  /\ shown = Nothing
  /\ AccessInit
  /\ workload # "access" => database = "none" /\ client = CHOOSE k \in ApiKeys : TRUE

Next ==
  /\ UNCHANGED workload
  /\ \/ workload = "plan" /\ PlanNext /\ UNCHANGED <<payVars, orderVars, shown, accessVars>>
     \/ workload = "pay" /\ PayNext /\ UNCHANGED <<planVars, orderVars, shown, accessVars>>
     \/ workload = "order" /\ OrderNext /\ UNCHANGED <<planVars, payVars, shown, accessVars>>
     \/ workload = "shop" /\ ShopNext /\ UNCHANGED <<planVars, payVars, orderVars, accessVars>>
     \/ workload = "access" /\ AccessNext /\ UNCHANGED <<planVars, payVars, orderVars, shown>>

Spec == Init /\ [][Next]_vars
---------------------------------------------------------------------------
(* CommitOnce: confirming a purchase plan that asks for confirmation is    *)
(* answered COMMITTED at most once, with the token of that very plan and   *)
(* for an amount its prompt allows, whatever is sent again and whenever    *)
(* the process restarts and forgets the tokens it consumed.                *)
CommitOnce ==
  /\ \A i, j \in DOMAIN commits :
       commits[i].confirm /\ commits[i].request = commits[j].request => i = j
  /\ \A i \in DOMAIN commits :
       /\ 0 < commits[i].amount /\ commits[i].amount <= commits[i].max
       /\ commits[i].confirm => commits[i].token[2] = commits[i].request

(* DailyLimitPerLife: what an agent was answered orders for on one day     *)
(* never exceeds the daily limit of its policy once for each life of the   *)
(* process on that day, although the limit is checked before the call to   *)
(* the provider and the amount counted after it, by then perhaps on the    *)
(* next day.  No more can be said: a restart forgets what was spent.       *)
DailyLimitPerLife ==
  \A a \in Agents, d \in Days : answered[a][d] <= DailyLimit * lives[d]

(* OrdersAccounted: the payment of every order the merchant confirmed is   *)
(* bound to exactly one of that merchant's orders, which is the one whose  *)
(* outcome is ORDER_VERIFIED with evidence of that payment; an order the   *)
(* merchant has beyond that came from a repeated request, and no outcome   *)
(* reports it.                                                             *)
OrdersAccounted ==
  /\ \A o \in DOMAIN orders :
       LET bound == txMap[orders[o].payment]
       IN /\ bound \in DOMAIN orders
          /\ orders[bound].payment = orders[o].payment
          /\ outcome[bound].status = "ORDER_VERIFIED"
          /\ outcome[bound].evidence = orders[o].payment
          /\ o # bound => outcome[o] = NoOutcome
  /\ \A p \in Payments, o \in OrderIds : (txMap[p] = o) <=> (orderMap[o] = p)

(* A cart that costs no more with no more sellers, and less of one *)
Dominates(d, c, lists, request) ==
  LET cost(x) == CartCost(x, lists, request)
      sellers(x) == MerchantCount(x, lists)
  IN /\ cost(d) <= cost(c) /\ sellers(d) <= sellers(c)
     /\ cost(d) < cost(c) \/ sellers(d) < sellers(c)

CartIsBest(lists, request, cart) ==
  LET possible == {c \in Carts(lists) : /\ CartCost(c, lists, request) <= request.budget
                                        /\ MerchantCount(c, lists) <= MaxMerchants}
  IN IF cart = NoCart THEN possible = {}
     ELSE /\ cart \in possible
          /\ \A d \in possible : ~Dominates(d, cart, lists, request)

RecommendationIsBest(found, max, best) ==
  IF best = 0 THEN \A i \in DOMAIN found : found[i].price = 0
  ELSE /\ 0 < found[best].price /\ (max > 0 => found[best].price <= max)
       /\ \A i \in DOMAIN found :
            max > 0 /\ found[i].price > 0 /\ found[i].domain = found[best].domain
              => found[best].price <= found[i].price

(* AnswersAreBest: the cart the optimizer proposes stays within the budget *)
(* and the number of sellers and no cart of the candidates it considers is *)
(* cheaper without more sellers, whatever the strategy weighs more; the    *)
(* product recommended has a price, and when the query has a limit it is   *)
(* within it and the same seller has no cheaper one; nothing is answered   *)
(* only when there is nothing.                                             *)
AnswersAreBest ==
  /\ shown.kind = "cart" => CartIsBest(shown.lists, shown.request, shown.cart)
  /\ shown.kind = "recommended" => RecommendationIsBest(shown.found, shown.max, shown.best)
=============================================================================
