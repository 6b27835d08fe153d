------------------------------ MODULE Shopping ------------------------------
(***************************************************************************)
(* What a shopping agent may propose: product discovery, deduplication,    *)
(* recommendation and the cart optimizer of apps/api/commerce, and the     *)
(* live search, the intent and the source check of the purchase planner    *)
(* of apps/api/agent.  Everything here is a function of what the search    *)
(* services answered, which is an input of the model.                      *)
(*                                                                         *)
(* A search result stands for its text: the prices quoted after a price    *)
(* word, the prices quoted after a currency sign, in rupees, its address   *)
(* and seller, and whether it is usable (a title, an http address).        *)
(***************************************************************************)
EXTENDS Integers, Sequences, FiniteSets

CONSTANTS MaxMerchants,   \* ShoppingRequest.max_merchant_count, 3 in the code
          PrunedTo,       \* candidates kept for an item, 5 in the code
          ElectronicsFloor, \* 15000 paise: cheaper electronics are mispriced
          PriceFloor      \* 1000 paise: the least price taken for evidence

ASSUME ShoppingAssumption ==
  /\ MaxMerchants \in {1, 2, 3} /\ PrunedTo \in Nat \ {0}
  /\ ElectronicsFloor \in Nat /\ PriceFloor \in Nat

(* The elements of a list at some of its places, in their order *)
ElementsAt(list, places) ==
  LET kept[i \in 0 .. Len(list)] ==
        IF i = 0 THEN <<>>
        ELSE IF i \in places THEN Append(kept[i - 1], list[i]) ELSE kept[i - 1]
  IN kept[Len(list)]
---------------------------------------------------------------------------
(* Discovery *)

(* A number of the query is its price limit, not the price of a product,   *)
(* when the query says "under" or "below".                                 *)
ExtractedPrice(result, query) ==
  LET named(v) == query.limited /\ v \in query.numbers
      quoted == result.explicit \o result.currency
      prices == ElementsAt(quoted, {i \in DOMAIN quoted : quoted[i] > 0 /\ ~named(quoted[i])})
  IN IF prices = <<>> THEN 0 ELSE 100 * prices[1]

CanonicalProduct(source, result, price) ==
  [id |-> <<source, result.domain, result.url>>, url |-> result.url,
   domain |-> result.domain, title |-> result.title, price |-> price,
   status |-> IF price > 0 THEN "PRODUCT_VERIFIED" ELSE "PRICE_UNVERIFIED",
   electronics |-> result.electronics, image |-> result.image,
   capability |-> "DISCOVERY_ONLY", availability |-> "UNKNOWN"]

WithinLimit(p, max) == max > 0 => p.price # 0 /\ p.price <= max

Mispriced(p) == p.electronics /\ p.price > 0 /\ p.price < ElectronicsFloor

Usable(results) == ElementsAt(results, {i \in DOMAIN results : results[i].usable})

TavilyWebSearch(results, query, max) ==
  LET usable == Usable(results)
      products == [i \in DOMAIN usable |->
                     CanonicalProduct("tavily", usable[i],
                                      ExtractedPrice(usable[i], query))]
  IN ElementsAt(products, {i \in DOMAIN products :
                             WithinLimit(products[i], max) /\ ~Mispriced(products[i])})

(* The public catalogue knows no prices *)
OpenFoodFacts(results, max) ==
  LET usable == Usable(results)
      products == [i \in DOMAIN usable |-> CanonicalProduct("openfoodfacts", usable[i], 0)]
  IN ElementsAt(products, {i \in DOMAIN products : WithinLimit(products[i], max)})

(* The first source that has anything; the merchant connector and the web  *)
(* stores, which come last, return nothing.  A source that fails is one    *)
(* that has nothing.                                                       *)
DiscoverCandidates(web, query, max) ==
  LET searched == TavilyWebSearch(web.tavily, query, max)
  IN IF searched # <<>> THEN searched ELSE OpenFoodFacts(web.public, max)

AreDuplicates(a, b) ==
  \/ a.url = b.url
  \/ a.domain = b.domain /\ (a.id = b.id \/ a.title = b.title)

CapabilityPoints(c, api, handoff, other) ==
  IF c = "VERIFIED_API" THEN api ELSE IF c = "CHECKOUT_HANDOFF" THEN handoff ELSE other

ScoreQuality(p) ==
  (IF p.status = "PRODUCT_VERIFIED" THEN 50 ELSE 0)
  + CapabilityPoints(p.capability, 30, 20, 0)
  + (IF p.image THEN 10 ELSE 0)

(* A candidate takes the place of the first it duplicates if it is better *)
Keep(kept, p) ==
  LET twins == {i \in DOMAIN kept : AreDuplicates(p, kept[i])}
      first == CHOOSE i \in twins : \A j \in twins : i <= j
  IN IF twins = {} THEN Append(kept, p)
     ELSE IF ScoreQuality(p) > ScoreQuality(kept[first])
          THEN [kept EXCEPT ![first] = p]
          ELSE kept

Deduplicate(candidates) ==
  LET kept[i \in 0 .. Len(candidates)] ==
        IF i = 0 THEN <<>> ELSE Keep(kept[i - 1], candidates[i])
  IN kept[Len(candidates)]

---------------------------------------------------------------------------
(* Recommendation *)

Recommendable(p) == p.status # "UNVERIFIED" /\ p.price > 0

(* _score_candidate, times the price limit so that it is an integer *)
ScoreCandidate(p, max, trusted) ==
  LET scale == IF max > 0 THEN max ELSE 1
  IN scale * ((IF p.status = "PRODUCT_VERIFIED" THEN 25 ELSE 10)
              + (IF p.availability = "AVAILABLE" THEN 15 ELSE 0)
              + (IF p.domain \in trusted THEN 15 ELSE 10)
              + CapabilityPoints(p.capability, 15, 10, 5) + 10)
     + (IF p.price <= max THEN 20 * max - 5 * p.price ELSE 0)

(* The first of the candidates with the best score, 0 when there is none *)
RankCandidates(candidates, max, trusted) ==
  LET ranked == {i \in DOMAIN candidates : Recommendable(candidates[i])}
      score(i) == ScoreCandidate(candidates[i], max, trusted)
  IN IF ranked = {} THEN 0
     ELSE CHOOSE i \in ranked : \A j \in ranked :
            score(j) < score(i) \/ (score(j) = score(i) /\ i <= j)

CompareCandidates(candidates, max, best) ==
  [fits |-> {i \in DOMAIN candidates : candidates[i].price <= max},
   recommended |-> best]

---------------------------------------------------------------------------
(* The cart optimizer *)

(* A prompt is its amount in rupees (0 when it names none), its items and  *)
(* the words that choose a strategy.                                       *)
ParsePrompt(prompt, default) ==
  [budget |-> IF prompt.amount > 0 THEN 100 * prompt.amount ELSE default,
   items |-> IF prompt.items = <<>>
             THEN << [query |-> "coffee", quantity |-> 1] >>
             ELSE prompt.items,
   strategy |-> IF "cheapest" \in prompt.words THEN "LOWEST_TOTAL_PRICE"
                ELSE IF "single merchant" \in prompt.words THEN "FEWEST_MERCHANTS"
                ELSE "BEST_VALUE"]

(* web[q] is what the services answer to the query q; the numbers of the   *)
(* prompt are not in it any more.                                          *)
ResearchItem(web, item, budget) ==
  LET found == DiscoverCandidates(web[item.query], [limited |-> FALSE, numbers |-> {}], budget)
  IN ElementsAt(found, {i \in DOMAIN found : Recommendable(found[i])})

ResearchShoppingRequest(web, request) ==
  [i \in DOMAIN request.items |-> ResearchItem(web, request.items[i], request.budget)]

(* A cart picks one of the first candidates of every item *)
Carts(lists) ==
  {c \in [DOMAIN lists -> 1 .. PrunedTo] :
     \A i \in DOMAIN lists : c[i] <= Len(lists[i])}

CartCost(cart, lists, request) ==
  LET cost[i \in 0 .. Len(lists)] ==
        IF i = 0 THEN 0
        ELSE cost[i - 1] + request.items[i].quantity * lists[i][cart[i]].price
  IN cost[Len(lists)]

MerchantCount(cart, lists) ==
  Cardinality({lists[i][cart[i]].domain : i \in DOMAIN lists})

CartsWithinBudget(lists, request) ==
  {c \in Carts(lists) : CartCost(c, lists, request) <= request.budget}

FeasibleCarts(lists, request) ==
  {c \in CartsWithinBudget(lists, request) : MerchantCount(c, lists) <= MaxMerchants}

(* The capability of a cart is the worst of its items' *)
CartCapability(cart, lists) ==
  LET of == {lists[i][cart[i]].capability : i \in DOMAIN lists}
  IN IF "DISCOVERY_ONLY" \in of THEN "DISCOVERY_ONLY"
     ELSE IF "CHECKOUT_HANDOFF" \in of THEN "CHECKOUT_HANDOFF" ELSE "VERIFIED_API"

(* Fault: the cost of a cart does not weigh in its score *)
ScoreCartSellers(cart, lists, request) ==
  (480 * request.budget * Len(lists)) \div MerchantCount(cart, lists)

(* _score_cart, times 24 * budget * items so that it is an integer: the    *)
(* share of the budget left, verification, few merchants, availability,    *)
(* capability and freshness, weighted by the strategy.                     *)
ScoreCart(cart, lists, request) ==
  LET n == Len(lists)
      whole == 24 * request.budget * n
      verified == {i \in DOMAIN lists : lists[i][cart[i]].status = "PRODUCT_VERIFIED"}
      available == {i \in DOMAIN lists : lists[i][cart[i]].availability = "AVAILABLE"}
      budgetScore == 25 * whole - 180 * n * CartCost(cart, lists, request)
      merchantScore == (20 * whole) \div MerchantCount(cart, lists)
      weigh(score, strategy) ==
        IF request.strategy = strategy THEN (3 * score) \div 2 ELSE score
  IN weigh(budgetScore, "LOWEST_TOTAL_PRICE")
     + weigh(merchantScore, "FEWEST_MERCHANTS")
     + 24 * request.budget * (20 * Cardinality(verified) + 15 * Cardinality(available))
     + whole * (CapabilityPoints(CartCapability(cart, lists), 10, 7, 3) + 10)

(* itertools.product yields the carts in this order *)
Precedes(c, d) ==
  \E i \in DOMAIN c : c[i] < d[i] /\ \A j \in 1 .. (i - 1) : c[j] = d[j]

(* The sort by score is stable: the first of the best carts *)
BestCart(lists, request) ==
  LET score(c) == ScoreCart(c, lists, request)
      feasible == FeasibleCarts(lists, request)
  IN CHOOSE c \in feasible : \A d \in feasible \ {c} :
       score(d) < score(c) \/ (score(d) = score(c) /\ Precedes(c, d))

NoCart == <<>>

OptimizeCart(lists, request) ==
  IF (\E i \in DOMAIN lists : lists[i] = <<>>) \/ FeasibleCarts(lists, request) = {}
  THEN NoCart
  ELSE BestCart(lists, request)

---------------------------------------------------------------------------
(* The purchase planner *)

(* An item of a live search quotes a price in rupees, 0 for none *)
ExtractEvidence(item) ==
  LET priced == 100 * item.quote >= PriceFloor
  IN [amount |-> IF priced THEN 100 * item.quote ELSE 0,
      status |-> IF ~priced THEN "UNVERIFIED"
                 ELSE IF item.exact /\ item.provider # "open_source" THEN "VERIFIED"
                 ELSE "SOURCE_BACKED"]

(* A product is known by the hash of its address *)
Normalize(item) ==
  [id |-> item.url, seller |-> item.seller, amount |-> ExtractEvidence(item).amount,
   source |-> ExtractEvidence(item).status]

(* The items with evidence of a price within the limit, each at its place *)
LiveCandidates(items, max) ==
  LET fits(p) == 0 < p.amount /\ p.amount <= max
  IN [i \in {j \in DOMAIN items : fits(Normalize(items[j]))} |-> Normalize(items[i])]

(* Outside production the open source catalogue makes up an item when it   *)
(* has none, and it quotes 180 rupees for whatever it has.                 *)
OpenSourceSearch(products, production) ==
  LET made == [url |-> "artisanal", seller |-> "openfoodfacts", quote |-> 180,
               exact |-> TRUE, provider |-> "open_source"]
  IN IF products = <<>> /\ ~production THEN <<made>>
     ELSE [i \in DOMAIN products |-> [made EXCEPT !.url = products[i]]]

(* The providers in turn, until one has a candidate *)
SearchLiveProducts(live, max) ==
  LET answers == <<live.tavily, live.brave, OpenSourceSearch(live.open, live.production)>>
      found == {p \in DOMAIN answers : DOMAIN LiveCandidates(answers[p], max) # {}}
  IN IF found = {} THEN <<>>
     ELSE LiveCandidates(answers[CHOOSE p \in found : \A q \in found : p <= q], max)

(* MockLLMProvider, the provider the endpoints use: limit 0 is "no limit   *)
(* named".                                                                 *)
ExtractIntent(prompt) ==
  LET limit == IF prompt.limited THEN 100 * prompt.limit ELSE 20000
  IN [max |-> IF prompt.kind = "exceed budget" THEN 10000000 ELSE limit,
      confirm |-> prompt.kind # "do not purchase"]

(* rank_candidates: the cheapest, and the first of those *)
Selected(candidates) ==
  LET cheapest(i) == \A j \in DOMAIN candidates :
        \/ candidates[i].amount < candidates[j].amount
        \/ candidates[i].amount = candidates[j].amount /\ i <= j
  IN candidates[CHOOSE i \in DOMAIN candidates : cheapest(i)]

(* The result the chosen product is checked against: the first of its id *)
SourceOf(product, candidates) ==
  LET same == {i \in DOMAIN candidates : candidates[i].id = product.id}
  IN candidates[CHOOSE i \in same : \A j \in same : i <= j]

ValidateRecommendation(product, candidates) ==
  SourceOf(product, candidates).amount = product.amount
=============================================================================
