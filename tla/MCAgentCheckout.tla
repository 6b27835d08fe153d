-------------------------- MODULE MCAgentCheckout --------------------------
(***************************************************************************)
(* Three purchase requests; one agent with a delegation over two days; two *)
(* payments and three merchant orders; a small web of two words; two calls *)
(* with the genuine or with a forged key of one credential.                *)
(***************************************************************************)
EXTENDS AgentCheckout, TLC

CONSTANTS c1, c2

Prompt(kind, limited, limit) == [kind |-> kind, limited |-> limited, limit |-> limit]

MCPrompts ==
  {Prompt("buy", TRUE, 160), Prompt("buy", TRUE, 0), Prompt("buy", FALSE, 0),
   Prompt("do not purchase", TRUE, 200), Prompt("exceed budget", TRUE, 100),
   Prompt("injection", FALSE, 0)}

Item(url, quote, exact) ==
  [url |-> url, seller |-> "web", quote |-> quote, exact |-> exact, provider |-> "web"]

Live(tavily, brave, open, production) ==
  [tavily |-> tavily, brave |-> brave, open |-> open, production |-> production]

(* Two results of one address that disagree about the price, too; and an   *)
(* answer that costs less than any real product.                           *)
MCLiveAnswers ==
  {Live(<<Item("u1", 150, TRUE), Item("u2", 150, FALSE)>>, <<>>, <<>>, TRUE),
   Live(<<Item("u1", 150, TRUE), Item("u1", 120, TRUE)>>, <<>>, <<>>, TRUE),
   Live(<<Item("u3", 5, TRUE)>>, <<Item("u4", 190, FALSE)>>, <<>>, TRUE),
   Live(<<>>, <<>>, <<"u5">>, TRUE), Live(<<>>, <<>>, <<>>, FALSE),
   Live(<<>>, <<>>, <<>>, TRUE)}

MCRiskSteps == <<1, 2, 3>>

Offer(exact, domain, price, backed, inStock, public) ==
  [exact |-> exact, domain |-> domain, price |-> price, backed |-> backed,
   inStock |-> inStock, public |-> public]

MCOffers ==
  {Offer(TRUE, "cafeacme.local", 14000, FALSE, TRUE, TRUE),
   Offer(TRUE, "cafeacme.local", 500, FALSE, TRUE, TRUE),
   Offer(TRUE, "shop.example", 2000, FALSE, TRUE, TRUE),
   Offer(FALSE, "shop.example", 2000, TRUE, TRUE, FALSE),
   Offer(TRUE, "openfoodfacts.org", 2000, FALSE, FALSE, TRUE)}

Recheck(price, saysStock, inStock) ==
  [price |-> price, saysStock |-> saysStock, inStock |-> inStock]

MCRechecks == {Recheck(0, FALSE, FALSE), Recheck(14000, TRUE, TRUE), Recheck(2000, TRUE, FALSE)}

Event(id, kind, order, payment, readable) ==
  [id |-> id, kind |-> kind, order |-> order, outcome |-> order, payment |-> payment,
   readable |-> readable, signed |-> TRUE, recent |-> TRUE]

MCMerchantEvents ==
  {Event("e1", "order.confirmed", 1, "p1", TRUE), Event("e2", "order.confirmed", 1, "p2", FALSE),
   Event("e3", "order.shipped", 0, "p1", TRUE),
   [Event("e5", "order.confirmed", 1, "p1", TRUE) EXCEPT !.signed = FALSE]}

MCClaims == {[payment |-> "p1", paid |-> TRUE, ordered |-> FALSE],
             [payment |-> "p2", paid |-> TRUE, ordered |-> TRUE]}

Result(url, domain, explicit, currency, electronics) ==
  [usable |-> TRUE, title |-> url, url |-> url, domain |-> domain, explicit |-> explicit,
   currency |-> currency, electronics |-> electronics, image |-> FALSE]

CoffeeResults ==
  {Result("c1", "d1", <<100>>, <<>>, FALSE), Result("c2", "d2", <<>>, <<80>>, FALSE),
   Result("c3", "d1", <<>>, <<300, 90>>, FALSE), Result("c4", "d3", <<>>, <<>>, FALSE),
   [Result("c2", "d2", <<>>, <<80>>, FALSE) EXCEPT !.image = TRUE],
   [Result("c6", "d2", <<>>, <<70>>, FALSE) EXCEPT !.usable = FALSE]}

TeaResults ==
  {Result("t1", "d1", <<120>>, <<>>, FALSE), Result("t2", "d2", <<110>>, <<>>, FALSE),
   Result("t3", "d3", <<>>, <<100>>, TRUE)}

Answers(results) ==
  {<<>>} \cup {<<r>> : r \in results} \cup {<<r, s>> : r \in results, s \in results}

Web(coffee, tea) ==
  [coffee |-> [tavily |-> coffee, public |-> <<Result("o1", "openfoodfacts.org", <<>>, <<>>, FALSE)>>],
   tea |-> [tavily |-> tea, public |-> <<>>]]

MCWebs == {Web(coffee, tea) : coffee \in Answers(CoffeeResults), tea \in Answers(TeaResults)}

MCQueries ==
  {[word |-> "coffee", limited |-> TRUE, numbers |-> {300}],
   [word |-> "tea", limited |-> FALSE, numbers |-> {}]}

ListItem(query, quantity) == [query |-> query, quantity |-> quantity]

MCCartPrompts ==
  {[amount |-> 300, items |-> <<ListItem("coffee", 1), ListItem("tea", 1)>>, words |-> {}],
   [amount |-> 300, items |-> <<ListItem("coffee", 2), ListItem("tea", 1)>>, words |-> {"cheapest"}],
   [amount |-> 0, items |-> <<ListItem("coffee", 1), ListItem("tea", 2)>>,
    words |-> {"single merchant"}],
   [amount |-> 0, items |-> <<ListItem("coffee", 0)>>, words |-> {}],
   [amount |-> 0, items |-> <<>>, words |-> {}]}

Key(prefix, genuine, shaped) == [prefix |-> prefix, genuine |-> genuine, shaped |-> shaped]

MCApiKeys == {Key("k1", TRUE, TRUE), Key("k1", FALSE, FALSE)}

Grant(prefix, shop, scopes, expires) ==
  [prefix |-> prefix, shop |-> shop, scopes |-> scopes, expires |-> expires]

MCGrants ==
  {Grant("k1", "s1", "default", 1), Grant("k1", "s2", "operator", Never)}

MCCategoryLimits == [GENERAL_API |-> 2, AUTH_FAILURES |-> 1]

CallSymmetry == Permutations(Calls)
=============================================================================
