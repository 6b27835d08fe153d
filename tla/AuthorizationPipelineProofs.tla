---------------------- MODULE AuthorizationPipelineProofs ----------------------
(***************************************************************************)
(* Proofs about the in-process engines of AuthorizationPipeline, for any   *)
(* callers, transactions, proposals, mandates and policies.                *)
(*                                                                         *)
(* The inductive invariant says what the execution service holds (MemInv:  *)
(* a transaction it knows has a result, and one it sent is in the state    *)
(* that the first definite report of the adapter put it in)                *)
(* and what a caller's verdicts stand for (CallInv: a mandate or policy    *)
(* control that allowed had the amount, the buyer, the merchant and the    *)
(* categories in scope, which later steps of others do not change).  That  *)
(* the amount is the sum of the hashed items rests on the lemmas about     *)
(* sums (SumRelabel) and about sorting (SortRenames, SortKeeps).           *)
(***************************************************************************)
EXTENDS AuthorizationPipeline, FiniteSetTheorems, WellFoundedInduction, TLAPS

--------------------------------------------------------------------------------
(* Lists of rules *)

LEMMA NatMin ==
  ASSUME NEW S \in SUBSET Nat, S # {}
  PROVE  \E x \in S : \A y \in S : x <= y
<1> DEFINE R == OpToRel(<, Nat)
<1>1. IsWellFoundedOn(R, Nat)
  BY NatLessThanWellFounded
<1> HIDE DEF R
<1>2. PICK x \in S : \A y \in S : ~ (<<y, x>> \in R)
  BY <1>1, WFMin, Zenon
<1>3. \A y \in S : ~(y < x)
  <2> SUFFICES ASSUME NEW y \in S, y < x PROVE FALSE
    OBVIOUS
  <2>1. y \in Nat /\ x \in Nat
    OBVIOUS
  <2>2. <<y, x>> \in {ss \in Nat \X Nat : ss[1] < ss[2]}
    BY <2>1
  <2>3. <<y, x>> \in R
    BY <2>2 DEF R, OpToRel
  <2> QED
    BY <2>3, <1>2
<1> QED
  BY <1>3

(* FirstFailure answers OK exactly when every rule passes. *)
LEMMA AllPass ==
  ASSUME NEW n \in Nat, NEW answers, DOMAIN answers = 1 .. n
  PROVE  FirstFailure(answers) = "OK" <=> \A i \in 1 .. n : answers[i] = "OK"
<1>1. ASSUME \A i \in 1 .. n : answers[i] = "OK" PROVE FirstFailure(answers) = "OK"
  BY <1>1 DEF FirstFailure
<1>2. ASSUME NEW k \in 1 .. n, answers[k] # "OK" PROVE FirstFailure(answers) # "OK"
  <2> DEFINE S == {i \in 1 .. n : answers[i] # "OK"}
  <2>1. S \in SUBSET Nat /\ S # {}
    BY <1>2
  <2>2. PICK i \in S : \A j \in S : i <= j
    BY <2>1, NatMin
  <2>3. /\ i \in 1 .. n /\ answers[i] # "OK"
        /\ \A j \in 1 .. (i - 1) : answers[j] = "OK"
    BY <2>2
  <2> QED
    BY <2>3 DEF FirstFailure
<1> QED
  BY <1>1, <1>2

LEMMA ThreePass ==
  ASSUME NEW a, NEW b, NEW c
  PROVE  FirstFailure(<<a, b, c>>) = "OK" <=> a = "OK" /\ b = "OK" /\ c = "OK"
<1> DEFINE s == <<a, b, c>>
<1>1. DOMAIN s = 1 .. 3 /\ s[1] = a /\ s[2] = b /\ s[3] = c
  OBVIOUS
<1> HIDE DEF s
<1>2. FirstFailure(s) = "OK" <=> \A i \in 1 .. 3 : s[i] = "OK"
  BY <1>1, AllPass
<1> QED
  BY <1>1, <1>2 DEF s

LEMMA FourPass ==
  ASSUME NEW a, NEW b, NEW c, NEW d
  PROVE  FirstFailure(<<a, b, c, d>>) = "OK" <=> a = "OK" /\ b = "OK" /\ c = "OK" /\ d = "OK"
<1> DEFINE s == <<a, b, c, d>>
<1>1. DOMAIN s = 1 .. 4 /\ s[1] = a /\ s[2] = b /\ s[3] = c /\ s[4] = d
  OBVIOUS
<1> HIDE DEF s
<1>2. FirstFailure(s) = "OK" <=> \A i \in 1 .. 4 : s[i] = "OK"
  BY <1>1, AllPass
<1> QED
  BY <1>1, <1>2 DEF s

(* What it takes for the two evaluators to allow *)
LEMMA MandatePasses ==
  ASSUME NEW m, NEW intent, NEW cart, NEW at
  PROVE  MandateFailure(m, intent, cart, at) = "OK" <=>
           /\ m.status = "ACTIVE" /\ m.auto /\ ~(at < m.issued) /\ ~(at >= m.expires)
           /\ intent.buyer = m.buyer
           /\ m.merchants # {} /\ intent.merchant # None => intent.merchant \in m.merchants
           /\ m.merchants # {} => cart.merchant \in m.merchants
           /\ intent.currency = m.currency
           /\ m.regions # {} => intent.region \in m.regions
           /\ m.cats # {} => intent.category \in {None, MultiCategory} \cup m.cats
           /\ m.cats # {} => Categories(cart) \subseteq m.cats
           /\ ~(cart.total > m.cap)
<1>1. MandateActive(m) = "OK" <=> m.status = "ACTIVE"
  BY FourPass DEF MandateActive, Rule
<1>2. MandateInForce(m, at) = "OK" <=> m.auto /\ ~(at < m.issued) /\ ~(at >= m.expires)
  BY ThreePass DEF MandateInForce, Rule
<1>3. MandateBinding(m, intent, cart) = "OK" <=>
           /\ intent.buyer = m.buyer
           /\ m.merchants # {} /\ intent.merchant # None => intent.merchant \in m.merchants
           /\ m.merchants # {} => cart.merchant \in m.merchants
           /\ intent.currency = m.currency
  BY FourPass DEF MandateBinding, Rule
<1>4. MandateScope(m, intent, cart) = "OK" <=>
           /\ m.regions # {} => intent.region \in m.regions
           /\ m.cats # {} => intent.category \in {None, MultiCategory} \cup m.cats
           /\ m.cats # {} => Categories(cart) \subseteq m.cats
           /\ ~(cart.total > m.cap)
  BY FourPass DEF MandateScope, Rule
<1> QED
  BY <1>1, <1>2, <1>3, <1>4, FourPass DEF MandateFailure

LEMMA PolicyPasses ==
  ASSUME NEW pol, NEW intent, NEW cart, NEW at
  PROVE  PolicyFailure(pol, intent, cart, at) = "OK" <=>
           /\ PolicyActive(pol, at) /\ pol.enabled
           /\ intent.merchant \in {None, pol.merchant} /\ cart.merchant = pol.merchant
           /\ intent.op \notin pol.blocked
           /\ pol.allowed # {} => intent.op \in pol.allowed
           /\ intent.currency = pol.currency
           /\ pol.regions # {} => intent.region \in pol.regions
           /\ pol.cats # {} => intent.category \in {None, MultiCategory} \cup pol.cats
           /\ pol.cats # {} => Categories(cart) \subseteq pol.cats
           /\ ~(cart.total > pol.limit)
<1>1. PolicyStanding(pol, intent, cart, at) = "OK" <=>
           /\ PolicyActive(pol, at) /\ pol.enabled
           /\ intent.merchant \in {None, pol.merchant} /\ cart.merchant = pol.merchant
  BY FourPass DEF PolicyStanding, Rule
<1>2. PolicyOperation(pol, intent) = "OK" <=>
           /\ intent.op \notin pol.blocked
           /\ pol.allowed # {} => intent.op \in pol.allowed
           /\ intent.currency = pol.currency
           /\ pol.regions # {} => intent.region \in pol.regions
  BY FourPass DEF PolicyOperation, Rule
<1>3. PolicyLimits(pol, intent, cart) = "OK" <=>
           /\ pol.cats # {} => intent.category \in {None, MultiCategory} \cup pol.cats
           /\ pol.cats # {} => Categories(cart) \subseteq pol.cats
           /\ ~(cart.total > pol.limit)
  BY ThreePass DEF PolicyLimits, Rule
<1> QED
  BY <1>1, <1>2, <1>3, ThreePass DEF PolicyFailure

(* What PolicyEngine has found when it allows *)
LEMMA EnginePasses ==
  ASSUME NEW m, NEW pol, NEW cart, NEW e, NEW at,
         EngineDecision(m, pol, cart, e, at) = "ALLOW"
  PROVE  /\ pol.enabled /\ PolicyActive(pol, at) /\ e.region \in pol.regions
         /\ e.op \notin pol.blocked /\ e.op \in pol.allowed
         /\ ~(at >= m.expires) /\ m.status = "ACTIVE" /\ m.auto
         /\ cart.merchant \in m.merchants
         /\ Categories(cart) \subseteq m.cats /\ Categories(cart) \subseteq pol.cats
         /\ cart.currency = m.currency /\ cart.currency = pol.currency
         /\ ~(cart.total > pol.limit) /\ cart.total <= m.cap
<1> DEFINE answers == <<
  Rule(~pol.enabled, "AI_COMMERCE_DISABLED"),
  Rule(~PolicyActive(pol, at), "POLICY_VERSION_INVALID"),
  Rule(e.region \notin pol.regions, "REGION_NOT_ALLOWED"),
  Rule(e.op \in pol.blocked \/ e.op \notin pol.allowed, "OPERATION_NOT_ALLOWED"),
  Rule(at >= m.expires, "MANDATE_EXPIRED"),
  Rule(m.status # "ACTIVE", "MANDATE_NOT_ACTIVE"),
  Rule(cart.merchant \notin m.merchants, "MERCHANT_NOT_IN_SCOPE"),
  Rule(~ (Categories(cart) \subseteq m.cats), "CATEGORY_NOT_IN_SCOPE"),
  Rule(~ (Categories(cart) \subseteq pol.cats), "MERCHANT_CATEGORY_NOT_ALLOWED"),
  Rule(cart.currency # m.currency, "CURRENCY_MISMATCH"),
  Rule(cart.currency # pol.currency, "MERCHANT_CURRENCY_NOT_SUPPORTED"),
  Rule(cart.hash = NoHash, "CART_INTEGRITY_VIOLATION"),
  Rule(~e.nonceFresh, "NONCE_ALREADY_CONSUMED"),
  Rule(~m.auto, "AUTONOMOUS_EXECUTION_DISABLED"),
  Rule(cart.total > pol.limit, "MERCHANT_AMOUNT_LIMIT_EXCEEDED"),
  Rule(~e.affordable, "BUDGET_INSUFFICIENT")>>
<1>1. EngineFailure(m, pol, cart, e, at) = "OK" /\ cart.total <= m.cap
  BY DEF EngineDecision, StepUpZone
<1>2. DOMAIN answers = 1 .. 16
  OBVIOUS
<1>3. FirstFailure(answers) = "OK"
  BY <1>1 DEF EngineFailure
<1>4. \A i \in 1 .. 16 : answers[i] = "OK"
  <2> HIDE DEF answers
  <2> QED
    BY <1>2, <1>3, AllPass
<1>5. /\ answers[1] = "OK" /\ answers[2] = "OK" /\ answers[3] = "OK" /\ answers[4] = "OK"
      /\ answers[5] = "OK" /\ answers[6] = "OK" /\ answers[7] = "OK" /\ answers[8] = "OK"
      /\ answers[9] = "OK" /\ answers[10] = "OK" /\ answers[11] = "OK"
      /\ answers[14] = "OK" /\ answers[15] = "OK"
  <2> HIDE DEF answers
  <2> QED
    BY <1>4
<1> QED
  BY <1>1, <1>5 DEF Rule

--------------------------------------------------------------------------------
(* Sums.  Induction over finite sets is an argument about a smallest       *)
(* counterexample.                                                         *)

(* In a collection of finite sets some set is smallest. *)
LEMMA SmallestSet ==
  ASSUME NEW C, C # {}, \A s \in C : IsFiniteSet(s)
  PROVE  \E s \in C : \A t \in C : Cardinality(s) <= Cardinality(t)
<1> DEFINE sizes == {Cardinality(s) : s \in C}
<1>1. sizes \in SUBSET Nat /\ sizes # {}
  BY FS_CardinalityType
<1>2. PICK n \in sizes : \A k \in sizes : n <= k
  BY <1>1, NatMin
<1> QED
  BY <1>2

First(s) == CHOOSE x \in s : TRUE

(* g is the sum of f over each subset of U, taken element by element. *)
Sums(g, f, U) ==
  g = [s \in SUBSET U |-> IF s = {} THEN 0 ELSE f[First(s)] + g[s \ {First(s)}]]

LEMMA FirstIn ==
  ASSUME NEW s, s # {}
  PROVE  First(s) \in s
  BY DEF First

LEMMA SmallerSet ==
  ASSUME NEW s, IsFiniteSet(s), NEW x \in s
  PROVE  /\ IsFiniteSet(s \ {x}) /\ Cardinality(s) \in Nat /\ Cardinality(s \ {x}) \in Nat
         /\ Cardinality(s \ {x}) < Cardinality(s)
<1>1. /\ IsFiniteSet(s \ {x}) /\ Cardinality(s \ {x}) = Cardinality(s) - 1
  BY FS_RemoveElement
<1>2. Cardinality(s) \in Nat /\ Cardinality(s \ {x}) \in Nat
  BY <1>1, FS_CardinalityType
<1> QED
  BY <1>1, <1>2

(* Such a g exists. *)
LEMMA SumsExist ==
  ASSUME NEW U, IsFiniteSet(U), NEW f \in [U -> Int]
  PROVE  \E g \in [SUBSET U -> Int] : Sums(g, f, U)
<1> DEFINE upTo(n) == {s \in SUBSET U : Cardinality(s) <= n}
           Good(n) == \E g \in [upTo(n) -> Int] : \A s \in upTo(n) :
                        g[s] = IF s = {} THEN 0 ELSE f[First(s)] + g[s \ {First(s)}]
<1>1. \A s \in SUBSET U : IsFiniteSet(s) /\ Cardinality(s) \in Nat
  BY FS_Subset, FS_CardinalityType
<1>2. \A s \in SUBSET U : s # {} =>
        /\ First(s) \in s /\ First(s) \in U /\ s \ {First(s)} \in SUBSET U
        /\ Cardinality(s \ {First(s)}) \in Nat /\ Cardinality(s \ {First(s)}) < Cardinality(s)
  BY <1>1, FirstIn, SmallerSet
<1>3. Good(0)
  <2>1. ASSUME NEW s \in SUBSET U, Cardinality(s) <= 0 PROVE s = {}
    <3> SUFFICES ASSUME s # {} PROVE FALSE
      OBVIOUS
    <3>1. Cardinality(s \ {First(s)}) \in Nat /\ Cardinality(s \ {First(s)}) < Cardinality(s)
      BY <1>2
    <3>2. Cardinality(s) \in Nat
      BY <1>1
    <3> QED
      BY <2>1, <3>1, <3>2
  <2>2. [s \in upTo(0) |-> 0] \in [upTo(0) -> Int]
    OBVIOUS
  <2> WITNESS [s \in upTo(0) |-> 0] \in [upTo(0) -> Int]
  <2> QED
    BY <2>1
<1>4. ASSUME NEW n \in Nat, Good(n) PROVE Good(n + 1)
  <2>1. PICK h \in [upTo(n) -> Int] : \A s \in upTo(n) :
                        h[s] = IF s = {} THEN 0 ELSE f[First(s)] + h[s \ {First(s)}]
    BY <1>4
  <2> DEFINE g == [s \in upTo(n + 1) |->
                     IF s = {} THEN 0 ELSE f[First(s)] + h[s \ {First(s)}]]
  <2>2. \A s \in upTo(n + 1) : s # {} => s \ {First(s)} \in upTo(n)
    BY <1>1, <1>2
  <2>3. \A s \in upTo(n) : s \in upTo(n + 1)
    BY <1>1
  <2>4. \A s \in upTo(n) : g[s] = h[s]
    BY <2>1, <2>3
  <2>5. \A s \in upTo(n + 1) : g[s] = IF s = {} THEN 0 ELSE f[First(s)] + g[s \ {First(s)}]
    BY <2>2, <2>4
  <2>6. g \in [upTo(n + 1) -> Int]
    <3>1. \A s \in upTo(n + 1) : s # {} => f[First(s)] \in Int /\ h[s \ {First(s)}] \in Int
      BY <1>2, <2>2
    <3> QED
      BY <3>1
  <2> QED
    BY <2>5, <2>6
<1> HIDE DEF Good
<1>5. \A n \in Nat : Good(n)
  <2> SUFFICES ASSUME {n \in Nat : ~Good(n)} # {} PROVE FALSE
    OBVIOUS
  <2>1. PICK n \in {k \in Nat : ~Good(k)} : \A k \in {j \in Nat : ~Good(j)} : n <= k
    BY NatMin
  <2>2. n \in Nat /\ ~Good(n) /\ n # 0
    BY <1>3, <2>1
  <2>3. n - 1 \in Nat /\ ~(n <= n - 1) /\ (n - 1) + 1 = n
    BY <2>2
  <2>4. Good(n - 1)
    BY <2>1, <2>3
  <2> QED
    BY <1>4, <2>2, <2>3, <2>4
<1>6. upTo(Cardinality(U)) = SUBSET U
  BY <1>1, FS_Subset
<1>7. Good(Cardinality(U))
  BY <1>5, FS_CardinalityType
<1>8. PICK g \in [SUBSET U -> Int] : \A s \in SUBSET U :
                        g[s] = IF s = {} THEN 0 ELSE f[First(s)] + g[s \ {First(s)}]
  BY <1>6, <1>7 DEF Good
<1>9. Sums(g, f, U)
  BY <1>8 DEF Sums
<1> QED
  BY <1>9

(* The sum does not depend on the larger set it is defined over. *)
LEMMA SumsAgree ==
  ASSUME NEW U, IsFiniteSet(U), NEW V \in SUBSET U, NEW f \in [U -> Int], NEW e \in [V -> Int],
         \A x \in V : e[x] = f[x], NEW g, Sums(g, f, U), NEW h, Sums(h, e, V)
  PROVE  \A s \in SUBSET V : g[s] = h[s]
<1> DEFINE Bad == {s \in SUBSET V : g[s] # h[s]}
<1> SUFFICES ASSUME Bad # {} PROVE FALSE
  OBVIOUS
<1>1. \A s \in SUBSET V : IsFiniteSet(s) /\ s \in SUBSET U
  BY FS_Subset
<1>2. PICK s \in Bad : \A t \in Bad : Cardinality(s) <= Cardinality(t)
  BY <1>1, SmallestSet
<1>3. s \in SUBSET V /\ s \in SUBSET U /\ g[s] # h[s]
  BY <1>1, <1>2
<1>4. /\ g[s] = IF s = {} THEN 0 ELSE f[First(s)] + g[s \ {First(s)}]
      /\ h[s] = IF s = {} THEN 0 ELSE e[First(s)] + h[s \ {First(s)}]
  BY <1>3 DEF Sums
<1>5. s # {}
  BY <1>3, <1>4
<1>6. /\ First(s) \in V /\ s \ {First(s)} \in SUBSET V
      /\ ~(Cardinality(s) <= Cardinality(s \ {First(s)}))
  <2>1. First(s) \in s
    BY <1>1, <1>3, <1>5, FirstIn
  <2>2. /\ Cardinality(s) \in Nat /\ Cardinality(s \ {First(s)}) \in Nat
        /\ Cardinality(s \ {First(s)}) < Cardinality(s)
    BY <1>1, <1>3, <2>1, SmallerSet
  <2> QED
    BY <1>3, <2>1, <2>2
<1>7. g[s \ {First(s)}] = h[s \ {First(s)}]
  BY <1>2, <1>6
<1> QED
  BY <1>3, <1>4, <1>5, <1>6, <1>7

(* Any element may be taken first. *)
SumOver(g, f, U) ==
  IsFiniteSet(U) /\ f \in [U -> Int] /\ g \in [SUBSET U -> Int] /\ Sums(g, f, U)

LEMMA SumsTake ==
  ASSUME NEW U, NEW f, NEW g, SumOver(g, f, U)
  PROVE  \A x \in U : g[U] = f[x] + g[U \ {x}]
<1> SUFFICES \A s \in SUBSET U : \A x \in s : g[s] = f[x] + g[s \ {x}]
  OBVIOUS
<1> USE DEF SumOver
<1> DEFINE Bad == {s \in SUBSET U : \E x \in s : g[s] # f[x] + g[s \ {x}]}
<1> SUFFICES ASSUME Bad # {} PROVE FALSE
  OBVIOUS
<1>1. \A s \in SUBSET U : IsFiniteSet(s)
  BY FS_Subset
<1>2. PICK s \in Bad : \A t \in Bad : Cardinality(s) <= Cardinality(t)
  BY <1>1, SmallestSet
<1>3. PICK x \in s : g[s] # f[x] + g[s \ {x}]
  BY <1>2
<1>4. PICK y : y = First(s)
  OBVIOUS
<1>5. s \in SUBSET U /\ s # {} /\ IsFiniteSet(s) /\ y \in s
  BY <1>1, <1>3, <1>4, FirstIn
<1>6. g[s] = f[y] + g[s \ {y}]
  BY <1>4, <1>5 DEF Sums
<1>7. x # y
  BY <1>3, <1>6
<1>8. ASSUME NEW z \in s, NEW w \in s, z # w PROVE g[s \ {z}] = f[w] + g[(s \ {z}) \ {w}]
  <2>1. /\ Cardinality(s) \in Nat /\ Cardinality(s \ {z}) \in Nat
        /\ Cardinality(s \ {z}) < Cardinality(s)
    BY <1>5, SmallerSet
  <2>2. s \ {z} \in SUBSET U /\ ~(s \ {z} \in Bad)
    BY <1>2, <1>5, <2>1
  <2> QED
    BY <1>8, <2>2
<1>9. g[s \ {y}] = f[x] + g[(s \ {y}) \ {x}] /\ g[s \ {x}] = f[y] + g[(s \ {x}) \ {y}]
  BY <1>5, <1>7, <1>8
<1>10. (s \ {y}) \ {x} = (s \ {x}) \ {y} /\ (s \ {x}) \ {y} \in SUBSET U
  BY <1>5
<1>11. f[x] \in Int /\ f[y] \in Int /\ g[(s \ {x}) \ {y}] \in Int
  BY <1>5, <1>10
<1>12. PICK a \in Int, b \in Int, c \in Int :
         a = f[x] /\ b = f[y] /\ c = g[(s \ {x}) \ {y}]
  BY <1>11
<1>13. g[s] = b + (a + c) /\ f[x] + g[s \ {x}] = a + (b + c)
  BY <1>6, <1>9, <1>10, <1>12
<1> QED
  BY <1>3, <1>12, <1>13

(* SumFunction is the sum over the whole domain. *)
LEMMA SumIs ==
  ASSUME NEW U, IsFiniteSet(U), NEW f \in [U -> Int]
  PROVE  \E g \in [SUBSET U -> Int] : Sums(g, f, U) /\ SumFunction(f) = g[U]
<1>1. PICK h \in [SUBSET U -> Int] : Sums(h, f, U)
  BY SumsExist
<1> DEFINE g == CHOOSE k : Sums(k, f, U)
<1>2. Sums(g, f, U)
  BY <1>1
<1>3. SumFunction(f) = g[U]
  BY DEF SumFunction, SumFunctionOnSet, FoldFunctionOnSet, MapThenFoldSet, Sums, First
<1> HIDE DEF g
<1>4. \A s \in SUBSET U : g[s] = h[s]
  BY <1>1, <1>2, SumsAgree
<1>5. g \in [SUBSET U -> Int]
  <2>1. DOMAIN g = SUBSET U /\ g = [s \in SUBSET U |-> g[s]]
    BY <1>2 DEF Sums
  <2> QED
    BY <1>4, <2>1
<1> QED
  BY <1>2, <1>3, <1>5

(* e is f without its element x. *)
Without(e, V, f, U, x) ==
  /\ IsFiniteSet(U) /\ f \in [U -> Int] /\ x \in U
  /\ V = U \ {x} /\ e \in [V -> Int] /\ \A y \in V : e[y] = f[y]

(* Taking an element out of a function takes its value out of the sum. *)
LEMMA SumRemove ==
  ASSUME NEW U, NEW f, NEW x, NEW V, NEW e, Without(e, V, f, U, x)
  PROVE  /\ SumFunction(f) \in Int /\ SumFunction(e) \in Int
         /\ SumFunction(f) = f[x] + SumFunction(e)
<1> USE DEF Without
<1>1. V = U \ {x}
  OBVIOUS
<1>2. IsFiniteSet(V) /\ V \in SUBSET U
  BY FS_RemoveElement
<1>3. PICK g \in [SUBSET U -> Int] : Sums(g, f, U) /\ SumFunction(f) = g[U]
  BY SumIs
<1>4. PICK h \in [SUBSET V -> Int] : Sums(h, e, V) /\ SumFunction(e) = h[V]
  BY <1>2, SumIs
<1>5. g[V] = h[V]
  BY <1>2, <1>3, <1>4, SumsAgree
<1>6. SumOver(g, f, U)
  BY <1>3 DEF SumOver
<1>7. g[U] = f[x] + g[V]
  <2>1. \A y \in U : g[U] = f[y] + g[U \ {y}]
    <3> HIDE <1>1, <1>2, <1>3, <1>4, <1>5
    <3> QED
      BY <1>6, SumsTake
  <2> QED
    BY <1>1, <2>1
<1>8. g[U] \in Int /\ h[V] \in Int
  OBVIOUS
<1> QED
  BY <1>3, <1>4, <1>5, <1>7, <1>8

LEMMA SumEmpty ==
  ASSUME NEW f, DOMAIN f = {}, f = [y \in {} |-> f[y]]
  PROVE  SumFunction(f) = 0
<1>1. f \in [{} -> Int]
  OBVIOUS
<1>2. IsFiniteSet({})
  BY FS_EmptySet
<1>3. PICK g \in [SUBSET {} -> Int] : Sums(g, f, {}) /\ SumFunction(f) = g[{}]
  BY <1>1, <1>2, SumIs
<1> QED
  BY <1>3 DEF Sums

(* e is f with its elements renamed by o. *)
Relabels(e, V, f, U, o) ==
  /\ IsFiniteSet(U) /\ IsFiniteSet(V) /\ f \in [U -> Int] /\ e \in [V -> Int] /\ o \in [V -> U]
  /\ \A x \in V, y \in V : o[x] = o[y] => x = y
  /\ \A u \in U : \E x \in V : o[x] = u
  /\ \A x \in V : e[x] = f[o[x]]

(* Renaming does not change the sum. *)
LEMMA SumRelabel ==
  ASSUME NEW e0, NEW V0, NEW f0, NEW U0, NEW o0, Relabels(e0, V0, f0, U0, o0)
  PROVE  SumFunction(e0) = SumFunction(f0)
<1>1. PICK bad : bad = {n \in Nat : \E e, V, f, U, o :
                          /\ Relabels(e, V, f, U, o) /\ Cardinality(V) = n
                          /\ SumFunction(e) # SumFunction(f)}
  OBVIOUS
<1>2. SUFFICES ASSUME bad # {} PROVE FALSE
  <2>1. Cardinality(V0) \in Nat
    BY FS_CardinalityType DEF Relabels
  <2> QED
    BY <1>1, <2>1
<1>3. PICK n \in bad : \A k \in bad : n <= k
  <2>1. bad \in SUBSET Nat
    BY <1>1
  <2> QED
    BY <1>2, <2>1, NatMin
<1>4. n \in Nat
  BY <1>1, <1>3
<1>5. PICK e, V, f, U, o : /\ Relabels(e, V, f, U, o) /\ Cardinality(V) = n
                           /\ SumFunction(e) # SumFunction(f)
  BY <1>1, <1>3
<1>6. V # {}
  <2> SUFFICES ASSUME V = {} PROVE FALSE
    OBVIOUS
  <2>1. U = {}
    BY <1>5 DEF Relabels
  <2>2. /\ DOMAIN e = {} /\ e = [y \in {} |-> e[y]]
        /\ DOMAIN f = {} /\ f = [y \in {} |-> f[y]]
    BY <1>5, <2>1 DEF Relabels
  <2>3. SumFunction(e) = 0 /\ SumFunction(f) = 0
    BY <2>2, SumEmpty
  <2> QED
    BY <1>5, <2>3
<1>7. PICK x : x \in V
  BY <1>6
<1>8. PICK V1, U1, e1, f1, o1 :
        /\ V1 = V \ {x} /\ U1 = U \ {o[x]} /\ e1 = [y \in V1 |-> e[y]]
        /\ f1 = [u \in U1 |-> f[u]] /\ o1 = [y \in V1 |-> o[y]]
  OBVIOUS
<1>9. Without(e1, V1, e, V, x)
  BY <1>5, <1>7, <1>8 DEF Without, Relabels
<1>10. Without(f1, U1, f, U, o[x])
  BY <1>5, <1>7, <1>8 DEF Without, Relabels
<1>11. /\ SumFunction(e) = e[x] + SumFunction(e1) /\ SumFunction(f) = f[o[x]] + SumFunction(f1)
       /\ e[x] = f[o[x]]
  BY <1>5, <1>7, <1>9, <1>10, SumRemove DEF Relabels
<1>12. /\ IsFiniteSet(V1) /\ IsFiniteSet(U1) /\ Cardinality(V1) \in Nat
       /\ Cardinality(V1) = n - 1
  <2>1. IsFiniteSet(V) /\ IsFiniteSet(U)
    BY <1>5 DEF Relabels
  <2>2. /\ IsFiniteSet(V1) /\ IsFiniteSet(U1) /\ Cardinality(V1) = Cardinality(V) - 1
    BY <1>7, <1>8, <2>1, FS_RemoveElement
  <2> QED
    BY <1>5, <2>2, FS_CardinalityType
<1>13. Relabels(e1, V1, f1, U1, o1)
  <2>1. f1 \in [U1 -> Int] /\ e1 \in [V1 -> Int]
    BY <1>9, <1>10 DEF Without
  <2>2. \A y \in V1 : /\ y \in V /\ o1[y] = o[y] /\ o[y] \in U /\ o[y] # o[x] /\ o[y] \in U1
                      /\ e1[y] = e[y] /\ f1[o[y]] = f[o[y]]
    BY <1>5, <1>7, <1>8 DEF Relabels
  <2>3. o1 \in [V1 -> U1]
    BY <1>8, <2>2
  <2>4. \A y \in V1, z \in V1 : o1[y] = o1[z] => y = z
    BY <1>5, <2>2 DEF Relabels
  <2>5. \A u \in U1 : \E y \in V1 : o1[y] = u
    BY <1>5, <1>8 DEF Relabels
  <2>6. \A y \in V1 : e1[y] = f1[o1[y]]
    BY <1>5, <2>2 DEF Relabels
  <2> QED
    BY <1>12, <2>1, <2>3, <2>4, <2>5, <2>6 DEF Relabels
<1>14. n - 1 \in Nat /\ n - 1 \notin bad
  BY <1>3, <1>4, <1>12
<1>15. SumFunction(e1) = SumFunction(f1)
  BY <1>1, <1>12, <1>13, <1>14
<1> QED
  BY <1>5, <1>11, <1>15

--------------------------------------------------------------------------------
(* The sorted items *)

(* Item j comes no later than item i in the order of the products. *)
NoLater(items, j, i) ==
  \/ items[j].product < items[i].product
  \/ items[j].product = items[i].product /\ j <= i

Listed(items, n) ==
  /\ n \in Nat /\ DOMAIN items = 1 .. n
  /\ \A i \in 1 .. n : items[i].product \in Int

(* Sorting renames the places of a list. *)
LEMMA SortRenames ==
  ASSUME NEW items, NEW n, Listed(items, n)
  PROVE  \E o \in [1 .. n -> 1 .. n] :
           /\ \A x \in 1 .. n, y \in 1 .. n : o[x] = o[y] => x = y
           /\ \A u \in 1 .. n : \E x \in 1 .. n : o[x] = u
           /\ SortedItems(items) = [k \in 1 .. n |-> items[o[k]]]
<1>1. n \in Nat /\ IsFiniteSet(1 .. n) /\ Cardinality(1 .. n) = n
  <2>1. n \in Nat /\ 1 \in Int /\ n \in Int
    BY DEF Listed
  <2>2. IsFiniteSet(1 .. n) /\ Cardinality(1 .. n) = IF 1 > n THEN 0 ELSE n - 1 + 1
    BY <2>1, FS_Interval
  <2> QED
    BY <2>1, <2>2
<1>2. PICK below : below = [i \in 1 .. n |-> {j \in 1 .. n : NoLater(items, j, i)}]
  OBVIOUS
<1>3. \A i \in 1 .. n : below[i] \in SUBSET (1 .. n) /\ i \in below[i]
  BY <1>2 DEF NoLater, Listed
<1>4. PICK place : place = [i \in 1 .. n |-> Cardinality(below[i])]
  OBVIOUS
<1>5. \A i \in 1 .. n : IsFiniteSet(below[i]) /\ place[i] \in 1 .. n
  <2> SUFFICES ASSUME NEW i \in 1 .. n PROVE IsFiniteSet(below[i]) /\ place[i] \in 1 .. n
    OBVIOUS
  <2>1. IsFiniteSet(below[i]) /\ Cardinality(below[i]) <= n
    BY <1>1, <1>3, FS_Subset
  <2>2. Cardinality(below[i]) \in Nat /\ Cardinality(below[i]) # 0
    BY <1>3, <2>1, FS_CardinalityType, FS_EmptySet
  <2> QED
    BY <1>1, <1>4, <2>1, <2>2
<1>6. ASSUME NEW i \in 1 .. n, NEW j \in 1 .. n, i # j, NoLater(items, i, j)
      PROVE  place[i] # place[j]
  <2>1. ~ NoLater(items, j, i)
    BY <1>6 DEF NoLater, Listed
  <2>2. below[i] \in SUBSET below[j]
    <3> SUFFICES ASSUME NEW k \in 1 .. n, NoLater(items, k, i) PROVE NoLater(items, k, j)
      BY <1>2
    <3> QED
      BY <1>6 DEF NoLater, Listed
  <2>3. j \in below[j] /\ j \notin below[i]
    BY <1>2, <1>3, <2>1
  <2>4. below[i] # below[j]
    BY <2>3
  <2>5. Cardinality(below[j]) # Cardinality(below[i])
    BY <1>5, <2>2, <2>4, FS_Subset
  <2> QED
    BY <1>4, <2>5
<1>7. \A i \in 1 .. n, j \in 1 .. n : place[i] = place[j] => i = j
  <2>1. \A i \in 1 .. n, j \in 1 .. n : NoLater(items, i, j) \/ NoLater(items, j, i)
    BY DEF NoLater, Listed
  <2> QED
    BY <1>6, <2>1
<1>8. \A k \in 1 .. n : \E i \in 1 .. n : place[i] = k
  <2>1. place \in Injection(1 .. n, 1 .. n)
    BY <1>4, <1>5, <1>7 DEF Injection, IsInjective
  <2>2. place \in Surjection(1 .. n, 1 .. n)
    BY <1>1, <2>1, FS_Injection
  <2> QED
    BY <2>2 DEF Surjection
<1>9. PICK o : o = [k \in 1 .. n |-> CHOOSE i \in 1 .. n : place[i] = k]
  OBVIOUS
<1>10. \A k \in 1 .. n : o[k] \in 1 .. n /\ place[o[k]] = k
  BY <1>8, <1>9
<1>11. o \in [1 .. n -> 1 .. n]
  BY <1>9, <1>10
<1>12. \A x \in 1 .. n, y \in 1 .. n : o[x] = o[y] => x = y
  BY <1>10
<1>13. \A u \in 1 .. n : \E x \in 1 .. n : o[x] = u
  BY <1>5, <1>7, <1>10
<1>14. SortedItems(items) = [k \in 1 .. n |-> items[o[k]]]
  <2> DEFINE P(i) == Cardinality({j \in 1 .. n : NoLater(items, j, i)})
  <2>1. DOMAIN items = 1 .. n
    BY DEF Listed
  <2>2. SortedItems(items) = [k \in 1 .. n |-> items[CHOOSE i \in 1 .. n : P(i) = k]]
    BY <2>1 DEF SortedItems, NoLater
  <2>3. \A i \in 1 .. n : place[i] = P(i)
    BY <1>2, <1>4
  <2> HIDE DEF P
  <2>4. ASSUME NEW k \in 1 .. n PROVE o[k] = CHOOSE i \in 1 .. n : P(i) = k
    BY <1>9, <2>3
  <2> QED
    BY <2>2, <2>4
<1> QED
  BY <1>11, <1>12, <1>13, <1>14

(* What is paid for the items of a list *)
Priced(items, n) ==
  Listed(items, n) /\ \A i \in 1 .. n : items[i].qty \in Int /\ items[i].price \in Int

(* Sorting a list keeps its items and their sum. *)
LEMMA SortKeeps ==
  ASSUME NEW items, NEW n, Priced(items, n)
  PROVE  /\ Subtotal(items) \in Int
         /\ Subtotal(SortedItems(items)) = Subtotal(items)
         /\ DOMAIN SortedItems(items) = 1 .. n
         /\ \A k \in 1 .. n : \E i \in 1 .. n : SortedItems(items)[k] = items[i]
<1>1. PICK o \in [1 .. n -> 1 .. n] :
           /\ \A x \in 1 .. n, y \in 1 .. n : o[x] = o[y] => x = y
           /\ \A u \in 1 .. n : \E x \in 1 .. n : o[x] = u
           /\ SortedItems(items) = [k \in 1 .. n |-> items[o[k]]]
  <2>1. Listed(items, n)
    BY DEF Priced
  <2> QED
    BY <2>1, SortRenames, SMTT(20)
<1>2. PICK f : f = [i \in 1 .. n |-> items[i].qty * items[i].price]
  OBVIOUS
<1>3. PICK e : e = [k \in 1 .. n |-> items[o[k]].qty * items[o[k]].price]
  OBVIOUS
<1>4. DOMAIN items = 1 .. n /\ n \in Nat
  BY DEF Priced, Listed
<1>5. Subtotal(items) = SumFunction(f)
  BY <1>2, <1>4 DEF Subtotal
<1>6. Subtotal(SortedItems(items)) = SumFunction(e)
  <2>1. PICK s : s = SortedItems(items)
    OBVIOUS
  <2>2. DOMAIN s = 1 .. n /\ \A k \in 1 .. n : s[k] = items[o[k]]
    BY <1>1, <2>1
  <2>3. e = [k \in DOMAIN s |-> s[k].qty * s[k].price]
    BY <1>3, <2>2
  <2> QED
    BY <2>1, <2>3 DEF Subtotal
<1>7. IsFiniteSet(1 .. n)
  <2>1. 1 \in Int /\ n \in Int
    BY <1>4
  <2> QED
    BY <2>1, FS_Interval
<1>8. f \in [1 .. n -> Int]
  <2>1. \A i \in 1 .. n : items[i].qty * items[i].price \in Int
    BY DEF Priced
  <2> QED
    BY <1>2, <2>1
<1>9. \A k \in 1 .. n : o[k] \in 1 .. n /\ e[k] = f[o[k]]
  BY <1>1, <1>2, <1>3
<1>10. e \in [1 .. n -> Int]
  BY <1>3, <1>8, <1>9
<1>11. Relabels(e, 1 .. n, f, 1 .. n, o)
  BY <1>1, <1>7, <1>8, <1>9, <1>10 DEF Relabels
<1>12. SumFunction(e) = SumFunction(f)
  BY <1>11, SumRelabel
<1>13. SumFunction(f) \in Int
  <2>1. PICK U : U = 1 .. n
    OBVIOUS
  <2>2. IsFiniteSet(U) /\ f \in [U -> Int]
    BY <1>7, <1>8, <2>1
  <2>3. PICK g \in [SUBSET U -> Int] : Sums(g, f, U) /\ SumFunction(f) = g[U]
    BY <2>2, SumIs
  <2> QED
    BY <2>3
<1>14. DOMAIN SortedItems(items) = 1 .. n /\ \A k \in 1 .. n : SortedItems(items)[k] = items[o[k]]
  BY <1>1
<1>15. \A k \in 1 .. n : \E i \in 1 .. n : SortedItems(items)[k] = items[i]
  BY <1>9, <1>14
<1> QED
  BY <1>5, <1>6, <1>12, <1>13, <1>14, <1>15

--------------------------------------------------------------------------------
(* The inductive invariant *)

Answer == Decision \cup {None}
Verdicts ==
  [MANDATE_EVALUATION : Answer, MERCHANT_POLICY : Answer, CART_INTEGRITY : Answer,
   BUDGET_RESERVATION : Answer, REPLAY_PROTECTION : Answer, NONCE_VALIDATION : Answer]
Stage == {"replay", "nonce", "stepup", "execute"}
Work == [pc : Stage, tx : Txs, proposal : Proposals, presented : Proposals,
         v : Verdicts, stepUp : Answer]

(* What the two evaluators grant a proposal, in fields that never change *)
MandateGrants(p) ==
  /\ p.buyer = mandate.buyer /\ ComputedTotal(p) <= mandate.cap
  /\ mandate.merchants # {} => p.merchant \in mandate.merchants
  /\ mandate.cats # {} => Categories(NormalizedCart(p)) \subseteq mandate.cats
PolicyGrants(p) ==
  /\ p.merchant = policy.merchant /\ ComputedTotal(p) <= policy.limit
  /\ policy.cats # {} => Categories(NormalizedCart(p)) \subseteq policy.cats

CallOK(c) ==
  /\ call[c].pc = "evaluate" =>
       call[c].tx \in Txs /\ call[c].proposal \in Proposals /\ call[c].presented \in Proposals
  /\ call[c].pc \in Stage =>
       /\ call[c] \in Work
       /\ call[c].v.MANDATE_EVALUATION = "ALLOW" => MandateGrants(call[c].proposal)
       /\ call[c].v.MERCHANT_POLICY = "ALLOW" => PolicyGrants(call[c].proposal)

CallInv == DOMAIN call = Callers /\ \A c \in Callers : CallOK(c)

ScopeInv ==
  /\ {"status", "issued", "buyer", "merchants", "cats", "cap"} \subseteq DOMAIN mandate
  /\ mandate.issued \in Int /\ mandate.cap \in Int /\ policy \in Policies /\ now \in Nat

IsOrder(o) ==
  o = [state |-> o.state, merchant |-> o.merchant, buyer |-> o.buyer, mandate |-> o.mandate,
       amount |-> o.amount, currency |-> o.currency, hash |-> o.hash]

HashCategories(h) == {h.items[i].cat : i \in DOMAIN h.items}

InScope(tx) ==
  /\ tx.amount <= mandate.cap /\ tx.amount <= policy.limit
  /\ tx.buyer = mandate.buyer /\ tx.merchant = policy.merchant
  /\ mandate.merchants # {} => tx.merchant \in mandate.merchants
  /\ tx.amount = Subtotal(tx.hash.items) + tx.hash.tax + tx.hash.shipping
  /\ mandate.cats # {} => HashCategories(tx.hash) \subseteq mandate.cats
  /\ policy.cats # {} => HashCategories(tx.hash) \subseteq policy.cats

(* Sent n times, in state s, with the first definite report r and the      *)
(* cached result res                                                       *)
Settled(n, s, r, res) ==
  /\ n = 0 => r = None /\ s \notin {"EXECUTING", "COMMITTED", "ROLLED_BACK"}
  /\ n > 0 => \/ s = "EXECUTING" /\ r = None
              \/ s = "COMMITTED" /\ r = "SUCCESS"
              \/ s = "ROLLED_BACK" /\ r = "FAILED"
  /\ res \in {"SUCCESS", "FAILED"} => res = r

(* A transaction that is known has a result; one without a result never    *)
(* reached the provider.                                                   *)
HeldOK(t) ==
  /\ transactions[t] # NoTx => results[t] # None /\ IsOrder(transactions[t])
  /\ results[t] = None => dispatched[t] = 0
  /\ Settled(dispatched[t], transactions[t].state, reported[t], results[t])
  /\ dispatched[t] > 0 => transactions[t] # NoTx /\ InScope(transactions[t])

MemInv ==
  /\ dispatched \in [Txs -> Nat]
  /\ DOMAIN reported = Txs /\ DOMAIN results = Txs /\ DOMAIN transactions = Txs
  /\ \A t \in Txs : HeldOK(t)

IInv == CallInv /\ ScopeInv /\ MemInv
--------------------------------------------------------------------------------

LEMMA InitInv == Init => IInv
<1> SUFFICES ASSUME Init PROVE IInv
  OBVIOUS
<1>1. /\ transactions = [t \in Txs |-> NoTx] /\ results = [t \in Txs |-> None]
      /\ dispatched = [t \in Txs |-> 0] /\ reported = [t \in Txs |-> None]
      /\ call = [c \in Callers |-> Idle] /\ mandate \in Mandates /\ policy \in Policies
      /\ now = 0
  BY DEF Init, MemoryInit
<1>2. CallInv
  BY <1>1 DEF CallInv, CallOK, Idle, Stage
<1>3. ScopeInv
  BY <1>1, PipelineAssumption DEF ScopeInv
<1>4. MemInv
  BY <1>1 DEF MemInv, HeldOK, Settled, NoTx, None
<1> QED
  BY <1>2, <1>3, <1>4 DEF IInv

(* The cart of a proposal *)
LEMMA CartFields ==
  ASSUME NEW p
  PROVE  /\ NormalizedCart(p).merchant = p.merchant /\ NormalizedCart(p).mandate = p.mandate
         /\ NormalizedCart(p).currency = p.currency
         /\ NormalizedCart(p).total = ComputedTotal(p)
         /\ DOMAIN NormalizedCart(p).items = DOMAIN p.items
         /\ \A i \in DOMAIN p.items : NormalizedCart(p).items[i].cat = p.items[i].cat
<1> DEFINE items == [i \in DOMAIN p.items |->
     [product |-> p.items[i].product, merchant |-> p.merchant, cat |-> p.items[i].cat,
      qty |-> p.items[i].qty, price |-> p.items[i].price, currency |-> p.currency]]
           plain == [merchant |-> p.merchant, mandate |-> p.mandate, currency |-> p.currency,
                     items |-> items, tax |-> p.tax, shipping |-> p.shipping,
                     total |-> ComputedTotal(p), hash |-> NoHash]
<1>1. NormalizedCart(p) = [plain EXCEPT !.hash = CartHash(plain)]
  BY DEF NormalizedCart, WithHash
<1>2. \A h : LET cart == [plain EXCEPT !.hash = h] IN
        /\ cart.merchant = p.merchant /\ cart.mandate = p.mandate /\ cart.currency = p.currency
        /\ cart.total = ComputedTotal(p) /\ cart.items = items
  <2> HIDE DEF items
  <2> QED
    OBVIOUS
<1>3. DOMAIN items = DOMAIN p.items /\ \A i \in DOMAIN p.items : items[i].cat = p.items[i].cat
  OBVIOUS
<1> HIDE DEF items, plain
<1> QED
  BY <1>1, <1>2, <1>3

(* The hash of a proposal's cart has its items, in another order. *)
LEMMA CartHashFields ==
  ASSUME NEW p \in Proposals, NEW h, h = NormalizedCart(p).hash
  PROVE  /\ ComputedTotal(p) \in Int
         /\ ComputedTotal(p) = Subtotal(h.items) + h.tax + h.shipping
         /\ HashCategories(h) \subseteq Categories(NormalizedCart(p))
<1>1. PICK items : items = [i \in DOMAIN p.items |->
     [product |-> p.items[i].product, merchant |-> p.merchant, cat |-> p.items[i].cat,
      qty |-> p.items[i].qty, price |-> p.items[i].price, currency |-> p.currency]]
  OBVIOUS
<1>2. PICK plain :
        plain = [merchant |-> p.merchant, mandate |-> p.mandate, currency |-> p.currency,
                 items |-> items, tax |-> p.tax, shipping |-> p.shipping,
                 total |-> ComputedTotal(p), hash |-> NoHash]
  OBVIOUS
<1>3. PICK n : n = Len(p.items)
  OBVIOUS
<1>4. /\ n \in Nat /\ DOMAIN p.items = 1 .. n /\ p.tax \in Int /\ p.shipping \in Int
      /\ \A i \in 1 .. n :
           p.items[i].product \in Int /\ p.items[i].qty \in Int /\ p.items[i].price \in Int
  BY <1>3, PipelineAssumption
<1>5. /\ DOMAIN items = 1 .. n
      /\ \A i \in 1 .. n : /\ items[i].product = p.items[i].product /\ items[i].cat = p.items[i].cat
                           /\ items[i].qty = p.items[i].qty /\ items[i].price = p.items[i].price
  BY <1>1, <1>4
<1>6. Priced(items, n)
  BY <1>4, <1>5 DEF Priced, Listed
<1>7. NormalizedCart(p) = [plain EXCEPT !.hash = CartHash(plain)]
  BY <1>1, <1>2 DEF NormalizedCart, WithHash
<1>8. NormalizedCart(p).items = items /\ h = CartHash(plain)
  BY <1>2, <1>7
<1>9. h.items = SortedItems(items) /\ h.tax = p.tax /\ h.shipping = p.shipping
  BY <1>2, <1>8 DEF CartHash
<1>10. Subtotal(items) = Subtotal(p.items)
  <2>1. [i \in DOMAIN items |-> items[i].qty * items[i].price]
          = [i \in DOMAIN p.items |-> p.items[i].qty * p.items[i].price]
    BY <1>4, <1>5
  <2> QED
    BY <2>1 DEF Subtotal
<1>11. Subtotal(h.items) = Subtotal(p.items) /\ Subtotal(p.items) \in Int
  BY <1>6, <1>9, <1>10, SortKeeps
<1>12. HashCategories(h) \subseteq Categories(NormalizedCart(p))
  <2>1. DOMAIN h.items = 1 .. n /\ \A k \in 1 .. n : \E i \in 1 .. n : h.items[k] = items[i]
    BY <1>6, <1>9, SortKeeps
  <2>2. Categories(NormalizedCart(p)) = {items[i].cat : i \in 1 .. n}
    BY <1>5, <1>8 DEF Categories
  <2> QED
    BY <2>1, <2>2 DEF HashCategories
<1> QED
  BY <1>4, <1>9, <1>11, <1>12 DEF ComputedTotal

(* The engines agree *)
LEMMA EnginesAgreeNow ==
  ASSUME IInv
  PROVE  EnginesAgree
<1> DEFINE p(c) == call[c].proposal
           intent(c) == NormalizedIntent(p(c))
           e(c) == [op |-> p(c).op, region |-> p(c).region, nonceFresh |-> TRUE,
                    affordable |-> TRUE]
<1> SUFFICES ASSUME NEW c \in Callers, call[c].pc \in {"evaluate", "replay"},
                    EngineDecision(mandate, policy, Approved(c), e(c), now) = "ALLOW",
                    p(c).buyer = mandate.buyer, p(c).merchant = policy.merchant,
                    mandate.regions # {} => p(c).region \in mandate.regions,
                    mandate.issued <= now
             PROVE  /\ MandateFailure(mandate, intent(c), Approved(c), now) = "OK"
                    /\ PolicyFailure(policy, intent(c), Approved(c), now) = "OK"
  BY DEF EnginesAgree

<1> DEFINE cart == Approved(c)
<1>1. p(c) \in Proposals
  BY DEF IInv, CallInv, CallOK, Stage, Work
<1>2. e(c).op = p(c).op /\ e(c).region = p(c).region
  BY Zenon
<1>3. /\ cart.merchant = p(c).merchant /\ cart.currency = p(c).currency
      /\ cart.total = ComputedTotal(p(c)) /\ DOMAIN cart.items = DOMAIN p(c).items
      /\ \A i \in DOMAIN p(c).items : cart.items[i].cat = p(c).items[i].cat
  BY CartFields DEF Approved
<1>4. /\ intent(c).buyer = p(c).buyer /\ intent(c).merchant = p(c).merchant
      /\ intent(c).currency = p(c).currency /\ intent(c).region = p(c).region
      /\ intent(c).op = p(c).op
      /\ intent(c).category = IF Len(p(c).items) = 1 THEN p(c).items[1].cat ELSE MultiCategory
  BY DEF NormalizedIntent
<1>5. intent(c).category \in {MultiCategory} \cup Categories(cart)
  <2>1. Len(p(c).items) = 1 => 1 \in DOMAIN p(c).items
    BY <1>1, PipelineAssumption
  <2> QED
    BY <1>3, <1>4, <2>1 DEF Categories
<1>6. ~(cart.total > mandate.cap) <=> cart.total <= mandate.cap
  <2>1. cart.total \in Int
    BY <1>1, <1>3, CartHashFields
  <2> HIDE DEF cart
  <2> QED
    BY <2>1 DEF IInv, ScopeInv
<1>7. ~(now < mandate.issued)
  BY DEF IInv, ScopeInv
<1> HIDE DEF p, e, intent, cart
<1>8. /\ policy.enabled /\ PolicyActive(policy, now) /\ p(c).region \in policy.regions
      /\ p(c).op \notin policy.blocked /\ p(c).op \in policy.allowed
      /\ ~(now >= mandate.expires) /\ mandate.status = "ACTIVE" /\ mandate.auto
      /\ cart.merchant \in mandate.merchants
      /\ Categories(cart) \subseteq mandate.cats /\ Categories(cart) \subseteq policy.cats
      /\ cart.currency = mandate.currency /\ cart.currency = policy.currency
      /\ ~(cart.total > policy.limit) /\ cart.total <= mandate.cap
  <2>1. EngineDecision(mandate, policy, cart, e(c), now) = "ALLOW"
    BY DEF cart
  <2> QED
    BY <1>2, <2>1, EnginePasses
<1>9. MandateFailure(mandate, intent(c), cart, now) = "OK"
  <2>1. mandate.cats # {} => intent(c).category \in {None, MultiCategory} \cup mandate.cats
    BY <1>5, <1>8
  <2>2. /\ intent(c).buyer = mandate.buyer
        /\ intent(c).merchant \in mandate.merchants /\ cart.merchant \in mandate.merchants
        /\ intent(c).currency = mandate.currency
        /\ mandate.regions # {} => intent(c).region \in mandate.regions
    BY <1>3, <1>4, <1>8
  <2>3. /\ mandate.status = "ACTIVE" /\ mandate.auto /\ ~(now >= mandate.expires)
        /\ mandate.cats # {} => Categories(cart) \subseteq mandate.cats
        /\ ~(cart.total > mandate.cap)
    BY <1>6, <1>8
  <2> QED
    BY <1>7, <2>1, <2>2, <2>3, MandatePasses
<1>10. PolicyFailure(policy, intent(c), cart, now) = "OK"
  <2>1. policy.cats # {} => intent(c).category \in {None, MultiCategory} \cup policy.cats
    BY <1>5, <1>8
  <2> QED
    BY <1>3, <1>4, <1>8, <2>1, PolicyPasses
<1> QED
  BY <1>9, <1>10 DEF cart, intent, p

--------------------------------------------------------------------------------
(* Callers *)

(* The mandate's scope and the policy, which no step changes *)
Static ==
  /\ mandate'.buyer = mandate.buyer /\ mandate'.merchants = mandate.merchants
  /\ mandate'.cats = mandate.cats /\ mandate'.cap = mandate.cap /\ policy' = policy

LEMMA CallFrame ==
  ASSUME CallInv, Static, NEW c \in Callers, NEW w,
         call' = [call EXCEPT ![c] = w], CallOK(c)'
  PROVE  CallInv'
<1>1. DOMAIN call' = Callers /\ \A d \in Callers : d # c => call'[d] = call[d]
  BY DEF CallInv
<1>2. ASSUME NEW d \in Callers, d # c PROVE CallOK(d)'
  BY <1>1, <1>2 DEF CallInv, CallOK, MandateGrants, PolicyGrants, Static
<1> QED
  BY <1>1, <1>2 DEF CallInv

LEMMA ProposeInv ==
  ASSUME CallInv, NEW c \in Callers, NEW t \in Txs, NEW p \in Proposals, NEW q \in Proposals,
         Propose(c, t, p, q)
  PROVE  CallInv'
<1> DEFINE begun == [pc |-> "evaluate", tx |-> t, proposal |-> p, presented |-> q]
           refused == [pc |-> "refused"]
<1>1. /\ begun.pc = "evaluate" /\ begun.tx = t /\ begun.proposal = p /\ begun.presented = q
      /\ refused.pc = "refused"
  OBVIOUS
<1>2. Static
  BY DEF Propose, Static
<1> HIDE DEF begun, refused
<1>3. PICK w \in {begun, refused} : call' = [call EXCEPT ![c] = w]
  BY DEF Propose, begun, refused
<1>4. call'[c] = w
  BY <1>3 DEF CallInv
<1>5. CallOK(c)'
  BY <1>1, <1>3, <1>4 DEF CallOK, Stage
<1> QED
  BY <1>2, <1>3, <1>5, CallFrame

(* A verdict of an evaluator stands for the fields it compared. *)
LEMMA EvaluateInv ==
  ASSUME CallInv, ScopeInv, NEW c \in Callers, Evaluate(c)
  PROVE  CallInv'
<1> DEFINE p == call[c].proposal
           intent == NormalizedIntent(p)
           cart == Approved(c)
           mv == Verdict(MandateFailure(mandate, intent, cart, now))
           pv == Verdict(PolicyFailure(policy, intent, cart, now))
           cv == Verdict(CartFailure(cart, Presented(c)))
           v(b) == [MANDATE_EVALUATION |-> mv, MERCHANT_POLICY |-> pv, CART_INTEGRITY |-> cv,
                    BUDGET_RESERVATION |-> b, REPLAY_PROTECTION |-> None,
                    NONCE_VALIDATION |-> None]
           w(b) == [pc |-> "replay", tx |-> call[c].tx, proposal |-> p,
                    presented |-> call[c].presented, v |-> v(b), stepUp |-> None]
<1>1. PICK b \in BudgetAnswers : call' = [call EXCEPT ![c] = w(b)]
  BY DEF Evaluate
<1>2. call[c].pc = "evaluate" /\ Static
  BY DEF Evaluate, Static
<1>3. call[c].tx \in Txs /\ p \in Proposals /\ call[c].presented \in Proposals
  BY <1>2 DEF CallInv, CallOK
<1>4. /\ mv \in Answer /\ pv \in Answer /\ cv \in Answer /\ b \in Answer /\ None \in Answer
  BY PipelineAssumption DEF Verdict, Answer, Decision
<1>5. /\ cart.merchant = p.merchant /\ cart.total = ComputedTotal(p)
      /\ intent.buyer = p.buyer /\ intent.merchant = p.merchant
  BY CartFields DEF Approved, NormalizedIntent
<1>6. /\ ComputedTotal(p) \in Int /\ mandate.cap \in Int /\ policy.limit \in Int
      /\ cart = NormalizedCart(p)
  BY <1>3, CartHashFields, PipelineAssumption DEF ScopeInv, Approved
<1> HIDE DEF cart, intent
<1>7. mv = "ALLOW" => MandateGrants(p)
  <2>1. mv = "ALLOW" => MandateFailure(mandate, intent, cart, now) = "OK"
    BY DEF Verdict
  <2>2. mv = "ALLOW" => /\ intent.buyer = mandate.buyer /\ ~(cart.total > mandate.cap)
                        /\ mandate.merchants # {} => cart.merchant \in mandate.merchants
                        /\ mandate.cats # {} => Categories(cart) \subseteq mandate.cats
    <3> HIDE DEF mv
    <3> QED
      BY <2>1, MandatePasses
  <2> HIDE DEF mv, p
  <2> QED
    BY <1>5, <1>6, <2>2 DEF MandateGrants
<1>8. pv = "ALLOW" => PolicyGrants(p)
  <2>1. pv = "ALLOW" => PolicyFailure(policy, intent, cart, now) = "OK"
    BY DEF Verdict
  <2>2. pv = "ALLOW" => /\ cart.merchant = policy.merchant /\ ~(cart.total > policy.limit)
                        /\ policy.cats # {} => Categories(cart) \subseteq policy.cats
    <3> HIDE DEF pv
    <3> QED
      BY <2>1, PolicyPasses
  <2> HIDE DEF pv, p
  <2> QED
    BY <1>5, <1>6, <2>2 DEF PolicyGrants
<1> HIDE DEF mv, pv, cv, p
<1>9. v(b) \in Verdicts /\ v(b).MANDATE_EVALUATION = mv /\ v(b).MERCHANT_POLICY = pv
  BY <1>4 DEF Verdicts
<1> HIDE DEF v
<1>10. /\ w(b) \in Work /\ w(b).pc = "replay" /\ w(b).proposal = p /\ w(b).v = v(b)
  BY <1>3, <1>4, <1>9 DEF Work, Stage
<1> HIDE DEF w
<1>11. call'[c] = w(b)
  BY <1>1 DEF CallInv
<1>12. CallOK(c)'
  BY <1>2, <1>7, <1>8, <1>9, <1>10, <1>11
  DEF CallOK, Static, MandateGrants, PolicyGrants
<1> QED
  BY <1>1, <1>2, <1>12, CallFrame

(* A later control adds its verdict and leaves the evaluators' alone. *)
LEMMA VerdictAdded ==
  ASSUME CallInv, Static, NEW c \in Callers, call[c].pc \in Stage, NEW w \in Work,
         call' = [call EXCEPT ![c] = w], w.proposal = call[c].proposal,
         w.v.MANDATE_EVALUATION = call[c].v.MANDATE_EVALUATION,
         w.v.MERCHANT_POLICY = call[c].v.MERCHANT_POLICY
  PROVE  CallInv'
<1>1. call'[c] = w /\ w.pc \in Stage /\ "evaluate" \notin Stage
  BY DEF CallInv, Work, Stage
<1>2. CallOK(c)'
  BY <1>1 DEF CallInv, CallOK, Static, MandateGrants, PolicyGrants
<1> QED
  BY <1>2, CallFrame

LEMMA WorkChanged ==
  ASSUME NEW w \in Work, NEW s \in Stage, NEW a \in Answer
  PROVE  /\ [w EXCEPT !.pc = s, !.v["REPLAY_PROTECTION"] = a] \in Work
         /\ [w EXCEPT !.pc = s, !.v["NONCE_VALIDATION"] = a] \in Work
         /\ [w EXCEPT !.pc = s, !.stepUp = a] \in Work
  BY DEF Work, Verdicts

LEMMA LaterControls ==
  ASSUME CallInv, NEW c \in Callers,
         \/ CheckReplay(c)
         \/ \E n \in Txs \cup {None} : ConsumeNonce(c, n)
         \/ EvaluateStepUp(c)
  PROVE  CallInv'
<1> DEFINE w == call[c]
           replay(a) == [w EXCEPT !.pc = "nonce", !.v["REPLAY_PROTECTION"] = a]
           nonce(a) == [w EXCEPT !.pc = "stepup", !.v["NONCE_VALIDATION"] = a]
           asked(a) == [w EXCEPT !.pc = "execute", !.stepUp = a]
<1>1. call[c].pc \in Stage /\ Static
  BY DEF CheckReplay, ConsumeNonce, EvaluateStepUp, Stage, Static
<1>2. w \in Work /\ DOMAIN call = Callers
  BY <1>1 DEF CallInv, CallOK
<1>3. {"ALLOW", "REJECT", "STEP_UP_REQUIRED", None} \subseteq Answer
      /\ {"nonce", "stepup", "execute"} \subseteq Stage
  BY DEF Answer, Decision, Stage
<1>4. CASE CheckReplay(c)
  <2>1. \E a \in {"ALLOW", "REJECT"} :
          call' = [call EXCEPT ![c].pc = "nonce", ![c].v["REPLAY_PROTECTION"] = a]
    BY <1>4 DEF CheckReplay
  <2>2. PICK a \in {"ALLOW", "REJECT"} :
          call' = [call EXCEPT ![c].pc = "nonce", ![c].v["REPLAY_PROTECTION"] = a]
    BY <2>1
  <2>3. call' = [call EXCEPT ![c] = replay(a)]
    BY <1>2, <2>2
  <2>4. replay(a) \in Work
    BY <1>2, <1>3, WorkChanged
  <2>5. /\ replay(a).proposal = w.proposal
        /\ replay(a).v.MANDATE_EVALUATION = w.v.MANDATE_EVALUATION
        /\ replay(a).v.MERCHANT_POLICY = w.v.MERCHANT_POLICY
    BY <1>2 DEF Work, Verdicts
  <2> HIDE DEF replay
  <2> QED
    BY <1>1, <2>3, <2>4, <2>5, VerdictAdded
<1>5. CASE \E n \in Txs \cup {None} : ConsumeNonce(c, n)
  <2>1. \E a \in {"ALLOW", "REJECT"} :
          call' = [call EXCEPT ![c].pc = "stepup", ![c].v["NONCE_VALIDATION"] = a]
    BY <1>5 DEF ConsumeNonce
  <2>2. PICK a \in {"ALLOW", "REJECT"} :
          call' = [call EXCEPT ![c].pc = "stepup", ![c].v["NONCE_VALIDATION"] = a]
    BY <2>1
  <2>3. call' = [call EXCEPT ![c] = nonce(a)]
    BY <1>2, <2>2
  <2>4. nonce(a) \in Work
    BY <1>2, <1>3, WorkChanged
  <2>5. /\ nonce(a).proposal = w.proposal
        /\ nonce(a).v.MANDATE_EVALUATION = w.v.MANDATE_EVALUATION
        /\ nonce(a).v.MERCHANT_POLICY = w.v.MERCHANT_POLICY
    BY <1>2 DEF Work, Verdicts
  <2> HIDE DEF nonce
  <2> QED
    BY <1>1, <2>3, <2>4, <2>5, VerdictAdded
<1>6. CASE EvaluateStepUp(c)
  <2>1. \A u : StepUpDecision(c, u) \in {"ALLOW", "REJECT", "STEP_UP_REQUIRED"}
    BY DEF StepUpDecision, Verdict
  <2>2. \E a \in {"ALLOW", "REJECT", "STEP_UP_REQUIRED", None} :
          call' = [call EXCEPT ![c].pc = "execute", ![c].stepUp = a]
    BY <1>6, <2>1 DEF EvaluateStepUp
  <2>3. PICK a \in {"ALLOW", "REJECT", "STEP_UP_REQUIRED", None} :
          call' = [call EXCEPT ![c].pc = "execute", ![c].stepUp = a]
    BY <2>2
  <2>4. call' = [call EXCEPT ![c] = asked(a)]
    BY <1>2, <2>3
  <2>5. asked(a) \in Work
    BY <1>2, <1>3, WorkChanged
  <2>6. asked(a).proposal = w.proposal /\ asked(a).v = w.v
    BY <1>2 DEF Work
  <2> HIDE DEF asked
  <2> QED
    BY <1>1, <2>4, <2>5, <2>6, VerdictAdded
<1> QED
  BY <1>4, <1>5, <1>6
--------------------------------------------------------------------------------
(* The execution service *)

LEMMA HeldFrame ==
  ASSUME MemInv, Static, NEW t \in Txs,
         UNCHANGED <<transactions, results, dispatched, reported>>
  PROVE  HeldOK(t)'
  BY DEF MemInv, HeldOK, Static, InScope

(* A step on one transaction leaves the others *)
LEMMA OthersHeld ==
  ASSUME MemInv, Static, NEW t \in Txs,
         DOMAIN reported' = Txs, DOMAIN results' = Txs, DOMAIN transactions' = Txs,
         dispatched' \in [Txs -> Nat],
         \A u \in Txs : u # t =>
           /\ dispatched'[u] = dispatched[u] /\ reported'[u] = reported[u]
           /\ results'[u] = results[u] /\ transactions'[u] = transactions[u],
         HeldOK(t)'
  PROVE  MemInv'
<1>1. ASSUME NEW u \in Txs, u # t PROVE HeldOK(u)'
  BY <1>1 DEF MemInv, HeldOK, Static, InScope
<1> QED
  BY <1>1 DEF MemInv

(* What a report writes down *)
LEMMA ReportWrites ==
  ASSUME NEW t \in Txs, NEW o, DOMAIN reported = Txs, Report(t, o)
  PROVE  /\ DOMAIN reported' = Txs
         /\ \A u \in Txs : u # t => reported'[u] = reported[u]
         /\ reported'[t] = IF dispatched'[t] > 0 /\ reported[t] = None /\ o # "UNKNOWN"
                          THEN o ELSE reported[t]
  BY DEF Report

(* A status query settles a transaction as the first definite report does. *)
LEMMA ReconcileInv ==
  ASSUME MemInv, Static, NEW t \in Txs, ReconcileStatus(t)
  PROVE  MemInv' /\ dispatched' = dispatched
<1> DEFINE tx == transactions[t]
<1>1. CASE UNCHANGED memoryVars
  <2>1. UNCHANGED <<transactions, results, dispatched, reported>>
    BY <1>1 DEF memoryVars
  <2> QED
    BY <2>1, HeldFrame DEF MemInv
<1>2. ASSUME NEW o \in StatusAnswers, tx # NoTx, UNCHANGED dispatched, Report(t, o),
             IF o = "UNKNOWN"
             THEN results' = [results EXCEPT ![t] = o] /\ UNCHANGED transactions
             ELSE IF tx.state = "EXECUTING"
             THEN /\ transactions' = [transactions EXCEPT ![t].state = StateFor(o)]
                  /\ results' = [results EXCEPT ![t] = o]
             ELSE UNCHANGED <<transactions, results>>
      PROVE  MemInv'
  <2>1. /\ DOMAIN reported' = Txs
        /\ \A u \in Txs : u # t => reported'[u] = reported[u]
        /\ reported'[t] = IF dispatched[t] > 0 /\ reported[t] = None /\ o # "UNKNOWN"
                         THEN o ELSE reported[t]
    BY <1>2, ReportWrites DEF MemInv
  <2>2. HeldOK(t) /\ IsOrder(tx) /\ dispatched[t] \in Nat
    BY <1>2 DEF MemInv, HeldOK
  <2>3. CASE o = "UNKNOWN"
    <3>1. results'[t] = "UNKNOWN" /\ transactions' = transactions
      BY <1>2, <2>3 DEF MemInv
    <3>2. reported'[t] = reported[t]
      BY <2>1, <2>3
    <3>3. HeldOK(t)'
      BY <1>2, <2>2, <3>1, <3>2 DEF HeldOK, Settled, Static, InScope, None
    <3> QED
      BY <1>2, <2>1, <2>3, <3>1, <3>3, OthersHeld DEF MemInv
  <2>4. CASE o # "UNKNOWN" /\ tx.state # "EXECUTING"
    <3>1. UNCHANGED <<transactions, results>>
      BY <1>2, <2>4
    <3>2. reported'[t] = reported[t]
      BY <2>1, <2>2, <2>4 DEF HeldOK, Settled, None
    <3>3. HeldOK(t)'
      BY <1>2, <2>2, <3>1, <3>2 DEF HeldOK, Settled, Static, InScope, None
    <3> QED
      BY <1>2, <2>1, <3>1, <3>3, OthersHeld DEF MemInv
  <2>5. CASE o # "UNKNOWN" /\ tx.state = "EXECUTING"
    <3>1. PICK s : s = StateFor(o)
      OBVIOUS
    <3>2. o \in {"SUCCESS", "FAILED"}
      BY <1>2, <2>5 DEF StatusAnswers, ProviderResult
    <3>3. \/ o = "SUCCESS" /\ s = "COMMITTED"
          \/ o = "FAILED" /\ s = "ROLLED_BACK"
      BY <3>1, <3>2 DEF StateFor
    <3>4. PICK new : new = [tx EXCEPT !.state = s]
      OBVIOUS
    <3>5. /\ IsOrder(new) /\ new.state = s /\ new # NoTx /\ new.amount = tx.amount
          /\ new.buyer = tx.buyer /\ new.merchant = tx.merchant /\ new.hash = tx.hash
      BY <2>2, <3>4 DEF IsOrder, NoTx
    <3>6. /\ transactions' = [transactions EXCEPT ![t] = new]
          /\ results' = [results EXCEPT ![t] = o]
      BY <1>2, <2>5, <3>1, <3>4
    <3>7. transactions'[t] = new /\ results'[t] = o
      BY <3>6 DEF MemInv
    <3>8. dispatched[t] > 0 /\ reported[t] = None
      BY <2>2, <2>5 DEF HeldOK, Settled, None
    <3>9. reported'[t] = o
      BY <2>1, <2>5, <3>8
    <3>10. HeldOK(t)'
      BY <1>2, <2>2, <3>2, <3>3, <3>5, <3>7, <3>8, <3>9
      DEF HeldOK, Settled, Static, InScope, None
    <3> QED
      BY <1>2, <2>1, <3>6, <3>10, OthersHeld DEF MemInv
  <2> QED
    BY <2>3, <2>4, <2>5
<1>3. dispatched' = dispatched
  BY DEF ReconcileStatus, memoryVars
<1> QED
  BY <1>1, <1>2, <1>3 DEF ReconcileStatus

(* execute_payment on an order tx: a transaction without a result is       *)
(* refused or sent, and only one that every control allowed is sent.       *)
LEMMA PaymentInv ==
  ASSUME MemInv, Static, NEW t \in Txs, NEW tx, NEW asked, NEW decision, NEW v, NEW stepUp,
         IsOrder(tx), tx.state = "AUTHORIZED",
         v.MANDATE_EVALUATION = "ALLOW" /\ v.MERCHANT_POLICY = "ALLOW" => InScope(tx),
         ExecutePayment(t, tx, asked, decision, v, stepUp)
  PROVE  /\ MemInv'
         /\ \A u \in Txs : transactions[u] # NoTx => dispatched'[u] = dispatched[u]
<1>1. CASE results[t] = "UNKNOWN" /\ ReconcileStatus(t)
  BY <1>1, ReconcileInv
<1>2. CASE UNCHANGED memoryVars
  <2>1. UNCHANGED <<transactions, results, dispatched, reported>>
    BY <1>2 DEF memoryVars
  <2>2. \A u \in Txs : HeldOK(u)'
    BY <2>1, HeldFrame
  <2> QED
    BY <2>1, <2>2 DEF MemInv
<1>3. CASE results[t] = None /\ RejectExecution(t, tx)
  <2>1. dispatched[t] = 0 /\ UNCHANGED <<dispatched, reported>>
    BY <1>3 DEF MemInv, HeldOK, RejectExecution
  <2>2. IsOrder([tx EXCEPT !.state = "REJECTED"])
        /\ [tx EXCEPT !.state = "REJECTED"].state = "REJECTED"
    BY DEF IsOrder
  <2>3. \E o : /\ IsOrder(o) /\ o.state \in {"AUTHORIZED", "REJECTED"}
               /\ transactions' = [transactions EXCEPT ![t] = o]
    BY <1>3, <2>2 DEF RejectExecution
  <2>4. PICK o : /\ IsOrder(o) /\ o.state \in {"AUTHORIZED", "REJECTED"}
                 /\ transactions' = [transactions EXCEPT ![t] = o]
    BY <2>3
  <2>5. results' = [results EXCEPT ![t] = "REJECTED"]
    BY <1>3 DEF RejectExecution
  <2>6. transactions'[t] = o /\ results'[t] = "REJECTED"
    BY <2>4, <2>5 DEF MemInv
  <2>7. HeldOK(t)'
    BY <1>3, <2>1, <2>4, <2>6 DEF HeldOK, Settled, MemInv, None
  <2>8. MemInv'
    BY <2>1, <2>4, <2>5, <2>7, OthersHeld DEF MemInv
  <2> QED
    BY <2>1, <2>8
<1>4. ASSUME NEW o \in AdapterAnswers, results[t] = None, CallProvider(t, o),
             PreExecutionAuth(decision, v, stepUp),
             transactions' = [transactions EXCEPT ![t] = [tx EXCEPT !.state = StateFor(o)]],
             results' = [results EXCEPT ![t] = o]
      PROVE  /\ MemInv'
             /\ \A u \in Txs : transactions[u] # NoTx => dispatched'[u] = dispatched[u]
  <2>1. PICK s : s = StateFor(o)
    OBVIOUS
  <2>2. \/ o = "SUCCESS" /\ s = "COMMITTED"
        \/ o = "FAILED" /\ s = "ROLLED_BACK"
        \/ o = "UNKNOWN" /\ s = "EXECUTING"
    BY <1>4, <2>1 DEF StateFor, AdapterAnswers, ProviderResult
  <2>3. InScope(tx)
    BY <1>4 DEF PreExecutionAuth, Controls
  <2>4. PICK paid : paid = [tx EXCEPT !.state = s]
    OBVIOUS
  <2>5. /\ IsOrder(paid) /\ paid.state = s /\ paid # NoTx /\ paid.amount = tx.amount
        /\ paid.buyer = tx.buyer /\ paid.merchant = tx.merchant /\ paid.hash = tx.hash
    BY <2>4 DEF IsOrder, NoTx
  <2>6. InScope(paid)
    BY <2>3, <2>5 DEF InScope
  <2>7. transactions' = [transactions EXCEPT ![t] = paid]
    BY <1>4, <2>1, <2>4
  <2>8. dispatched' = [dispatched EXCEPT ![t] = dispatched[t] + 1]
    BY <1>4 DEF CallProvider
  <2>9. /\ dispatched'[t] = dispatched[t] + 1 /\ dispatched[t] = 0 /\ dispatched'[t] > 0
        /\ reported[t] = None
    BY <1>4, <2>8 DEF MemInv, HeldOK, Settled
  <2>10. Report(t, o)
    BY <1>4 DEF CallProvider
  <2>11. /\ DOMAIN reported' = Txs
         /\ \A u \in Txs : u # t => reported'[u] = reported[u]
         /\ reported'[t] = IF o # "UNKNOWN" THEN o ELSE None
    BY <2>9, <2>10, ReportWrites DEF MemInv
  <2>12. o # None /\ results'[t] = o /\ transactions'[t] = paid
    BY <1>4, <2>2, <2>7 DEF None, MemInv
  <2>13. InScope(paid)'
    BY <2>6 DEF InScope, Static
  <2>14. HeldOK(t)'
    BY <2>2, <2>5, <2>9, <2>12, <2>13, <2>11 DEF HeldOK, Settled, None
  <2>15. /\ dispatched' \in [Txs -> Nat]
         /\ \A u \in Txs : u # t => dispatched'[u] = dispatched[u]
    BY <2>8 DEF MemInv
  <2>16. MemInv'
    BY <1>4, <2>7, <2>14, <2>15, <2>11, OthersHeld DEF MemInv
  <2>17. transactions[t] = NoTx
    BY <1>4 DEF MemInv, HeldOK
  <2> QED
    BY <2>15, <2>16, <2>17
<1> QED
  BY <1>1, <1>2, <1>3, <1>4 DEF ExecutePayment

(* A caller executes what its controls decided. *)
LEMMA ExecuteInv ==
  ASSUME IInv, NEW c \in Callers, Execute(c)
  PROVE  /\ IInv'
         /\ \A u \in Txs : transactions[u] # NoTx => dispatched'[u] = dispatched[u]
<1>1. PICK t, p, v, tx, asked, decision :
        /\ t = call[c].tx /\ p = call[c].proposal /\ v = call[c].v /\ tx = TxFor(c)
        /\ asked = AskedFor(c) /\ decision = Aggregate(call[c].v, call[c].stepUp, FALSE)
  OBVIOUS
<1>2. /\ call[c].pc = "execute" /\ UNCHANGED <<now, mandate, policy>> /\ Static
      /\ ExecutePayment(t, tx, asked, decision, v, call[c].stepUp)
      /\ \E b : call' = [call EXCEPT ![c] = [pc |-> "done", tx |-> t, v |-> v, sent |-> b]]
  BY <1>1 DEF Execute, Static
<1>3. /\ t \in Txs /\ p \in Proposals
      /\ v.MANDATE_EVALUATION = "ALLOW" => MandateGrants(p)
      /\ v.MERCHANT_POLICY = "ALLOW" => PolicyGrants(p)
  BY <1>1, <1>2 DEF IInv, CallInv, CallOK, Work, Stage
<1>4. /\ IsOrder(tx) /\ tx.state = "AUTHORIZED" /\ tx.amount = ComputedTotal(p)
      /\ tx.merchant = p.merchant /\ tx.buyer = p.buyer /\ tx.hash = NormalizedCart(p).hash
  <2>1. PICK cart : cart = Approved(c)
    OBVIOUS
  <2>2. cart.merchant = p.merchant /\ cart.total = ComputedTotal(p) /\ cart = NormalizedCart(p)
    BY <1>1, <2>1, CartFields DEF Approved
  <2>3. tx = [state |-> "AUTHORIZED", merchant |-> cart.merchant, buyer |-> p.buyer,
              mandate |-> cart.mandate, amount |-> cart.total, currency |-> cart.currency,
              hash |-> cart.hash]
    BY <1>1, <2>1 DEF TxFor
  <2> QED
    BY <2>2, <2>3 DEF IsOrder
<1>5. v.MANDATE_EVALUATION = "ALLOW" /\ v.MERCHANT_POLICY = "ALLOW" => InScope(tx)
  <2>1. PICK h : h = NormalizedCart(p).hash
    OBVIOUS
  <2>2. /\ ComputedTotal(p) = Subtotal(h.items) + h.tax + h.shipping
        /\ HashCategories(h) \subseteq Categories(NormalizedCart(p))
    BY <1>3, <2>1, CartHashFields
  <2> QED
    BY <1>3, <1>4, <2>1, <2>2 DEF MandateGrants, PolicyGrants, InScope
<1>6. ScopeInv' /\ CallInv'
  <2>1. PICK b : call' = [call EXCEPT ![c] = [pc |-> "done", tx |-> t, v |-> v, sent |-> b]]
    BY <1>2
  <2>2. PICK w : w = [pc |-> "done", tx |-> t, v |-> v, sent |-> b]
    OBVIOUS
  <2>3. w.pc = "done" /\ call' = [call EXCEPT ![c] = w]
    BY <2>1, <2>2
  <2>4. CallOK(c)'
    BY <2>3 DEF CallOK, Stage, IInv, CallInv
  <2> QED
    BY <1>2, <2>3, <2>4, CallFrame DEF IInv, ScopeInv
<1>7. /\ MemInv'
      /\ \A u \in Txs : transactions[u] # NoTx => dispatched'[u] = dispatched[u]
  BY <1>2, <1>3, <1>4, <1>5, PaymentInv DEF IInv
<1> QED
  BY <1>6, <1>7 DEF IInv

--------------------------------------------------------------------------------
(* Every step *)

(* What a step does to the order book: at most it sends a new transaction. *)
Answered == \A u \in Txs : transactions[u] # NoTx => dispatched'[u] = dispatched[u]

LEMMA MemFrame ==
  ASSUME MemInv, Static, UNCHANGED memoryVars
  PROVE  MemInv' /\ Answered
<1>1. UNCHANGED <<transactions, results, dispatched, reported>>
  BY DEF memoryVars
<1>2. \A u \in Txs : HeldOK(u)'
  BY <1>1, HeldFrame
<1> QED
  BY <1>1, <1>2 DEF MemInv, Answered

LEMMA CallsFrame ==
  ASSUME CallInv, Static, UNCHANGED call
  PROVE  CallInv'
  BY DEF CallInv, CallOK, MandateGrants, PolicyGrants, Static

LEMMA CallerInv ==
  ASSUME IInv, NEW c \in Callers, CallerStep(c)
  PROVE  IInv' /\ Answered
<1>1. CASE Execute(c)
  BY <1>1, ExecuteInv DEF Answered
<1>2. ASSUME NEW t \in Txs, NEW p \in Proposals, NEW q \in Proposals, Propose(c, t, p, q)
      PROVE  IInv' /\ Answered
  <2>1. UNCHANGED <<memoryVars, now, mandate, policy>>
    BY <1>2 DEF Propose
  <2>2. Static /\ ScopeInv'
    BY <2>1 DEF Static, IInv, ScopeInv
  <2> QED
    BY <1>2, <2>1, <2>2, ProposeInv, MemFrame DEF IInv
<1>3. CASE Evaluate(c)
  <2>1. UNCHANGED <<memoryVars, now, mandate, policy>>
    BY <1>3 DEF Evaluate
  <2>2. Static /\ ScopeInv'
    BY <2>1 DEF Static, IInv, ScopeInv
  <2> QED
    BY <1>3, <2>1, <2>2, EvaluateInv, MemFrame DEF IInv
<1>4. CASE \/ CheckReplay(c)
           \/ \E n \in Txs \cup {None} : ConsumeNonce(c, n)
           \/ EvaluateStepUp(c)
  <2>1. UNCHANGED <<memoryVars, now, mandate, policy>>
    BY <1>4 DEF CheckReplay, ConsumeNonce, EvaluateStepUp
  <2>2. Static /\ ScopeInv'
    BY <2>1 DEF Static, IInv, ScopeInv
  <2>3. CallInv'
    BY <1>4, LaterControls DEF IInv
  <2> QED
    BY <2>1, <2>2, <2>3, MemFrame DEF IInv
<1> QED
  BY <1>1, <1>2, <1>3, <1>4 DEF CallerStep

LEMMA NextInv ==
  ASSUME IInv, [Next]_pvars
  PROVE  IInv' /\ Answered
<1>1. ASSUME NEW c \in Callers, CallerStep(c) PROVE IInv' /\ Answered
  BY <1>1, CallerInv
<1>2. ASSUME NEW t \in Txs, NEW p \in Proposals, CreateChallenge(t, p) \/ ConfirmChallenge(t, p)
      PROVE  IInv' /\ Answered
  <2>1. UNCHANGED <<memoryVars, now, mandate, policy, call>>
    BY <1>2 DEF CreateChallenge, ConfirmChallenge
  <2>2. Static /\ ScopeInv'
    BY <2>1 DEF Static, IInv, ScopeInv
  <2> QED
    BY <2>1, <2>2, MemFrame, CallsFrame DEF IInv
<1>3. ASSUME NEW s \in MandateStatus, TransitionMandate(s) PROVE IInv' /\ Answered
  <2>1. /\ UNCHANGED <<memoryVars, now, policy, call>>
        /\ mandate' = [mandate EXCEPT !.status = s]
    BY <1>3 DEF TransitionMandate
  <2>2. /\ DOMAIN mandate' = DOMAIN mandate /\ mandate'.issued = mandate.issued
        /\ mandate'.buyer = mandate.buyer /\ mandate'.merchants = mandate.merchants
        /\ mandate'.cats = mandate.cats /\ mandate'.cap = mandate.cap
    BY <2>1 DEF IInv, ScopeInv
  <2>3. Static /\ ScopeInv'
    BY <2>1, <2>2 DEF Static, IInv, ScopeInv
  <2> QED
    BY <2>1, <2>3, MemFrame, CallsFrame DEF IInv
<1>4. ASSUME NEW t \in Txs, Reconcile(t) PROVE IInv' /\ Answered
  <2>1. ReconcileStatus(t) /\ UNCHANGED <<now, mandate, policy, call>>
    BY <1>4 DEF Reconcile, pipeVars
  <2>2. Static /\ ScopeInv'
    BY <2>1 DEF Static, IInv, ScopeInv
  <2> QED
    BY <2>1, <2>2, ReconcileInv, CallsFrame DEF IInv, Answered
<1>5. CASE Tick
  <2>1. UNCHANGED <<memoryVars, mandate, policy, call>> /\ now' = now + 1
    BY <1>5 DEF Tick
  <2>2. Static /\ ScopeInv'
    BY <2>1 DEF Static, IInv, ScopeInv
  <2> QED
    BY <2>1, <2>2, MemFrame, CallsFrame DEF IInv
<1>6. CASE UNCHANGED pvars
  <2>1. UNCHANGED <<memoryVars, now, mandate, policy, call>>
    BY <1>6 DEF pvars, pipeVars
  <2>2. Static /\ ScopeInv'
    BY <2>1 DEF Static, IInv, ScopeInv
  <2> QED
    BY <2>1, <2>2, MemFrame, CallsFrame DEF IInv
<1> QED
  BY <1>1, <1>2, <1>3, <1>4, <1>5, <1>6 DEF Next

--------------------------------------------------------------------------------
(* The inductive invariant holds in every state. *)
THEOREM Invariance == Spec => []IInv
<1>1. IInv /\ [Next]_pvars => IInv'
  BY NextInv
<1> QED
  BY InitInv, <1>1, PTL DEF Spec

(* The dictionaries of PaymentExecutionService are what the first definite *)
(* report of the adapter made of a payment, whichever answers were lost    *)
(* and however often execute_payment and reconcile_payment_status are      *)
(* called; a later contradicting report changes nothing.                   *)
THEOREM MemoryIsTruthful == Spec => []MemoryTruthful
<1>1. IInv => MemoryTruthful
  <2> SUFFICES ASSUME IInv, NEW t \in Txs
               PROVE  /\ transactions[t].state = "COMMITTED" <=> reported[t] = "SUCCESS"
                      /\ transactions[t].state = "ROLLED_BACK" <=> reported[t] = "FAILED"
                      /\ results[t] \in {"SUCCESS", "FAILED"} => results[t] = reported[t]
    BY DEF MemoryTruthful
  <2>1. /\ Settled(dispatched[t], transactions[t].state, reported[t], results[t])
        /\ dispatched[t] \in Nat
    BY DEF IInv, MemInv, HeldOK
  <2>2. dispatched[t] = 0 \/ dispatched[t] > 0
    BY <2>1
  <2> QED
    BY <2>1, <2>2 DEF Settled, None
<1> QED
  BY Invariance, <1>1, PTL

(* PolicyEngine never allows what MandateEvaluator or MerchantPolicyEngine *)
(* refuses, for any mandate, policy and proposal.                          *)
THEOREM EnginesAlwaysAgree == Spec => []EnginesAgree
<1>1. IInv => EnginesAgree
  BY EnginesAgreeNow
<1> QED
  BY Invariance, <1>1, PTL

(* No caller reaches the provider with an amount above the mandate's cap   *)
(* or the merchant's limit, or for another buyer or merchant, however long *)
(* ago its verdicts were given.                                            *)
THEOREM PaymentsWithinCaps == Spec => []WithinCaps
<1>1. IInv => WithinCaps
  BY DEF IInv, MemInv, HeldOK, InScope, WithinCaps
<1> QED
  BY Invariance, <1>1, PTL

(* What reaches the provider was allowed by the buyer and by the merchant: *)
(* beside the caps, the amount is the sum of the items that                *)
(* compute_cart_hash sorts, and their categories are in both scopes.       *)
THEOREM PaymentsWithinMandate == Spec => []WithinMandate
<1>1. IInv => WithinMandate
  <2> SUFFICES ASSUME IInv PROVE WithinMandate
    OBVIOUS
  <2>1. WithinCaps
    BY DEF IInv, MemInv, HeldOK, InScope, WithinCaps
  <2>2. \A t \in Txs : dispatched[t] > 0 => InScope(transactions[t])
    BY DEF IInv, MemInv, HeldOK
  <2> QED
    BY <2>1, <2>2 DEF WithinMandate, InScope, HashCategories
<1> QED
  BY Invariance, <1>1, PTL

(* A transaction that execute_payment has answered is not sent again.      *)
THEOREM AnswersAreFinal == Spec => AnsweredIsFinal
<1>1. IInv /\ [Next]_pvars =>
        [\A t \in Txs : transactions[t] # NoTx => dispatched'[t] = dispatched[t]]_pvars
  BY NextInv DEF Answered
<1> QED
  BY Invariance, <1>1, PTL DEF Spec, AnsweredIsFinal
================================================================================
