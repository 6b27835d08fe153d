-------------------------- MODULE CommerceOrchestrator --------------------------
(***************************************************************************)
(* agent/orchestrator/engine.py: execute_intent, which takes a buyer's     *)
(* sentence to a payment, with the dictionaries it decides on: the         *)
(* mandates, merchant policies and products that the endpoints of          *)
(* apps/api/routers keep in the memory of the process.  Endpoints run in   *)
(* threads and nothing here holds a lock across two of its steps.          *)
(*                                                                         *)
(* The mandate endpoints write the dictionary first and the table          *)
(* buyer_mandates after it; the orchestrator reads only the dictionary.    *)
(* A restart empties the dictionaries, except for the seeded mandates,     *)
(* which are ACTIVE again whatever the table says.                         *)
(***************************************************************************)
EXTENDS InMemoryExecution

CONSTANTS
  Clients,       \* threads that call execute_intent
  Admins,        \* threads that call the mandate endpoints
  Keys,          \* idempotency keys
  Seeded,        \* mandates the module starts with
  SeededRows,    \* those of them that a database, if there is one, has too
  Created,       \* ids create_mandate may generate
  Merchants,     \* ids create_merchant may generate
  Prices,        \* of a merchant's first product
  DefaultPrice, DefaultLimit,
  Limits,        \* autonomous limits a merchant may set
  MaxRestarts

ASSUME OrchestratorAssumption ==
  /\ Txs \subseteq Nat /\ MaxRestarts \in Nat
  /\ Prices \cup Limits \cup {DefaultPrice, DefaultLimit} \subseteq Nat
  /\ Seeded \cap Created = {} /\ SeededRows \subseteq Seeded

VARIABLES
  persistent,   \* whether a database is configured
  mandates,     \* _MANDATES: the status of each mandate
  mandateRows,  \* the table: the status of each mandate
  policies,     \* _MERCHANT_POLICIES
  products,     \* _PRODUCTS: the price of the first product of a merchant
  executed,     \* _executed_intents
  call,         \* per client, where it is and what it has found
  admin,        \* per admin, the row its request has still to write
  restarts,
  revokedIn,    \* history: the process life in which a revocation was answered 200
  origin        \* history: per transaction, the call that made it

orchestratorVars == <<persistent, mandates, mandateRows, policies, products, executed,
                      call, admin, restarts, revokedIn, origin>>
ovars == <<memoryVars, orchestratorVars>>

MandateIds == Seeded \cup Created
NoPolicy == [enabled |-> FALSE, limit |-> 0, known |-> FALSE]
NoPrice == -1
NoResult == [tx |-> 0]
Resting == [pc |-> "idle"]
NoOrigin == [key |-> None]
NeverRevoked == -1

SeedMandates == [m \in MandateIds |-> IF m \in Seeded THEN "ACTIVE" ELSE None]

(* async_create_mandate takes any id, so the table may know a seeded one.  *)
OrchestratorInit ==
  /\ MemoryInit
  /\ persistent \in BOOLEAN
  /\ mandates = SeedMandates
  /\ mandateRows = [m \in MandateIds |-> IF persistent /\ m \in SeededRows THEN "ACTIVE" ELSE None]
  /\ policies = [x \in Merchants |-> NoPolicy]
  /\ products = [x \in Merchants |-> NoPrice]
  /\ executed = [k \in Keys |-> NoResult]
  /\ call = [c \in Clients |-> Resting]
  /\ admin = [a \in Admins |-> Resting]
  /\ restarts = 0 /\ revokedIn = [m \in MandateIds |-> NeverRevoked]
  /\ origin = [t \in Txs |-> NoOrigin]

---------------------------------------------------------------------------------
(* Merchants, products and mandates *)

CreateMerchant(x) ==
  /\ policies[x] = NoPolicy
  /\ policies' = [policies EXCEPT ![x] =
       [enabled |-> TRUE, limit |-> DefaultLimit, known |-> TRUE]]
  /\ UNCHANGED <<memoryVars, persistent, mandates, mandateRows, products, executed,
                 call, admin, restarts, revokedIn, origin>>

(* update_merchant_policy: a known merchant's policy is replaced. *)
UpdatePolicy(x, on, limit) ==
  /\ policies[x].known
  /\ policies' = [policies EXCEPT ![x] = [enabled |-> on, limit |-> limit, known |-> TRUE]]
  /\ UNCHANGED <<memoryVars, persistent, mandates, mandateRows, products, executed,
                 call, admin, restarts, revokedIn, origin>>

(* create_product: the orchestrator takes the first product of a merchant, *)
(* so later ones change nothing.                                           *)
CreateProduct(x, price) ==
  /\ products[x] = NoPrice
  /\ products' = [products EXCEPT ![x] = price]
  /\ UNCHANGED <<memoryVars, persistent, mandates, mandateRows, policies, executed,
                 call, admin, restarts, revokedIn, origin>>

CreateMandate(a, m) ==
  /\ admin[a] = Resting
  /\ m \in Created /\ mandates[m] = None /\ mandateRows[m] = None
  /\ \A b \in Admins : admin[b] # Resting => admin[b].mandate # m
  /\ mandates' = [mandates EXCEPT ![m] = "ACTIVE"]
  /\ admin' = IF persistent THEN [admin EXCEPT ![a] = [pc |-> "create", mandate |-> m]] ELSE admin
  /\ UNCHANGED <<memoryVars, persistent, mandateRows, policies, products, executed,
                 call, restarts, revokedIn, origin>>

(* _persist_mandate: the row, or a failure that is answered with 500 *)
PersistMandate(a) ==
  /\ admin[a] # Resting /\ admin[a].pc = "create"
  /\ \/ mandateRows' = [mandateRows EXCEPT ![admin[a].mandate] = "ACTIVE"]
     \/ UNCHANGED mandateRows
  /\ admin' = [admin EXCEPT ![a] = Resting]
  /\ UNCHANGED <<memoryVars, persistent, mandates, policies, products, executed,
                 call, restarts, revokedIn, origin>>

(* Fault: with a database, only the row is updated. *)
RevokeMandate_RowOnly(a, m) ==
  /\ admin[a] = Resting
  /\ mandates[m] # None
  /\ IF persistent
     THEN /\ admin' = [admin EXCEPT ![a] = [pc |-> "revoke", mandate |-> m]]
          /\ UNCHANGED <<mandates, revokedIn>>
     ELSE /\ mandates' = [mandates EXCEPT ![m] = "REVOKED"]
          /\ revokedIn' = [revokedIn EXCEPT ![m] = restarts] /\ UNCHANGED admin
  /\ UNCHANGED <<memoryVars, persistent, mandateRows, policies, products, executed,
                 call, restarts, origin>>

(* revoke_mandate: an unknown mandate is a 404.  Whatever its status was,  *)
(* the dictionary says REVOKED before the row is touched.                  *)
RevokeMandate(a, m) ==
  /\ admin[a] = Resting
  /\ mandates[m] # None
  /\ mandates' = [mandates EXCEPT ![m] = "REVOKED"]
  /\ IF persistent
     THEN admin' = [admin EXCEPT ![a] = [pc |-> "revoke", mandate |-> m]] /\ UNCHANGED revokedIn
     ELSE revokedIn' = [revokedIn EXCEPT ![m] = restarts] /\ UNCHANGED admin
  /\ UNCHANGED <<memoryVars, persistent, mandateRows, policies, products, executed,
                 call, restarts, origin>>

(* _revoke_db: a missing row, an illegal transition and a lost connection  *)
(* raise, and the request is answered with 500.                            *)
PersistRevocation(a) ==
  LET m == admin[a].mandate IN
  /\ admin[a] # Resting /\ admin[a].pc = "revoke"
  /\ \/ /\ <<mandateRows[m], "REVOKED">> \in MandateTransitions
        /\ mandateRows' = [mandateRows EXCEPT ![m] = "REVOKED"]
        /\ revokedIn' = [revokedIn EXCEPT ![m] = restarts]
     \/ UNCHANGED <<mandateRows, revokedIn>>
  /\ admin' = [admin EXCEPT ![a] = Resting]
  /\ UNCHANGED <<memoryVars, persistent, mandates, policies, products, executed,
                 call, restarts, origin>>

(* What get_mandate may answer: the row when there is one; the dictionary  *)
(* when there is none or when the database raises, which is swallowed; and *)
(* None, a 404, for a mandate the dictionary does not have.                *)
GetMandate(m) ==
  {mandates[m]} \cup (IF persistent /\ mandateRows[m] # None THEN {mandateRows[m]} ELSE {})

(* History: revoke_mandate has answered 200 for the mandate, in this life  *)
(* of the process or, with a database and unless it is seeded, in any      *)
RevocationStands(m) ==
  \/ revokedIn[m] = restarts
  \/ persistent /\ m \in Created /\ revokedIn[m] # NeverRevoked

---------------------------------------------------------------------------------
(* execute_intent *)

(* A key that is in the cache is answered from it and nothing happens; any *)
(* other call gets a transaction id of its own.                            *)
BeginIntent(c, k, m, x) ==
  /\ call[c] = Resting
  /\ executed[k] = NoResult
  /\ \E t \in Txs :
       /\ origin[t] = NoOrigin /\ \A u \in Txs : u < t => origin[u] # NoOrigin
       /\ call' = [call EXCEPT ![c] = [pc |-> "evaluate", tx |-> t, mandate |-> m, merchant |-> x]]
       /\ origin' = [origin EXCEPT ![t] =
            [key |-> k, barred |-> RevocationStands(m), done |-> FALSE, life |-> restarts,
             after |-> {u \in Txs : origin[u] # NoOrigin /\ origin[u].done}]]
  /\ UNCHANGED <<memoryVars, persistent, mandates, mandateRows, policies, products,
                 executed, admin, restarts, revokedIn>>

(* One unit of the merchant's first product; a merchant without products   *)
(* gets an item of the default price.                                      *)
CartOf(c) ==
  LET x == call[c].merchant
      price == IF products[x] = NoPrice THEN DefaultPrice ELSE products[x]
  IN  WithHash([merchant |-> x, mandate |-> call[c].mandate, currency |-> "INR",
        items |-> <<[product |-> 1, merchant |-> x, cat |-> "electronics", qty |-> 1,
                     price |-> price, currency |-> "INR"]>>,
        tax |-> 0, shipping |-> 0, total |-> price, hash |-> NoHash])

(* The six outcomes: the cart against its own hash, the policy, the status *)
(* of the mandate, and three that are always granted                       *)
Outcomes(c) ==
  LET refuses(ctl) ==
        \/ ctl = "CART_INTEGRITY" /\ CartFailure(CartOf(c), CartOf(c)) # "OK"
        \/ ctl = "MERCHANT_POLICY" /\ ~policies[call[c].merchant].enabled
        \/ ctl = "MANDATE_EVALUATION" /\ mandates[call[c].mandate] # "ACTIVE"
  IN  [ctl \in Controls |-> IF refuses(ctl) THEN "REJECT" ELSE "ALLOW"]

(* autonomous_limit, with its StepUpDiff *)
LimitOutcome(c) ==
  LET p == policies[call[c].merchant]
      limit == IF p.known THEN p.limit ELSE DefaultLimit
  IN  IF CartOf(c).total > limit THEN "STEP_UP_REQUIRED" ELSE "ALLOW"

(* transaction_state of a call that was not allowed *)
RefusedState(decision) ==
  IF decision = "STEP_UP_REQUIRED" THEN "STEP_UP_REQUIRED" ELSE "REJECTED"

(* generate_trace: what the report says of the payment.  A reconciled or   *)
(* unknown outcome counts as failed.                                       *)
TraceStatus(decision, result) ==
  IF result = "SUCCESS" THEN "EXECUTED"
  ELSE IF result # None THEN "FAILED"
  ELSE IF decision = "ALLOW" THEN "PENDING" ELSE "NOT ATTEMPTED"

(* The EndToEndExecutionResult; an allowed call gets a receipt however the *)
(* payment went.                                                           *)
ResultOf(t, decision, state, result) ==
  [tx |-> t, state |-> state, receipt |-> decision = "ALLOW",
   trace |-> TraceStatus(decision, result)]

Evaluate(c) ==
  LET decision == Aggregate(Outcomes(c), LimitOutcome(c), TRUE)
      cart == CartOf(c)
      t == call[c].tx
  IN
  /\ call[c].pc = "evaluate"
  /\ call' = [call EXCEPT ![c] =
       IF decision = "ALLOW"
       THEN [pc |-> "execute", tx |-> t, v |-> Outcomes(c),
             order |-> [state |-> "AUTHORIZED", merchant |-> cart.merchant, buyer |-> "buyer",
                        mandate |-> cart.mandate, amount |-> cart.total,
                        currency |-> cart.currency, hash |-> cart.hash]]
       ELSE [pc |-> "finish", result |-> ResultOf(t, decision, RefusedState(decision), None)]]
  /\ UNCHANGED <<memoryVars, persistent, mandates, mandateRows, policies, products,
                 executed, admin, restarts, revokedIn, origin>>

(* Fault: any answer of the execution service counts as success. *)
ExecutedState_AnyAnswer(result) == "COMMITTED"

(* COMMITTED if exec_resp.success else FAILURE *)
ExecutedState(result) == IF result = "SUCCESS" THEN "COMMITTED" ELSE "FAILURE"

(* execute_payment with a proposal that repeats the transaction *)
ExecuteIntent(c) ==
  LET t == call[c].tx  order == call[c].order
      asked == [merchant |-> order.merchant, buyer |-> order.buyer, mandate |-> order.mandate,
                amount |-> order.amount, currency |-> order.currency, hash |-> order.hash,
                op |-> "create_order"]
  IN
  /\ call[c].pc = "execute"
  /\ ExecutePayment(t, order, asked, "ALLOW", call[c].v, None)
  /\ call' = [call EXCEPT ![c] =
       [pc |-> "finish", result |-> ResultOf(t, "ALLOW", ExecutedState(results'[t]), results'[t])]]
  /\ UNCHANGED <<persistent, mandates, mandateRows, policies, products, executed,
                 admin, restarts, revokedIn, origin>>

(* Fault: only a success is remembered. *)
Remember_SuccessOnly(k, result) ==
  IF result.state = "COMMITTED" THEN [executed EXCEPT ![k] = result] ELSE executed

(* _executed_intents[key] = res, whatever is there by now *)
Remember(k, result) == [executed EXCEPT ![k] = result]

FinishIntent(c) ==
  LET result == call[c].result IN
  /\ call[c].pc = "finish"
  /\ executed' = Remember(origin[result.tx].key, result)
  /\ call' = [call EXCEPT ![c] = Resting]
  /\ origin' = [origin EXCEPT ![result.tx].done = TRUE]
  /\ UNCHANGED <<memoryVars, persistent, mandates, mandateRows, policies, products,
                 admin, restarts, revokedIn>>

(* The process stops and starts again: nothing of its dictionaries is left *)
Restart ==
  /\ restarts < MaxRestarts
  /\ restarts' = restarts + 1
  /\ transactions' = [t \in Txs |-> NoTx] /\ results' = [t \in Txs |-> None]
  /\ mandates' = SeedMandates
  /\ policies' = [x \in Merchants |-> NoPolicy]
  /\ products' = [x \in Merchants |-> NoPrice]
  /\ executed' = [k \in Keys |-> NoResult]
  /\ call' = [c \in Clients |-> Resting]
  /\ admin' = [a \in Admins |-> Resting]
  /\ UNCHANGED <<persistent, mandateRows, dispatched, reported, revokedIn, origin>>

OrchestratorNext ==
  \/ \E x \in Merchants :
       \/ CreateMerchant(x)
       \/ \E on \in BOOLEAN, limit \in Limits : UpdatePolicy(x, on, limit)
       \/ \E price \in Prices : CreateProduct(x, price)
  \/ \E a \in Admins :
       \/ \E m \in MandateIds : CreateMandate(a, m) \/ RevokeMandate(a, m)
       \/ PersistMandate(a) \/ PersistRevocation(a)
  \/ \E c \in Clients :
       \/ \E k \in Keys, m \in MandateIds, x \in Merchants : BeginIntent(c, k, m, x)
       \/ Evaluate(c) \/ ExecuteIntent(c) \/ FinishIntent(c)
  \/ Restart

---------------------------------------------------------------------------------
(* Within one life of the process, two intents with one key are charged    *)
(* twice only when they overlap: a call that begins after another one with *)
(* its key was answered, whatever the answer was, reaches the provider no  *)
(* second time.  A restart forgets the answers, and the key may then be    *)
(* charged again.                                                          *)
ReplayIsSafeUntilRestart ==
  \A t \in Txs : origin[t] # NoOrigin =>
    \A u \in origin[t].after :
      origin[u].key = origin[t].key /\ origin[u].life = origin[t].life =>
        dispatched[u] = 0 \/ dispatched[t] = 0

(* Once revoke_mandate has answered 200, get_mandate shows the mandate as  *)
(* revoked until the process ends, also when the database fails, and no    *)
(* intent that begins later is charged to it.  With a database and unless  *)
(* the mandate is seeded this holds in later lives as well, although the   *)
(* orchestrator reads only the dictionary and creating a mandate writes    *)
(* its row after the dictionary; get_mandate may then answer 404, when the *)
(* database does not answer, but never that the mandate is active.         *)
RevocationSticks ==
  /\ \A m \in MandateIds : revokedIn[m] = restarts => GetMandate(m) = {"REVOKED"}
  /\ \A m \in Created :
       persistent /\ revokedIn[m] # NeverRevoked => GetMandate(m) \subseteq {"REVOKED", None}
  /\ \A t \in Txs : origin[t] # NoOrigin /\ origin[t].barred => dispatched[t] = 0

(* The answers: of calls that are about to return, and of the cache *)
Answers == {call[c].result : c \in {d \in Clients : call[d].pc = "finish"}}
             \cup {executed[k] : k \in {j \in Keys : executed[j] # NoResult}}

(* What a caller is told is what the adapter reported: the answer is       *)
(* COMMITTED and its trace EXECUTED exactly when the adapter reported      *)
(* SUCCESS of the call's transaction, and a refusal or a step-up stands    *)
(* for a transaction that never reached the provider, also when the answer *)
(* comes from the cache.  The receipt says less: any allowed call has one. *)
ReportTruthful ==
  \A r \in Answers :
    /\ r.state = "COMMITTED" <=> reported[r.tx] = "SUCCESS"
    /\ r.trace = "EXECUTED" <=> reported[r.tx] = "SUCCESS"
    /\ r.state \in {"REJECTED", "STEP_UP_REQUIRED"} => dispatched[r.tx] = 0 /\ ~r.receipt
    /\ r.trace = "NOT ATTEMPTED" => dispatched[r.tx] = 0
=================================================================================
