--------------------------- MODULE InMemoryExecution ---------------------------
(***************************************************************************)
(* PaymentExecutionService.execute_payment and reconcile_payment_status    *)
(* (apps/api/domain/execution_engine.py): the execution path that keeps    *)
(* its transactions and results in dictionaries under one RLock, so that   *)
(* each call is one step.  The transaction a caller passes was built from  *)
(* the cart it had authorized; the proposal it passes is the agent's.      *)
(*                                                                         *)
(* The service knows the provider only by what the adapter reports, and a  *)
(* report of SUCCESS is an order accepted, a status guessed or a default,  *)
(* not a capture.                                                          *)
(***************************************************************************)
EXTENDS SecurityControls, TransactionStates

CONSTANTS Txs            \* transaction ids

VARIABLES
  transactions,  \* _transactions
  results,       \* _results
  dispatched,    \* how often the adapter was called for a transaction
  reported       \* history: the first definite report on a payment sent

memoryVars == <<transactions, results, dispatched, reported>>

ProviderResult == {"SUCCESS", "FAILED", "UNKNOWN"}
NoTx == [state |-> None]

MemoryInit ==
  /\ transactions = [t \in Txs |-> NoTx]
  /\ results = [t \in Txs |-> None]
  /\ dispatched = [t \in Txs |-> 0]
  /\ reported = [t \in Txs |-> None]

(* _verify_pre_execution_auth: the decision, the six required controls,    *)
(* and the step-up control when the caller lists it.                       *)
PreExecutionAuth(decision, v, stepUp) ==
  /\ decision = "ALLOW"
  /\ \A c \in Controls : v[c] = "ALLOW"
  /\ stepUp \in {None, "ALLOW"}

(* _verify_context_and_operation: the agent's proposal against the         *)
(* authorized transaction, and the operations that may reach the provider  *)
ContextMatches(asked, tx) ==
  /\ asked.merchant = tx.merchant /\ asked.buyer = tx.buyer /\ asked.mandate = tx.mandate
  /\ asked.amount = tx.amount /\ asked.currency = tx.currency /\ asked.hash = tx.hash
  /\ asked.op \notin BlockedByDefault
  /\ asked.op \in {"create_order", "create_payment_link", "fetch_payment"}

(* Fault: a refusal is not remembered. *)
RejectExecution_Forgets(t, tx) ==
  /\ transactions' = [transactions EXCEPT ![t] = tx]
  /\ UNCHANGED <<results, dispatched, reported>>

(* _reject_execution: the transition to REJECTED is tried, and where the   *)
(* state machine has none the exception is swallowed; the refusal is kept  *)
(* in _results in any case.                                                *)
RejectExecution(t, tx) ==
  /\ transactions' = [transactions EXCEPT ![t] =
       IF TransitionAllowed(tx.state, "REJECTED") THEN [tx EXCEPT !.state = "REJECTED"] ELSE tx]
  /\ results' = [results EXCEPT ![t] = "REJECTED"]
  /\ UNCHANGED <<dispatched, reported>>

Report(t, o) ==
  reported' = IF dispatched'[t] > 0 /\ reported[t] = None /\ o # "UNKNOWN"
              THEN [reported EXCEPT ![t] = o] ELSE reported

(* The adapters' execute_payment reports SUCCESS when the provider takes   *)
(* the order or, in the mock, unless it is told otherwise; FAILED when the *)
(* provider refuses; UNKNOWN when no answer came.                          *)
AdapterAnswers == ProviderResult

CallProvider(t, o) ==
  /\ dispatched' = [dispatched EXCEPT ![t] = @ + 1]
  /\ Report(t, o)

(* Fault: a timeout ends the transaction like a decline. *)
StateFor_UnknownRollsBack(o) == IF o = "SUCCESS" THEN "COMMITTED" ELSE "ROLLED_BACK"

(* EXECUTING -> SUCCESS -> COMMITTED, EXECUTING -> FAILURE -> ROLLED_BACK, *)
(* or EXECUTING kept until the payment is reconciled                       *)
StateFor(o) ==
  [SUCCESS |-> "COMMITTED", FAILED |-> "ROLLED_BACK", UNKNOWN |-> "EXECUTING"][o]

(* fetch_payment_status: the HTTP adapter reports SUCCESS for a captured   *)
(* payment and for a body without a status, PENDING for any other status   *)
(* and UNKNOWN for every exception; the mock reports what it was given,    *)
(* SUCCESS by default.  PENDING is treated like UNKNOWN.                   *)
StatusAnswers == ProviderResult

(* reconcile_payment_status.  A transaction in a terminal state keeps its  *)
(* cached result; an answer whose transition is illegal raises and changes *)
(* nothing; an UNKNOWN answer overwrites the result whatever it was.       *)
ReconcileStatus(t) ==
  LET tx == transactions[t]
      cached == IsTerminal(tx.state) /\ results[t] # None
  IN
  \/ (tx = NoTx \/ cached) /\ UNCHANGED memoryVars
  \/ /\ tx # NoTx /\ ~cached /\ UNCHANGED dispatched
     /\ \E o \in StatusAnswers :
          /\ Report(t, o)
          /\ IF o = "UNKNOWN"
             THEN results' = [results EXCEPT ![t] = o] /\ UNCHANGED transactions
             ELSE IF tx.state = "EXECUTING"
             THEN /\ transactions' = [transactions EXCEPT ![t].state = StateFor(o)]
                  /\ results' = [results EXCEPT ![t] = o]
             ELSE UNCHANGED <<transactions, results>>

(* execute_payment on the transaction tx, for the agent's proposal asked:  *)
(* an UNKNOWN result is reconciled, any other result is replayed, and a    *)
(* transaction without a result passes the gates and goes to the provider. *)
ExecutePayment(t, tx, asked, decision, v, stepUp) ==
  \/ results[t] = "UNKNOWN" /\ ReconcileStatus(t)
  \/ results[t] \notin {None, "UNKNOWN"} /\ UNCHANGED memoryVars
  \/ /\ results[t] = None
     /\ ~ ( /\ PreExecutionAuth(decision, v, stepUp)
            /\ ContextMatches(asked, tx) /\ CanExecute(tx.state) )
     /\ RejectExecution(t, tx)
  \/ /\ results[t] = None
     /\ PreExecutionAuth(decision, v, stepUp)
     /\ ContextMatches(asked, tx)
     /\ CanExecute(tx.state)
     /\ \E o \in AdapterAnswers :
          /\ CallProvider(t, o)
          /\ transactions' = [transactions EXCEPT ![t] = [tx EXCEPT !.state = StateFor(o)]]
          /\ results' = [results EXCEPT ![t] = o]
===============================================================================
