------------------------------ MODULE PaymentStore ------------------------------
(***************************************************************************)
(* The durable payment state and the sessions that change it: the          *)
(* transactions, execution_attempts and outbox_events tables, PostgreSQL   *)
(* row locks, and one AsyncUnitOfWork session per request or worker batch. *)
(*                                                                         *)
(* A session keeps the ORM object of every row it has loaded.  A later     *)
(* SELECT ... FOR UPDATE of the same row takes the lock but leaves the     *)
(* attributes of an object that is already loaded as they are (no          *)
(* populate_existing), so view[s][t] may be older than db[t].  Everything  *)
(* a session wrote becomes durable in one step, Commit, or is discarded.   *)
(***************************************************************************)
EXTENDS TransactionStates

CONSTANTS Txs,          \* transaction rows, numbered in created_at order
          Requests,     \* calls of async_execute_payment
          Keys,         \* idempotency keys of one merchant
          Payloads,     \* payload fingerprints
          Recoverers,   \* recovery worker processes
          Reconcilers,  \* calls of POST /transactions/{id}/reconcile
          Deliveries,   \* deliveries of provider webhooks
          Nobody        \* the holder of a free row lock

Sessions == Requests \cup Recoverers \cup Reconcilers \cup Deliveries

ASSUME StoreAssumption ==
  /\ Txs \subseteq Nat
  /\ Nobody \notin Sessions
  /\ Requests \cap Recoverers = {}
  /\ Requests \cap Reconcilers = {}
  /\ Recoverers \cap Reconcilers = {}
  /\ Deliveries \cap (Requests \cup Recoverers \cup Reconcilers) = {}

VARIABLES
  db,        \* the committed transactions rows
  attempts,  \* the committed execution_attempts rows
  outbox,    \* committed outbox events per transaction and type
  lock,      \* the session that holds each row's lock
  view,      \* per session, the loaded rows with its uncommitted changes
  claim,     \* per request, its uncommitted execution_attempts row
  events     \* per session, its uncommitted outbox events

storeVars == <<db, attempts, outbox, lock, view, claim, events>>

ProviderStatus == {"NULL", "DISPATCHED", "SUCCESS", "FAILED", "UNKNOWN"}
Row == [state : TransactionState, ps : ProviderStatus]
NotLoaded == [state |-> "NotLoaded", ps |-> "NULL"]

AttemptStatus == {"CLAIMED", "DISPATCHED", "SUCCESS", "FAILED", "UNKNOWN"}
(* An attempt row is identified by the request that inserted it: attempt_id *)
(* is random, and the index on (merchant_id, idempotency_key) not unique.   *)
Attempt == [tx : Txs, key : Keys, fp : Payloads, status : AttemptStatus, by : Requests]
NoClaim == [status |-> "NoClaim"]

EventType == {"PAYMENT_COMMITTED", "PAYMENT_ROLLED_BACK"}

StoreTypeOK ==
  /\ db \in [Txs -> Row]
  /\ attempts \subseteq Attempt
  /\ outbox \in [Txs -> [EventType -> Nat]]
  /\ lock \in [Txs -> Sessions \cup {Nobody}]
  /\ view \in [Sessions -> [Txs -> Row \cup {NotLoaded}]]
  /\ claim \in [Requests -> Attempt \cup {NoClaim}]
  /\ events \in [Sessions -> SUBSET (Txs \X EventType)]

StoreInit ==
  /\ db = [t \in Txs |-> [state |-> "AUTHORIZED", ps |-> "NULL"]]
  /\ attempts = {}
  /\ outbox = [t \in Txs |-> [e \in EventType |-> 0]]
  /\ lock = [t \in Txs |-> Nobody]
  /\ view = [s \in Sessions |-> [t \in Txs |-> NotLoaded]]
  /\ claim = [r \in Requests |-> NoClaim]
  /\ events = [s \in Sessions |-> {}]

---------------------------------------------------------------------------------
(* Session primitives *)

(* The row a SELECT of t gives session s: the object it has, if any. *)
Loaded(s, t) == IF view[s][t] = NotLoaded THEN db[t] ELSE view[s][t]

(* Fault: the SELECT without FOR UPDATE, as on the sqlite dialect. *)
CanLock_NoRowLock(s, t) == TRUE

CanLock(s, t) == lock[t] \in {Nobody, s}

(* End of the unit of work: locks and loaded objects are gone. *)
Release(s) ==
  /\ lock' = [t \in Txs |-> IF lock[t] = s THEN Nobody ELSE lock[t]]
  /\ view' = [view EXCEPT ![s] = [t \in Txs |-> NotLoaded]]
  /\ events' = [events EXCEPT ![s] = {}]
  /\ claim' = IF s \in Requests THEN [claim EXCEPT ![s] = NoClaim] ELSE claim

(* AsyncUnitOfWork.commit followed by __aexit__ *)
Commit(s) ==
  /\ db' = [t \in Txs |-> IF lock[t] = s THEN view[s][t] ELSE db[t]]
  /\ attempts' =
       IF s \in Requests /\ claim[s] # NoClaim
       THEN {a \in attempts : a.by # claim[s].by} \cup {claim[s]}
       ELSE attempts
  /\ outbox' = [t \in Txs |-> [e \in EventType |->
                  IF <<t, e>> \in events[s] THEN outbox[t][e] + 1 ELSE outbox[t][e]]]
  /\ Release(s)

(* AsyncUnitOfWork.__aexit__ without a commit, or after an exception *)
Rollback(s) ==
  /\ UNCHANGED <<db, attempts, outbox>>
  /\ Release(s)

---------------------------------------------------------------------------------
(* Repository methods on one row *)

(* record_provider_outcome and the transitions that follow it: it sets     *)
(* provider_status, then the states of path are taken as far as they are   *)
(* legal.  Its own transition, if any, is the first of the path.           *)
RowAfter(row, path, ps) == [state |-> StateAfter(row.state, path), ps |-> ps]

(* Fault: a scan that looks for reported timeouts only. *)
NeedsReconciliation_UnknownOnly(row) == row.ps = "UNKNOWN"

(* list_transactions_requiring_reconciliation *)
NeedsReconciliation(row) ==
  row.state = "EXECUTING" \/ row.ps \in {"UNKNOWN", "DISPATCHED"}

(* Fault: only attempts that succeeded are looked up. *)
AttemptsOfKey_SuccessOnly(k) == {a \in attempts : a.key = k /\ a.status = "SUCCESS"}

(* get_attempt_by_key: the committed rows of a key *)
AttemptsOfKey(k) == {a \in attempts : a.key = k}
=================================================================================
