----------------------------- MODULE RecoveryEngine -----------------------------
(***************************************************************************)
(* The two components that settle a payment after the fact:                *)
(*  - the recovery worker (apps/workers/recovery_worker.py around          *)
(*    TransactionRecoveryService, apps/api/domain/recovery_engine.py),     *)
(*    which handles a whole batch of rows in one unit of work;             *)
(*  - ReconciliationService behind POST /transactions/{id}/reconcile       *)
(*    (apps/api/domain/reconciliation_engine.py), one row per call.        *)
(* Both lock the row, ask the provider, and apply the answer.              *)
(***************************************************************************)
EXTENDS ExecutionEngine

VARIABLES
  todo,      \* per recovery worker, the rows of its batch still to do
  wpc,       \* per recovery worker: between batches or inside one
  cpc,       \* per reconcile call, where it is
  ctx        \* per reconcile call, its transaction

recoveryVars == <<todo, wpc, cpc, ctx>>

RecoveryTypeOK ==
  /\ todo \in [Recoverers -> SUBSET Txs]
  /\ wpc \in [Recoverers -> {"poll", "batch", "ask"}]
  /\ cpc \in [Reconcilers -> {"idle", "lock", "ask", "commit", "done"}]
  /\ ctx \in [Reconcilers -> Txs \cup {0}]

RecoveryInit ==
  /\ todo = [w \in Recoverers |-> {}]
  /\ wpc = [w \in Recoverers |-> "poll"]
  /\ cpc = [c \in Reconcilers |-> "idle"]
  /\ ctx = [c \in Reconcilers |-> 0]

(* A row this session has not loaded is read when its lock is granted. *)
LockAndLoad(s, t) ==
  /\ CanLock(s, t)
  /\ lock' = [lock EXCEPT ![t] = s]
  /\ view' = [view EXCEPT ![s][t] = Loaded(s, t)]

---------------------------------------------------------------------------------
(* Recovery worker *)

(* scan_stuck_transactions: the ids are kept, the loaded rows are not.     *)
(* Any row may be older than the threshold.                                *)
Scan(w) ==
  /\ wpc[w] = "poll"
  /\ \E t \in Txs : NeedsReconciliation(db[t])
  /\ todo' = [todo EXCEPT ![w] = {t \in Txs : NeedsReconciliation(db[t])}]
  /\ wpc' = [wpc EXCEPT ![w] = "batch"]
  /\ UNCHANGED <<storeVars, engineVars, cpc, ctx>>

(* The batch is worked off in created_at order. *)
Oldest(w, t) == t \in todo[w] /\ \A u \in todo[w] : t <= u

(* reconcile_transaction up to its terminal-state guard *)
LockStuck(w) ==
  /\ wpc[w] = "batch"
  /\ \E t \in Txs :
       /\ Oldest(w, t)
       /\ LockAndLoad(w, t)
       /\ IF Loaded(w, t).state \in {"COMMITTED", "ROLLED_BACK", "REJECTED"}
          THEN todo' = [todo EXCEPT ![w] = @ \ {t}] /\ UNCHANGED wpc
          ELSE wpc' = [wpc EXCEPT ![w] = "ask"] /\ UNCHANGED todo
  /\ UNCHANGED <<db, attempts, outbox, claim, events, engineVars, cpc, ctx>>

(* The rest of reconcile_transaction.  The reference asked about is the     *)
(* stored provider_payment_id or, failing that, the transaction's own id.   *)
(* record_provider_outcome already                                         *)
(* makes the transition to SUCCESS or FAILURE; when a transition raises,   *)
(* process_batch catches the exception and goes on with the session as it  *)
(* is, so the audit and outbox events of this row are skipped.             *)
ReconcileStuck(w) ==
  /\ wpc[w] = "ask"
  /\ \E t \in Txs : \E o \in StatusAnswers(t) :
       /\ Oldest(w, t)
       /\ IF o = "UNKNOWN"
          THEN UNCHANGED <<view, events>>
          ELSE /\ view' = [view EXCEPT ![w][t] = RowAfter(view[w][t], FinalPath(o), o)]
               /\ events' = IF PathLegal(view[w][t].state, FinalPath(o))
                            THEN [events EXCEPT ![w] = @ \cup FinalEvent(t, o)]
                            ELSE events
       /\ Report(t, o)
       /\ todo' = [todo EXCEPT ![w] = @ \ {t}]
  /\ wpc' = [wpc EXCEPT ![w] = "batch"]
  /\ UNCHANGED <<db, attempts, outbox, lock, claim, callVars, cpc, ctx>>

(* uow.commit() at the end of process_batch *)
CommitBatch(w) ==
  /\ wpc[w] = "batch"
  /\ todo[w] = {}
  /\ Commit(w)
  /\ wpc' = [wpc EXCEPT ![w] = "poll"]
  /\ UNCHANGED <<engineVars, todo, cpc, ctx>>

(* The batch is lost: the worker crashes, the commit fails, or an audit    *)
(* append met a concurrent one and left the session unusable.              *)
AbortBatch(w) ==
  /\ wpc[w] \in {"batch", "ask"}
  /\ Rollback(w)
  /\ todo' = [todo EXCEPT ![w] = {}]
  /\ wpc' = [wpc EXCEPT ![w] = "poll"]
  /\ UNCHANGED <<engineVars, cpc, ctx>>

WorkerStep(w) ==
  \/ Scan(w) \/ LockStuck(w) \/ ReconcileStuck(w) \/ CommitBatch(w)

---------------------------------------------------------------------------------
(* Reconcile endpoint *)

ReconcileCall(c, t) ==
  /\ cpc[c] = "idle"
  /\ ctx' = [ctx EXCEPT ![c] = t]
  /\ cpc' = [cpc EXCEPT ![c] = "lock"]
  /\ UNCHANGED <<storeVars, engineVars, todo, wpc>>

(* Lock the row; a settled transaction is answered without the provider. *)
LockReconciled(c) ==
  LET t == ctx[c] IN
  /\ cpc[c] = "lock"
  /\ LockAndLoad(c, t)
  /\ cpc' = [cpc EXCEPT ![c] =
       IF Loaded(c, t).state
            \in {"COMMITTED", "SUCCESS", "ROLLED_BACK", "FAILURE", "REJECTED"}
       THEN "commit" ELSE "ask"]
  /\ UNCHANGED <<db, attempts, outbox, claim, events, engineVars, todo, wpc, ctx>>

(* The adapter's answer becomes one direct transition; provider_status is  *)
(* not touched and no outbox event is written.  Where the transition is    *)
(* illegal the call raises and the unit of work rolls back.                *)
ApplyReconciled(c) ==
  LET t == ctx[c]  row == view[c][t] IN
  /\ cpc[c] = "ask"
  /\ \E o \in StatusAnswers(t) :
       LET target == IF o = "SUCCESS" THEN "COMMITTED" ELSE "ROLLED_BACK" IN
       /\ Report(t, o)
       /\ \/ /\ o = "UNKNOWN"
             /\ cpc' = [cpc EXCEPT ![c] = "commit"]
             /\ UNCHANGED storeVars
          \/ /\ o # "UNKNOWN"
             /\ TransitionAllowed(row.state, target)
             /\ view' = [view EXCEPT ![c][t].state = target]
             /\ cpc' = [cpc EXCEPT ![c] = "commit"]
             /\ UNCHANGED <<db, attempts, outbox, lock, claim, events>>
          \/ /\ o # "UNKNOWN"
             /\ ~TransitionAllowed(row.state, target)
             /\ Rollback(c)
             /\ cpc' = [cpc EXCEPT ![c] = "done"]
  /\ UNCHANGED <<callVars, todo, wpc, ctx>>

CommitReconciled(c) ==
  /\ cpc[c] = "commit"
  /\ Commit(c)
  /\ cpc' = [cpc EXCEPT ![c] = "done"]
  /\ UNCHANGED <<engineVars, todo, wpc, ctx>>

(* The process of the call dies, or its audit append fails. *)
AbortReconciled(c) ==
  /\ cpc[c] \in {"lock", "ask", "commit"}
  /\ Rollback(c)
  /\ cpc' = [cpc EXCEPT ![c] = "done"]
  /\ UNCHANGED <<engineVars, todo, wpc, ctx>>

EndpointStep(c) ==
  \/ \E t \in Txs : ReconcileCall(c, t)
  \/ LockReconciled(c) \/ ApplyReconciled(c) \/ CommitReconciled(c)
=================================================================================
