----------------------------- MODULE PaymentGateway -----------------------------
(***************************************************************************)
(* The persistent payment path as a whole: execution requests in several   *)
(* processes, recovery workers, reconcile calls and the provider, over one *)
(* database.                                                               *)
(***************************************************************************)
EXTENDS RecoveryEngine

vars == <<storeVars, engineVars, recoveryVars>>

Init == StoreInit /\ EngineInit /\ RecoveryInit

(* Every call has ended and no batch is open: the gateway is idle. *)
Quiescent ==
  /\ \A r \in Requests : pc[r] = "done"
  /\ \A w \in Recoverers : wpc[w] = "poll"
  /\ \A c \in Reconcilers : cpc[c] = "done"

Next ==
  \/ \E r \in Requests : RequestStep(r) /\ UNCHANGED recoveryVars
  \/ \E p \in Procs : Crash(p) /\ UNCHANGED recoveryVars
  \/ \E r \in Requests : ProviderSettles(r) /\ UNCHANGED recoveryVars
  \/ \E w \in Recoverers : WorkerStep(w) \/ AbortBatch(w)
  \/ \E c \in Reconcilers : EndpointStep(c) \/ AbortReconciled(c)
  \/ Quiescent /\ UNCHANGED vars

Spec == Init /\ [][Next]_vars

---------------------------------------------------------------------------------
(* Fairness: coroutines that were started run on when they can (the event  *)
(* loop is fair), recovery workers poll for ever and are granted a row lock *)
(* that is free again and again, and a worker is not killed in every batch. *)
(* Nothing is assumed of the provider: it may answer UNKNOWN, or leave a    *)
(* payment undecided, for ever.                                             *)
RequestRuns(r) == Live(r) /\ RequestStep(r) /\ UNCHANGED recoveryVars
EndpointRuns(c) == cpc[c] # "idle" /\ EndpointStep(c)

Fairness ==
  /\ \A r \in Requests : WF_vars(RequestRuns(r))
  /\ \A w \in Recoverers : WF_vars(WorkerStep(w)) /\ SF_vars(LockStuck(w))
  /\ \A c \in Reconcilers : WF_vars(EndpointRuns(c))
  /\ \A w \in Recoverers : <>[][~AbortBatch(w)]_vars

FairSpec == Spec /\ Fairness

---------------------------------------------------------------------------------
(* Types of the tables, the sessions, the requests, workers and calls. *)
TypeOK == StoreTypeOK /\ EngineTypeOK /\ RecoveryTypeOK

InWindow(r) == pc[r] \in {"claim", "enter", "call", "wait", "finalize", "parallel"}

(* The row lock taken by mark_provider_dispatch_started makes the claim,   *)
(* the provider call and the recording of its outcome one critical section *)
(* per transaction, across processes.                                      *)
OneDispatcher ==
  \A q, r \in Requests :
    InWindow(q) /\ InWindow(r) /\ arg[q].tx = arg[r].tx => q = r

(* A durable execution attempt bars the provider: while a request is on    *)
(* its way to the provider, no committed attempt of the same transaction   *)
(* and key exists ("do NOT call provider again").                          *)
DurableClaimBarsCalls ==
  \A r \in Requests : pc[r] \in {"enter", "call", "wait", "finalize"} =>
    ~ \E a \in attempts : a.tx = arg[r].tx /\ a.key = arg[r].key

(* A transaction has at most one durable attempt per idempotency key,      *)
(* although no database constraint says so.                                *)
OneAttemptPerKey ==
  \A a, b \in attempts : a.tx = b.tx /\ a.key = b.key => a = b

(* A payment is COMMITTED, and a PAYMENT_COMMITTED event is published,     *)
(* only for a transaction about which the adapter reported SUCCESS, to the *)
(* request that called the provider or to a later status query: an UNKNOWN *)
(* or FAILED report never ends as a commit (CRITICAL SECURITY RULE of      *)
(* record_provider_outcome).  A reported SUCCESS is not a capture: an      *)
(* order that was only created and a status that was missing are reported  *)
(* as SUCCESS too.                                                         *)
CommittedIsReported ==
  \A t \in Txs :
    db[t].state = "COMMITTED" \/ outbox[t]["PAYMENT_COMMITTED"] > 0 => t \in confirmed

(* A durable failure is recorded only once every provider call made for    *)
(* the transaction is known to have failed (fail-closed reconciliation).   *)
FailureIsProven ==
  [][\A t \in Txs :
       db'[t].state # db[t].state /\ db'[t].state \in {"FAILURE", "ROLLED_BACK"} =>
         \A r \in CallsFor(t) : charge[r] = "failed"]_vars

(* The worker gives no stuck payment up and loses no SUCCESS: a payment    *)
(* that stays durably EXECUTING for ever is one that the worker asks about *)
(* again and again and is again and again not told SUCCESS about.          *)
AskedInVain(t) ==
  \E w \in Recoverers : Oldest(w, t) /\ ReconcileStuck(w) /\ view'[w][t].state # "COMMITTED"

StuckIsAskedForEver ==
  \A t \in Txs : <>[](db[t].state = "EXECUTING") => []<><<AskedInVain(t)>>_vars

---------------------------------------------------------------------------------
(* A claim of the repository that the code does not keep; see the findings. *)

(* SECURITY.md: "NO PAYMENT EFFECT MAY ACCIDENTALLY EXECUTE TWICE." *)
NoDoubleCapture ==
  \A q, r \in Requests :
    charge[q] = "captured" /\ charge[r] = "captured" /\ arg[q].tx = arg[r].tx => q = r
=================================================================================
