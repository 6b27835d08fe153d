-------------------------- MODULE PaymentGatewayProofs --------------------------
(***************************************************************************)
(* Proofs about PaymentGateway for every number of transactions, requests, *)
(* processes, recovery workers and reconcile calls, and about the          *)
(* WebhookEngine over it, for every number of deliveries and events.       *)
(*                                                                         *)
(* The inductive invariant IInv says, beside the types: which row lock a   *)
(* request, a worker or a reconcile call holds where; that a locked row is *)
(* a loaded row; that the pending claim of a request belongs to its        *)
(* arguments and has no durable twin; and that COMMITTED, wherever it is   *)
(* written or waits to be written, is backed by a SUCCESS of the adapter.  *)
(* Its parameter B is a set of transactions that something else vouches    *)
(* for: none in the payment path, the ones a webhook delivery endorses     *)
(* under webhooks.  FailInv adds to it what stands behind FAILURE and      *)
(* ROLLED_BACK: calls that all have failed.                                *)
(*                                                                         *)
(* In HookInv, DeliveryInv ties an uncommitted webhook_events row to the   *)
(* one delivery that inserted it and the row locks to deliveries about to  *)
(* answer, and AnnounceInv says what stands behind a COMMITTED a delivery  *)
(* is about to write.                                                      *)
(***************************************************************************)
EXTENDS WebhookEngine, TLAPS

Dispatched == {"enter", "call", "wait", "finalize", "parallel"}
BeforeCall == {"idle", "read", "reject", "dispatch", "claim", "enter", "call", "parallel"}

ArgInv == \A r \in Requests : pc[r] # "idle" => arg[r] \in Arg

(* After get_transaction the session holds the row; a locked row is held. *)
ViewInv ==
  /\ \A r \in Requests :
       pc[r] \notin {"idle", "read", "done"} => view[r][arg[r].tx] \in Row
  /\ \A t \in Txs, s \in Sessions : lock[t] = s => view[s][t] \in Row

LockInv ==
  /\ \A r \in Requests : InWindow(r) => lock[arg[r].tx] = r
  /\ \A t \in Txs, r \in Requests : lock[t] = r => Live(r) /\ arg[r].tx = t

ClaimInv ==
  /\ \A r \in Requests :
       claim[r] # NoClaim =>
         /\ pc[r] \in Dispatched \cup {"return", "raise"}
         /\ claim[r] \in Attempt
         /\ claim[r].tx = arg[r].tx /\ claim[r].key = arg[r].key
         /\ claim[r].status # "FAILED"
         /\ lock[arg[r].tx] = r
         /\ \A a \in attempts : ~(a.tx = arg[r].tx /\ a.key = arg[r].key)
  /\ \A r \in Requests : pc[r] \in Dispatched => claim[r] # NoClaim
  /\ \A a \in attempts : a.status # "FAILED"

ChargeInv ==
  \A r \in Requests :
    /\ pc[r] \in BeforeCall => charge[r] = "none"
    /\ pc[r] = "finalize" =>
         outcome[r] \in Outcome /\ (outcome[r] = "SUCCESS" => arg[r].tx \in confirmed)

(* COMMITTED stands, in the rows and in what a session is about to write,  *)
(* only for a transaction the adapter reported SUCCESS about or for one of *)
(* B, the ones that are vouched for otherwise.                             *)
Vouched(B, s) ==
  \A t \in Txs :
    view[s][t].state = "COMMITTED" \/ <<t, "PAYMENT_COMMITTED">> \in events[s]
      => t \in confirmed \/ t \in B

ConfirmInv(B) ==
  /\ \A t \in Txs :
       db[t].state = "COMMITTED" \/ outbox[t]["PAYMENT_COMMITTED"] > 0
         => t \in confirmed \/ t \in B
  /\ \A s \in Sessions \ Deliveries : Vouched(B, s)

(* What a worker or a reconcile call asks the provider about is locked. *)
AskInv ==
  /\ \A w \in Recoverers, t \in Txs : wpc[w] = "ask" /\ Oldest(w, t) => lock[t] = w
  /\ \A c \in Reconcilers : cpc[c] # "idle" => ctx[c] \in Txs
  /\ \A c \in Reconcilers : cpc[c] = "ask" => lock[ctx[c]] = c

IInv(B) ==
  /\ TypeOK /\ ArgInv /\ ViewInv /\ LockInv /\ ClaimInv
  /\ OneAttemptPerKey /\ ChargeInv /\ ConfirmInv(B) /\ AskInv

---------------------------------------------------------------------------------
(* Operators of the state machine *)

(* Taking transitions one by one never leaves a set that holds the first   *)
(* state and the path, for the path lengths the services use.              *)
LEMMA StateAfterRange ==
  ASSUME NEW S, NEW s \in S, NEW path \in Seq(S), Len(path) <= 3
  PROVE  StateAfter(s, path) \in S
<1> DEFINE L == LegalPrefixes(s, path)
<1>1. Len(path) \in Nat
  OBVIOUS
<1>2. 0 \in L /\ L \subseteq 0 .. 3 /\ L \subseteq 0 .. Len(path)
  BY <1>1 DEF LegalPrefixes
<1> HIDE DEF L
<1>3. \E m \in L : \A k \in L : k <= m
  <2>1. CASE 3 \in L
    BY <1>2, <2>1
  <2>2. CASE 3 \notin L /\ 2 \in L
    BY <1>2, <2>2
  <2>3. CASE 3 \notin L /\ 2 \notin L
    BY <1>2, <2>3
  <2> QED
    BY <2>1, <2>2, <2>3
<1>4. (CHOOSE m \in L : \A k \in L : k <= m) \in L
  BY <1>3
<1> QED
  BY <1>1, <1>2, <1>4 DEF StateAfter, L

(* The paths of FinalPath, and what they can lead to. *)
LEMMA FinalPathAfter ==
  ASSUME NEW s \in TransactionState, NEW o \in Outcome
  PROVE  /\ StateAfter(s, FinalPath(o)) \in TransactionState
         /\ StateAfter(s, FinalPath(o)) = "COMMITTED" => s = "COMMITTED" \/ o = "SUCCESS"
<1> DEFINE path == FinalPath(o)
<1> DEFINE Failed == {s, "FAILURE", "ROLLED_BACK"}
<1>1. CASE o = "SUCCESS"
  <2>1. path = <<"SUCCESS", "COMMITTED">>
    BY <1>1 DEF FinalPath
  <2>2. path \in Seq(TransactionState) /\ Len(path) <= 3
    BY <2>1 DEF TransactionState
  <2> QED
    BY <1>1, <2>2, StateAfterRange
<1>2. CASE o = "FAILED"
  <2>1. path = <<"FAILURE", "FAILURE", "ROLLED_BACK">>
    BY <1>2 DEF FinalPath
  <2>2. path \in Seq(Failed) /\ Len(path) <= 3
    BY <2>1
  <2>3. StateAfter(s, path) \in Failed
    BY <2>2, StateAfterRange
  <2> QED
    BY <2>3 DEF TransactionState
<1>3. CASE o = "UNKNOWN"
  <2>1. path = <<>>
    BY <1>3 DEF FinalPath
  <2>2. path \in Seq({s}) /\ Len(path) <= 3
    BY <2>1
  <2>3. StateAfter(s, path) \in {s}
    BY <2>2, StateAfterRange
  <2> QED
    BY <2>3
<1> QED
  BY <1>1, <1>2, <1>3 DEF Outcome

(* The second FAILURE transition always raises. *)
LEMMA FailedPathRaises ==
  ASSUME NEW s
  PROVE  ~PathLegal(s, FinalPath("FAILED"))
<1>1. FinalPath("FAILED") = <<"FAILURE", "FAILURE", "ROLLED_BACK">>
  BY DEF FinalPath
<1>2. ~TransitionAllowed("FAILURE", "FAILURE")
  BY DEF TransitionAllowed, CanTransitionTo, LegalTransitions
<1> DEFINE path == FinalPath("FAILED")
<1>3. Len(path) = 3 /\ path[1] = "FAILURE" /\ path[2] = "FAILURE"
  BY <1>1
<1> HIDE DEF path
<1>4. SUFFICES ASSUME PathLegal(s, path) PROVE FALSE
  BY DEF path
<1>5. TransitionAllowed(path[1], path[2])
  BY <1>3, <1>4 DEF PathLegal, LegalPrefixes
<1> QED
  BY <1>2, <1>3, <1>5



---------------------------------------------------------------------------------
(* Pointwise facts about updates, and the type of a loaded row *)

(* What a session holds or reads of a row is a row. *)
LEMMA LoadedRow ==
  ASSUME StoreTypeOK, NEW s \in Sessions, NEW t \in Txs
  PROVE  Loaded(s, t) \in Row
BY DEF StoreTypeOK, Loaded

(* Requests, workers and reconcile calls are no webhook deliveries. *)
LEMMA NoDelivery ==
  \A s \in Requests \cup Recoverers \cup Reconcilers : s \in Sessions \ Deliveries
BY StoreAssumption DEF Sessions

(* A COMMITTED row that such a session holds or reads is vouched for. *)
LEMMA LoadedVouched ==
  ASSUME NEW B, ConfirmInv(B), NEW t \in Txs,
         NEW s \in Requests \cup Recoverers \cup Reconcilers
  PROVE  Loaded(s, t).state = "COMMITTED" => t \in confirmed \/ t \in B
BY NoDelivery DEF ConfirmInv, Vouched, Loaded

(* Remembering a result keeps the type of the per-process result caches. *)
LEMMA RememberType ==
  ASSUME EngineTypeOK, NEW r \in Requests, arg[r] \in Arg, NEW v \in Result, Remember(r, v)
  PROVE  results' \in [Procs -> [Txs -> Result \cup {"none"}]]
BY EngineAssumption DEF EngineTypeOK, Remember, Arg

(* The absent claim is not an execution attempt. *)
LEMMA NoClaimIsNoAttempt == NoClaim \notin Attempt
BY DEF NoClaim, Attempt, AttemptStatus

---------------------------------------------------------------------------------
(* Requests: every step preserves the invariant *)

(* The arrival of a request keeps the invariant. *)
LEMMA CallInv ==
  ASSUME NEW B, IInv(B), NEW r \in Requests, UNCHANGED recoveryVars, NEW a \in Arg, Call(r, a)
  PROVE  IInv(B)'
<1> USE DEF IInv, storeVars, recoveryVars, Sessions, Call, Goto
<1>1. StoreTypeOK' /\ EngineTypeOK' /\ RecoveryTypeOK'
  BY DEF TypeOK, StoreTypeOK, EngineTypeOK, RecoveryTypeOK, Arg, Step
<1>2. ArgInv'
  BY DEF TypeOK, EngineTypeOK, ArgInv
<1>3. ViewInv'
  BY StoreAssumption DEF TypeOK, StoreTypeOK, EngineTypeOK, ArgInv, ViewInv, LockInv, Live
<1>4. LockInv'
  BY StoreAssumption DEF TypeOK, StoreTypeOK, EngineTypeOK, LockInv, InWindow, Live
<1>5. ClaimInv' /\ OneAttemptPerKey'
  BY DEF TypeOK, StoreTypeOK, EngineTypeOK, ClaimInv, Dispatched, OneAttemptPerKey
<1>6. ChargeInv'
  BY DEF TypeOK, EngineTypeOK, ChargeInv, BeforeCall
<1>7. ConfirmInv(B)'
  BY DEF TypeOK, EngineTypeOK, ConfirmInv, Vouched, ChargeInv, BeforeCall
<1>8. AskInv'
  BY DEF AskInv, Oldest
<1> QED
  BY <1>1, <1>2, <1>3, <1>4, <1>5, <1>6, <1>7, <1>8 DEF TypeOK

(* get_transaction, with the early returns after it, keeps the invariant. *)
LEMMA ReadRowInv ==
  ASSUME NEW B, IInv(B), NEW r \in Requests, UNCHANGED recoveryVars, ReadRow(r)
  PROVE  IInv(B)'
<1> DEFINE t == arg[r].tx
<1> USE DEF IInv, recoveryVars
<1>1. /\ r \in Sessions /\ t \in Txs /\ arg[r] \in Arg
      /\ Loaded(r, t) \in Row
      /\ claim[r] = NoClaim /\ \A u \in Txs : lock[u] # r \/ u = t
  BY LoadedRow DEF ReadRow, ArgInv, Arg, TypeOK, ClaimInv, Dispatched, LockInv, Sessions
<1>2. /\ view' = [view EXCEPT ![r][t] = Loaded(r, t)]
      /\ UNCHANGED <<db, attempts, outbox, lock, claim, events, arg, outcome, charge,
                     confirmed, inflight>>
      /\ pc[r] = "read"
      /\ pc' = [pc EXCEPT ![r] = pc'[r]] /\ pc'[r] \in {"return", "dispatch", "reject"}
  BY DEF ReadRow, Return, Goto, TypeOK, EngineTypeOK
<1>3. /\ view' \in [Sessions -> [Txs -> Row \cup {NotLoaded}]]
      /\ \A u \in Sessions, v \in Txs :
           view'[u][v] = IF u = r /\ v = t THEN Loaded(r, t) ELSE view[u][v]
  <2>1. StoreTypeOK
    BY DEF TypeOK
  <2> QED
    BY <1>1, <1>2, <2>1 DEF StoreTypeOK
<1>4. results' \in [Procs -> [Txs -> Result \cup {"none"}]]
  <2>1. "REJECTED" \in Result
    BY DEF Result
  <2> QED
    BY <1>1, <2>1, RememberType DEF ReadRow, TypeOK, EngineTypeOK
<1>5. res' \in [Requests -> Result \cup {"none"}]
  BY DEF ReadRow, Return, TypeOK, EngineTypeOK, Result, Outcome
<1>6. StoreTypeOK' /\ EngineTypeOK' /\ RecoveryTypeOK'
  <2>1. pc' \in [Requests -> Step]
    BY <1>2 DEF TypeOK, EngineTypeOK, Step
  <2> QED
    BY <1>2, <1>3, <1>4, <1>5, <2>1 DEF TypeOK, StoreTypeOK, EngineTypeOK, RecoveryTypeOK
<1>7. ArgInv'
  BY <1>1, <1>2 DEF ArgInv, TypeOK, EngineTypeOK
<1>8. ViewInv'
  BY <1>1, <1>2, <1>3 DEF ViewInv, TypeOK, EngineTypeOK, StoreTypeOK, ArgInv, Arg
<1>9. LockInv'
  BY <1>2 DEF LockInv, InWindow, Live, TypeOK, EngineTypeOK
<1>10. ClaimInv' /\ OneAttemptPerKey'
  BY <1>1, <1>2 DEF ClaimInv, Dispatched, OneAttemptPerKey, TypeOK, EngineTypeOK
<1>11. ChargeInv'
  BY <1>2 DEF ChargeInv, BeforeCall, TypeOK, EngineTypeOK
<1>12. ConfirmInv(B)'
  <2>1. Loaded(r, t).state = "COMMITTED" => t \in confirmed \/ t \in B
    BY <1>1, LoadedVouched DEF Sessions
  <2> QED
    BY <1>1, <1>2, <1>3, <2>1 DEF ConfirmInv, Vouched
<1>13. AskInv'
  BY <1>2 DEF AskInv, Oldest
<1> QED
  BY <1>6, <1>7, <1>8, <1>9, <1>10, <1>11, <1>12, <1>13 DEF TypeOK

(* The two steps that take the row lock: what they have in common. *)
LEMMA RequestLocks ==
  ASSUME NEW B, IInv(B), NEW r \in Requests, UNCHANGED recoveryVars,
         pc[r] \in {"reject", "dispatch"}, CanLock(r, arg[r].tx),
         lock' = [lock EXCEPT ![arg[r].tx] = r],
         NEW row \in Row, row.state # "COMMITTED" \/ row = view[r][arg[r].tx],
         view' = [view EXCEPT ![r][arg[r].tx] = row],
         NEW step \in {"return", "claim", "raise"},
         pc' = [pc EXCEPT ![r] = step], res' \in [Requests -> Result \cup {"none"}],
         UNCHANGED <<db, attempts, outbox, claim, events, arg, outcome, charge, confirmed,
                     results, inflight>>
  PROVE  IInv(B)'
<1> DEFINE t == arg[r].tx
<1> USE DEF IInv, recoveryVars
<1>1. /\ r \in Sessions /\ t \in Txs /\ arg[r] \in Arg
      /\ claim[r] = NoClaim
      /\ lock[t] \in {Nobody, r}
  BY DEF ArgInv, Arg, ClaimInv, Dispatched, CanLock, Sessions
<1>2. /\ view' \in [Sessions -> [Txs -> Row \cup {NotLoaded}]]
      /\ \A u \in Sessions, v \in Txs :
           view'[u][v] = IF u = r /\ v = t THEN row ELSE view[u][v]
  <2>1. StoreTypeOK
    BY DEF TypeOK
  <2> QED
    BY <1>1, <2>1 DEF StoreTypeOK
<1>3. /\ lock' \in [Txs -> Sessions \cup {Nobody}]
      /\ \A v \in Txs : lock'[v] = IF v = t THEN r ELSE lock[v]
  BY <1>1 DEF TypeOK, StoreTypeOK
<1>4. /\ pc' \in [Requests -> Step]
      /\ \A q \in Requests : pc'[q] = IF q = r THEN step ELSE pc[q]
  BY DEF TypeOK, EngineTypeOK, Step
<1> HIDE DEF t
<1>5. StoreTypeOK' /\ EngineTypeOK' /\ RecoveryTypeOK'
  BY <1>2, <1>3, <1>4 DEF TypeOK, StoreTypeOK, EngineTypeOK, RecoveryTypeOK
<1>6. ArgInv'
  BY <1>1, <1>4 DEF ArgInv
<1>7. ViewInv'
  BY <1>1, <1>2, <1>3, <1>4, StoreAssumption DEF ViewInv, ArgInv, Arg, t
<1>8. LockInv'
  BY <1>1, <1>3, <1>4, StoreAssumption DEF LockInv, InWindow, Live, ArgInv, Arg, Sessions, t
<1>9. ClaimInv' /\ OneAttemptPerKey'
  BY <1>1, <1>3, <1>4, StoreAssumption
     DEF ClaimInv, Dispatched, OneAttemptPerKey, ArgInv, Arg, Sessions
<1>10. ChargeInv'
  BY <1>4 DEF ChargeInv, BeforeCall
<1>11. ConfirmInv(B)'
  BY <1>1, <1>2 DEF ConfirmInv, Vouched, t
<1>12. AskInv'
  BY <1>1, <1>3, StoreAssumption DEF AskInv, Oldest, Sessions
<1> QED
  BY <1>5, <1>6, <1>7, <1>8, <1>9, <1>10, <1>11, <1>12 DEF TypeOK

(* Marking the locked row as rejected keeps the invariant. *)
LEMMA RejectRowInv ==
  ASSUME NEW B, IInv(B), NEW r \in Requests, UNCHANGED recoveryVars, RejectRow(r)
  PROVE  IInv(B)'
<1> DEFINE t == arg[r].tx
<1> DEFINE row == [view[r][t] EXCEPT !.state = "REJECTED"]
<1> USE DEF IInv
<1>1. /\ t \in Txs /\ view[r][t] \in Row /\ row \in Row
      /\ row.state # "COMMITTED"
  BY DEF RejectRow, ArgInv, Arg, ViewInv, Row, TransactionState
<1>2. CASE TransitionAllowed(Loaded(r, t).state, "REJECTED")
  <2>1. res' \in [Requests -> Result \cup {"none"}]
    BY <1>2 DEF RejectRow, Return, TypeOK, EngineTypeOK, Result
  <2>2. view' = [view EXCEPT ![r][t] = row]
    BY <1>1, <1>2 DEF RejectRow, TypeOK, StoreTypeOK
  <2>3. pc' = [pc EXCEPT ![r] = "return"]
    BY <1>2 DEF RejectRow, Return, Goto
  <2> HIDE DEF row
  <2> QED
    BY <1>1, <2>1, <2>2, <2>3, RequestLocks DEF RejectRow
<1>3. CASE ~TransitionAllowed(Loaded(r, t).state, "REJECTED")
  <2>1. view' = [view EXCEPT ![r][t] = view[r][t]]
    BY <1>1, <1>3 DEF RejectRow, TypeOK, StoreTypeOK, Sessions
  <2>2. pc' = [pc EXCEPT ![r] = "raise"] /\ res' \in [Requests -> Result \cup {"none"}]
    BY <1>3 DEF RejectRow, Goto, TypeOK, EngineTypeOK
  <2> QED
    BY <1>1, <2>1, <2>2, RequestLocks DEF RejectRow
<1> QED
  BY <1>2, <1>3

(* Taking the row lock and writing EXECUTING keeps the invariant. *)
LEMMA MarkDispatchStartedInv ==
  ASSUME NEW B, IInv(B), NEW r \in Requests, UNCHANGED recoveryVars, MarkDispatchStarted(r)
  PROVE  IInv(B)'
<1> DEFINE t == arg[r].tx
<1> DEFINE row == [state |-> "EXECUTING", ps |-> "DISPATCHED"]
<1> USE DEF IInv
<1>1. /\ t \in Txs /\ view[r][t] \in Row /\ row \in Row
      /\ row.state # "COMMITTED"
  BY DEF MarkDispatchStarted, ArgInv, Arg, ViewInv, Row, TransactionState, ProviderStatus
<1>2. res' \in [Requests -> Result \cup {"none"}]
  BY DEF MarkDispatchStarted, TypeOK, EngineTypeOK
<1>3. CASE TransitionAllowed(Loaded(r, t).state, "EXECUTING")
  <2>1. view' = [view EXCEPT ![r][t] = row] /\ pc' = [pc EXCEPT ![r] = "claim"]
    BY <1>3 DEF MarkDispatchStarted, Goto
  <2> HIDE DEF row
  <2> QED
    BY <1>1, <1>2, <2>1, RequestLocks DEF MarkDispatchStarted
<1>4. CASE ~TransitionAllowed(Loaded(r, t).state, "EXECUTING")
  <2>1. view' = [view EXCEPT ![r][t] = view[r][t]]
    BY <1>1, <1>4 DEF MarkDispatchStarted, TypeOK, StoreTypeOK, Sessions
  <2>2. pc' = [pc EXCEPT ![r] = "raise"]
    BY <1>4 DEF MarkDispatchStarted, Goto
  <2> QED
    BY <1>1, <1>2, <2>1, <2>2, RequestLocks DEF MarkDispatchStarted
<1> QED
  BY <1>3, <1>4

(* Claiming an attempt keeps the invariant: the claim has no durable twin. *)
LEMMA ClaimAttemptInv ==
  ASSUME NEW B, IInv(B), NEW r \in Requests, UNCHANGED recoveryVars, ClaimAttempt(r)
  PROVE  IInv(B)'
<1> DEFINE t == arg[r].tx
<1> DEFINE new == [tx |-> t, key |-> arg[r].key, fp |-> arg[r].fp,
                   status |-> "CLAIMED", by |-> r]
<1> USE DEF IInv, recoveryVars
<1>1. /\ t \in Txs /\ arg[r] \in Arg /\ lock[t] = r /\ claim[r] = NoClaim
      /\ new \in Attempt /\ new # NoClaim
  BY DEF ClaimAttempt, ArgInv, Arg, LockInv, InWindow, ClaimInv, Dispatched, Attempt,
         AttemptStatus, NoClaim
<1>2. /\ pc[r] = "claim"
      /\ UNCHANGED <<db, attempts, outbox, lock, view, events, arg, outcome, charge, confirmed,
                     results, inflight>>
  BY DEF ClaimAttempt
<1>3. \/ /\ AttemptsOfKey(arg[r].key) = {}
         /\ claim' = [claim EXCEPT ![r] = new]
         /\ pc' = [pc EXCEPT ![r] = "enter"]
      \/ /\ claim' = claim
         /\ pc' = [pc EXCEPT ![r] = pc'[r]] /\ pc'[r] \in {"return", "raise"}
  <2>1. \A a \in AttemptsOfKey(arg[r].key) : a.status # "FAILED"
    BY DEF AttemptsOfKey, ClaimInv
  <2> QED
    BY <2>1 DEF ClaimAttempt, Goto, Return, TypeOK, EngineTypeOK
<1>4. res' \in [Requests -> Result \cup {"none"}]
  <2>1. results[ProcOf[r]][t] \in Result \cup {"none"}
    BY <1>1, EngineAssumption DEF TypeOK, EngineTypeOK
  <2> QED
    BY <2>1 DEF ClaimAttempt, Return, TypeOK, EngineTypeOK, Result, Outcome
<1> HIDE DEF new
<1>5. claim' \in [Requests -> Attempt \cup {NoClaim}] /\ pc' \in [Requests -> Step]
  <2>1. pc' \in [Requests -> Step]
    BY <1>3 DEF TypeOK, EngineTypeOK, Step
  <2>2. claim' \in [Requests -> Attempt \cup {NoClaim}]
    BY <1>1, <1>3 DEF TypeOK, StoreTypeOK
  <2> QED
    BY <2>1, <2>2
<1>6. StoreTypeOK' /\ EngineTypeOK' /\ RecoveryTypeOK'
  BY <1>2, <1>4, <1>5 DEF TypeOK, StoreTypeOK, EngineTypeOK, RecoveryTypeOK
<1>7. ArgInv' /\ ChargeInv'
  BY <1>1, <1>2, <1>3 DEF ArgInv, ChargeInv, BeforeCall, TypeOK, EngineTypeOK
<1>8. ViewInv'
  BY <1>2, <1>3 DEF ViewInv, TypeOK, EngineTypeOK
<1>9. LockInv'
  BY <1>1, <1>2, <1>3 DEF LockInv, InWindow, Live, TypeOK, EngineTypeOK
<1>10. ClaimInv' /\ OneAttemptPerKey'
  <2>1. OneAttemptPerKey'
    BY <1>2 DEF OneAttemptPerKey
  <2>2. CASE claim' = [claim EXCEPT ![r] = new] /\ AttemptsOfKey(arg[r].key) = {}
             /\ pc' = [pc EXCEPT ![r] = "enter"]
    <3>1. \A a \in attempts : a.key # arg[r].key
      BY <2>2 DEF AttemptsOfKey
    <3>2. new.tx = arg[r].tx /\ new.key = arg[r].key /\ new.status # "FAILED"
      BY DEF new
    <3>3. \A q \in Requests : /\ claim'[q] = IF q = r THEN new ELSE claim[q]
                              /\ pc'[q] = IF q = r THEN "enter" ELSE pc[q]
      BY <2>2 DEF TypeOK, StoreTypeOK, EngineTypeOK
    <3>4. \A q \in Requests : pc'[q] \in Dispatched => claim'[q] # NoClaim
      BY <1>1, <3>3 DEF ClaimInv, Dispatched
    <3>5. \A q \in Requests \ {r} : claim'[q] = claim[q] /\ pc'[q] = pc[q]
      BY <3>3
    <3>6. claim'[r] = new /\ pc'[r] = "enter"
      BY <3>3
    <3> QED
      BY <1>1, <1>2, <2>1, <3>1, <3>2, <3>4, <3>5, <3>6 DEF ClaimInv, Dispatched
  <2>3. CASE claim' = claim /\ pc' = [pc EXCEPT ![r] = pc'[r]] /\ pc'[r] \in {"return", "raise"}
    <3>1. \A q \in Requests : pc'[q] = pc[q] \/ q = r
      BY <2>3 DEF TypeOK, EngineTypeOK
    <3>2. \A q \in Requests : pc'[q] \in Dispatched => claim'[q] # NoClaim
      BY <2>3, <3>1 DEF ClaimInv, Dispatched
    <3>3. \A q \in Requests : claim'[q] # NoClaim => claim'[q] = claim[q] /\ pc'[q] = pc[q]
      BY <1>1, <2>3, <3>1
    <3> QED
      BY <1>2, <2>1, <3>2, <3>3 DEF ClaimInv
  <2> QED
    BY <1>3, <2>1, <2>2, <2>3
<1>11. ConfirmInv(B)'
  BY <1>2 DEF ConfirmInv, Vouched
<1>12. AskInv'
  BY <1>2 DEF AskInv, Oldest
<1> QED
  BY <1>6, <1>7, <1>8, <1>9, <1>10, <1>11, <1>12 DEF TypeOK

(* Entering _in_flight_txs keeps the invariant. *)
LEMMA EnterFlightInv ==
  ASSUME NEW B, IInv(B), NEW r \in Requests, UNCHANGED recoveryVars, EnterFlight(r)
  PROVE  IInv(B)'
<1> DEFINE t == arg[r].tx
<1> USE DEF IInv, recoveryVars
<1>1. /\ t \in Txs /\ arg[r] \in Arg /\ ProcOf[r] \in Procs
      /\ results[ProcOf[r]][t] \in Result \cup {"none"}
  BY EngineAssumption DEF EnterFlight, ArgInv, Arg, TypeOK, EngineTypeOK
<1>2. /\ pc[r] = "enter"
      /\ pc' = [pc EXCEPT ![r] = pc'[r]] /\ pc'[r] \in {"return", "parallel", "call"}
      /\ UNCHANGED <<storeVars, arg, outcome, charge, confirmed, results>>
  BY DEF EnterFlight, Return, Goto, TypeOK, EngineTypeOK
<1>3. res' \in [Requests -> Result \cup {"none"}]
  BY <1>1 DEF EnterFlight, Return, TypeOK, EngineTypeOK
<1>4. inflight' \in [Procs -> SUBSET Txs]
  BY <1>1 DEF EnterFlight, TypeOK, EngineTypeOK
<1>5. pc' \in [Requests -> Step]
  BY <1>2 DEF TypeOK, EngineTypeOK, Step
<1>6. StoreTypeOK' /\ EngineTypeOK' /\ RecoveryTypeOK'
  BY <1>2, <1>3, <1>4, <1>5 DEF TypeOK, StoreTypeOK, EngineTypeOK, RecoveryTypeOK, storeVars
<1>7. ArgInv' /\ ChargeInv'
  BY <1>1, <1>2 DEF ArgInv, ChargeInv, BeforeCall, TypeOK, EngineTypeOK
<1>8. ViewInv'
  BY <1>2 DEF ViewInv, TypeOK, EngineTypeOK, storeVars
<1>9. LockInv'
  BY <1>2 DEF LockInv, InWindow, Live, TypeOK, EngineTypeOK, storeVars
<1>10. ClaimInv' /\ OneAttemptPerKey'
  <2>1. \A q \in Requests :
          /\ pc'[q] \in Dispatched => pc[q] \in Dispatched
          /\ pc[q] \in Dispatched \cup {"return", "raise"}
               => pc'[q] \in Dispatched \cup {"return", "raise"}
    BY <1>2 DEF Dispatched, TypeOK, EngineTypeOK
  <2>2. UNCHANGED <<claim, lock, attempts, arg>>
    BY <1>2 DEF storeVars
  <2>3. ClaimInv'
    BY <2>1, <2>2 DEF ClaimInv
  <2> QED
    BY <2>2, <2>3 DEF OneAttemptPerKey
<1>11. ConfirmInv(B)'
  BY <1>2 DEF ConfirmInv, Vouched, storeVars
<1>12. AskInv'
  BY <1>2 DEF AskInv, Oldest, storeVars
<1> QED
  BY <1>6, <1>7, <1>8, <1>9, <1>10, <1>11, <1>12 DEF TypeOK

(* The call of the adapter keeps the invariant. *)
LEMMA CallProviderInv ==
  ASSUME NEW B, IInv(B), NEW r \in Requests, UNCHANGED recoveryVars, CallProvider(r)
  PROVE  IInv(B)'
<1> USE DEF IInv, storeVars, recoveryVars, CallProvider, Goto
<1>1. StoreTypeOK' /\ EngineTypeOK' /\ RecoveryTypeOK'
  BY DEF TypeOK, StoreTypeOK, EngineTypeOK, RecoveryTypeOK, Step, Charge
<1>2. ArgInv' /\ ChargeInv'
  BY DEF TypeOK, EngineTypeOK, ArgInv, ChargeInv, BeforeCall
<1>3. ViewInv'
  BY DEF ViewInv, TypeOK, EngineTypeOK
<1>4. LockInv'
  BY DEF LockInv, InWindow, Live, TypeOK, EngineTypeOK
<1>5. ClaimInv' /\ OneAttemptPerKey'
  BY DEF ClaimInv, Dispatched, OneAttemptPerKey, TypeOK, EngineTypeOK
<1>6. ConfirmInv(B)'
  BY DEF ConfirmInv, Vouched, ChargeInv, BeforeCall, TypeOK, EngineTypeOK
<1>7. AskInv'
  BY DEF AskInv, Oldest
<1> QED
  BY <1>1, <1>2, <1>3, <1>4, <1>5, <1>6, <1>7 DEF TypeOK

(* The answer of the adapter keeps the invariant: SUCCESS is remembered. *)
LEMMA ProviderAnswersInv ==
  ASSUME NEW B, IInv(B), NEW r \in Requests, UNCHANGED recoveryVars, ProviderAnswers(r)
  PROVE  IInv(B)'
<1> USE DEF IInv, storeVars, recoveryVars, ProviderAnswers, Goto
<1>0. arg[r].tx \in Txs /\ confirmed \subseteq confirmed' /\ confirmed' \subseteq Txs
  BY DEF TypeOK, EngineTypeOK, ArgInv, Arg, Report
<1>1. StoreTypeOK' /\ EngineTypeOK' /\ RecoveryTypeOK'
  BY <1>0 DEF TypeOK, StoreTypeOK, EngineTypeOK, RecoveryTypeOK, Step, AdapterAnswers, Outcome
<1>2. ArgInv' /\ ChargeInv'
  BY <1>0 DEF TypeOK, EngineTypeOK, ArgInv, ChargeInv, BeforeCall, AdapterAnswers, Outcome, Report
<1>3. ViewInv'
  BY DEF ViewInv, TypeOK, EngineTypeOK
<1>4. LockInv'
  BY DEF LockInv, InWindow, Live, TypeOK, EngineTypeOK
<1>5. ClaimInv' /\ OneAttemptPerKey'
  BY DEF ClaimInv, Dispatched, OneAttemptPerKey, TypeOK, EngineTypeOK
<1>6. ConfirmInv(B)'
  BY <1>0 DEF ConfirmInv, Vouched
<1>7. AskInv'
  BY DEF AskInv, Oldest
<1> QED
  BY <1>1, <1>2, <1>3, <1>4, <1>5, <1>6, <1>7 DEF TypeOK

(* The decision of a pending payment keeps the invariant. *)
LEMMA ProviderSettlesInv ==
  ASSUME NEW B, IInv(B), NEW r \in Requests, UNCHANGED recoveryVars, ProviderSettles(r)
  PROVE  IInv(B)'
<1> USE DEF IInv, storeVars, recoveryVars, ProviderSettles
<1>1. StoreTypeOK' /\ EngineTypeOK' /\ RecoveryTypeOK'
  BY DEF TypeOK, StoreTypeOK, EngineTypeOK, RecoveryTypeOK, Charge
<1>2. ArgInv' /\ ChargeInv'
  BY DEF TypeOK, EngineTypeOK, ArgInv, ChargeInv, BeforeCall
<1>3. ViewInv' /\ LockInv'
  BY DEF ViewInv, LockInv, InWindow, Live
<1>4. ClaimInv' /\ OneAttemptPerKey'
  BY DEF ClaimInv, OneAttemptPerKey
<1>5. ConfirmInv(B)'
  BY DEF ConfirmInv, Vouched
<1>6. AskInv'
  BY DEF AskInv, Oldest
<1> QED
  BY <1>1, <1>2, <1>3, <1>4, <1>5, <1>6 DEF TypeOK

(* Recording the outcome keeps the invariant: COMMITTED follows SUCCESS. *)
LEMMA FinalizeOutcomeInv ==
  ASSUME NEW B, IInv(B), NEW r \in Requests, UNCHANGED recoveryVars, FinalizeOutcome(r)
  PROVE  IInv(B)'
<1> DEFINE t == arg[r].tx
<1> DEFINE o == outcome[r]
<1> DEFINE row == RowAfter(Loaded(r, t), FinalPath(o), o)
<1> DEFINE legal == PathLegal(Loaded(r, t).state, FinalPath(o))
<1> USE DEF IInv, recoveryVars
<1>1. /\ r \in Sessions /\ t \in Txs /\ arg[r] \in Arg /\ ProcOf[r] \in Procs
      /\ Loaded(r, t) \in Row /\ o \in Outcome
      /\ claim[r] \in Attempt
      /\ o = "SUCCESS" => t \in confirmed
  BY LoadedRow, EngineAssumption
     DEF FinalizeOutcome, ArgInv, Arg, TypeOK, ClaimInv, Dispatched, ChargeInv, Sessions
<1>2. row \in Row /\ (row.state = "COMMITTED" => Loaded(r, t).state = "COMMITTED" \/ o = "SUCCESS")
  BY <1>1, FinalPathAfter DEF RowAfter, Row, ProviderStatus, Outcome
<1>3. /\ pc[r] = "finalize"
      /\ view' = [view EXCEPT ![r][t] = row]
      /\ UNCHANGED <<db, attempts, outbox, lock, arg, outcome, charge, confirmed>>
      /\ inflight' \in [Procs -> SUBSET Txs]
  BY <1>1 DEF FinalizeOutcome, TypeOK, EngineTypeOK
<1>4. legal => /\ o # "FAILED"
               /\ claim' = [claim EXCEPT ![r].status = o]
               /\ events' = [events EXCEPT ![r] = @ \cup FinalEvent(t, o)]
               /\ Remember(r, o) /\ pc' = [pc EXCEPT ![r] = "return"]
               /\ res' = [res EXCEPT ![r] = o]
  <2>1. legal => o # "FAILED"
    BY FailedPathRaises
  <2> QED
    BY <2>1 DEF FinalizeOutcome, Return, Goto
<1>5. ~legal => UNCHANGED <<claim, events, results, res>> /\ pc' = [pc EXCEPT ![r] = "raise"]
  BY DEF FinalizeOutcome, Goto
<1>6. /\ FinalEvent(t, o) \subseteq {<<t, "PAYMENT_COMMITTED">>, <<t, "PAYMENT_ROLLED_BACK">>}
      /\ o # "SUCCESS" => <<t, "PAYMENT_COMMITTED">> \notin FinalEvent(t, o)
  <2>1. CASE o = "SUCCESS"
    BY <2>1 DEF FinalEvent
  <2>2. CASE o = "FAILED"
    BY <2>2 DEF FinalEvent
  <2>3. CASE o = "UNKNOWN"
    BY <2>3 DEF FinalEvent
  <2> QED
    BY <1>1, <2>1, <2>2, <2>3 DEF Outcome
<1>7. /\ view' \in [Sessions -> [Txs -> Row \cup {NotLoaded}]]
      /\ \A u \in Sessions, v \in Txs :
           view'[u][v] = IF u = r /\ v = t THEN row ELSE view[u][v]
  <2> HIDE DEF row
  <2>1. StoreTypeOK
    BY DEF TypeOK
  <2> QED
    BY <1>1, <1>2, <1>3, <2>1 DEF StoreTypeOK
<1> HIDE DEF row, legal
<1>8. /\ pc' \in [Requests -> Step]
      /\ \A q \in Requests \ {r} : pc'[q] = pc[q]
      /\ pc'[r] \in {"return", "raise"}
  BY <1>4, <1>5 DEF TypeOK, EngineTypeOK, Step
<1>9. /\ claim' \in [Requests -> Attempt \cup {NoClaim}]
      /\ \A q \in Requests :
           \/ claim'[q] = claim[q]
           \/ q = r /\ claim'[q] = [claim[q] EXCEPT !.status = o] /\ o # "FAILED"
  <2>1. [claim[r] EXCEPT !.status = o] \in Attempt
    BY <1>1 DEF Attempt, AttemptStatus, Outcome
  <2>2. CASE legal
    <3>1. /\ claim' = [claim EXCEPT ![r] = [claim[r] EXCEPT !.status = o]]
          /\ o # "FAILED"
      BY <1>4, <2>2
    <3> QED
      BY <2>1, <3>1 DEF TypeOK, StoreTypeOK
  <2>3. CASE ~legal
    BY <1>5, <2>3 DEF TypeOK, StoreTypeOK
  <2> QED
    BY <2>2, <2>3
<1>10. /\ events' \in [Sessions -> SUBSET (Txs \X EventType)]
       /\ \A s \in Sessions :
            events'[s] = events[s] \/ (s = r /\ events'[s] = events[s] \cup FinalEvent(t, o))
  <2>1. FinalEvent(t, o) \in SUBSET (Txs \X EventType)
    BY <1>1, <1>6 DEF EventType
  <2>2. CASE legal
    <3>1. events' = [events EXCEPT ![r] = events[r] \cup FinalEvent(t, o)]
      BY <1>4, <2>2
    <3> QED
      BY <1>1, <2>1, <3>1 DEF TypeOK, StoreTypeOK
  <2>3. CASE ~legal
    BY <1>5, <2>3 DEF TypeOK, StoreTypeOK
  <2> QED
    BY <2>2, <2>3
<1>11. /\ results' \in [Procs -> [Txs -> Result \cup {"none"}]]
       /\ res' \in [Requests -> Result \cup {"none"}]
  <2>1. o \in Result
    BY <1>1 DEF Result
  <2>2. CASE legal
    BY <1>1, <1>4, <2>1, <2>2, RememberType DEF TypeOK, EngineTypeOK
  <2>3. CASE ~legal
    BY <1>5, <2>3 DEF TypeOK, EngineTypeOK
  <2> QED
    BY <2>2, <2>3
<1>12. StoreTypeOK' /\ EngineTypeOK' /\ RecoveryTypeOK'
  BY <1>3, <1>7, <1>8, <1>9, <1>10, <1>11 DEF TypeOK, StoreTypeOK, EngineTypeOK, RecoveryTypeOK
<1>13. ArgInv' /\ ChargeInv'
  BY <1>1, <1>3, <1>8 DEF ArgInv, ChargeInv, BeforeCall
<1>14. ViewInv'
  BY <1>1, <1>2, <1>3, <1>7, <1>8 DEF ViewInv, ArgInv, Arg, Sessions
<1>15. LockInv'
  BY <1>1, <1>3, <1>8 DEF LockInv, InWindow, Live
<1>16. ClaimInv' /\ OneAttemptPerKey'
  <2>1. OneAttemptPerKey'
    BY <1>3 DEF OneAttemptPerKey
  <2>2. \A q \in Requests :
          claim'[q] # NoClaim =>
            /\ claim[q] # NoClaim /\ claim'[q] \in Attempt
            /\ claim'[q].tx = claim[q].tx /\ claim'[q].key = claim[q].key
            /\ claim'[q].status # "FAILED"
    <3>1. claim[r] # NoClaim
      BY <1>3 DEF ClaimInv, Dispatched
    <3> QED
      BY <1>1, <1>9, <3>1 DEF ClaimInv, Attempt
  <2>3. \A q \in Requests : pc'[q] \in Dispatched => claim'[q] # NoClaim
    <3>1. \A q \in Requests : pc'[q] \in Dispatched => claim'[q] = claim[q] /\ pc'[q] = pc[q]
      BY <1>3, <1>8, <1>9 DEF Dispatched
    <3> QED
      BY <3>1 DEF ClaimInv
  <2> QED
    BY <1>3, <1>8, <2>1, <2>2, <2>3 DEF ClaimInv
<1>17. ConfirmInv(B)'
  <2>1. Loaded(r, t).state = "COMMITTED" => t \in confirmed \/ t \in B
    BY <1>1, LoadedVouched DEF Sessions
  <2>2. o = "SUCCESS" => t \in confirmed
    BY <1>1
  <2>3. \A v \in Txs : v \in confirmed => v \in confirmed'
    BY <1>3
  <2>4. \A v \in Txs :
          db'[v].state = "COMMITTED" \/ outbox'[v]["PAYMENT_COMMITTED"] > 0
            => v \in confirmed' \/ v \in B
    BY <1>3, <2>3 DEF ConfirmInv
  <2>5. \A u \in Sessions \ Deliveries, v \in Txs :
          view'[u][v].state = "COMMITTED" => v \in confirmed' \/ v \in B
    BY <1>1, <1>2, <1>7, <2>1, <2>2, <2>3 DEF ConfirmInv, Vouched
  <2>6. \A u \in Sessions \ Deliveries, v \in Txs :
          <<v, "PAYMENT_COMMITTED">> \in events'[u] => v \in confirmed' \/ v \in B
    BY <1>1, <1>6, <1>10, <2>2, <2>3 DEF ConfirmInv, Vouched
  <2> QED
    BY <2>4, <2>5, <2>6 DEF ConfirmInv, Vouched
<1>18. AskInv'
  BY <1>3 DEF AskInv, Oldest
<1> QED
  BY <1>12, <1>13, <1>14, <1>15, <1>16, <1>17, <1>18 DEF TypeOK

---------------------------------------------------------------------------------
(* The end of a unit of work *)

(* What a commit or a rollback of session s changes, point by point. *)
LEMMA SessionEnds ==
  ASSUME NEW B, IInv(B), NEW s \in Sessions, Commit(s) \/ Rollback(s)
  PROVE  /\ StoreTypeOK'
         /\ \A t \in Txs : lock'[t] = IF lock[t] = s THEN Nobody ELSE lock[t]
         /\ \A u \in Sessions, t \in Txs :
              view'[u][t] = IF u = s THEN NotLoaded ELSE view[u][t]
         /\ \A u \in Sessions : events'[u] = IF u = s THEN {} ELSE events[u]
         /\ \A q \in Requests : claim'[q] = IF q = s THEN NoClaim ELSE claim[q]
         /\ \A t \in Txs : db'[t] = db[t] \/ (lock[t] = s /\ db'[t] = view[s][t])
         /\ \A t \in Txs : outbox'[t]["PAYMENT_COMMITTED"] > 0 =>
              outbox[t]["PAYMENT_COMMITTED"] > 0 \/ <<t, "PAYMENT_COMMITTED">> \in events[s]
         /\ \/ attempts' = attempts
            \/ s \in Requests /\ claim[s] # NoClaim /\ attempts' \subseteq attempts \cup {claim[s]}
<1> USE DEF IInv, TypeOK, StoreTypeOK
<1>1. Release(s)
  BY DEF Commit, Rollback
<1>2. /\ lock' \in [Txs -> Sessions \cup {Nobody}]
      /\ \A t \in Txs : lock'[t] = IF lock[t] = s THEN Nobody ELSE lock[t]
  BY <1>1 DEF Release
<1>3. /\ view' \in [Sessions -> [Txs -> Row \cup {NotLoaded}]]
      /\ \A u \in Sessions, t \in Txs :
           view'[u][t] = IF u = s THEN NotLoaded ELSE view[u][t]
  BY <1>1 DEF Release
<1>4. /\ events' \in [Sessions -> SUBSET (Txs \X EventType)]
      /\ \A u \in Sessions : events'[u] = IF u = s THEN {} ELSE events[u]
  BY <1>1 DEF Release
<1>5. /\ claim' \in [Requests -> Attempt \cup {NoClaim}]
      /\ \A q \in Requests : claim'[q] = IF q = s THEN NoClaim ELSE claim[q]
  <2>1. CASE s \in Requests
    BY <1>1, <2>1 DEF Release
  <2>2. CASE s \notin Requests
    BY <1>1, <2>2 DEF Release
  <2> QED
    BY <2>1, <2>2
<1>6. /\ db' \in [Txs -> Row]
      /\ \A t \in Txs : db'[t] = db[t] \/ (lock[t] = s /\ db'[t] = view[s][t])
  BY DEF Commit, Rollback, ViewInv
<1>7. /\ outbox' \in [Txs -> [EventType -> Nat]]
      /\ \A t \in Txs : outbox'[t]["PAYMENT_COMMITTED"] > 0 =>
           outbox[t]["PAYMENT_COMMITTED"] > 0 \/ <<t, "PAYMENT_COMMITTED">> \in events[s]
  <2>1. CASE Rollback(s)
    BY <2>1 DEF Rollback
  <2>2. CASE Commit(s)
    BY <2>2 DEF Commit, EventType
  <2> QED
    BY <2>1, <2>2
<1>8. \/ attempts' = attempts
      \/ s \in Requests /\ claim[s] # NoClaim /\ attempts' \subseteq attempts \cup {claim[s]}
  BY DEF Commit, Rollback
<1>9. attempts' \subseteq Attempt
  BY <1>8
<1> QED
  BY <1>2, <1>3, <1>4, <1>5, <1>6, <1>7, <1>8, <1>9

(* Parts of the invariant that every end of a unit of work keeps. *)
LEMMA SessionEndsInv ==
  ASSUME NEW B, IInv(B), NEW s \in Sessions, Commit(s) \/ Rollback(s),
         UNCHANGED <<charge, arg>>, confirmed \subseteq confirmed', Rollback(s) \/ Vouched(B, s), s \in Requests => pc[s] # "idle",
         \A q \in Requests : pc'[q] = IF q = s THEN "done" ELSE pc[q]
  PROVE  /\ StoreTypeOK' /\ ArgInv' /\ ViewInv' /\ LockInv'
         /\ ClaimInv' /\ OneAttemptPerKey' /\ ConfirmInv(B)'
<1> USE DEF IInv
<1>1. StoreTypeOK'
  BY SessionEnds
<1>2. ArgInv'
  BY DEF ArgInv
<1>3. \A t \in Txs : lock'[t] = IF lock[t] = s THEN Nobody ELSE lock[t]
  BY SessionEnds
<1>4. \A u \in Sessions, t \in Txs : view'[u][t] = IF u = s THEN NotLoaded ELSE view[u][t]
  BY SessionEnds
<1>5. \A q \in Requests : claim'[q] = IF q = s THEN NoClaim ELSE claim[q]
  BY SessionEnds
<1>6. \A r \in Requests : pc[r] # "idle" => arg[r].tx \in Txs
  BY DEF ArgInv, Arg
<1>7. ViewInv'
  <2>1. \A r \in Requests :
          pc'[r] \notin {"idle", "read", "done"} => view'[r][arg'[r].tx] \in Row
    BY <1>4, <1>6 DEF ViewInv, Sessions
  <2>2. \A t \in Txs, u \in Sessions : lock'[t] = u => view'[u][t] \in Row
    BY <1>3, <1>4, StoreAssumption DEF ViewInv
  <2> QED
    BY <2>1, <2>2 DEF ViewInv
<1>8. LockInv'
  <2>1. \A r \in Requests : InWindow(r)' => InWindow(r) /\ r # s
    BY DEF InWindow
  <2>2. \A r \in Requests : InWindow(r)' => lock'[arg'[r].tx] = r
    BY <1>3, <1>6, <2>1 DEF LockInv, InWindow
  <2>3. \A t \in Txs, r \in Requests : lock'[t] = r => Live(r)' /\ arg'[r].tx = t
    <3>1. \A t \in Txs, r \in Requests : lock'[t] = r => lock[t] = r /\ r # s
      BY <1>3, StoreAssumption DEF Sessions
    <3>2. \A r \in Requests : Live(r) /\ r # s => Live(r)'
      BY DEF Live
    <3> QED
      BY <3>1, <3>2 DEF LockInv
  <2> QED
    BY <2>2, <2>3 DEF LockInv
<1>9. \A r \in Requests : claim'[r] # NoClaim =>
        /\ r # s /\ claim'[r] = claim[r] /\ claim[r] # NoClaim /\ pc'[r] = pc[r]
        /\ lock'[arg[r].tx] = r
  BY <1>3, <1>5, <1>6 DEF ClaimInv, Dispatched
<1>10. \A a \in attempts' :
         \/ a \in attempts
         \/ s \in Requests /\ claim[s] # NoClaim /\ a = claim[s]
  BY SessionEnds
<1>11. ClaimInv'
  <2>1. \A r \in Requests : claim'[r] # NoClaim =>
          \A a \in attempts' : ~(a.tx = arg[r].tx /\ a.key = arg[r].key)
    <3> SUFFICES ASSUME NEW r \in Requests, claim'[r] # NoClaim,
                        NEW a \in attempts', a.tx = arg[r].tx
                 PROVE  a.key # arg[r].key
      OBVIOUS
    <3>1. CASE a \in attempts
      BY <1>9, <3>1 DEF ClaimInv
    <3>2. CASE s \in Requests /\ claim[s] # NoClaim /\ a = claim[s]
      BY <1>9, <3>2 DEF ClaimInv
    <3> QED
      BY <1>10, <3>1, <3>2
  <2>2. \A r \in Requests : pc'[r] \in Dispatched => claim'[r] # NoClaim
    BY <1>5 DEF ClaimInv, Dispatched
  <2>3. \A a \in attempts' : a.status # "FAILED"
    BY <1>10 DEF ClaimInv
  <2> QED
    BY <1>9, <2>1, <2>2, <2>3 DEF ClaimInv
<1>12. OneAttemptPerKey'
  <2> SUFFICES ASSUME NEW a \in attempts', NEW b \in attempts', a.tx = b.tx, a.key = b.key
               PROVE  a = b
    BY DEF OneAttemptPerKey
  <2>1. CASE a \in attempts /\ b \in attempts
    BY <2>1 DEF OneAttemptPerKey
  <2>2. CASE s \in Requests /\ claim[s] # NoClaim /\ (a = claim[s] \/ b = claim[s])
    BY <1>10, <2>2 DEF ClaimInv
  <2> QED
    BY <1>10, <2>1, <2>2
<1>13. ConfirmInv(B)'
  <2>1. \A t \in Txs : t \in confirmed => t \in confirmed'
    OBVIOUS
  <2>2. NotLoaded.state # "COMMITTED"
    BY DEF NotLoaded
  <2>3. \A t \in Txs : db'[t].state = "COMMITTED" => t \in confirmed \/ t \in B
    <3>1. \A t \in Txs : db'[t] = db[t] \/ (~Rollback(s) /\ db'[t] = view[s][t])
      BY SessionEnds DEF Rollback
    <3> QED
      BY <3>1 DEF ConfirmInv, Vouched
  <2>4. \A t \in Txs : outbox'[t]["PAYMENT_COMMITTED"] > 0 => t \in confirmed \/ t \in B
    <3>1. CASE Rollback(s)
      BY <3>1 DEF Rollback, ConfirmInv
    <3>2. CASE Vouched(B, s)
      BY <3>2, SessionEnds DEF ConfirmInv, Vouched
    <3> QED
      BY <3>1, <3>2
  <2>5. \A u \in Sessions \ Deliveries, t \in Txs :
          view'[u][t].state = "COMMITTED" => t \in confirmed \/ t \in B
    BY <1>4, <2>2 DEF ConfirmInv, Vouched
  <2>6. \A u \in Sessions \ Deliveries, t \in Txs :
          <<t, "PAYMENT_COMMITTED">> \in events'[u] => t \in confirmed \/ t \in B
    BY SessionEnds DEF ConfirmInv, Vouched
  <2> QED
    BY <2>1, <2>3, <2>4, <2>5, <2>6 DEF ConfirmInv, Vouched
<1> QED
  BY <1>1, <1>2, <1>7, <1>8, <1>11, <1>12, <1>13

(* The locks of workers and reconcile calls survive the end of another     *)
(* session.                                                                *)
LEMMA SessionEndsAsk ==
  ASSUME NEW B, IInv(B), NEW s \in Sessions, Commit(s) \/ Rollback(s), UNCHANGED ctx,
         \A w \in Recoverers : wpc'[w] = "ask" => wpc[w] = "ask" /\ w # s /\ todo'[w] = todo[w],
         \A c \in Reconcilers : cpc'[c] = "ask" => cpc[c] = "ask" /\ c # s,
         \A c \in Reconcilers : cpc'[c] # "idle" => cpc[c] # "idle"
  PROVE  AskInv'
<1> USE DEF IInv
<1>1. \A t \in Txs : lock'[t] = IF lock[t] = s THEN Nobody ELSE lock[t]
  BY SessionEnds
<1> QED
  BY <1>1 DEF AskInv, Oldest

(* Commit or rollback by the caller keeps the invariant. *)
LEMMA CallerEndsInv ==
  ASSUME NEW B, IInv(B), NEW r \in Requests, UNCHANGED recoveryVars,
         CallerCommits(r) \/ CallerRollsBack(r)
  PROVE  IInv(B)'
<1> USE DEF IInv, recoveryVars
<1>1. /\ Commit(r) \/ Rollback(r)
      /\ pc[r] \in {"return", "raise"} /\ pc' = [pc EXCEPT ![r] = "done"]
      /\ UNCHANGED <<arg, outcome, res, charge, confirmed, results, inflight>>
  BY DEF CallerCommits, CallerRollsBack, Goto
<1>2. /\ pc' \in [Requests -> Step]
      /\ \A q \in Requests : pc'[q] = IF q = r THEN "done" ELSE pc[q]
  BY <1>1 DEF TypeOK, EngineTypeOK, Step
<1>3. EngineTypeOK' /\ RecoveryTypeOK'
  BY <1>1, <1>2 DEF TypeOK, EngineTypeOK, RecoveryTypeOK
<1>4. ChargeInv'
  BY <1>1, <1>2 DEF ChargeInv, BeforeCall
<1>5. r \in Sessions /\ r \notin Recoverers /\ r \notin Reconcilers
  BY StoreAssumption DEF Sessions
<1>6. AskInv'
  BY <1>1, <1>5, SessionEndsAsk
<1>7. /\ StoreTypeOK' /\ ArgInv' /\ ViewInv' /\ LockInv'
      /\ ClaimInv' /\ OneAttemptPerKey' /\ ConfirmInv(B)'
  BY <1>1, <1>2, <1>5, NoDelivery, SessionEndsInv DEF ConfirmInv
<1> QED
  BY <1>3, <1>4, <1>6, <1>7 DEF TypeOK

(* A crash ends the sessions of all live requests of a process at once. *)
LEMMA CrashInv ==
  ASSUME NEW B, IInv(B), NEW p \in Procs, UNCHANGED recoveryVars, Crash(p)
  PROVE  IInv(B)'
<1> DEFINE dead == {r \in Requests : ProcOf[r] = p /\ Live(r)}
<1> USE DEF IInv, recoveryVars
<1>1. /\ \A t \in Txs : lock'[t] = IF lock[t] \in dead THEN Nobody ELSE lock[t]
      /\ lock' \in [Txs -> Sessions \cup {Nobody}]
  BY DEF Crash, TypeOK, StoreTypeOK
<1>2. /\ \A u \in Sessions, t \in Txs :
           view'[u][t] = IF u \in dead THEN NotLoaded ELSE view[u][t]
      /\ view' \in [Sessions -> [Txs -> Row \cup {NotLoaded}]]
  BY DEF Crash, TypeOK, StoreTypeOK
<1>3. /\ \A u \in Sessions : events'[u] = IF u \in dead THEN {} ELSE events[u]
      /\ events' \in [Sessions -> SUBSET (Txs \X EventType)]
  BY DEF Crash, TypeOK, StoreTypeOK
<1>4. /\ \A r \in Requests : claim'[r] = IF r \in dead THEN NoClaim ELSE claim[r]
      /\ claim' \in [Requests -> Attempt \cup {NoClaim}]
  BY DEF Crash, TypeOK, StoreTypeOK
<1>5. /\ \A r \in Requests : pc'[r] = IF r \in dead THEN "done" ELSE pc[r]
      /\ pc' \in [Requests -> Step]
  BY DEF Crash, TypeOK, EngineTypeOK, Step
<1>6. UNCHANGED <<db, attempts, outbox, arg, outcome, res, charge, confirmed>>
  BY DEF Crash
<1>7. \A r \in dead : r \in Requests /\ pc[r] # "idle"
  BY DEF Live
<1>8. /\ results' \in [Procs -> [Txs -> Result \cup {"none"}]]
      /\ inflight' \in [Procs -> SUBSET Txs]
  BY DEF Crash, TypeOK, EngineTypeOK
<1> HIDE DEF dead
<1>9. StoreTypeOK' /\ EngineTypeOK' /\ RecoveryTypeOK'
  BY <1>1, <1>2, <1>3, <1>4, <1>5, <1>6, <1>8
     DEF TypeOK, StoreTypeOK, EngineTypeOK, RecoveryTypeOK
<1>10. \A r \in Requests : pc[r] # "idle" => arg[r].tx \in Txs
  BY DEF ArgInv, Arg
<1>11. ArgInv' /\ ChargeInv'
  BY <1>5, <1>6, <1>7 DEF ArgInv, ChargeInv, BeforeCall
<1>12. ViewInv'
  <2>1. \A r \in Requests :
          pc'[r] \notin {"idle", "read", "done"} => view'[r][arg'[r].tx] \in Row
    BY <1>2, <1>5, <1>6, <1>10 DEF ViewInv, Sessions
  <2>2. \A t \in Txs, u \in Sessions : lock'[t] = u => view'[u][t] \in Row
    <3> SUFFICES ASSUME NEW t \in Txs, NEW u \in Sessions, lock'[t] = u
                 PROVE  view'[u][t] \in Row
      OBVIOUS
    <3>1. Nobody \notin Sessions
      BY StoreAssumption
    <3>2. lock[t] = u /\ u \notin dead
      BY <1>1, <3>1
    <3>3. view[u][t] \in Row
      BY <3>2 DEF ViewInv
    <3> QED
      BY <1>2, <3>2, <3>3
  <2> QED
    BY <2>1, <2>2 DEF ViewInv
<1>13. LockInv'
  <2>1. \A r \in Requests : InWindow(r)' => lock'[arg'[r].tx] = r
    BY <1>1, <1>5, <1>6, <1>10 DEF LockInv, InWindow
  <2>2. \A t \in Txs, r \in Requests : lock'[t] = r => lock[t] = r /\ r \notin dead
    BY <1>1, StoreAssumption DEF Sessions
  <2>3. \A r \in Requests : Live(r) /\ r \notin dead => Live(r)'
    BY <1>5 DEF Live
  <2> QED
    BY <1>6, <2>1, <2>2, <2>3 DEF LockInv
<1>14. ClaimInv' /\ OneAttemptPerKey'
  <2>1. \A r \in Requests : claim'[r] # NoClaim =>
          /\ claim'[r] = claim[r] /\ claim[r] # NoClaim /\ pc'[r] = pc[r]
          /\ lock'[arg[r].tx] = r
    BY <1>1, <1>4, <1>5, <1>10 DEF ClaimInv, Dispatched
  <2>2. \A r \in Requests : pc'[r] \in Dispatched => claim'[r] # NoClaim
    BY <1>4, <1>5 DEF ClaimInv, Dispatched
  <2>3. ClaimInv'
    BY <1>6, <2>1, <2>2 DEF ClaimInv
  <2> QED
    BY <1>6, <2>3 DEF OneAttemptPerKey
<1>15. ConfirmInv(B)'
  <2>1. NotLoaded.state # "COMMITTED"
    BY DEF NotLoaded
  <2>2. \A t \in Txs : t \in confirmed => t \in confirmed'
    BY <1>6
  <2> QED
    BY <1>2, <1>3, <1>6, <2>1, <2>2 DEF ConfirmInv, Vouched
<1>16. AskInv'
  <2>1. \A u \in Recoverers \cup Reconcilers : u \notin dead
    BY <1>7, StoreAssumption
  <2>2. \A u \in Recoverers \cup Reconcilers, t \in Txs : lock[t] = u => lock'[t] = u
    BY <1>1, <2>1
  <2> QED
    BY <2>2 DEF AskInv, Oldest
<1> QED
  BY <1>9, <1>11, <1>12, <1>13, <1>14, <1>15, <1>16 DEF TypeOK

---------------------------------------------------------------------------------
(* Recovery workers and reconcile calls *)

(* A worker or a reconcile call locks and loads one row. *)
LEMMA LockAndLoadInv ==
  ASSUME NEW B, IInv(B), NEW s \in Recoverers \cup Reconcilers, NEW t \in Txs, LockAndLoad(s, t),
         UNCHANGED <<db, attempts, outbox, claim, events, engineVars>>
  PROVE  /\ StoreTypeOK' /\ EngineTypeOK' /\ ArgInv' /\ ViewInv' /\ LockInv'
         /\ ClaimInv' /\ OneAttemptPerKey' /\ ChargeInv' /\ ConfirmInv(B)'
         /\ \A v \in Txs : lock'[v] = IF v = t THEN s ELSE lock[v]
         /\ lock[t] \in {Nobody, s}
<1> USE DEF IInv, engineVars, callVars
<1>1. s \in Sessions /\ s \notin Requests /\ Loaded(s, t) \in Row
  BY StoreAssumption, LoadedRow DEF Sessions, TypeOK
<1>2. /\ lock' \in [Txs -> Sessions \cup {Nobody}]
      /\ \A v \in Txs : lock'[v] = IF v = t THEN s ELSE lock[v]
      /\ lock[t] \in {Nobody, s}
  BY <1>1 DEF LockAndLoad, CanLock, TypeOK, StoreTypeOK
<1>3. /\ view' \in [Sessions -> [Txs -> Row \cup {NotLoaded}]]
      /\ \A u \in Sessions, v \in Txs :
           view'[u][v] = IF u = s /\ v = t THEN Loaded(s, t) ELSE view[u][v]
  <2>1. StoreTypeOK
    BY DEF TypeOK
  <2> QED
    BY <1>1, <2>1 DEF StoreTypeOK, LockAndLoad
<1>4. StoreTypeOK' /\ EngineTypeOK' /\ ArgInv' /\ ChargeInv'
  BY <1>2, <1>3 DEF TypeOK, StoreTypeOK, EngineTypeOK, ArgInv, ChargeInv
<1>5. ViewInv'
  BY <1>1, <1>2, <1>3 DEF ViewInv, ArgInv, Arg, Sessions
<1>6. \A v \in Txs, r \in Requests : lock'[v] = r <=> lock[v] = r
  BY <1>1, <1>2, StoreAssumption DEF Sessions
<1>7. LockInv' /\ ClaimInv' /\ OneAttemptPerKey'
  <2>1. \A r \in Requests : pc[r] # "idle" => arg[r].tx \in Txs
    BY DEF ArgInv, Arg
  <2>2. LockInv'
    BY <1>6, <2>1 DEF LockInv, InWindow, Live
  <2>3. ClaimInv'
    BY <1>6, <2>1 DEF ClaimInv, Dispatched
  <2> QED
    BY <2>2, <2>3 DEF OneAttemptPerKey
<1>8. ConfirmInv(B)'
  <2>1. Loaded(s, t).state = "COMMITTED" => t \in confirmed \/ t \in B
    BY <1>1, LoadedVouched
  <2> QED
    BY <1>3, <2>1 DEF ConfirmInv, Vouched
<1> QED
  BY <1>2, <1>4, <1>5, <1>7, <1>8

(* The scan for stuck transactions keeps the invariant. *)
LEMMA ScanInv ==
  ASSUME NEW B, IInv(B), NEW w \in Recoverers, Scan(w)
  PROVE  IInv(B)'
<1> USE DEF IInv, Scan, storeVars, engineVars, callVars
<1>1. StoreTypeOK' /\ EngineTypeOK' /\ RecoveryTypeOK'
  BY DEF TypeOK, StoreTypeOK, EngineTypeOK, RecoveryTypeOK
<1>2. ArgInv' /\ ViewInv' /\ LockInv' /\ ClaimInv' /\ OneAttemptPerKey' /\ ChargeInv'
  BY DEF ArgInv, ViewInv, LockInv, InWindow, Live, ClaimInv, OneAttemptPerKey, ChargeInv
<1>3. ConfirmInv(B)'
  BY DEF ConfirmInv, Vouched
<1>4. AskInv'
  BY DEF AskInv, Oldest, TypeOK, RecoveryTypeOK
<1> QED
  BY <1>1, <1>2, <1>3, <1>4 DEF TypeOK

(* Locking the next row of a batch keeps the invariant. *)
LEMMA LockStuckInv ==
  ASSUME NEW B, IInv(B), NEW w \in Recoverers, LockStuck(w)
  PROVE  IInv(B)'
<1> USE DEF IInv
<1>1. PICK t \in Txs :
        /\ Oldest(w, t) /\ LockAndLoad(w, t)
        /\ \/ todo' = [todo EXCEPT ![w] = @ \ {t}] /\ UNCHANGED wpc
           \/ wpc' = [wpc EXCEPT ![w] = "ask"] /\ UNCHANGED todo
  BY DEF LockStuck
<1>2. /\ UNCHANGED <<db, attempts, outbox, claim, events, engineVars, cpc, ctx>>
      /\ wpc[w] = "batch"
  BY DEF LockStuck
<1>3. /\ StoreTypeOK' /\ EngineTypeOK' /\ ArgInv' /\ ViewInv' /\ LockInv'
      /\ ClaimInv' /\ OneAttemptPerKey' /\ ChargeInv' /\ ConfirmInv(B)'
      /\ \A v \in Txs : lock'[v] = IF v = t THEN w ELSE lock[v]
      /\ lock[t] \in {Nobody, w}
  BY <1>1, <1>2, LockAndLoadInv
<1>4. RecoveryTypeOK'
  BY <1>1, <1>2 DEF TypeOK, RecoveryTypeOK
<1>5. AskInv'
  <2>1. \A x \in Recoverers \ {w} : wpc'[x] = wpc[x] /\ todo'[x] = todo[x]
    BY <1>1 DEF TypeOK, RecoveryTypeOK
  <2>2. wpc'[w] = "ask" => todo'[w] = todo[w]
    BY <1>1, <1>2
  <2>3. \A u \in Txs : Oldest(w, u) => u = t
    BY <1>1, StoreAssumption DEF Oldest
  <2>4. \A x \in Recoverers, u \in Txs : wpc'[x] = "ask" /\ Oldest(x, u)' => lock'[u] = x
    <3> SUFFICES ASSUME NEW x \in Recoverers, NEW u \in Txs, wpc'[x] = "ask", Oldest(x, u)'
                 PROVE  lock'[u] = x
      OBVIOUS
    <3>1. CASE x = w
      BY <1>3, <2>2, <2>3, <3>1 DEF Oldest
    <3>2. CASE x # w
      BY <1>3, <2>1, <3>2, StoreAssumption DEF AskInv, Oldest, Sessions
    <3> QED
      BY <3>1, <3>2
  <2>5. \A c \in Reconcilers : cpc[c] = "ask" => lock'[ctx[c]] = c
    BY <1>3, StoreAssumption DEF AskInv, Sessions
  <2> QED
    BY <1>2, <2>4, <2>5 DEF AskInv
<1> QED
  BY <1>3, <1>4, <1>5 DEF TypeOK

(* A worker or a reconcile call changes a row it has locked. *)
LEMMA ApplyInv ==
  ASSUME NEW B, IInv(B), NEW s \in Recoverers \cup Reconcilers, NEW t \in Txs, lock[t] = s,
         confirmed \subseteq confirmed', confirmed' \subseteq Txs,
         NEW row \in Row, row.state = "COMMITTED" => t \in confirmed' \/ t \in B,
         view' = [view EXCEPT ![s][t] = row],
         NEW e \in SUBSET ({t} \X EventType),
         <<t, "PAYMENT_COMMITTED">> \in e => t \in confirmed' \/ t \in B,
         events' = [events EXCEPT ![s] = events[s] \cup e],
         UNCHANGED <<db, attempts, outbox, lock, claim, callVars>>
  PROVE  /\ StoreTypeOK' /\ EngineTypeOK' /\ ArgInv' /\ ViewInv' /\ LockInv'
         /\ ClaimInv' /\ OneAttemptPerKey' /\ ChargeInv' /\ ConfirmInv(B)'
<1> USE DEF IInv, callVars
<1>1. s \in Sessions /\ s \notin Requests
  BY StoreAssumption DEF Sessions
<1>2. /\ view' \in [Sessions -> [Txs -> Row \cup {NotLoaded}]]
      /\ \A u \in Sessions, v \in Txs :
           view'[u][v] = IF u = s /\ v = t THEN row ELSE view[u][v]
  BY <1>1 DEF TypeOK, StoreTypeOK
<1>3. /\ events' \in [Sessions -> SUBSET (Txs \X EventType)]
      /\ \A u \in Sessions : events'[u] = IF u = s THEN events[u] \cup e ELSE events[u]
  <2>1. events \in [Sessions -> SUBSET (Txs \X EventType)]
    BY DEF TypeOK, StoreTypeOK
  <2>2. e \subseteq Txs \X EventType
    OBVIOUS
  <2> QED
    BY <1>1, <2>1, <2>2
<1>4. StoreTypeOK' /\ EngineTypeOK' /\ ArgInv' /\ ChargeInv'
  BY <1>2, <1>3 DEF TypeOK, StoreTypeOK, EngineTypeOK, ArgInv, ChargeInv
<1>5. ViewInv'
  BY <1>1, <1>2 DEF ViewInv, ArgInv, Arg, Sessions
<1>6. LockInv' /\ ClaimInv' /\ OneAttemptPerKey'
  BY DEF LockInv, InWindow, Live, ClaimInv, OneAttemptPerKey
<1>7. ConfirmInv(B)'
  <2>1. \A v \in Txs : v \in confirmed => v \in confirmed'
    OBVIOUS
  <2>2. \A u \in Sessions \ Deliveries, v \in Txs :
          view'[u][v].state = "COMMITTED" => v \in confirmed' \/ v \in B
    <3>1. \A u \in Sessions \ Deliveries, v \in Txs :
          view[u][v].state = "COMMITTED" => v \in confirmed \/ v \in B
      BY DEF ConfirmInv, Vouched
    <3> QED
      BY <1>2, <2>1, <3>1
  <2>3. \A u \in Sessions \ Deliveries, v \in Txs :
          <<v, "PAYMENT_COMMITTED">> \in events'[u] => v \in confirmed' \/ v \in B
    BY <1>3, <2>1 DEF ConfirmInv, Vouched
  <2> QED
    BY <2>1, <2>2, <2>3 DEF ConfirmInv, Vouched
<1> QED
  BY <1>4, <1>5, <1>6, <1>7

(* The events of an outcome, and when they announce a commit. *)
LEMMA FinalEventRange ==
  ASSUME NEW t, NEW o \in Outcome
  PROVE  /\ FinalEvent(t, o) \in SUBSET ({t} \X EventType)
         /\ o # "SUCCESS" => <<t, "PAYMENT_COMMITTED">> \notin FinalEvent(t, o)
<1>1. CASE o = "SUCCESS"
  BY <1>1 DEF FinalEvent, EventType
<1>2. CASE o = "FAILED"
  BY <1>2 DEF FinalEvent, EventType
<1>3. CASE o = "UNKNOWN"
  BY <1>3 DEF FinalEvent
<1> QED
  BY <1>1, <1>2, <1>3 DEF Outcome

(* A status query answers with one of the outcomes. *)
LEMMA StatusRange ==
  ASSUME NEW t \in Txs
  PROVE  StatusAnswers(t) \subseteq Outcome
BY DEF StatusAnswers, HttpStatusAnswers, MockStatusAnswers, Outcome

(* Only the calls it knows to have failed make it answer FAILED. *)
LEMMA FailedAnswer ==
  ASSUME NEW t \in Txs, "FAILED" \in StatusAnswers(t)
  PROVE  \A r \in CallsFor(t) : charge[r] = "failed"
BY DEF StatusAnswers, HttpStatusAnswers, MockStatusAnswers

(* Applying the provider's answer to a stuck row keeps the invariant. *)
LEMMA ReconcileStuckInv ==
  ASSUME NEW B, IInv(B), NEW w \in Recoverers, ReconcileStuck(w)
  PROVE  IInv(B)'
<1> USE DEF IInv
<1>1. PICK t \in Txs, o \in Outcome :
        /\ o \in StatusAnswers(t) /\ Report(t, o)
        /\ Oldest(w, t)
        /\ IF o = "UNKNOWN"
           THEN UNCHANGED <<view, events>>
           ELSE /\ view' = [view EXCEPT ![w][t] = RowAfter(view[w][t], FinalPath(o), o)]
                /\ events' = IF PathLegal(view[w][t].state, FinalPath(o))
                             THEN [events EXCEPT ![w] = @ \cup FinalEvent(t, o)]
                             ELSE events
        /\ todo' = [todo EXCEPT ![w] = @ \ {t}]
  BY StatusRange DEF ReconcileStuck
<1>2. /\ wpc[w] = "ask" /\ wpc' = [wpc EXCEPT ![w] = "batch"]
      /\ UNCHANGED <<db, attempts, outbox, lock, claim, callVars, cpc, ctx>>
  BY DEF ReconcileStuck
<1>3. /\ w \in Sessions /\ lock[t] = w /\ view[w][t] \in Row
      /\ o = "SUCCESS" => t \in confirmed'
      /\ confirmed \subseteq confirmed' /\ confirmed' \subseteq Txs
  BY <1>1, <1>2 DEF AskInv, ViewInv, Sessions, Report, TypeOK, EngineTypeOK
<1> DEFINE row == IF o = "UNKNOWN" THEN view[w][t] ELSE RowAfter(view[w][t], FinalPath(o), o)
<1> DEFINE e == IF o # "UNKNOWN" /\ PathLegal(view[w][t].state, FinalPath(o))
                THEN FinalEvent(t, o) ELSE {}
<1>4. row \in Row /\ (row.state = "COMMITTED" => t \in confirmed' \/ t \in B)
  <2>1. view[w][t].state = "COMMITTED" => t \in confirmed \/ t \in B
    BY <1>3, NoDelivery DEF ConfirmInv, Vouched
  <2> QED
    BY <1>1, <1>3, <2>1, FinalPathAfter DEF RowAfter, Row, ProviderStatus, Outcome
<1>5. /\ e \in SUBSET ({t} \X EventType)
      /\ <<t, "PAYMENT_COMMITTED">> \in e => t \in confirmed' \/ t \in B
  BY <1>1, <1>3, FinalEventRange
<1>6. view' = [view EXCEPT ![w][t] = row]
  BY <1>1, <1>3 DEF TypeOK, StoreTypeOK
<1>7. events' = [events EXCEPT ![w] = events[w] \cup e]
  BY <1>1, <1>3 DEF TypeOK, StoreTypeOK
<1> HIDE DEF row, e
<1>8. /\ StoreTypeOK' /\ EngineTypeOK' /\ ArgInv' /\ ViewInv' /\ LockInv'
      /\ ClaimInv' /\ OneAttemptPerKey' /\ ChargeInv' /\ ConfirmInv(B)'
  BY <1>2, <1>3, <1>4, <1>5, <1>6, <1>7, ApplyInv
<1>9. RecoveryTypeOK' /\ AskInv'
  BY <1>1, <1>2 DEF TypeOK, RecoveryTypeOK, AskInv, Oldest
<1> QED
  BY <1>8, <1>9 DEF TypeOK

(* Commit or loss of a batch keeps the invariant. *)
LEMMA BatchEndsInv ==
  ASSUME NEW B, IInv(B), NEW w \in Recoverers, CommitBatch(w) \/ AbortBatch(w)
  PROVE  IInv(B)'
<1> USE DEF IInv
<1>1. /\ Commit(w) \/ Rollback(w)
      /\ wpc' = [wpc EXCEPT ![w] = "poll"] /\ todo' = [todo EXCEPT ![w] = {}]
      /\ UNCHANGED <<engineVars, cpc, ctx>>
  BY DEF CommitBatch, AbortBatch, TypeOK, RecoveryTypeOK
<1>2. w \in Sessions /\ w \notin Requests /\ w \notin Reconcilers
  BY StoreAssumption DEF Sessions
<1>3. EngineTypeOK' /\ RecoveryTypeOK' /\ ChargeInv'
  BY <1>1 DEF TypeOK, EngineTypeOK, RecoveryTypeOK, ChargeInv, engineVars, callVars
<1>4. /\ StoreTypeOK' /\ ArgInv' /\ ViewInv' /\ LockInv'
      /\ ClaimInv' /\ OneAttemptPerKey' /\ ConfirmInv(B)'
  <2>1. Vouched(B, w)
    BY NoDelivery DEF ConfirmInv
  <2>2. UNCHANGED <<pc, charge, arg, confirmed>> /\ IInv(B)
    BY <1>1 DEF engineVars, callVars
  <2> HIDE DEF IInv
  <2> QED
    BY <1>1, <1>2, <2>1, <2>2, SessionEndsInv
<1>5. AskInv'
  BY <1>1, <1>2, SessionEndsAsk DEF TypeOK, RecoveryTypeOK
<1> QED
  BY <1>3, <1>4, <1>5 DEF TypeOK

(* The arrival of a reconcile call keeps the invariant. *)
LEMMA ReconcileCallInv ==
  ASSUME NEW B, IInv(B), NEW c \in Reconcilers, NEW t \in Txs, ReconcileCall(c, t)
  PROVE  IInv(B)'
<1> USE DEF IInv, ReconcileCall, storeVars, engineVars, callVars
<1>1. StoreTypeOK' /\ EngineTypeOK' /\ RecoveryTypeOK'
  BY DEF TypeOK, StoreTypeOK, EngineTypeOK, RecoveryTypeOK
<1>2. ArgInv' /\ ViewInv' /\ LockInv' /\ ClaimInv' /\ OneAttemptPerKey' /\ ChargeInv'
  BY DEF ArgInv, ViewInv, LockInv, InWindow, Live, ClaimInv, OneAttemptPerKey, ChargeInv
<1>3. ConfirmInv(B)'
  BY DEF ConfirmInv, Vouched
<1>4. AskInv'
  BY DEF AskInv, Oldest, TypeOK, RecoveryTypeOK
<1> QED
  BY <1>1, <1>2, <1>3, <1>4 DEF TypeOK

(* Locking the row of a reconcile call keeps the invariant. *)
LEMMA LockReconciledInv ==
  ASSUME NEW B, IInv(B), NEW c \in Reconcilers, LockReconciled(c)
  PROVE  IInv(B)'
<1> USE DEF IInv
<1>1. /\ cpc[c] = "lock" /\ ctx[c] \in Txs /\ LockAndLoad(c, ctx[c])
      /\ cpc' = [cpc EXCEPT ![c] = cpc'[c]] /\ cpc'[c] \in {"commit", "ask"}
      /\ UNCHANGED <<db, attempts, outbox, claim, events, engineVars, todo, wpc, ctx>>
  BY DEF LockReconciled, AskInv, TypeOK, RecoveryTypeOK
<1>2. /\ StoreTypeOK' /\ EngineTypeOK' /\ ArgInv' /\ ViewInv' /\ LockInv'
      /\ ClaimInv' /\ OneAttemptPerKey' /\ ChargeInv' /\ ConfirmInv(B)'
      /\ \A v \in Txs : lock'[v] = IF v = ctx[c] THEN c ELSE lock[v]
      /\ lock[ctx[c]] \in {Nobody, c}
  BY <1>1, LockAndLoadInv
<1>3. RecoveryTypeOK'
  BY <1>1 DEF TypeOK, RecoveryTypeOK
<1>4. AskInv'
  <2>1. \A w \in Recoverers, u \in Txs : wpc[w] = "ask" /\ Oldest(w, u) => lock'[u] = w
    <3>1. \A w \in Recoverers : w # Nobody /\ w # c
      BY StoreAssumption DEF Sessions
    <3>2. \A w \in Recoverers, u \in Txs : lock[u] = w => lock'[u] = w
      BY <1>2, <3>1
    <3> QED
      BY <3>2 DEF AskInv
  <2>2. \A d \in Reconcilers : cpc'[d] = "ask" => ctx[d] \in Txs /\ lock'[ctx[d]] = d
    <3>1. \A d \in Reconcilers \ {c} : cpc'[d] = "ask" => ctx[d] \in Txs /\ lock[ctx[d]] = d
      BY <1>1 DEF AskInv, TypeOK, RecoveryTypeOK
    <3>2. \A d \in Reconcilers : d # Nobody
      BY StoreAssumption DEF Sessions
    <3> QED
      BY <1>1, <1>2, <3>1, <3>2
  <2>3. \A d \in Reconcilers : cpc'[d] # "idle" => ctx[d] \in Txs
    BY <1>1 DEF AskInv, TypeOK, RecoveryTypeOK
  <2> QED
    BY <1>1, <2>1, <2>2, <2>3 DEF AskInv, Oldest
<1> QED
  BY <1>2, <1>3, <1>4 DEF TypeOK

(* A reconcile call ends with a commit or a rollback. *)
LEMMA ReconcileEnds ==
  ASSUME NEW B, IInv(B), NEW c \in Reconcilers, cpc[c] # "idle", Commit(c) \/ Rollback(c),
         cpc' = [cpc EXCEPT ![c] = "done"], UNCHANGED <<callVars, todo, wpc, ctx>>,
         confirmed \subseteq confirmed', confirmed' \subseteq Txs
  PROVE  IInv(B)'
<1> USE DEF IInv
<1>1. c \in Sessions /\ c \notin Requests /\ c \notin Recoverers
  BY StoreAssumption DEF Sessions
<1>2. EngineTypeOK' /\ RecoveryTypeOK' /\ ChargeInv'
  BY DEF TypeOK, EngineTypeOK, RecoveryTypeOK, ChargeInv, callVars
<1>3. /\ StoreTypeOK' /\ ArgInv' /\ ViewInv' /\ LockInv'
      /\ ClaimInv' /\ OneAttemptPerKey' /\ ConfirmInv(B)'
  <2>1. Vouched(B, c)
    BY NoDelivery DEF ConfirmInv
  <2>2. UNCHANGED <<pc, charge, arg>> /\ IInv(B)
    BY DEF callVars
  <2> HIDE DEF IInv
  <2> QED
    BY <1>1, <2>1, <2>2, SessionEndsInv
<1>4. AskInv'
  BY <1>1, SessionEndsAsk DEF TypeOK, RecoveryTypeOK
<1> QED
  BY <1>2, <1>3, <1>4 DEF TypeOK

(* Applying the provider's answer to a reconcile call keeps the invariant. *)
LEMMA ApplyReconciledInv ==
  ASSUME NEW B, IInv(B), NEW c \in Reconcilers, ApplyReconciled(c)
  PROVE  IInv(B)'
<1> USE DEF IInv
<1> DEFINE t == ctx[c]
<1>1. /\ cpc[c] = "ask" /\ c \in Sessions /\ t \in Txs /\ lock[t] = c /\ view[c][t] \in Row
      /\ UNCHANGED <<callVars, todo, wpc, ctx>>
      /\ confirmed \subseteq confirmed' /\ confirmed' \subseteq Txs
  BY DEF ApplyReconciled, AskInv, ViewInv, Sessions, Report, TypeOK, EngineTypeOK
<1>2. CASE Rollback(c) /\ cpc' = [cpc EXCEPT ![c] = "done"]
  BY <1>1, <1>2, ReconcileEnds
<1>3. ASSUME NEW row \in Row, row.state = "COMMITTED" => t \in confirmed' \/ t \in B,
             view' = [view EXCEPT ![c][t] = row], cpc' = [cpc EXCEPT ![c] = "commit"],
             UNCHANGED <<db, attempts, outbox, lock, claim, events>>
      PROVE  IInv(B)'
  <2>1. events' = [events EXCEPT ![c] = events[c] \cup {}]
    BY <1>1, <1>3 DEF TypeOK, StoreTypeOK
  <2>2. /\ StoreTypeOK' /\ EngineTypeOK' /\ ArgInv' /\ ViewInv' /\ LockInv'
        /\ ClaimInv' /\ OneAttemptPerKey' /\ ChargeInv' /\ ConfirmInv(B)'
    <3>1. IInv(B) /\ {} \in SUBSET ({t} \X EventType) /\ <<t, "PAYMENT_COMMITTED">> \notin {}
      OBVIOUS
    <3> HIDE DEF IInv
    <3> QED
      BY <1>1, <1>3, <2>1, <3>1, ApplyInv
  <2>3. RecoveryTypeOK' /\ AskInv'
    BY <1>1, <1>3 DEF TypeOK, RecoveryTypeOK, AskInv, Oldest
  <2> QED
    BY <2>2, <2>3 DEF TypeOK
<1>4. CASE UNCHANGED storeVars /\ cpc' = [cpc EXCEPT ![c] = "commit"]
  <2>1. view' = [view EXCEPT ![c][t] = view[c][t]]
    BY <1>1, <1>4 DEF storeVars, TypeOK, StoreTypeOK
  <2>2. view[c][t].state = "COMMITTED" => t \in confirmed \/ t \in B
    BY <1>1, NoDelivery DEF ConfirmInv, Vouched
  <2> QED
    BY <1>1, <1>3, <1>4, <2>1, <2>2 DEF storeVars
<1>5. ASSUME NEW o \in StatusAnswers(t), o # "UNKNOWN", Report(t, o), cpc' = [cpc EXCEPT ![c] = "commit"],
             view' = [view EXCEPT ![c][t].state =
                        IF o = "SUCCESS" THEN "COMMITTED" ELSE "ROLLED_BACK"],
             UNCHANGED <<db, attempts, outbox, lock, claim, events>>
      PROVE  IInv(B)'
  <2> DEFINE row == [view[c][t] EXCEPT !.state =
                       IF o = "SUCCESS" THEN "COMMITTED" ELSE "ROLLED_BACK"]
  <2>1. row \in Row /\ (row.state = "COMMITTED" => t \in confirmed' \/ t \in B)
    BY <1>1, <1>5 DEF Row, TransactionState, Report
  <2>2. view' = [view EXCEPT ![c][t] = row]
    BY <1>1, <1>5 DEF TypeOK, StoreTypeOK
  <2> HIDE DEF row
  <2> QED
    BY <1>3, <1>5, <2>1, <2>2
<1> QED
  BY <1>2, <1>4, <1>5 DEF ApplyReconciled

(* Commit or rollback of a reconcile call keeps the invariant. *)
LEMMA ReconcileEndsInv ==
  ASSUME NEW B, IInv(B), NEW c \in Reconcilers, CommitReconciled(c) \/ AbortReconciled(c)
  PROVE  IInv(B)'
BY ReconcileEnds
   DEF CommitReconciled, AbortReconciled, engineVars, callVars, IInv, TypeOK, EngineTypeOK, AskInv

---------------------------------------------------------------------------------
(* The invariant and its consequences *)

(* The invariant holds before the first request. *)
LEMMA InitInv == ASSUME NEW B PROVE Init => IInv(B)
<1> SUFFICES ASSUME Init PROVE IInv(B)
  OBVIOUS
<1> USE DEF Init, StoreInit, EngineInit, RecoveryInit
<1>1. StoreTypeOK
  BY DEF StoreTypeOK, Row, TransactionState, ProviderStatus, EventType
<1>2. EngineTypeOK /\ RecoveryTypeOK
  BY DEF EngineTypeOK, RecoveryTypeOK, Step, Charge
<1>3. ArgInv /\ ChargeInv /\ AskInv
  BY DEF ArgInv, ChargeInv, AskInv
<1>4. ViewInv /\ LockInv
  BY StoreAssumption DEF ViewInv, LockInv, InWindow, Sessions
<1>5. ClaimInv /\ OneAttemptPerKey
  BY DEF ClaimInv, Dispatched, OneAttemptPerKey
<1>6. ConfirmInv(B)
  BY DEF ConfirmInv, Vouched, EventType, NotLoaded
<1> QED
  BY <1>1, <1>2, <1>3, <1>4, <1>5, <1>6 DEF IInv, TypeOK

(* Every step of the composed system keeps the invariant. *)
LEMMA NextInv == ASSUME NEW B PROVE IInv(B) /\ [Next]_vars => IInv(B)'
<1> SUFFICES ASSUME IInv(B), [Next]_vars PROVE IInv(B)'
  OBVIOUS
<1>1. ASSUME NEW r \in Requests, RequestStep(r), UNCHANGED recoveryVars
      PROVE  IInv(B)'
  BY <1>1, CallInv, ReadRowInv, RejectRowInv, MarkDispatchStartedInv, ClaimAttemptInv,
     EnterFlightInv, CallProviderInv, ProviderAnswersInv, FinalizeOutcomeInv, CallerEndsInv
     DEF RequestStep
<1>2. ASSUME NEW p \in Procs, Crash(p), UNCHANGED recoveryVars
      PROVE  IInv(B)'
  BY <1>2, CrashInv
<1>3. ASSUME NEW r \in Requests, ProviderSettles(r), UNCHANGED recoveryVars
      PROVE  IInv(B)'
  BY <1>3, ProviderSettlesInv
<1>4. ASSUME NEW w \in Recoverers, WorkerStep(w) \/ AbortBatch(w)
      PROVE  IInv(B)'
  BY <1>4, ScanInv, LockStuckInv, ReconcileStuckInv, BatchEndsInv DEF WorkerStep
<1>5. ASSUME NEW c \in Reconcilers, EndpointStep(c) \/ AbortReconciled(c)
      PROVE  IInv(B)'
  BY <1>5, ReconcileCallInv, LockReconciledInv, ApplyReconciledInv, ReconcileEndsInv
     DEF EndpointStep
<1>6. CASE UNCHANGED vars
  <2> USE <1>6 DEF IInv, vars, storeVars, engineVars, callVars, recoveryVars
  <2>1. TypeOK' /\ ArgInv' /\ ChargeInv' /\ AskInv'
    BY DEF TypeOK, StoreTypeOK, EngineTypeOK, RecoveryTypeOK, ArgInv, ChargeInv, AskInv, Oldest
  <2>2. ViewInv' /\ LockInv' /\ ClaimInv' /\ OneAttemptPerKey'
    BY DEF ViewInv, LockInv, InWindow, Live, ClaimInv, OneAttemptPerKey
  <2>3. ConfirmInv(B)'
    BY DEF ConfirmInv, Vouched
  <2> QED
    BY <2>1, <2>2, <2>3
<1> QED
  BY <1>1, <1>2, <1>3, <1>4, <1>5, <1>6 DEF Next

(* The inductive invariant holds in every behaviour of the payment path. *)
THEOREM Invariance == Spec => []IInv({})
<1>1. Init => IInv({})
  BY InitInv
<1>2. IInv({}) /\ [Next]_vars => IInv({})'
  BY NextInv
<1> QED
  BY <1>1, <1>2, PTL DEF Spec

(* Every variable of the payment path keeps its type, whatever the numbers *)
(* of requests, processes, workers and transactions.                       *)
THEOREM TypeCorrect == Spec => []TypeOK
<1>1. IInv({}) => TypeOK
  BY DEF IInv
<1> QED
  BY <1>1, Invariance, PTL

(* Claim, provider call and recording are one critical section per         *)
(* transaction: the row lock of mark_provider_dispatch_started is held     *)
(* from there to the end of the unit of work.                              *)
THEOREM DispatchExclusion == Spec => []OneDispatcher
<1>1. IInv({}) => OneDispatcher
  BY DEF IInv, LockInv, OneDispatcher
<1> QED
  BY <1>1, Invariance, PTL

(* A request between claim_attempt and its outcome has no durable attempt  *)
(* of the same transaction and key beside it.                              *)
THEOREM ClaimBarsCalls == Spec => []DurableClaimBarsCalls
<1>1. IInv({}) => DurableClaimBarsCalls
  BY DEF IInv, ClaimInv, Dispatched, DurableClaimBarsCalls
<1> QED
  BY <1>1, Invariance, PTL

(* claim_attempt keeps one durable attempt per transaction and key without *)
(* a unique index, because the row lock covers lookup, insert and commit.  *)
THEOREM AttemptsUnique == Spec => []OneAttemptPerKey
<1>1. IInv({}) => OneAttemptPerKey
  BY DEF IInv
<1> QED
  BY <1>1, Invariance, PTL

(* No request, recovery worker or reconcile call ever commits a payment,   *)
(* or publishes PAYMENT_COMMITTED, unless the adapter reported SUCCESS     *)
(* about its transaction: no UNKNOWN or FAILED outcome becomes a commit.   *)
THEOREM CommitsAreReported == Spec => []CommittedIsReported
<1>1. IInv({}) => CommittedIsReported
  BY DEF IInv, ConfirmInv, CommittedIsReported
<1> QED
  BY <1>1, Invariance, PTL
---------------------------------------------------------------------------------
(* What a step leaves alone *)

(* A step of session s touches no loaded row, no lock and no pending event *)
(* of another session, and changes a row of the database only if s holds   *)
(* its lock.                                                               *)
Frame(s) ==
  /\ \A u \in Sessions \ {s}, t \in Txs :
       view'[u][t] = view[u][t] /\ (lock'[t] = u <=> lock[t] = u)
  /\ \A u \in Sessions \ {s} : events'[u] = events[u]
  /\ \A t \in Txs : db'[t] = db[t] \/ (lock[t] = s /\ db'[t] = view[s][t])

(* The end of a unit of work stays within its session. *)
LEMMA EndFrame ==
  ASSUME NEW B, IInv(B), NEW s \in Sessions, Commit(s) \/ Rollback(s)
  PROVE  Frame(s)
<1>1. /\ \A t \in Txs : lock'[t] = IF lock[t] = s THEN Nobody ELSE lock[t]
      /\ \A u \in Sessions, t \in Txs : view'[u][t] = IF u = s THEN NotLoaded ELSE view[u][t]
      /\ \A u \in Sessions : events'[u] = IF u = s THEN {} ELSE events[u]
      /\ \A t \in Txs : db'[t] = db[t] \/ (lock[t] = s /\ db'[t] = view[s][t])
  BY SessionEnds
<1> QED
  BY <1>1, StoreAssumption DEF Frame

(* So does a step that writes at most one loaded row and takes its lock. *)
LEMMA WriteFrame ==
  ASSUME NEW B, IInv(B), NEW s \in Sessions, NEW t \in Txs, NEW row, NEW E, UNCHANGED db,
         events' = events \/ events' = [events EXCEPT ![s] = E],
         view' = view \/ view' = [view EXCEPT ![s][t] = row],
         lock' = lock \/ (CanLock(s, t) /\ lock' = [lock EXCEPT ![t] = s])
  PROVE  Frame(s)
<1>1. StoreTypeOK
  BY DEF IInv, TypeOK
<1>2. \A u \in Sessions \ {s}, v \in Txs : view'[u][v] = view[u][v]
  BY <1>1 DEF StoreTypeOK
<1>3. \A u \in Sessions \ {s}, v \in Txs : lock'[v] = u <=> lock[v] = u
  BY <1>1, StoreAssumption DEF StoreTypeOK, CanLock
<1>4. \A u \in Sessions \ {s} : events'[u] = events[u]
  BY <1>1 DEF StoreTypeOK
<1> QED
  BY <1>2, <1>3, <1>4 DEF Frame

(* Every step of a request stays within its session. *)
LEMMA RequestFrame ==
  ASSUME NEW B, IInv(B), NEW r \in Requests, RequestStep(r)
  PROVE  Frame(r)
<1> USE DEF storeVars
<1>1. r \in Sessions
  BY DEF Sessions
<1>2. CASE UNCHANGED storeVars
  BY <1>2 DEF Frame
<1>3. ASSUME pc[r] # "idle" PROVE arg[r].tx \in Txs
  BY <1>3 DEF IInv, ArgInv, Arg
<1>4. CASE (\E a \in Arg : Call(r, a)) \/ EnterFlight(r) \/ CallProvider(r) \/ ProviderAnswers(r)
  BY <1>2, <1>4 DEF Call, EnterFlight, CallProvider, ProviderAnswers
<1>5. CASE ClaimAttempt(r)
  BY <1>5 DEF ClaimAttempt, Frame
<1>6. CASE ReadRow(r)
  BY <1>1, <1>3, <1>6, WriteFrame DEF ReadRow
<1>7. CASE RejectRow(r)
  <2>1. view' = view \/ view' = [view EXCEPT ![r][arg[r].tx].state = "REJECTED"]
    BY <1>7 DEF RejectRow
  <2>2. view' = view \/ view' = [view EXCEPT ![r][arg[r].tx] = [@ EXCEPT !.state = "REJECTED"]]
    BY <2>1
  <2> QED
    BY <1>1, <1>3, <1>7, <2>2, WriteFrame DEF RejectRow
<1>8. CASE MarkDispatchStarted(r)
  BY <1>1, <1>3, <1>8, WriteFrame DEF MarkDispatchStarted
<1>9. CASE FinalizeOutcome(r)
  BY <1>1, <1>3, <1>9, WriteFrame DEF FinalizeOutcome
<1>10. CASE CallerCommits(r) \/ CallerRollsBack(r)
  BY <1>1, <1>10, EndFrame DEF CallerCommits, CallerRollsBack
<1> QED
  BY <1>4, <1>5, <1>6, <1>7, <1>8, <1>9, <1>10 DEF RequestStep

(* Every step of a recovery worker stays within its session. *)
LEMMA WorkerFrame ==
  ASSUME NEW B, IInv(B), NEW w \in Recoverers, WorkerStep(w) \/ AbortBatch(w)
  PROVE  Frame(w)
<1>1. w \in Sessions
  BY DEF Sessions
<1>2. CASE Scan(w)
  BY <1>2 DEF Scan, storeVars, Frame
<1>3. CASE LockStuck(w)
  BY <1>1, <1>3, WriteFrame DEF LockStuck, LockAndLoad
<1>4. CASE ReconcileStuck(w)
  BY <1>1, <1>4, WriteFrame DEF ReconcileStuck
<1>5. CASE CommitBatch(w) \/ AbortBatch(w)
  BY <1>1, <1>5, EndFrame DEF CommitBatch, AbortBatch
<1> QED
  BY <1>2, <1>3, <1>4, <1>5 DEF WorkerStep

(* Every step of a reconcile call stays within its session. *)
LEMMA EndpointFrame ==
  ASSUME NEW B, IInv(B), NEW c \in Reconcilers, EndpointStep(c) \/ AbortReconciled(c)
  PROVE  Frame(c)
<1>1. c \in Sessions /\ (cpc[c] # "idle" => ctx[c] \in Txs)
  BY DEF Sessions, IInv, AskInv
<1>2. CASE \E t \in Txs : ReconcileCall(c, t)
  BY <1>2 DEF ReconcileCall, storeVars, Frame
<1>3. CASE LockReconciled(c)
  BY <1>1, <1>3, WriteFrame DEF LockReconciled, LockAndLoad
<1>4. CASE ApplyReconciled(c)
  <2>1. CASE Rollback(c)
    BY <1>1, <2>1, EndFrame
  <2>2. CASE UNCHANGED storeVars
    BY <2>2 DEF storeVars, Frame
  <2>3. ASSUME NEW target, view' = [view EXCEPT ![c][ctx[c]].state = target],
               UNCHANGED <<db, lock, events>>
        PROVE  Frame(c)
    <3>1. view' = [view EXCEPT ![c][ctx[c]] = [@ EXCEPT !.state = target]]
      BY <2>3
    <3> QED
      BY <1>1, <1>4, <2>3, <3>1, WriteFrame DEF ApplyReconciled
  <2> QED
    BY <1>4, <2>1, <2>2, <2>3 DEF ApplyReconciled
<1>5. CASE CommitReconciled(c) \/ AbortReconciled(c)
  BY <1>1, <1>5, EndFrame DEF CommitReconciled, AbortReconciled
<1> QED
  BY <1>2, <1>3, <1>4, <1>5 DEF EndpointStep

(* A crash touches neither the database nor the sessions that are not of   *)
(* its process.                                                            *)
LEMMA CrashFrame ==
  ASSUME NEW B, IInv(B), NEW p \in Procs, Crash(p)
  PROVE  /\ UNCHANGED db
         /\ \A u \in Sessions \ Requests, t \in Txs :
              view'[u][t] = view[u][t] /\ (lock'[t] = u <=> lock[t] = u)
         /\ \A u \in Sessions \ Requests : events'[u] = events[u]
<1>1. StoreTypeOK
  BY DEF IInv, TypeOK
<1> QED
  BY <1>1, StoreAssumption DEF Crash, StoreTypeOK

(* No step of the payment path touches the unit of work of a webhook       *)
(* delivery.                                                               *)
LEMMA DeliveriesApart ==
  ASSUME NEW B, IInv(B), [Next]_vars, NEW d \in Deliveries
  PROVE  /\ \A t \in Txs : view'[d][t] = view[d][t] /\ (lock'[t] = d <=> lock[t] = d)
         /\ events'[d] = events[d]
<1> DEFINE Goal == /\ \A t \in Txs : view'[d][t] = view[d][t] /\ (lock'[t] = d <=> lock[t] = d)
                   /\ events'[d] = events[d]
<1> SUFFICES Goal
  OBVIOUS
<1>1. d \in Sessions /\ d \notin Requests /\ d \notin Recoverers /\ d \notin Reconcilers
  BY StoreAssumption DEF Sessions
<1>2. CASE UNCHANGED storeVars
  BY <1>2 DEF storeVars
<1>3. ASSUME NEW s \in Requests \cup Recoverers \cup Reconcilers, Frame(s)
      PROVE  Goal
  BY <1>1, <1>3 DEF Frame
<1>4. ASSUME NEW r \in Requests, RequestStep(r)
      PROVE  Goal
  BY <1>3, <1>4, RequestFrame
<1>5. ASSUME NEW p \in Procs, Crash(p)
      PROVE  Goal
  BY <1>1, <1>5, CrashFrame
<1>6. ASSUME NEW r \in Requests, ProviderSettles(r)
      PROVE  Goal
  BY <1>2, <1>6 DEF ProviderSettles
<1>7. ASSUME NEW w \in Recoverers, WorkerStep(w) \/ AbortBatch(w)
      PROVE  Goal
  BY <1>3, <1>7, WorkerFrame
<1>8. ASSUME NEW c \in Reconcilers, EndpointStep(c) \/ AbortReconciled(c)
      PROVE  Goal
  BY <1>3, <1>8, EndpointFrame
<1>9. CASE UNCHANGED vars
  BY <1>2, <1>9 DEF vars
<1> HIDE DEF Goal
<1> QED
  BY <1>4, <1>5, <1>6, <1>7, <1>8, <1>9 DEF Next
---------------------------------------------------------------------------------
(* Failures are proven *)

Failing == {"FAILURE", "ROLLED_BACK"}
Settlers == Recoverers \cup Reconcilers

Proven(t) == \A r \in CallsFor(t) : charge[r] = "failed"

(* A worker or a reconcile call reads a row under its lock, so a failure   *)
(* it is about to write is the one it read, or the provider's answer.      *)
SettlerInv ==
  /\ \A s \in Settlers, t \in Txs : view[s][t] # NotLoaded => lock[t] = s
  /\ \A s \in Settlers, t \in Txs :
       lock[t] = s /\ view[s][t].state \in Failing =>
         db[t].state = view[s][t].state \/ Proven(t)

(* A request may hold a stale failure, but not with the lock in its hands  *)
(* and a commit before it.                                                 *)
RequestSafe(r) ==
  /\ pc[r] \in {"idle", "read", "reject", "dispatch"} => \A t \in Txs : lock[t] # r
  /\ InWindow(r) => view[r][arg[r].tx].state = "EXECUTING"
  /\ pc[r] = "return" /\ lock[arg[r].tx] = r => view[r][arg[r].tx].state \notin Failing

RequestInv == \A r \in Requests : RequestSafe(r)

FailInv == SettlerInv /\ RequestInv

(* A new provider call needs the row lock; what failed stays failed, and   *)
(* what is captured stays captured at the provider.                        *)
LEMMA ChargeSteps ==
  ASSUME NEW B, IInv(B), [Next]_vars, NEW r \in Requests
  PROVE  /\ \A c \in {"failed", "captured"} : charge[r] = c => charge'[r] = c
         /\ charge[r] = "none" /\ charge'[r] # "none" =>
              lock[arg[r].tx] = r /\ arg'[r] = arg[r]
         /\ charge[r] # "none" => arg'[r] = arg[r]
<1> DEFINE Goal == /\ \A c \in {"failed", "captured"} : charge[r] = c => charge'[r] = c
                   /\ charge[r] = "none" /\ charge'[r] # "none" =>
                        lock[arg[r].tx] = r /\ arg'[r] = arg[r]
                   /\ charge[r] # "none" => arg'[r] = arg[r]
<1> SUFFICES Goal
  OBVIOUS
<1>0. EngineTypeOK /\ LockInv /\ ChargeInv
  BY DEF IInv, TypeOK
<1>1. CASE UNCHANGED <<charge, arg>>
  BY <1>1
<1>2. ASSUME NEW q \in Requests, NEW a \in Arg, Call(q, a)
      PROVE  Goal
  BY <1>0, <1>2 DEF Call, EngineTypeOK, ChargeInv, BeforeCall
<1>3. ASSUME NEW q \in Requests, CallProvider(q)
      PROVE  Goal
  BY <1>0, <1>3 DEF CallProvider, EngineTypeOK, ChargeInv, BeforeCall, LockInv, InWindow
<1>4. ASSUME NEW q \in Requests, ProviderSettles(q)
      PROVE  Goal
  BY <1>0, <1>4 DEF ProviderSettles, EngineTypeOK
<1>5. ASSUME NEW q \in Requests, RequestStep(q)
      PROVE  Goal
  BY <1>1, <1>2, <1>3, <1>5
     DEF RequestStep, ReadRow, RejectRow, MarkDispatchStarted, ClaimAttempt, EnterFlight,
         ProviderAnswers, FinalizeOutcome, CallerCommits, CallerRollsBack
<1>6. ASSUME NEW p \in Procs, Crash(p)
      PROVE  Goal
  BY <1>1, <1>6 DEF Crash
<1>7. ASSUME NEW w \in Recoverers, WorkerStep(w) \/ AbortBatch(w)
      PROVE  Goal
  BY <1>1, <1>7
     DEF WorkerStep, AbortBatch, Scan, LockStuck, ReconcileStuck, CommitBatch, engineVars, callVars
<1>8. ASSUME NEW c \in Reconcilers, EndpointStep(c) \/ AbortReconciled(c)
      PROVE  Goal
  BY <1>1, <1>8
     DEF EndpointStep, AbortReconciled, ReconcileCall, LockReconciled, ApplyReconciled,
         CommitReconciled, engineVars, callVars
<1>9. CASE UNCHANGED vars
  BY <1>1, <1>9 DEF vars, engineVars, callVars
<1> HIDE DEF Goal
<1> QED
  BY <1>4, <1>5, <1>6, <1>7, <1>8, <1>9 DEF Next

(* So a proof of failure lasts while its reader holds the row lock. *)
LEMMA ProvenStays ==
  ASSUME NEW B, IInv(B), [Next]_vars, NEW s \in Settlers, NEW t \in Txs, lock[t] = s, Proven(t)
  PROVE  Proven(t)'
<1>1. s \notin Requests
  BY StoreAssumption DEF Settlers
<1> SUFFICES ASSUME NEW r \in Requests, charge'[r] # "none", arg'[r].tx = t
             PROVE  charge'[r] = "failed"
  BY DEF Proven, CallsFor
<1>2. CASE charge[r] = "none"
  BY <1>1, <1>2, ChargeSteps
<1>3. CASE charge[r] # "none"
  BY <1>3, ChargeSteps DEF Proven, CallsFor
<1> QED
  BY <1>2, <1>3

(* Steps that leave a settler's rows and locks alone keep what it is about *)
(* to write.                                                               *)
LEMMA OthersKeepSettler ==
  ASSUME NEW B, IInv(B), [Next]_vars, SettlerInv, NEW s \in Settlers, NEW t \in Txs,
         view'[s][t] = view[s][t], lock'[t] = s <=> lock[t] = s, lock[t] = s => db'[t] = db[t]
  PROVE  /\ view'[s][t] # NotLoaded => lock'[t] = s
         /\ lock'[t] = s /\ view'[s][t].state \in Failing =>
              db'[t].state = view'[s][t].state \/ Proven(t)'
BY ProvenStays DEF SettlerInv

(* Requests and the provider keep what the settlers are about to write. *)
LEMMA RequestsKeepSettlers ==
  ASSUME NEW B, IInv(B), [Next]_vars, SettlerInv,
         \/ \E r \in Requests : RequestStep(r)
         \/ \E p \in Procs : Crash(p)
         \/ UNCHANGED storeVars
  PROVE  SettlerInv'
<1> SUFFICES ASSUME NEW s \in Settlers, NEW t \in Txs
             PROVE  /\ view'[s][t] # NotLoaded => lock'[t] = s
                    /\ lock'[t] = s /\ view'[s][t].state \in Failing =>
                         db'[t].state = view'[s][t].state \/ Proven(t)'
  BY DEF SettlerInv
<1>1. s \in Sessions /\ s \notin Requests
  BY StoreAssumption DEF Settlers, Sessions
<1>2. view'[s][t] = view[s][t] /\ (lock'[t] = s <=> lock[t] = s) /\ (lock[t] = s => db'[t] = db[t])
  <2>1. ASSUME NEW r \in Requests, RequestStep(r)
        PROVE  <1>2!:
    BY <1>1, <2>1, RequestFrame DEF Frame
  <2>2. ASSUME NEW p \in Procs, Crash(p)
        PROVE  <1>2!:
    BY <1>1, <2>2, CrashFrame
  <2>3. CASE UNCHANGED storeVars
    BY <2>3 DEF storeVars
  <2> QED
    BY <2>1, <2>2, <2>3
<1> QED
  BY <1>2, OthersKeepSettler

(* Recording a success leads to SUCCESS, to COMMITTED, or nowhere. *)
LEMMA SuccessPathAfter ==
  ASSUME NEW s \in TransactionState
  PROVE  StateAfter(s, FinalPath("SUCCESS")) \in {s, "SUCCESS", "COMMITTED"}
<1> DEFINE path == FinalPath("SUCCESS")
<1> DEFINE S == {s, "SUCCESS", "COMMITTED"}
<1>1. path = <<"SUCCESS", "COMMITTED">>
  BY DEF FinalPath
<1>2. <<"SUCCESS", "COMMITTED">> \in Seq(S) /\ Len(<<"SUCCESS", "COMMITTED">>) <= 3
  OBVIOUS
<1>3. path \in Seq(S) /\ Len(path) <= 3
  BY <1>1, <1>2
<1> QED
  BY <1>3, StateAfterRange

(* A settler that writes a row it has locked keeps the invariant if what   *)
(* it writes is no unproven failure.                                       *)
LEMMA SettlerWrites ==
  ASSUME NEW B, IInv(B), [Next]_vars, SettlerInv, NEW s \in Settlers, Frame(s),
         NEW t \in Txs, NEW row, view' = [view EXCEPT ![s][t] = row], UNCHANGED db,
         \A u \in Txs : lock'[u] = IF u = t THEN s ELSE lock[u],
         row.state \in Failing => db[t].state = row.state \/ Proven(t)'
  PROVE  SettlerInv'
<1>1. s \in Sessions /\ Settlers \subseteq Sessions
  BY DEF Settlers, Sessions
<1>2. \A v \in Txs : view'[s][v] = IF v = t THEN row ELSE view[s][v]
  BY <1>1 DEF IInv, TypeOK, StoreTypeOK
<1> SUFFICES ASSUME NEW u \in Settlers, NEW v \in Txs
             PROVE  /\ view'[u][v] # NotLoaded => lock'[v] = u
                    /\ lock'[v] = u /\ view'[u][v].state \in Failing =>
                         db'[v].state = view'[u][v].state \/ Proven(v)'
  BY DEF SettlerInv
<1>3. CASE u # s \/ v # t
  <2>1. view'[u][v] = view[u][v] /\ (lock'[v] = u <=> lock[v] = u)
    BY <1>1, <1>2, <1>3 DEF Frame
  <2> QED
    BY <2>1, OthersKeepSettler
<1>4. CASE u = s /\ v = t
  BY <1>2, <1>4
<1> QED
  BY <1>3, <1>4

(* A settler whose unit of work ends has nothing left to write. *)
LEMMA SettlerEnds ==
  ASSUME NEW B, IInv(B), [Next]_vars, SettlerInv, NEW s \in Settlers, Commit(s) \/ Rollback(s)
  PROVE  SettlerInv'
<1>1. s \in Sessions /\ Settlers \subseteq Sessions
  BY DEF Settlers, Sessions
<1>2. /\ \A t \in Txs : lock'[t] = IF lock[t] = s THEN Nobody ELSE lock[t]
      /\ \A u \in Sessions, t \in Txs : view'[u][t] = IF u = s THEN NotLoaded ELSE view[u][t]
  BY <1>1, SessionEnds
<1>3. Frame(s)
  BY <1>1, EndFrame
<1> SUFFICES ASSUME NEW u \in Settlers, NEW v \in Txs
             PROVE  /\ view'[u][v] # NotLoaded => lock'[v] = u
                    /\ lock'[v] = u /\ view'[u][v].state \in Failing =>
                         db'[v].state = view'[u][v].state \/ Proven(v)'
  BY DEF SettlerInv
<1>4. CASE u # s
  <2>1. /\ view'[u][v] = view[u][v] /\ (lock'[v] = u <=> lock[v] = u)
        /\ lock[v] = u => db'[v] = db[v]
    BY <1>1, <1>3, <1>4 DEF Frame
  <2> QED
    BY <2>1, OthersKeepSettler
<1>5. CASE u = s
  <2>1. view'[u][v] = NotLoaded /\ lock'[v] # u
    BY <1>1, <1>2, <1>5, StoreAssumption
  <2> QED
    BY <2>1
<1> QED
  BY <1>4, <1>5

(* Locking and loading a row: it is read as it is, or was read before      *)
(* under the same lock.                                                    *)
LEMMA SettlerLoads ==
  ASSUME NEW B, IInv(B), [Next]_vars, SettlerInv, NEW s \in Settlers, NEW t \in Txs,
         LockAndLoad(s, t), UNCHANGED <<db, events>>
  PROVE  SettlerInv'
<1>1. s \in Sessions
  BY DEF Settlers, Sessions
<1>2. \A u \in Txs : lock'[u] = IF u = t THEN s ELSE lock[u]
  BY DEF LockAndLoad, IInv, TypeOK, StoreTypeOK
<1>3. Frame(s)
  BY <1>1, WriteFrame DEF LockAndLoad
<1>4. Loaded(s, t).state \in Failing => db[t].state = Loaded(s, t).state \/ Proven(t)'
  <2>1. CASE view[s][t] = NotLoaded
    BY <2>1 DEF Loaded
  <2>2. CASE view[s][t] # NotLoaded
    BY <2>2, ProvenStays DEF Loaded, SettlerInv
  <2> QED
    BY <2>1, <2>2
<1>5. view' = [view EXCEPT ![s][t] = Loaded(s, t)]
  BY DEF LockAndLoad
<1> QED
  BY <1>2, <1>3, <1>4, <1>5, SettlerWrites

(* Recovery workers keep what the settlers are about to write. *)
LEMMA WorkersKeepSettlers ==
  ASSUME NEW B, IInv(B), [Next]_vars, SettlerInv,
         NEW w \in Recoverers, WorkerStep(w) \/ AbortBatch(w)
  PROVE  SettlerInv'
<1>1. w \in Settlers
  BY DEF Settlers
<1>2. CASE Scan(w)
  BY <1>2, RequestsKeepSettlers DEF Scan
<1>3. CASE LockStuck(w)
  BY <1>1, <1>3, SettlerLoads DEF LockStuck
<1>4. CASE ReconcileStuck(w)
  <2>1. PICK t \in Txs, o \in Outcome :
          /\ o \in StatusAnswers(t) /\ Oldest(w, t)
          /\ IF o = "UNKNOWN" THEN view' = view
             ELSE view' = [view EXCEPT ![w][t] = RowAfter(view[w][t], FinalPath(o), o)]
    BY <1>4, StatusRange DEF ReconcileStuck
  <2>2. lock[t] = w /\ UNCHANGED <<db, lock, charge, arg>>
    BY <1>4, <2>1 DEF ReconcileStuck, IInv, AskInv, callVars
  <2>3. Frame(w)
    BY <1>4, WorkerFrame DEF WorkerStep
  <2>4. CASE o = "UNKNOWN"
    <3>1. \A s \in Settlers, v \in Txs : Proven(v) => Proven(v)'
      BY <2>2 DEF Proven, CallsFor
    <3> QED
      BY <2>1, <2>2, <2>4, <3>1 DEF SettlerInv
  <2>5. CASE o # "UNKNOWN"
    <3> DEFINE row == RowAfter(view[w][t], FinalPath(o), o)
    <3>1. o = "SUCCESS" \/ (o = "FAILED" /\ Proven(t))
      BY <2>1, <2>5, FailedAnswer DEF Outcome, Proven
    <3>2. o = "SUCCESS" => row.state \in {view[w][t].state, "SUCCESS", "COMMITTED"}
      <4>1. view[w][t].state \in TransactionState
        BY <2>2 DEF IInv, ViewInv, Sessions, Row
      <4> QED
        BY <4>1, SuccessPathAfter DEF RowAfter
    <3> HIDE DEF row
    <3>3. row.state \in Failing => db[t].state = row.state \/ Proven(t)
      BY <1>1, <2>2, <3>1, <3>2 DEF SettlerInv, Failing
    <3>4. row.state \in Failing => db[t].state = row.state \/ Proven(t)'
      BY <1>1, <2>2, <3>3, ProvenStays
    <3>5. view' = [view EXCEPT ![w][t] = row]
      BY <2>1, <2>5 DEF row
    <3> QED
      BY <1>1, <2>2, <2>3, <3>4, <3>5, SettlerWrites
  <2> QED
    BY <2>4, <2>5
<1>5. CASE CommitBatch(w) \/ AbortBatch(w)
  BY <1>1, <1>5, SettlerEnds DEF CommitBatch, AbortBatch
<1> QED
  BY <1>2, <1>3, <1>4, <1>5 DEF WorkerStep

(* Reconcile calls keep what the settlers are about to write. *)
LEMMA EndpointsKeepSettlers ==
  ASSUME NEW B, IInv(B), [Next]_vars, SettlerInv,
         NEW c \in Reconcilers, EndpointStep(c) \/ AbortReconciled(c)
  PROVE  SettlerInv'
<1>1. c \in Settlers /\ (cpc[c] # "idle" => ctx[c] \in Txs)
  BY DEF Settlers, IInv, AskInv
<1>2. CASE \E t \in Txs : ReconcileCall(c, t)
  BY <1>2, RequestsKeepSettlers DEF ReconcileCall
<1>3. CASE LockReconciled(c)
  BY <1>1, <1>3, SettlerLoads DEF LockReconciled
<1>4. CASE ApplyReconciled(c)
  <2>1. CASE Rollback(c)
    BY <1>1, <2>1, SettlerEnds
  <2>2. CASE UNCHANGED storeVars
    BY <2>2, RequestsKeepSettlers
  <2>3. ASSUME NEW o \in StatusAnswers(ctx[c]), o # "UNKNOWN", UNCHANGED <<db, lock>>,
               view' = [view EXCEPT ![c][ctx[c]].state =
                          IF o = "SUCCESS" THEN "COMMITTED" ELSE "ROLLED_BACK"]
        PROVE  SettlerInv'
    <3> DEFINE row == [view[c][ctx[c]] EXCEPT !.state =
                         IF o = "SUCCESS" THEN "COMMITTED" ELSE "ROLLED_BACK"]
    <3>1. ctx[c] \in Txs /\ lock[ctx[c]] = c /\ view[c][ctx[c]] \in Row
      BY <1>1, <1>4 DEF ApplyReconciled, IInv, AskInv, ViewInv, Sessions
    <3>2. view' = [view EXCEPT ![c][ctx[c]] = row]
      BY <2>3
    <3>3. o = "SUCCESS" \/ Proven(ctx[c])
      BY <2>3, <3>1, StatusRange, FailedAnswer DEF Outcome, Proven
    <3>4. row.state \in Failing => o # "SUCCESS"
      BY <3>1 DEF Row, Failing
    <3>5. PICK t \in Txs : t = ctx[c]
      BY <3>1
    <3>6. Proven(t) => Proven(t)'
      BY <1>1, <3>1, <3>5, ProvenStays
    <3>7. Frame(c)
      BY <1>4, EndpointFrame DEF EndpointStep
    <3>8. /\ \A u \in Txs : lock'[u] = IF u = t THEN c ELSE lock[u]
          /\ row.state \in Failing => Proven(t)'
      BY <2>3, <3>1, <3>3, <3>4, <3>5, <3>6
    <3> HIDE DEF row
    <3>9. view' = [view EXCEPT ![c][t] = row]
      BY <3>2, <3>5
    <3>10. row.state \in Failing => db[t].state = row.state \/ Proven(t)'
      BY <3>8
    <3> QED
      BY <1>1, <2>3, <3>7, <3>8, <3>9, <3>10, SettlerWrites
  <2> QED
    BY <1>4, <2>1, <2>2, <2>3 DEF ApplyReconciled
<1>5. CASE CommitReconciled(c) \/ AbortReconciled(c)
  BY <1>1, <1>5, SettlerEnds DEF CommitReconciled, AbortReconciled
<1> QED
  BY <1>2, <1>3, <1>4, <1>5 DEF EndpointStep

(* A request that a step leaves alone stays safe. *)
LEMMA OthersKeepRequest ==
  ASSUME NEW B, IInv(B), NEW q \in Requests, RequestSafe(q), pc'[q] = pc[q], arg'[q] = arg[q],
         \A t \in Txs : view'[q][t] = view[q][t] /\ (lock'[t] = q <=> lock[t] = q)
  PROVE  RequestSafe(q)'
<1>1. pc[q] # "idle" => arg[q].tx \in Txs
  BY DEF IInv, ArgInv, Arg
<1> QED
  BY <1>1 DEF RequestSafe, InWindow

(* The step of a request keeps the request itself safe. *)
LEMMA RequestKeepsItself ==
  ASSUME NEW B, IInv(B), NEW r \in Requests, RequestSafe(r), RequestStep(r)
  PROVE  RequestSafe(r)'
<1> USE DEF RequestSafe, InWindow
<1>1. /\ StoreTypeOK /\ EngineTypeOK /\ LockInv /\ r \in Sessions
      /\ (pc[r] # "idle" => arg[r] \in Arg /\ arg[r].tx \in Txs)
      /\ (pc[r] \notin {"idle", "read", "done"} => view[r][arg[r].tx] \in Row)
  BY DEF IInv, TypeOK, ArgInv, Arg, ViewInv, Sessions
<1>2. CASE \E a \in Arg : Call(r, a)
  BY <1>1, <1>2 DEF Call, Goto, storeVars, EngineTypeOK
<1>3. CASE EnterFlight(r) \/ CallProvider(r) \/ ProviderAnswers(r) \/ ClaimAttempt(r)
  <2>1. UNCHANGED <<lock, view, arg>> /\ InWindow(r)
    BY <1>3 DEF EnterFlight, CallProvider, ProviderAnswers, ClaimAttempt, storeVars
  <2>2. pc'[r] \in {"enter", "call", "wait", "finalize", "parallel", "return", "raise"}
    BY <1>1, <1>3 DEF EnterFlight, CallProvider, ProviderAnswers, ClaimAttempt, Goto, Return,
                      EngineTypeOK
  <2> QED
    BY <2>1, <2>2 DEF Failing
<1>4. CASE ReadRow(r)
  <2>1. UNCHANGED <<lock, arg>> /\ pc[r] = "read" /\ pc'[r] \in {"return", "dispatch", "reject"}
    BY <1>1, <1>4 DEF ReadRow, Goto, Return, EngineTypeOK
  <2> QED
    BY <1>1, <2>1
<1>5. CASE RejectRow(r)
  <2>1. pc[r] = "reject" /\ UNCHANGED arg
    BY <1>5 DEF RejectRow
  <2>2. CASE pc'[r] = "raise"
    BY <2>2
  <2>3. CASE pc'[r] = "return" /\ view' = [view EXCEPT ![r][arg[r].tx].state = "REJECTED"]
    <3>1. view'[r][arg[r].tx].state = "REJECTED"
      BY <1>1, <2>1, <2>3 DEF StoreTypeOK, Row
    <3> QED
      BY <2>1, <2>3, <3>1 DEF Failing
  <2> QED
    BY <1>1, <1>5, <2>2, <2>3 DEF RejectRow, Return, Goto, EngineTypeOK
<1>6. CASE MarkDispatchStarted(r)
  <2>1. pc[r] = "dispatch" /\ UNCHANGED arg
    BY <1>6 DEF MarkDispatchStarted
  <2>2. CASE pc'[r] = "raise"
    BY <2>2
  <2>3. CASE /\ pc'[r] = "claim"
             /\ view' = [view EXCEPT ![r][arg[r].tx] =
                           [state |-> "EXECUTING", ps |-> "DISPATCHED"]]
    <3>1. view'[r][arg[r].tx].state = "EXECUTING"
      BY <1>1, <2>1, <2>3 DEF StoreTypeOK
    <3> QED
      BY <2>1, <2>3, <3>1
  <2> QED
    BY <1>1, <1>6, <2>2, <2>3 DEF MarkDispatchStarted, Goto, EngineTypeOK
<1>7. CASE FinalizeOutcome(r)
  <2> DEFINE t == arg[r].tx
  <2> DEFINE o == outcome[r]
  <2>1. /\ pc[r] = "finalize" /\ UNCHANGED arg /\ t \in Txs /\ o \in Outcome
        /\ Loaded(r, t).state = "EXECUTING"
        /\ pc'[r] \in {"return", "raise"}
        /\ pc'[r] = "return" => PathLegal(Loaded(r, t).state, FinalPath(o))
        /\ view' = [view EXCEPT ![r][t] = RowAfter(Loaded(r, t), FinalPath(o), o)]
    <3>1. pc[r] = "finalize" /\ o \in Outcome
      BY <1>7 DEF FinalizeOutcome, IInv, ChargeInv
    <3>2. Loaded(r, t).state = "EXECUTING"
      BY <1>1, <3>1 DEF Loaded, NotLoaded, Row
    <3> QED
      BY <1>1, <1>7, <3>1, <3>2 DEF FinalizeOutcome, Goto, Return, EngineTypeOK
  <2>2. view'[r][t].state = StateAfter("EXECUTING", FinalPath(o))
    BY <1>1, <2>1 DEF StoreTypeOK, RowAfter
  <2>3. pc'[r] = "return" => o # "FAILED"
    BY <2>1, FailedPathRaises
  <2>4. o = "SUCCESS" => StateAfter("EXECUTING", FinalPath(o)) \notin Failing
    <3>1. "EXECUTING" \in TransactionState
      BY DEF TransactionState
    <3> QED
      BY <3>1, SuccessPathAfter DEF Failing
  <2>5. o = "UNKNOWN" => StateAfter("EXECUTING", FinalPath(o)) \notin Failing
    <3> SUFFICES ASSUME o = "UNKNOWN"
                 PROVE  StateAfter("EXECUTING", FinalPath(o)) \notin Failing
      OBVIOUS
    <3>1. FinalPath(o) = <<>>
      BY DEF FinalPath
    <3>2. <<>> \in Seq({"EXECUTING"}) /\ Len(<<>>) <= 3
      OBVIOUS
    <3>3. StateAfter("EXECUTING", <<>>) \in {"EXECUTING"}
      BY <3>2, StateAfterRange
    <3> QED
      BY <3>1, <3>3 DEF Failing
  <2>6. pc'[r] = "return" => view'[r][arg'[r].tx].state \notin Failing
    BY <2>1, <2>2, <2>3, <2>4, <2>5 DEF Outcome
  <2> QED
    BY <2>1, <2>6
<1>8. CASE CallerCommits(r) \/ CallerRollsBack(r)
  BY <1>1, <1>8 DEF CallerCommits, CallerRollsBack, Goto, EngineTypeOK
<1> QED
  BY <1>2, <1>3, <1>4, <1>5, <1>6, <1>7, <1>8 DEF RequestStep

(* Every step keeps the requests safe. *)
LEMMA RequestsKept ==
  ASSUME NEW B, IInv(B), [Next]_vars, RequestInv
  PROVE  RequestInv'
<1> SUFFICES ASSUME NEW q \in Requests PROVE RequestSafe(q)'
  BY DEF RequestInv
<1>0. /\ RequestSafe(q) /\ EngineTypeOK /\ StoreTypeOK
      /\ q \in Sessions /\ q \notin Recoverers /\ q \notin Reconcilers
  BY StoreAssumption DEF RequestInv, IInv, TypeOK, Sessions
<1>1. ASSUME NEW s \in Sessions \ {q}, Frame(s), pc'[q] = pc[q], arg'[q] = arg[q]
      PROVE  RequestSafe(q)'
  BY <1>0, <1>1, OthersKeepRequest DEF Frame
<1>2. ASSUME NEW r \in Requests, RequestStep(r)
      PROVE  RequestSafe(q)'
  <2>1. CASE r = q
    BY <1>0, <1>2, <2>1, RequestKeepsItself
  <2>2. CASE r # q
    <3>1. pc'[q] = pc[q] /\ arg'[q] = arg[q]
      BY <1>0, <1>2, <2>2
         DEF RequestStep, Call, ReadRow, RejectRow, MarkDispatchStarted, ClaimAttempt,
             EnterFlight, CallProvider, ProviderAnswers, FinalizeOutcome, CallerCommits,
             CallerRollsBack, Goto, Return, EngineTypeOK
    <3>2. r \in Sessions \ {q} /\ Frame(r)
      BY <1>2, <2>2, RequestFrame DEF Sessions
    <3> QED
      BY <1>1, <3>1, <3>2
  <2> QED
    BY <2>1, <2>2
<1>3. ASSUME NEW p \in Procs, Crash(p)
      PROVE  RequestSafe(q)'
  <2>1. CASE ProcOf[q] = p /\ Live(q)
    BY <1>3, <2>1 DEF Crash, RequestSafe, InWindow
  <2>2. CASE ~(ProcOf[q] = p /\ Live(q))
    <3>1. pc'[q] = pc[q] /\ arg'[q] = arg[q]
      BY <1>3, <2>2 DEF Crash
    <3>2. \A t \in Txs : view'[q][t] = view[q][t] /\ (lock'[t] = q <=> lock[t] = q)
      BY <1>0, <1>3, <2>2, StoreAssumption DEF Crash, StoreTypeOK
    <3> QED
      BY <1>0, <3>1, <3>2, OthersKeepRequest
  <2> QED
    BY <2>1, <2>2
<1>4. CASE UNCHANGED storeVars /\ UNCHANGED <<pc, arg>>
  BY <1>0, <1>4, OthersKeepRequest DEF storeVars
<1>5. ASSUME NEW r \in Requests, ProviderSettles(r)
      PROVE  RequestSafe(q)'
  BY <1>4, <1>5 DEF ProviderSettles
<1>6. ASSUME NEW w \in Recoverers, WorkerStep(w) \/ AbortBatch(w)
      PROVE  RequestSafe(q)'
  <2>1. UNCHANGED <<pc, arg>>
    BY <1>6
       DEF WorkerStep, AbortBatch, Scan, LockStuck, ReconcileStuck, CommitBatch, engineVars, callVars
  <2>2. Frame(w) /\ w \in Sessions \ {q}
    BY <1>0, <1>6, WorkerFrame DEF Sessions
  <2> QED
    BY <1>1, <2>1, <2>2
<1>7. ASSUME NEW c \in Reconcilers, EndpointStep(c) \/ AbortReconciled(c)
      PROVE  RequestSafe(q)'
  <2>1. UNCHANGED <<pc, arg>>
    BY <1>7
       DEF EndpointStep, AbortReconciled, ReconcileCall, LockReconciled, ApplyReconciled,
           CommitReconciled, engineVars, callVars
  <2>2. Frame(c) /\ c \in Sessions \ {q}
    BY <1>0, <1>7, EndpointFrame DEF Sessions
  <2> QED
    BY <1>1, <2>1, <2>2
<1>8. CASE UNCHANGED vars
  BY <1>4, <1>8 DEF vars, engineVars, callVars
<1> QED
  BY <1>2, <1>3, <1>5, <1>6, <1>7, <1>8 DEF Next

(* Every step keeps what sessions are about to write free of unproven      *)
(* failures.                                                               *)
LEMMA FailNext == ASSUME NEW B PROVE IInv(B) /\ FailInv /\ [Next]_vars => FailInv'
<1> SUFFICES ASSUME IInv(B), FailInv, [Next]_vars PROVE FailInv'
  OBVIOUS
<1>1. RequestInv'
  BY RequestsKept DEF FailInv
<1>2. SettlerInv
  BY DEF FailInv
<1> SUFFICES SettlerInv'
  BY <1>1 DEF FailInv
<1>3. CASE \/ \E r \in Requests : RequestStep(r)
           \/ \E p \in Procs : Crash(p)
           \/ UNCHANGED storeVars
  BY <1>2, <1>3, RequestsKeepSettlers
<1>4. ASSUME NEW r \in Requests, ProviderSettles(r)
      PROVE  SettlerInv'
  BY <1>3, <1>4 DEF ProviderSettles
<1>5. ASSUME NEW w \in Recoverers, WorkerStep(w) \/ AbortBatch(w)
      PROVE  SettlerInv'
  BY <1>2, <1>5, WorkersKeepSettlers
<1>6. ASSUME NEW c \in Reconcilers, EndpointStep(c) \/ AbortReconciled(c)
      PROVE  SettlerInv'
  BY <1>2, <1>6, EndpointsKeepSettlers
<1>7. CASE UNCHANGED vars
  BY <1>3, <1>7 DEF vars
<1> QED
  BY <1>3, <1>4, <1>5, <1>6, <1>7 DEF Next

(* A step that makes a failure durable is the commit of a worker or of a   *)
(* reconcile call that has the proof in hand.                              *)
LEMMA FailureStep ==
  ASSUME NEW B, IInv(B), FailInv, [Next]_vars, NEW t \in Txs,
         db'[t].state # db[t].state, db'[t].state \in Failing
  PROVE  Proven(t)
<1>1. ASSUME NEW s \in Settlers, Frame(s)
      PROVE  Proven(t)
  BY <1>1 DEF Frame, FailInv, SettlerInv
<1>2. ASSUME NEW r \in Requests, RequestStep(r)
      PROVE  Proven(t)
  <2>1. lock[t] = r /\ db'[t] = view[r][t]
    BY <1>2, RequestFrame DEF Frame
  <2>2. arg[r].tx = t
    BY <2>1 DEF IInv, LockInv
  <2>3. CallerCommits(r)
    BY <1>2
       DEF RequestStep, Call, ReadRow, RejectRow, MarkDispatchStarted, ClaimAttempt,
           EnterFlight, CallProvider, ProviderAnswers, FinalizeOutcome, CallerRollsBack,
           Rollback, storeVars
  <2> QED
    BY <2>1, <2>2, <2>3 DEF CallerCommits, FailInv, RequestInv, RequestSafe
<1>3. ASSUME NEW p \in Procs, Crash(p)
      PROVE  Proven(t)
  BY <1>3 DEF Crash
<1>4. ASSUME NEW r \in Requests, ProviderSettles(r)
      PROVE  Proven(t)
  BY <1>4 DEF ProviderSettles, storeVars
<1>5. ASSUME NEW w \in Recoverers, WorkerStep(w) \/ AbortBatch(w)
      PROVE  Proven(t)
  BY <1>1, <1>5, WorkerFrame DEF Settlers
<1>6. ASSUME NEW c \in Reconcilers, EndpointStep(c) \/ AbortReconciled(c)
      PROVE  Proven(t)
  BY <1>1, <1>6, EndpointFrame DEF Settlers
<1>7. CASE UNCHANGED vars
  BY <1>7 DEF vars, storeVars
<1> QED
  BY <1>2, <1>3, <1>4, <1>5, <1>6, <1>7 DEF Next

(* The second layer holds in every behaviour of the payment path. *)
THEOREM FailInvariance == Spec => []FailInv
<1>1. Init => FailInv
  <2> SUFFICES ASSUME Init PROVE FailInv
    OBVIOUS
  <2>1. SettlerInv
    <3>1. \A s \in Settlers, t \in Txs : view[s][t] = NotLoaded /\ lock[t] # s
      BY StoreAssumption DEF Init, StoreInit, Settlers, Sessions
    <3> QED
      BY <3>1 DEF SettlerInv
  <2>2. RequestInv
    BY StoreAssumption
       DEF Init, StoreInit, EngineInit, RequestInv, RequestSafe, InWindow, Sessions
  <2> QED
    BY <2>1, <2>2 DEF FailInv
<1>2. IInv({}) /\ FailInv /\ [Next]_vars => FailInv'
  BY FailNext
<1> QED
  BY <1>1, <1>2, Invariance, PTL DEF Spec

(* No request, recovery worker or reconcile call makes a failure durable   *)
(* unless every provider call made for the transaction has failed, whoever *)
(* made it and whatever the session read before.                           *)
THEOREM FailuresAreProven == Spec => FailureIsProven
<1>1. IInv({}) /\ FailInv /\ [Next]_vars =>
        [\A t \in Txs :
           db'[t].state # db[t].state /\ db'[t].state \in {"FAILURE", "ROLLED_BACK"} =>
             \A r \in CallsFor(t) : charge[r] = "failed"]_vars
  BY FailureStep DEF Failing, Proven
<1> QED
  BY <1>1, Invariance, FailInvariance, PTL DEF Spec, FailureIsProven
--------------------------------------------------------------------------------
(* Webhooks *)


Event == [id : EventIds, fit : Fit]

(* The delivery has inserted the row of its event, and nobody else has. *)
Registered(d) == inserter[evt[d].id] = d

DeliveryOK(d) ==
  /\ hpc[d] # "idle" => evt[d] \in Event
  /\ hpc[d] \in {"read", "apply"} => Registered(d)
  /\ hpc[d] = "reply" /\ answer[d] = "duplicate" => evt[d].id \in hooks
  /\ hpc[d] = "reply" /\ answer[d] # "duplicate" => Registered(d)
  /\ hpc[d] = "done" /\ answer[d] \in {"ok", "duplicate"} => evt[d].id \in hooks
  /\ \A t \in Txs : lock[t] = d => hpc[d] = "reply" /\ answer[d] # "duplicate"

(* An uncommitted row belongs to a delivery that is past its insert and    *)
(* whose event is not recorded.                                            *)
RowsOwned(d) ==
  \A e \in EventIds :
    inserter[e] = d =>
      /\ hpc[d] \in {"read", "apply", "reply"}
      /\ evt[d].id = e
      /\ e \notin hooks

DeliveryInv == HookTypeOK /\ \A d \in Deliveries : DeliveryOK(d) /\ RowsOwned(d)

(* The transactions an acknowledged delivery endorses, and the one a       *)
(* delivery is about to endorse.                                           *)
Endorsed == {t \in Txs : \E d \in Deliveries : Endorses(d, t)}
Endorsing(d, t) ==
  /\ hpc[d] = "reply" /\ answer[d] = "ok" /\ evt[d].fit = "good"
  /\ TargetState(TypeOf(d)) = "COMMITTED" /\ TxOf(d) = t

(* What stands behind a delivery: no refused request gets past Receive, no *)
(* foreign one past ReadAndDecide, and COMMITTED in its session is read or *)
(* is what its own event stands for.                                       *)
AnnounceOK(d) ==
  /\ hpc[d] \notin {"idle", "done"} => evt[d].fit # "refused"
  /\ hpc[d] = "apply" => evt[d].fit = "good" /\ view[d][TxOf(d)] \in Row
  /\ events[d] = {}
  /\ \A t \in Txs :
       view[d][t].state = "COMMITTED" => t \in confirmed \/ t \in Endorsed \/ Endorsing(d, t)

AnnounceInv == \A d \in Deliveries : AnnounceOK(d)

HookInv == IInv(Endorsed) /\ DeliveryInv /\ AnnounceInv

---------------------------------------------------------------------------------
(* The payment path under webhooks *)

(* Vouching for more transactions keeps the invariant. *)
LEMMA VouchMore ==
  ASSUME NEW B, NEW C, B \subseteq C, IInv(B)
  PROVE  IInv(C)
BY DEF IInv, ConfirmInv, Vouched

(* The end of a delivery's unit of work keeps the invariant of the path. *)
LEMMA DeliveryEnds ==
  ASSUME NEW B, IInv(B), NEW d \in Deliveries, Rollback(d) \/ (Commit(d) /\ Vouched(B, d)),
         UNCHANGED <<engineVars, recoveryVars>>
  PROVE  IInv(B)'
<1> USE DEF IInv
<1>1. d \in Sessions /\ d \notin Requests /\ d \notin Recoverers /\ d \notin Reconcilers
  BY StoreAssumption DEF Sessions
<1>2. EngineTypeOK' /\ RecoveryTypeOK' /\ ChargeInv'
  BY DEF TypeOK, EngineTypeOK, RecoveryTypeOK, ChargeInv, engineVars, callVars, recoveryVars
<1>3. /\ StoreTypeOK' /\ ArgInv' /\ ViewInv' /\ LockInv'
      /\ ClaimInv' /\ OneAttemptPerKey' /\ ConfirmInv(B)'
  <2>1. IInv(B) /\ (Rollback(d) \/ Vouched(B, d))
    OBVIOUS
  <2> HIDE DEF IInv
  <2> QED
    BY <1>1, <2>1, SessionEndsInv DEF engineVars, callVars
<1>4. AskInv'
  BY <1>1, SessionEndsAsk DEF recoveryVars
<1> QED
  BY <1>2, <1>3, <1>4 DEF TypeOK

(* A delivery that loads, locks or changes a row keeps it too: what a      *)
(* delivery holds is not part of it.                                       *)
LEMMA DeliveryWrites ==
  ASSUME NEW B, IInv(B), NEW d \in Deliveries, NEW t \in Txs, NEW row \in Row,
         view' = [view EXCEPT ![d][t] = row],
         lock' = lock \/ (CanLock(d, t) /\ lock' = [lock EXCEPT ![t] = d]),
         UNCHANGED <<db, attempts, outbox, claim, events, engineVars, recoveryVars>>
  PROVE  IInv(B)'
<1> USE DEF IInv, engineVars, callVars, recoveryVars
<1>1. d \in Sessions /\ d \notin Requests /\ d \notin Recoverers /\ d \notin Reconcilers
  BY StoreAssumption DEF Sessions
<1>2. /\ view' \in [Sessions -> [Txs -> Row \cup {NotLoaded}]]
      /\ \A u \in Sessions, v \in Txs :
           view'[u][v] = IF u = d /\ v = t THEN row ELSE view[u][v]
  BY <1>1 DEF TypeOK, StoreTypeOK
<1>3. /\ lock' \in [Txs -> Sessions \cup {Nobody}]
      /\ \A u \in Sessions \ {d}, v \in Txs : lock'[v] = u <=> lock[v] = u
      /\ \A v \in Txs : lock'[v] = d => lock[v] = d \/ v = t
  BY <1>1, StoreAssumption DEF TypeOK, StoreTypeOK, CanLock
<1>4. \A r \in Requests : pc[r] # "idle" => arg[r].tx \in Txs
  BY DEF ArgInv, Arg
<1>5. StoreTypeOK' /\ EngineTypeOK' /\ RecoveryTypeOK' /\ ArgInv' /\ ChargeInv'
  BY <1>2, <1>3 DEF TypeOK, StoreTypeOK, EngineTypeOK, RecoveryTypeOK, ArgInv, ChargeInv
<1>6. ViewInv'
  BY <1>1, <1>2, <1>3, <1>4 DEF ViewInv, Sessions
<1>7. \A u \in Requests \cup Recoverers \cup Reconcilers, v \in Txs : lock'[v] = u <=> lock[v] = u
  BY <1>1, <1>3 DEF Sessions
<1>8. LockInv'
  BY <1>4, <1>7 DEF LockInv, InWindow, Live
<1>9. ClaimInv' /\ OneAttemptPerKey'
  BY <1>4, <1>7 DEF ClaimInv, Dispatched, OneAttemptPerKey
<1>10. ConfirmInv(B)'
  BY <1>2 DEF ConfirmInv, Vouched
<1>11. AskInv'
  BY <1>7 DEF AskInv, Oldest
<1> QED
  BY <1>5, <1>6, <1>8, <1>9, <1>10, <1>11 DEF TypeOK

---------------------------------------------------------------------------------
(* Deliveries that a step leaves alone *)

(* What a step has to leave of a delivery, and to keep of the records. *)
Apart(q) ==
  /\ hpc'[q] = hpc[q] /\ evt'[q] = evt[q] /\ answer'[q] = answer[q]
  /\ \A e \in EventIds : inserter'[e] = q <=> inserter[e] = q
  /\ \A t \in Txs : view'[q][t] = view[q][t] /\ (lock'[t] = q <=> lock[t] = q)
  /\ events'[q] = events[q]

(* A delivery that is left alone keeps its part of the invariants. *)
LEMMA ApartKept ==
  ASSUME DeliveryInv, AnnounceInv, NEW q \in Deliveries, Apart(q), hooks \subseteq hooks',
         \A e \in hooks' \ hooks : inserter[e] # q,
         confirmed \subseteq confirmed', Endorsed \subseteq Endorsed'
  PROVE  DeliveryOK(q)' /\ RowsOwned(q)' /\ AnnounceOK(q)'
<1> USE DEF Apart
<1>1. DeliveryOK(q) /\ RowsOwned(q) /\ AnnounceOK(q) /\ HookTypeOK
  BY DEF DeliveryInv, AnnounceInv
<1>2. hpc[q] # "idle" => evt[q] \in Event /\ evt[q].id \in EventIds
  BY <1>1 DEF DeliveryOK, Event
<1>3. DeliveryOK(q)'
  BY <1>1, <1>2 DEF DeliveryOK, Registered
<1>4. RowsOwned(q)'
  BY <1>1 DEF RowsOwned
<1>5. AnnounceOK(q)'
  <2>1. TxOf(q)' = TxOf(q) /\ TypeOf(q)' = TypeOf(q)
    BY DEF TxOf, TypeOf
  <2>2. hpc[q] = "apply" => TxOf(q) \in Txs
    BY <1>2, HookAssumption DEF TxOf
  <2>3. \A t \in Txs : Endorsing(q, t) => Endorsing(q, t)'
    BY <2>1 DEF Endorsing
  <2>4. \A t \in Txs : view'[q][t].state = "COMMITTED" =>
          t \in confirmed' \/ t \in Endorsed' \/ Endorsing(q, t)'
    BY <1>1, <2>3 DEF AnnounceOK
  <2>5. hpc'[q] = "apply" => evt'[q].fit = "good" /\ view'[q][TxOf(q)'] \in Row
    BY <1>1, <2>1, <2>2 DEF AnnounceOK
  <2> QED
    BY <1>1, <2>4, <2>5 DEF AnnounceOK
<1> QED
  BY <1>3, <1>4, <1>5

(* A delivery that has not been answered takes no endorsement back. *)
LEMMA EndorsedStays ==
  ASSUME NEW d \in Deliveries, hpc[d] # "done",
         \A q \in Deliveries \ {d} :
           hpc'[q] = hpc[q] /\ evt'[q] = evt[q] /\ answer'[q] = answer[q]
  PROVE  Endorsed \subseteq Endorsed'
BY DEF Endorsed, Endorses, TypeOf, TxOf

---------------------------------------------------------------------------------
(* Steps *)

(* The invariant of the path, for the set that is vouched for afterwards. *)
LEMMA PathAfter ==
  ASSUME NEW B, IInv(B)', B \subseteq Endorsed'
  PROVE  IInv(Endorsed)'
BY DEF IInv, ConfirmInv, Vouched

(* A report of the adapter is not forgotten. *)
LEMMA ReportsStay ==
  ASSUME [Next]_vars
  PROVE  confirmed \subseteq confirmed'
<1>1. ASSUME NEW r \in Requests, RequestStep(r)
      PROVE  confirmed \subseteq confirmed'
  BY <1>1 DEF RequestStep, Call, ReadRow, RejectRow, MarkDispatchStarted, ClaimAttempt,
              EnterFlight, CallProvider, ProviderAnswers, FinalizeOutcome, CallerCommits,
              CallerRollsBack, Report
<1>2. ASSUME NEW p \in Procs, Crash(p)
      PROVE  confirmed \subseteq confirmed'
  BY <1>2 DEF Crash
<1>3. ASSUME NEW r \in Requests, ProviderSettles(r)
      PROVE  confirmed \subseteq confirmed'
  BY <1>3 DEF ProviderSettles
<1>4. ASSUME NEW w \in Recoverers, WorkerStep(w) \/ AbortBatch(w)
      PROVE  confirmed \subseteq confirmed'
  BY <1>4
     DEF WorkerStep, AbortBatch, Scan, LockStuck, ReconcileStuck, CommitBatch, Report, engineVars
<1>5. ASSUME NEW c \in Reconcilers, EndpointStep(c) \/ AbortReconciled(c)
      PROVE  confirmed \subseteq confirmed'
  BY <1>5
     DEF EndpointStep, AbortReconciled, ReconcileCall, LockReconciled, ApplyReconciled,
         CommitReconciled, Report, engineVars
<1>6. CASE UNCHANGED vars
  BY <1>6 DEF vars, engineVars
<1> QED
  BY <1>1, <1>2, <1>3, <1>4, <1>5, <1>6 DEF Next

(* Requests, workers, reconcile calls and the provider leave the           *)
(* deliveries alone.                                                       *)
LEMMA PathSteps ==
  ASSUME HookInv, [Next]_vars, UNCHANGED hookVars
  PROVE  HookInv'
<1>0. PICK B : B = Endorsed
  OBVIOUS
<1>1. IInv(B) /\ DeliveryInv /\ AnnounceInv
  BY <1>0 DEF HookInv
<1>2. IInv(B)' /\ B = Endorsed'
  <2>1. Endorsed' = Endorsed
    BY DEF hookVars, Endorsed, Endorses, TypeOf, TxOf
  <2> QED
    BY <1>0, <1>1, <2>1, NextInv
<1>3. confirmed \subseteq confirmed'
  BY ReportsStay
<1>4. \A q \in Deliveries : Apart(q)
  BY <1>1, DeliveriesApart DEF Apart, hookVars
<1>5. \A q \in Deliveries : DeliveryOK(q)' /\ RowsOwned(q)' /\ AnnounceOK(q)'
  BY <1>0, <1>1, <1>2, <1>3, <1>4, ApartKept DEF hookVars
<1>6. HookTypeOK'
  BY <1>1 DEF DeliveryInv, HookTypeOK, hookVars
<1> QED
  BY <1>2, <1>5, <1>6, PathAfter DEF HookInv, DeliveryInv, AnnounceInv

(* The step of one delivery, apart from what it does to itself. *)
LEMMA DeliveryActs ==
  ASSUME HookInv, NEW d \in Deliveries, Frame(d), UNCHANGED confirmed, HookTypeOK',
         hpc[d] # "done",
         \A q \in Deliveries \ {d} :
           hpc'[q] = hpc[q] /\ evt'[q] = evt[q] /\ answer'[q] = answer[q],
         \A q \in Deliveries \ {d}, e \in EventIds : inserter'[e] = q <=> inserter[e] = q,
         hooks \subseteq hooks', \A e \in hooks' \ hooks : inserter[e] = d,
         NEW B, IInv(B)', B \subseteq Endorsed',
         DeliveryOK(d)' /\ RowsOwned(d)' /\ AnnounceOK(d)'
  PROVE  HookInv'
<1>1. DeliveryInv /\ AnnounceInv
  BY DEF HookInv
<1>2. \A q \in Deliveries \ {d} : Apart(q)
  BY DEF Frame, Apart, Sessions
<1>3. Endorsed \subseteq Endorsed'
  BY EndorsedStays
<1>4. \A q \in Deliveries \ {d} : DeliveryOK(q)' /\ RowsOwned(q)' /\ AnnounceOK(q)'
  BY <1>1, <1>2, <1>3, ApartKept
<1>5. \A q \in Deliveries : DeliveryOK(q)' /\ RowsOwned(q)' /\ AnnounceOK(q)'
  BY <1>4
<1>6. IInv(Endorsed)'
  BY PathAfter
<1> QED
  BY <1>5, <1>6 DEF HookInv, DeliveryInv, AnnounceInv

(* The steps before the transaction is read change no table but the        *)
(* uncommitted row of the event.                                           *)
LEMMA RegisterSteps ==
  ASSUME HookInv, NEW d \in Deliveries,
         \/ \E e \in EventIds, fit \in Fit : Receive(d, e, fit)
         \/ LookUp(d) \/ Insert(d)
  PROVE  HookInv'
<1>0. PICK B : B = Endorsed
  OBVIOUS
<1>1. /\ IInv(B) /\ DeliveryInv /\ AnnounceInv /\ HookTypeOK
      /\ DeliveryOK(d) /\ RowsOwned(d) /\ AnnounceOK(d)
  BY <1>0 DEF HookInv, DeliveryInv, AnnounceInv
<1>2. UNCHANGED <<storeVars, engineVars, recoveryVars, hooks>> /\ UNCHANGED vars
  BY DEF Receive, LookUp, Insert, vars
<1>3. IInv(B)' /\ Frame(d) /\ UNCHANGED confirmed
  <2>1. IInv(B)'
    BY <1>1, <1>2, NextInv
  <2> QED
    BY <1>2, <2>1 DEF Frame, storeVars, engineVars
<1>4. \A t \in Txs : lock[t] # d /\ (view[d][t].state = "COMMITTED" => t \in confirmed \/ t \in B)
  <2>1. hpc[d] # "reply"
    BY DEF Receive, LookUp, Insert
  <2> QED
    BY <1>0, <1>1, <2>1 DEF DeliveryOK, AnnounceOK, Endorsing
<1>5. hpc[d] # "done"
  BY DEF Receive, LookUp, Insert
<1>6. ASSUME NEW e \in EventIds, NEW fit \in Fit, Receive(d, e, fit)
      PROVE  HookInv'
  <2>1. /\ hpc[d] = "idle" /\ UNCHANGED inserter
        /\ evt' = [evt EXCEPT ![d] = [id |-> e, fit |-> fit]]
        /\ \/ /\ hpc' = [hpc EXCEPT ![d] = "done"]
              /\ answer' = [answer EXCEPT ![d] = "refused"]
           \/ /\ hpc' = [hpc EXCEPT ![d] = "register"] /\ answer' = answer
              /\ fit # "refused"
    BY <1>6 DEF Receive, HookGoto
  <2>2. HookTypeOK'
    BY <1>1, <1>2, <2>1 DEF HookTypeOK
  <2>3. \A q \in Deliveries \ {d} : hpc'[q] = hpc[q] /\ evt'[q] = evt[q] /\ answer'[q] = answer[q]
    BY <1>1, <2>1 DEF HookTypeOK
  <2>7. B \subseteq Endorsed'
    BY <1>0, <1>5, <2>3, EndorsedStays
  <2>4. /\ evt'[d] = [id |-> e, fit |-> fit]
        /\ \/ hpc'[d] = "done" /\ answer'[d] = "refused"
           \/ hpc'[d] = "register" /\ fit # "refused"
    BY <1>1, <2>1 DEF HookTypeOK
  <2>5. DeliveryOK(d)' /\ RowsOwned(d)'
    <3>1. \A x \in EventIds : inserter'[x] # d
      BY <1>1, <2>1 DEF RowsOwned
    <3>2. \A t \in Txs : lock'[t] # d
      BY <1>2, <1>4 DEF storeVars
    <3> QED
      BY <2>4, <3>1, <3>2 DEF DeliveryOK, RowsOwned, Event
  <2>6. AnnounceOK(d)'
    <3>1. events'[d] = {} /\ \A t \in Txs : view'[d][t] = view[d][t]
      BY <1>1, <1>2 DEF AnnounceOK, storeVars
    <3>2. \A t \in Txs : view'[d][t].state = "COMMITTED" => t \in confirmed' \/ t \in Endorsed'
      BY <1>3, <1>4, <2>7, <3>1
    <3> QED
      BY <2>4, <3>1, <3>2 DEF AnnounceOK
  <2> QED
    BY <1>2, <1>3, <1>5, <2>1, <2>2, <2>3, <2>5, <2>6, <2>7, DeliveryActs
<1>7. CASE LookUp(d) \/ Insert(d)
  <2>1. evt[d] \in Event /\ evt[d].id \in EventIds /\ hpc[d] \in {"register", "insert"}
    BY <1>1, <1>7 DEF LookUp, Insert, DeliveryOK, Event
  <2>2. /\ UNCHANGED evt
        /\ \/ /\ hpc' = [hpc EXCEPT ![d] = "reply"] /\ inserter' = inserter
              /\ answer' = [answer EXCEPT ![d] = "duplicate"] /\ evt[d].id \in hooks
           \/ /\ hpc' = [hpc EXCEPT ![d] = "insert"] /\ inserter' = inserter /\ answer' = answer
           \/ /\ hpc' = [hpc EXCEPT ![d] = "read"] /\ answer' = answer
              /\ inserter[evt[d].id] = Nobody /\ evt[d].id \notin hooks
              /\ inserter' = [inserter EXCEPT ![evt[d].id] = d]
    BY <1>7 DEF LookUp, Insert, HookGoto
  <2>3. HookTypeOK'
    BY <1>1, <1>2, <2>1, <2>2 DEF HookTypeOK
  <2>4. \A q \in Deliveries \ {d} : hpc'[q] = hpc[q] /\ evt'[q] = evt[q] /\ answer'[q] = answer[q]
    BY <1>1, <2>2 DEF HookTypeOK
  <2>11. B \subseteq Endorsed'
    BY <1>0, <1>5, <2>4, EndorsedStays
  <2>5. /\ evt'[d] = evt[d]
        /\ \/ /\ hpc'[d] = "reply" /\ answer'[d] = "duplicate" /\ evt[d].id \in hooks
              /\ inserter' = inserter
           \/ hpc'[d] = "insert" /\ inserter' = inserter
           \/ /\ hpc'[d] = "read" /\ evt[d].id \notin hooks
              /\ \A x \in EventIds : inserter'[x] = IF x = evt[d].id THEN d ELSE inserter[x]
    BY <1>1, <2>1, <2>2 DEF HookTypeOK
  <2>6. \A q \in Deliveries \ {d}, x \in EventIds : inserter'[x] = q <=> inserter[x] = q
    <3>1. Nobody \notin Deliveries
      BY StoreAssumption DEF Sessions
    <3> QED
      BY <1>1, <2>1, <2>2, <3>1 DEF HookTypeOK
  <2>7. \A x \in EventIds : inserter[x] # d
    BY <1>1, <2>1 DEF RowsOwned
  <2>8. \A t \in Txs : lock'[t] # d
    BY <1>2, <1>4 DEF storeVars
  <2>9. DeliveryOK(d)' /\ RowsOwned(d)'
    BY <1>2, <2>1, <2>5, <2>7, <2>8 DEF DeliveryOK, RowsOwned, Registered
  <2>10. AnnounceOK(d)'
    <3>1. events'[d] = {} /\ \A t \in Txs : view'[d][t] = view[d][t]
      BY <1>1, <1>2 DEF AnnounceOK, storeVars
    <3>2. \A t \in Txs : view'[d][t].state = "COMMITTED" => t \in confirmed' \/ t \in Endorsed'
      BY <1>3, <1>4, <2>11, <3>1
    <3>3. evt'[d].fit # "refused" /\ hpc'[d] # "apply"
      BY <1>1, <2>1, <2>5 DEF AnnounceOK
    <3> QED
      BY <3>1, <3>2, <3>3 DEF AnnounceOK
  <2> QED
    BY <1>2, <1>3, <1>5, <2>3, <2>4, <2>6, <2>9, <2>10, <2>11, DeliveryActs
<1> QED
  BY <1>6, <1>7

(* The read without a lock and the decisions taken on it. *)
LEMMA ReadStep ==
  ASSUME HookInv, NEW d \in Deliveries, ReadAndDecide(d)
  PROVE  HookInv'
<1>0. PICK B : B = Endorsed
  OBVIOUS
<1>1. /\ IInv(B) /\ HookTypeOK /\ DeliveryOK(d) /\ RowsOwned(d) /\ AnnounceOK(d)
      /\ hpc[d] = "read" /\ d \in Sessions
  BY <1>0 DEF HookInv, DeliveryInv, AnnounceInv, ReadAndDecide, Mismatch, Sessions
<1>2. evt[d] \in Event /\ evt[d].id \in EventIds /\ Registered(d)
  BY <1>1 DEF DeliveryOK, Event
<1>3. PICK t \in Txs : t = TxOf(d)
  BY <1>2, HookAssumption DEF TxOf
<1>4. PICK row \in Row : row = Loaded(d, t)
  BY <1>1, LoadedRow DEF IInv, TypeOK
<1>5. /\ view' = [view EXCEPT ![d][t] = row]
      /\ UNCHANGED <<db, attempts, outbox, lock, claim, events, engineVars, recoveryVars,
                     hooks, inserter, evt>>
      /\ \/ /\ hpc' = [hpc EXCEPT ![d] = "apply"] /\ answer' = answer
            /\ evt[d].fit # "foreign"
         \/ /\ hpc' = [hpc EXCEPT ![d] = "reply"]
            /\ \E a \in {"ok", "refused"} : answer' = [answer EXCEPT ![d] = a]
  BY <1>3, <1>4 DEF ReadAndDecide, Mismatch, HookGoto, Refuse, Accept
<1>6. HookTypeOK'
  BY <1>1, <1>5 DEF HookTypeOK
<1>7. \A q \in Deliveries \ {d} : hpc'[q] = hpc[q] /\ evt'[q] = evt[q] /\ answer'[q] = answer[q]
  BY <1>1, <1>5 DEF HookTypeOK
<1>8. /\ evt'[d] = evt[d]
      /\ \/ hpc'[d] = "apply" /\ evt[d].fit # "foreign"
         \/ hpc'[d] = "reply" /\ answer'[d] # "duplicate"
  BY <1>1, <1>5 DEF HookTypeOK
<1>9. IInv(B)' /\ Frame(d) /\ UNCHANGED confirmed
  BY <1>1, <1>5, DeliveryWrites, WriteFrame DEF engineVars, callVars
<1>10. B \subseteq Endorsed' /\ hpc[d] # "done"
  BY <1>0, <1>1, <1>7, EndorsedStays
<1>11. DeliveryOK(d)' /\ RowsOwned(d)'
  BY <1>1, <1>2, <1>5, <1>8 DEF DeliveryOK, RowsOwned, Registered
<1>12. AnnounceOK(d)'
  <2>1. \A v \in Txs : view'[d][v] = IF v = t THEN row ELSE view[d][v]
    BY <1>1, <1>5 DEF IInv, TypeOK, StoreTypeOK
  <2>2. \A v \in Txs : view[d][v].state = "COMMITTED" => v \in confirmed \/ v \in B
    BY <1>0, <1>1 DEF AnnounceOK, Endorsing
  <2>3. row.state = "COMMITTED" => t \in confirmed \/ t \in B
    BY <1>1, <1>4, <2>2 DEF Loaded, IInv, ConfirmInv
  <2>4. \A v \in Txs : view'[d][v].state = "COMMITTED" => v \in confirmed' \/ v \in Endorsed'
    BY <1>9, <1>10, <2>1, <2>2, <2>3
  <2>5. events'[d] = {} /\ view'[d][t] \in Row /\ TxOf(d)' = t
    BY <1>1, <1>3, <1>5, <2>1 DEF AnnounceOK, TxOf
  <2>6. evt'[d].fit # "refused" /\ (hpc'[d] = "apply" => evt'[d].fit = "good")
    BY <1>1, <1>2, <1>8 DEF AnnounceOK, Event, Fit
  <2> QED
    BY <2>4, <2>5, <2>6 DEF AnnounceOK
<1> QED
  BY <1>5, <1>6, <1>7, <1>9, <1>10, <1>11, <1>12, DeliveryActs

(* The state change: COMMITTED is written only for the event the delivery  *)
(* is about to acknowledge.                                                *)
LEMMA ApplyStep ==
  ASSUME HookInv, NEW d \in Deliveries, ApplyEvent(d)
  PROVE  HookInv'
<1>0. PICK B : B = Endorsed
  OBVIOUS
<1>1. /\ IInv(B) /\ HookTypeOK /\ DeliveryOK(d) /\ RowsOwned(d) /\ AnnounceOK(d)
      /\ hpc[d] = "apply" /\ d \in Sessions
  BY <1>0 DEF HookInv, DeliveryInv, AnnounceInv, ApplyEvent, Sessions
<1>2. evt[d] \in Event /\ evt[d].id \in EventIds /\ Registered(d)
  BY <1>1 DEF DeliveryOK, Event
<1>3. PICK t \in Txs : t = TxOf(d)
  BY <1>2, HookAssumption DEF TxOf
<1>4. view[d][t] \in Row /\ evt[d].fit = "good"
  BY <1>1, <1>3 DEF AnnounceOK
<1>5. \A s \in TransactionState : \A g : TransitionAllowed(s, g) => g \in TransactionState
  BY DEF TransitionAllowed, CanTransitionTo, LegalTransitions, TransactionState
<1> DEFINE target == TargetState(TypeOf(d))
<1>6. PICK row \in Row, a \in {"ok", "refused"} :
        /\ view' = [view EXCEPT ![d][t] = row]
        /\ answer' = [answer EXCEPT ![d] = a]
        /\ row = view[d][t] \/ (a = "ok" /\ row.state = target)
  <2>1. CASE TransitionAllowed(Loaded(d, t).state, target)
    <3> DEFINE new == [view[d][t] EXCEPT !.state = target]
    <3>1. target \in TransactionState
      BY <1>1, <1>5, <2>1, LoadedRow DEF IInv, TypeOK, Row
    <3>2. new \in Row /\ new.state = target
      BY <1>4, <3>1 DEF Row
    <3>3. view' = [view EXCEPT ![d][t] = new]
      BY <1>3, <2>1 DEF ApplyEvent
    <3>4. answer' = [answer EXCEPT ![d] = "ok"]
      BY <1>3, <2>1 DEF ApplyEvent, Accept
    <3> HIDE DEF new, target
    <3> QED
      BY <3>2, <3>3, <3>4
  <2>2. CASE ~TransitionAllowed(Loaded(d, t).state, target)
    <3>1. view' = view /\ answer' = [answer EXCEPT ![d] = "refused"]
      BY <1>3, <2>2 DEF ApplyEvent, Refuse
    <3>2. view' = [view EXCEPT ![d][t] = view[d][t]]
      BY <1>1, <3>1 DEF IInv, TypeOK, StoreTypeOK
    <3> QED
      BY <1>4, <3>1, <3>2
  <2> QED
    BY <2>1, <2>2
<1>7. /\ CanLock(d, t) /\ lock' = [lock EXCEPT ![t] = d]
      /\ UNCHANGED <<db, attempts, outbox, claim, events, engineVars, recoveryVars,
                     hooks, inserter, evt>>
      /\ hpc' = [hpc EXCEPT ![d] = "reply"]
  BY <1>3 DEF ApplyEvent, HookGoto, Refuse, Accept
<1>8. HookTypeOK'
  BY <1>1, <1>6, <1>7 DEF HookTypeOK
<1>9. \A q \in Deliveries \ {d} : hpc'[q] = hpc[q] /\ evt'[q] = evt[q] /\ answer'[q] = answer[q]
  BY <1>1, <1>6, <1>7 DEF HookTypeOK
<1>10. evt'[d] = evt[d] /\ hpc'[d] = "reply" /\ answer'[d] = a
  BY <1>1, <1>6, <1>7 DEF HookTypeOK
<1>11. IInv(B)' /\ Frame(d) /\ UNCHANGED confirmed
  BY <1>1, <1>6, <1>7, DeliveryWrites, WriteFrame DEF engineVars, callVars
<1>12. B \subseteq Endorsed' /\ hpc[d] # "done"
  BY <1>0, <1>1, <1>9, EndorsedStays
<1>13. DeliveryOK(d)' /\ RowsOwned(d)'
  BY <1>1, <1>2, <1>7, <1>10 DEF DeliveryOK, RowsOwned, Registered
<1>14. AnnounceOK(d)'
  <2>1. \A v \in Txs : view'[d][v] = IF v = t THEN row ELSE view[d][v]
    BY <1>1, <1>6 DEF IInv, TypeOK, StoreTypeOK
  <2>2. \A v \in Txs : view[d][v].state = "COMMITTED" => v \in confirmed \/ v \in B
    BY <1>0, <1>1 DEF AnnounceOK, Endorsing
  <2>3. TxOf(d)' = t /\ TypeOf(d)' = TypeOf(d)
    BY <1>3, <1>7 DEF TxOf, TypeOf
  <2>4. a = "ok" /\ target = "COMMITTED" => Endorsing(d, t)'
    BY <1>4, <1>10, <2>3 DEF Endorsing
  <2> HIDE DEF target
  <2>5. row.state = "COMMITTED" => t \in confirmed \/ t \in B \/ Endorsing(d, t)'
    BY <1>6, <2>2, <2>4
  <2>6. \A v \in Txs : view'[d][v].state = "COMMITTED" =>
          v \in confirmed' \/ v \in Endorsed' \/ Endorsing(d, v)'
    BY <1>11, <1>12, <2>1, <2>2, <2>5
  <2>7. events'[d] = {} /\ evt'[d].fit # "refused"
    BY <1>1, <1>4, <1>7, <1>10 DEF AnnounceOK
  <2> QED
    BY <1>10, <2>6, <2>7 DEF AnnounceOK
<1> QED
  BY <1>7, <1>8, <1>9, <1>11, <1>12, <1>13, <1>14, DeliveryActs

(* The end of a delivery: effect and record become durable together, or    *)
(* neither does.                                                           *)
LEMMA EndStep ==
  ASSUME HookInv, NEW d \in Deliveries, Reply(d) \/ AbortDelivery(d)
  PROVE  HookInv'
<1>0. PICK C : C = Endorsed'
  OBVIOUS
<1>1. /\ IInv(Endorsed) /\ HookTypeOK /\ DeliveryOK(d) /\ RowsOwned(d) /\ AnnounceOK(d)
      /\ hpc[d] \notin {"idle", "done"} /\ d \in Sessions
  BY DEF HookInv, DeliveryInv, AnnounceInv, Reply, AbortDelivery, Sessions
<1>2. evt[d] \in Event /\ evt[d].id \in EventIds
  BY <1>1 DEF DeliveryOK, Event
<1>3. PICK committed \in BOOLEAN :
        /\ EndUnit(d, committed) /\ UNCHANGED <<engineVars, recoveryVars, evt>>
        /\ hpc' = [hpc EXCEPT ![d] = "done"]
        /\ committed <=> Reply(d) /\ answer[d] \in {"ok", "duplicate"}
        /\ committed => hpc[d] = "reply" /\ answer' = answer
        /\ ~committed => \/ answer' = [answer EXCEPT ![d] = "none"]
                         \/ answer' = answer /\ answer[d] \notin {"ok", "duplicate"}
  <2>1. CASE Reply(d)
    <3>1. (answer[d] \in {"ok", "duplicate"}) \in BOOLEAN
      OBVIOUS
    <3>2. PICK c \in BOOLEAN : c = (answer[d] \in {"ok", "duplicate"})
      BY <3>1
    <3>3. EndUnit(d, c)
      BY <2>1, <3>2 DEF Reply
    <3>4. /\ c <=> Reply(d) /\ answer[d] \in {"ok", "duplicate"}
          /\ hpc[d] = "reply" /\ answer' = answer
          /\ hpc' = [hpc EXCEPT ![d] = "done"]
          /\ UNCHANGED <<engineVars, recoveryVars, evt>>
      BY <2>1, <3>2 DEF Reply, HookGoto
    <3>5. ~c => answer[d] \notin {"ok", "duplicate"}
      BY <3>2
    <3> WITNESS c \in BOOLEAN
    <3> QED
      BY <3>3, <3>4, <3>5
  <2>2. CASE AbortDelivery(d) /\ ~Reply(d)
    BY <2>2 DEF AbortDelivery, HookGoto
  <2> QED
    BY <2>1, <2>2
<1>4. /\ hooks' = hooks \cup {e \in EventIds : committed /\ inserter[e] = d}
      /\ inserter' = [e \in EventIds |-> IF inserter[e] = d THEN Nobody ELSE inserter[e]]
      /\ (committed /\ Commit(d)) \/ (~committed /\ Rollback(d))
  BY <1>3 DEF EndUnit
<1>9. \A q \in Deliveries \ {d} : hpc'[q] = hpc[q] /\ evt'[q] = evt[q] /\ answer'[q] = answer[q]
  BY <1>1, <1>3 DEF HookTypeOK
<1>5. IInv(C) /\ (committed => Vouched(C, d))
  <2>1. Endorsed \subseteq C
    BY <1>0, <1>1, <1>9, EndorsedStays
  <2>2. IInv(C)
    BY <1>1, <2>1, VouchMore
  <2>3. ASSUME committed PROVE Vouched(C, d)
    <3> SUFFICES ASSUME NEW t \in Txs, view[d][t].state = "COMMITTED"
                 PROVE  t \in confirmed \/ t \in C
      BY <1>1 DEF Vouched, AnnounceOK
    <3>1. CASE t \in confirmed \/ t \in Endorsed
      BY <2>1, <3>1
    <3>2. CASE Endorsing(d, t)
      <4>1. hpc'[d] = "done" /\ answer'[d] = answer[d] /\ evt'[d] = evt[d]
        BY <1>1, <1>3, <2>3 DEF HookTypeOK
      <4>2. Endorses(d, t)'
        BY <3>2, <4>1 DEF Endorsing, Endorses, TypeOf, TxOf
      <4> QED
        BY <1>0, <4>2 DEF Endorsed
    <3> QED
      BY <1>1, <3>1, <3>2 DEF AnnounceOK
  <2> QED
    BY <2>2, <2>3
<1>6. IInv(C)' /\ Frame(d) /\ UNCHANGED confirmed
  BY <1>1, <1>3, <1>4, <1>5, DeliveryEnds, EndFrame DEF engineVars, callVars
<1>7. /\ \A t \in Txs : lock'[t] # d
      /\ \A t \in Txs : view'[d][t] = NotLoaded
      /\ events'[d] = {}
  BY <1>1, <1>4, <1>5, SessionEnds, StoreAssumption
<1>8. HookTypeOK'
  BY <1>1, <1>3, <1>4 DEF HookTypeOK
<1>10. \A q \in Deliveries \ {d}, e \in EventIds : inserter'[e] = q <=> inserter[e] = q
  <2>1. Nobody \notin Deliveries
    BY StoreAssumption DEF Sessions
  <2> QED
    BY <1>4, <2>1
<1>11. DeliveryOK(d)' /\ RowsOwned(d)'
  <2>1. hpc'[d] = "done" /\ evt'[d] = evt[d]
    BY <1>1, <1>3 DEF HookTypeOK
  <2>2. answer'[d] \in {"ok", "duplicate"} => committed /\ answer'[d] = answer[d]
    BY <1>1, <1>3 DEF HookTypeOK
  <2>3. committed => evt[d].id \in hooks'
    BY <1>1, <1>2, <1>3, <1>4 DEF DeliveryOK, Registered
  <2>4. \A e \in EventIds : inserter'[e] # d
    BY <1>1, <1>4, StoreAssumption
  <2> QED
    BY <1>2, <1>7, <2>1, <2>2, <2>3, <2>4 DEF DeliveryOK, RowsOwned
<1>12. AnnounceOK(d)'
  <2>1. hpc'[d] = "done" /\ NotLoaded.state # "COMMITTED"
    BY <1>1, <1>3 DEF HookTypeOK, NotLoaded
  <2> QED
    BY <1>7, <2>1 DEF AnnounceOK
<1>13. hooks \subseteq hooks' /\ \A e \in hooks' \ hooks : inserter[e] = d
  BY <1>4
<1> QED
  BY <1>0, <1>1, <1>6, <1>8, <1>9, <1>10, <1>11, <1>12, <1>13, DeliveryActs

---------------------------------------------------------------------------------
(* The invariant and its consequences *)

(* The invariant holds before the first delivery. *)
LEMMA HookInitInv == HookInit => HookInv
<1> SUFFICES ASSUME HookInit PROVE HookInv
  OBVIOUS
<1>1. IInv(Endorsed)
  BY InitInv DEF HookInit
<1>2. HookTypeOK
  BY DEF HookInit, HookTypeOK
<1>3. \A e \in EventIds, d \in Deliveries : inserter[e] # d
  BY StoreAssumption DEF HookInit, Sessions
<1>4. \A t \in Txs, d \in Deliveries : lock[t] # d
  BY StoreAssumption DEF HookInit, Init, StoreInit, Sessions
<1>5. \A d \in Deliveries : DeliveryOK(d) /\ RowsOwned(d)
  BY <1>3, <1>4 DEF HookInit, DeliveryOK, RowsOwned
<1>6. AnnounceInv
  <2>1. \A d \in Deliveries, t \in Txs : view[d][t].state # "COMMITTED" /\ events[d] = {}
    BY DEF HookInit, Init, StoreInit, NotLoaded, Sessions
  <2>2. \A d \in Deliveries : events[d] = {} /\ hpc[d] = "idle"
    BY DEF HookInit, Init, StoreInit, Sessions
  <2> QED
    BY <2>1, <2>2 DEF AnnounceInv, AnnounceOK
<1> QED
  BY <1>1, <1>2, <1>5, <1>6 DEF HookInv, DeliveryInv

(* Every step of the composed system keeps the invariant. *)
LEMMA HookNextInv == HookInv /\ [HookNext]_<<vars, hookVars>> => HookInv'
<1> SUFFICES ASSUME HookInv, [HookNext]_<<vars, hookVars>> PROVE HookInv'
  OBVIOUS
<1>1. CASE Next /\ UNCHANGED hookVars
  BY <1>1, PathSteps
<1>2. ASSUME NEW d \in Deliveries, DeliveryStep(d) \/ AbortDelivery(d)
      PROVE  HookInv'
  BY <1>2, RegisterSteps, ReadStep, ApplyStep, EndStep DEF DeliveryStep
<1>3. CASE UNCHANGED <<vars, hookVars>>
  BY <1>3, PathSteps
<1> QED
  BY <1>1, <1>2, <1>3 DEF HookNext

(* A delivery whose end changes the database records its event with it. *)
LEMMA EffectStep ==
  ASSUME HookInv, [HookNext]_<<vars, hookVars>>, NEW d \in Deliveries,
         hpc[d] = "reply", hpc'[d] = "done", db' # db
  PROVE  evt[d].id \in hooks' \ hooks
<1>1. /\ IInv(Endorsed) /\ HookTypeOK /\ DeliveryOK(d) /\ RowsOwned(d)
      /\ evt[d] \in Event /\ evt[d].id \in EventIds
  BY DEF HookInv, DeliveryInv, DeliveryOK, Event
<1>2. PICK q \in Deliveries : DeliveryStep(q) \/ AbortDelivery(q)
  BY DEF HookNext, hookVars
<1>3. q = d
  BY <1>1, <1>2
     DEF DeliveryStep, Receive, LookUp, Insert, ReadAndDecide, ApplyEvent, Reply,
         AbortDelivery, HookGoto, Refuse, Accept, HookTypeOK
<1>4. Reply(d)
  <2>1. ~AbortDelivery(d)
    BY DEF AbortDelivery, EndUnit, Rollback
  <2> QED
    BY <1>2, <1>3, <2>1 DEF DeliveryStep, Receive, LookUp, Insert, ReadAndDecide, ApplyEvent
<1>5. answer[d] \in {"ok", "duplicate"} /\ Commit(d)
  BY <1>4 DEF Reply, EndUnit, Rollback
<1>6. PICK t \in Txs : lock[t] = d
  <2>1. db \in [Txs -> Row]
    BY <1>1 DEF IInv, TypeOK, StoreTypeOK
  <2> QED
    BY <1>5, <2>1 DEF Commit
<1>7. Registered(d)
  BY <1>1, <1>6 DEF DeliveryOK
<1>8. evt[d].id \notin hooks
  BY <1>1, <1>7 DEF RowsOwned, Registered
<1>9. evt[d].id \in hooks'
  BY <1>1, <1>4, <1>5, <1>7 DEF Reply, EndUnit, Registered
<1> QED
  BY <1>8, <1>9

(* The inductive invariant holds in every behaviour with webhooks. *)
THEOREM HookInvariance == HookSpec => []HookInv
BY HookInitInv, HookNextInv, PTL DEF HookSpec

(* An acknowledged delivery is recorded: no 200 of the webhook router, for *)
(* a first delivery or for a duplicate, rests on a unit of work that is    *)
(* rolled back later.                                                      *)
THEOREM AcknowledgementsDurable == HookSpec => []AcknowledgedIsDurable
<1>1. HookInv => AcknowledgedIsDurable
  BY DEF HookInv, DeliveryInv, DeliveryOK, AcknowledgedIsDurable
<1> QED
  BY <1>1, HookInvariance, PTL

(* With webhooks in play a transaction is COMMITTED only if the adapter    *)
(* reported SUCCESS about it or a signed delivery that stands for          *)
(* COMMITTED was acknowledged: no unsigned, stale or foreign delivery, no  *)
(* failure event and no duplicate commits a payment.                       *)
THEOREM CommitsOnProvidersWord == HookSpec => []CommittedOnProvidersWord
<1>1. HookInv => CommittedOnProvidersWord
  BY DEF HookInv, IInv, ConfirmInv, Endorsed, CommittedOnProvidersWord
<1> QED
  BY <1>1, HookInvariance, PTL

(* The unit of work that moves a transaction for a delivery is the first   *)
(* and only one to record its event.                                       *)
THEOREM EffectsRecorded == HookSpec => EffectWithRecord
<1>1. HookInv /\ [HookNext]_<<vars, hookVars>> =>
        [\A d \in Deliveries :
           hpc[d] = "reply" /\ hpc'[d] = "done" /\ db' # db =>
             evt[d].id \in hooks' \ hooks]_<<vars, hookVars>>
  BY EffectStep
<1> QED
  BY <1>1, HookInvariance, PTL DEF HookSpec, EffectWithRecord
=================================================================================
