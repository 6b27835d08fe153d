----------------------------- MODULE ExecutionEngine -----------------------------
(***************************************************************************)
(* PaymentExecutionService.async_execute_payment                           *)
(* (apps/api/domain/execution_engine.py), the callers around it, and the   *)
(* payment provider behind the adapter.                                    *)
(*                                                                         *)
(* One request is one coroutine with its own unit of work.  Requests run   *)
(* in processes; the requests of a process share the service object and so *)
(* its _results cache and its _in_flight_txs set.  A process may crash at  *)
(* any point: its open database transactions roll back, its memory is      *)
(* lost, and what the provider was asked to do stays done.                 *)
(***************************************************************************)
EXTENDS PaymentStore

CONSTANTS Procs,        \* gateway processes
          ProcOf,       \* the process each request runs in
          Gates         \* the gate verdicts the callers' arguments can get

(* The verdict of _verify_pre_execution_auth, _verify_context_and_operation *)
(* and transaction.is_executable() on one call's arguments.                 *)
Gate == {"pass", "denied", "not_executable"}

ASSUME EngineAssumption ==
  /\ ProcOf \in [Requests -> Procs]
  /\ Gates \subseteq Gate

VARIABLES
  pc,        \* where each request is
  arg,       \* its transaction, idempotency key, payload and gate verdict
  outcome,   \* what the adapter returned to it
  res,       \* what async_execute_payment returned to its caller
  charge,    \* external: what became of the payment it asked the provider for
  confirmed, \* history: the transactions the adapter reported SUCCESS about
  results,   \* _results, per process
  inflight   \* _in_flight_txs, per process

callVars == <<pc, arg, outcome, res, charge, results, inflight>>
engineVars == <<callVars, confirmed>>

Step == {"idle", "read", "reject", "dispatch", "claim", "enter", "call", "wait",
         "finalize", "parallel", "return", "raise", "done"}

Arg == [tx : Txs, key : Keys, fp : Payloads, gate : Gate]
NoArg == [gate |-> "none"]

Outcome == {"SUCCESS", "FAILED", "UNKNOWN"}

(* SUCCESS stands for success=True, every other one for success=False. *)
Result == Outcome \cup {"REJECTED"}

Charge == {"none", "pending", "captured", "failed"}

EngineTypeOK ==
  /\ pc \in [Requests -> Step]
  /\ arg \in [Requests -> Arg \cup {NoArg}]
  /\ outcome \in [Requests -> Outcome \cup {"none"}]
  /\ res \in [Requests -> Result \cup {"none"}]
  /\ charge \in [Requests -> Charge]
  /\ confirmed \subseteq Txs
  /\ results \in [Procs -> [Txs -> Result \cup {"none"}]]
  /\ inflight \in [Procs -> SUBSET Txs]

EngineInit ==
  /\ pc = [r \in Requests |-> "idle"]
  /\ arg = [r \in Requests |-> NoArg]
  /\ outcome = [r \in Requests |-> "none"]
  /\ res = [r \in Requests |-> "none"]
  /\ charge = [r \in Requests |-> "none"]
  /\ confirmed = {}
  /\ results = [p \in Procs |-> [t \in Txs |-> "none"]]
  /\ inflight = [p \in Procs |-> {}]

Goto(r, step) == pc' = [pc EXCEPT ![r] = step]

(* A return statement: the result goes to the caller. *)
Return(r, value) == Goto(r, "return") /\ res' = [res EXCEPT ![r] = value]

Remember(r, value) == results' = [results EXCEPT ![ProcOf[r]][arg[r].tx] = value]

---------------------------------------------------------------------------------
(* The steps of async_execute_payment *)

(* A caller opens a unit of work and calls the service. *)
Call(r, a) ==
  /\ pc[r] = "idle"
  /\ a.gate \in Gates
  /\ arg' = [arg EXCEPT ![r] = a]
  /\ Goto(r, "read")
  /\ UNCHANGED <<storeVars, outcome, res, charge, confirmed, results, inflight>>

(* get_transaction, the replay answer, and the pre-execution gates.  A     *)
(* gate that refuses leaves its REJECTED result in _results.               *)
ReadRow(r) ==
  LET t == arg[r].tx  row == Loaded(r, arg[r].tx) IN
  /\ pc[r] = "read"
  /\ view' = [view EXCEPT ![r][t] = row]
  /\ \/ /\ row.state \in {"COMMITTED", "SUCCESS"}
        /\ Return(r, "SUCCESS")
        /\ UNCHANGED results
     \/ /\ row.state \notin {"COMMITTED", "SUCCESS"}
        /\ arg[r].gate = "pass"
        /\ Goto(r, "dispatch")
        /\ UNCHANGED <<res, results>>
     \/ /\ row.state \notin {"COMMITTED", "SUCCESS"}
        /\ arg[r].gate = "denied"
        /\ Remember(r, "REJECTED")
        /\ Goto(r, "reject")
        /\ UNCHANGED res
     \/ /\ row.state \notin {"COMMITTED", "SUCCESS"}
        /\ arg[r].gate = "not_executable"
        /\ Remember(r, "REJECTED")
        /\ Return(r, "REJECTED")
  /\ UNCHANGED <<db, attempts, outbox, lock, claim, events, arg, outcome, charge,
                 confirmed, inflight>>

(* After a denied authorization: transition_transaction_state(REJECTED),   *)
(* which raises when the state machine has no such transition.             *)
RejectRow(r) ==
  LET t == arg[r].tx  row == Loaded(r, arg[r].tx) IN
  /\ pc[r] = "reject"
  /\ CanLock(r, t)
  /\ lock' = [lock EXCEPT ![t] = r]
  /\ IF TransitionAllowed(row.state, "REJECTED")
     THEN /\ view' = [view EXCEPT ![r][t].state = "REJECTED"]
          /\ Return(r, "REJECTED")
     ELSE /\ Goto(r, "raise")
          /\ UNCHANGED <<view, res>>
  /\ UNCHANGED <<db, attempts, outbox, claim, events, arg, outcome, charge,
                 confirmed, results, inflight>>

(* mark_provider_dispatch_started: waits for the row lock, then checks and *)
(* changes the object the session already has.                             *)
MarkDispatchStarted(r) ==
  LET t == arg[r].tx  row == Loaded(r, arg[r].tx) IN
  /\ pc[r] = "dispatch"
  /\ CanLock(r, t)
  /\ lock' = [lock EXCEPT ![t] = r]
  /\ IF TransitionAllowed(row.state, "EXECUTING")
     THEN /\ view' = [view EXCEPT ![r][t] = [state |-> "EXECUTING", ps |-> "DISPATCHED"]]
          /\ Goto(r, "claim")
     ELSE /\ UNCHANGED view
          /\ Goto(r, "raise")
  /\ UNCHANGED <<db, attempts, outbox, claim, events, arg, outcome, res, charge,
                 confirmed, results, inflight>>

(* claim_attempt and the replay answers for a key that is already there.   *)
(* Two rows under one key, or a row with another transaction or payload,   *)
(* raise; a FAILED row lets the call through to the provider again.        *)
ClaimAttempt(r) ==
  LET t == arg[r].tx
      existing == AttemptsOfKey(arg[r].key)
      cached == results[ProcOf[r]][t]
      Matches(a) == existing = {a} /\ a.tx = t /\ a.fp = arg[r].fp
  IN
  /\ pc[r] = "claim"
  /\ \/ /\ existing = {}
        /\ claim' = [claim EXCEPT ![r] =
             [tx |-> t, key |-> arg[r].key, fp |-> arg[r].fp, status |-> "CLAIMED", by |-> r]]
        /\ Goto(r, "enter")
        /\ UNCHANGED res
     \/ \E a \in existing :
          /\ Matches(a)
          /\ IF a.status = "FAILED"
             THEN /\ claim' = [claim EXCEPT ![r] = a]
                  /\ Goto(r, "enter")
                  /\ UNCHANGED res
             ELSE /\ UNCHANGED claim
                  /\ Return(r, IF a.status = "SUCCESS" \/ cached = "none"
                                 THEN "SUCCESS" ELSE cached)
     \/ /\ existing # {}
        /\ ~ \E a \in existing : Matches(a)
        /\ UNCHANGED <<claim, res>>
        /\ Goto(r, "raise")
  /\ UNCHANGED <<db, attempts, outbox, lock, view, events, arg, outcome, charge,
                 confirmed, results, inflight>>

(* The in-process check under self._lock: an earlier result of this        *)
(* process, a parallel caller, or the right to call the provider.          *)
EnterFlight(r) ==
  LET t == arg[r].tx  p == ProcOf[r] IN
  /\ pc[r] = "enter"
  /\ \/ /\ results[p][t] # "none"
        /\ Return(r, results[p][t])
        /\ UNCHANGED inflight
     \/ /\ results[p][t] = "none"
        /\ Goto(r, IF t \in inflight[p] THEN "parallel" ELSE "call")
        /\ inflight' = [inflight EXCEPT ![p] = @ \cup {t}]
        /\ UNCHANGED res
  /\ UNCHANGED <<storeVars, arg, outcome, charge, confirmed, results>>

(* adapter.execute_payment: the request leaves for the provider. *)
CallProvider(r) ==
  /\ pc[r] = "call"
  /\ charge' = [charge EXCEPT ![r] = "pending"]
  /\ Goto(r, "wait")
  /\ UNCHANGED <<storeVars, arg, outcome, res, confirmed, results, inflight>>

(* What execute_payment may report.  Every 2xx answer of the provider is    *)
(* SUCCESS: POST /orders has created an order then, and whether its payment *)
(* is ever captured is open.  An HTTP error status is FAILED whatever the   *)
(* provider did with the request; anything else is UNKNOWN.                 *)
AdapterAnswers == {"SUCCESS", "FAILED", "UNKNOWN"}

(* Whatever the adapter reports about transaction t is remembered as said.  *)
Report(t, o) == confirmed' = IF o = "SUCCESS" THEN confirmed \cup {t} ELSE confirmed

ProviderAnswers(r) ==
  /\ pc[r] = "wait"
  /\ \E o \in AdapterAnswers :
       /\ outcome' = [outcome EXCEPT ![r] = o]
       /\ Report(arg[r].tx, o)
  /\ Goto(r, "finalize")
  /\ UNCHANGED <<storeVars, arg, res, charge, results, inflight>>

(* Faults: an UNKNOWN outcome handled as a success, or as a failure. *)
FinalPath_UnknownCommits(o) ==
  IF o = "FAILED" THEN <<"FAILURE", "FAILURE", "ROLLED_BACK">> ELSE <<"SUCCESS", "COMMITTED">>
FinalPath_UnknownRollsBack(o) ==
  IF o = "SUCCESS" THEN <<"SUCCESS", "COMMITTED">> ELSE <<"FAILURE", "ROLLED_BACK">>

(* The state changes the service asks for after each outcome.  The first   *)
(* one is made inside record_provider_outcome.                             *)
FinalPath(o) ==
  CASE o = "SUCCESS" -> <<"SUCCESS", "COMMITTED">>
    [] o = "FAILED"  -> <<"FAILURE", "FAILURE", "ROLLED_BACK">>
    [] OTHER         -> <<>>

FinalEvent(t, o) ==
  CASE o = "SUCCESS" -> {<<t, "PAYMENT_COMMITTED">>}
    [] o = "FAILED"  -> {<<t, "PAYMENT_ROLLED_BACK">>}
    [] OTHER         -> {}

(* Step 3: record the outcome in the session, remember it, leave flight.   *)
(* An illegal transition raises before the attempt and the event.          *)
FinalizeOutcome(r) ==
  LET t == arg[r].tx
      p == ProcOf[r]
      o == outcome[r]
      row == Loaded(r, t)
  IN
  /\ pc[r] = "finalize"
  /\ view' = [view EXCEPT ![r][t] = RowAfter(row, FinalPath(o), o)]
  /\ inflight' = [inflight EXCEPT ![p] = @ \ {t}]
  /\ IF PathLegal(row.state, FinalPath(o))
     THEN /\ claim' = [claim EXCEPT ![r].status = o]
          /\ events' = [events EXCEPT ![r] = @ \cup FinalEvent(t, o)]
          /\ Remember(r, o)
          /\ Return(r, o)
     ELSE /\ Goto(r, "raise")
          /\ UNCHANGED <<claim, events, results, res>>
  /\ UNCHANGED <<db, attempts, outbox, lock, arg, outcome, charge, confirmed>>

---------------------------------------------------------------------------------
(* The caller's unit of work *)

(* The caller commits, as every caller does on success. *)
CallerCommits(r) ==
  /\ pc[r] = "return"
  /\ Commit(r)
  /\ Goto(r, "done")
  /\ UNCHANGED <<arg, outcome, res, charge, confirmed, results, inflight>>

(* The block ends without a commit: an exception, a caller that commits    *)
(* only on success, or a commit that failed.                               *)
CallerRollsBack(r) ==
  /\ pc[r] \in {"return", "raise"}
  /\ Rollback(r)
  /\ Goto(r, "done")
  /\ UNCHANGED <<arg, outcome, res, charge, confirmed, results, inflight>>

Live(r) == pc[r] \notin {"idle", "done"}

(* The process dies with one or more calls in progress and is restarted.   *)
Crash(p) ==
  LET dead == {r \in Requests : ProcOf[r] = p /\ Live(r)} IN
  /\ dead # {}
  /\ lock' = [t \in Txs |-> IF lock[t] \in dead THEN Nobody ELSE lock[t]]
  /\ view' = [s \in Sessions |->
                IF s \in dead THEN [t \in Txs |-> NotLoaded] ELSE view[s]]
  /\ events' = [s \in Sessions |-> IF s \in dead THEN {} ELSE events[s]]
  /\ claim' = [r \in Requests |-> IF r \in dead THEN NoClaim ELSE claim[r]]
  /\ pc' = [r \in Requests |-> IF r \in dead THEN "done" ELSE pc[r]]
  /\ results' = [results EXCEPT ![p] = [t \in Txs |-> "none"]]
  /\ inflight' = [inflight EXCEPT ![p] = {}]
  /\ UNCHANGED <<db, attempts, outbox, arg, outcome, res, charge, confirmed>>

(* External: the provider decides a pending payment, at any later time. *)
ProviderSettles(r) ==
  /\ charge[r] = "pending"
  /\ \E c \in {"captured", "failed"} : charge' = [charge EXCEPT ![r] = c]
  /\ UNCHANGED <<storeVars, pc, arg, outcome, res, confirmed, results, inflight>>

RequestStep(r) ==
  \/ \E a \in Arg : Call(r, a)
  \/ ReadRow(r)
  \/ RejectRow(r)
  \/ MarkDispatchStarted(r)
  \/ ClaimAttempt(r)
  \/ EnterFlight(r)
  \/ CallProvider(r)
  \/ ProviderAnswers(r)
  \/ FinalizeOutcome(r)
  \/ CallerCommits(r)
  \/ CallerRollsBack(r)

---------------------------------------------------------------------------------
(* Asking the provider about a transaction later *)

CallsFor(t) == {r \in Requests : charge[r] # "none" /\ arg[r].tx = t}

(* RazorpayHttpAdapter.fetch_payment_status: SUCCESS for a body whose       *)
(* status is "captured" or missing, PENDING for any other status, a failed  *)
(* payment's included, and UNKNOWN for every exception: a payment reference *)
(* the provider does not know is an HTTP error.  Callers handle PENDING as  *)
(* UNKNOWN, and no answer depends on what the provider really did.          *)
HttpStatusAnswers == {"SUCCESS", "UNKNOWN"}

(* MockRazorpayAdapter.fetch_payment_status, the adapter both components    *)
(* get by default: SUCCESS unless it is set to something else.  Only it can *)
(* report a failure; it is taken to be set so only when every call made for *)
(* the transaction failed.                                                  *)
MockStatusAnswers(t) ==
  IF CallsFor(t) # {} /\ \A r \in CallsFor(t) : charge[r] = "failed"
  THEN {"SUCCESS", "FAILED", "UNKNOWN"} ELSE {"SUCCESS", "UNKNOWN"}

StatusAnswers(t) == HttpStatusAnswers \cup MockStatusAnswers(t)
=================================================================================
