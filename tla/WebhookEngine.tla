----------------------------- MODULE WebhookEngine -----------------------------
(***************************************************************************)
(* Inbound provider webhooks: handle_razorpay_webhook                      *)
(* (apps/api/routers/webhooks.py), WebhookEngine.async_process_webhook     *)
(* (apps/api/domain/webhook_engine.py) and WebhookRepository, over the     *)
(* payment path of PaymentGateway.                                         *)
(*                                                                         *)
(* The provider delivers an event at least once, in any order, and again   *)
(* after a refusal; every delivery is one request with its own unit of     *)
(* work.  The router commits only when the engine reports success: a       *)
(* refused event leaves no record and may be delivered again.              *)
(***************************************************************************)
EXTENDS PaymentGateway

CONSTANTS EventIds,      \* provider event identities
          EventOf        \* the type and the transaction each event is about

VARIABLES
  hooks,     \* the committed webhook_events rows
  inserter,  \* per event id, the session with an uncommitted row of that key
  hpc,       \* where each delivery is
  evt,       \* the event it carries and how its request fits the gateway
  answer     \* what the router answered

hookVars == <<hooks, inserter, hpc, evt, answer>>

Announcement == {"payment.authorized", "payment.captured", "payment.failed", "payment.unknown"}

(* How the request fits: signed and fresh, or unsigned, malformed or stale *)
(* ("refused"), or for a transaction of another merchant ("foreign").      *)
Fit == {"good", "refused", "foreign"}
NoEvent == [fit |-> "none"]

ASSUME HookAssumption == EventOf \in [EventIds -> [type : Announcement, tx : Txs]]

HookTypeOK ==
  /\ hooks \subseteq EventIds
  /\ inserter \in [EventIds -> Deliveries \cup {Nobody}]
  /\ hpc \in [Deliveries -> {"idle", "register", "insert", "read", "apply", "reply", "done"}]
  /\ evt \in [Deliveries -> [id : EventIds, fit : Fit] \cup {NoEvent}]
  /\ answer \in [Deliveries -> {"none", "ok", "duplicate", "refused"}]

HookInit ==
  /\ Init
  /\ hooks = {}
  /\ inserter = [e \in EventIds |-> Nobody]
  /\ hpc = [d \in Deliveries |-> "idle"]
  /\ evt = [d \in Deliveries |-> NoEvent]
  /\ answer = [d \in Deliveries |-> "none"]

HookGoto(d, step) == hpc' = [hpc EXCEPT ![d] = step]
TypeOf(d) == EventOf[evt[d].id].type
TxOf(d) == EventOf[evt[d].id].tx

(* External: what the provider may sign about transaction t.  A payment is *)
(* announced as authorized before it is captured, and each declined        *)
(* attempt is announced, whatever became of the others.                    *)
Announced(type, t) ==
  CASE type = "payment.authorized" -> \E r \in CallsFor(t) : charge[r] # "failed"
    [] type = "payment.captured" -> \E r \in CallsFor(t) : charge[r] = "captured"
    [] type = "payment.failed" -> \E r \in CallsFor(t) : charge[r] = "failed"
    [] OTHER -> TRUE

(* The end of the unit of work, with or without a commit of its event. *)
EndUnit(d, committed) ==
  /\ hooks' = hooks \cup {e \in EventIds : committed /\ inserter[e] = d}
  /\ inserter' = [e \in EventIds |-> IF inserter[e] = d THEN Nobody ELSE inserter[e]]
  /\ IF committed THEN Commit(d) ELSE Rollback(d)

---------------------------------------------------------------------------------
(* verify_signature, the JSON body, the event identity, validate_timestamp *)
(* and the correlated transaction id: only a signed and fresh request      *)
(* gets past them, and what is signed the provider announced.              *)
Receive(d, e, fit) ==
  /\ hpc[d] = "idle"
  /\ fit # "refused" => Announced(EventOf[e].type, EventOf[e].tx)
  /\ evt' = [evt EXCEPT ![d] = [id |-> e, fit |-> fit]]
  /\ IF fit = "refused"
     THEN HookGoto(d, "done") /\ answer' = [answer EXCEPT ![d] = "refused"]
     ELSE HookGoto(d, "register") /\ UNCHANGED answer
  /\ UNCHANGED <<storeVars, engineVars, recoveryVars, hooks, inserter>>

(* register_event, the lookup: a committed record makes it a duplicate. *)
LookUp(d) ==
  /\ hpc[d] = "register"
  /\ IF evt[d].id \in hooks
     THEN HookGoto(d, "reply") /\ answer' = [answer EXCEPT ![d] = "duplicate"]
     ELSE HookGoto(d, "insert") /\ UNCHANGED answer
  /\ UNCHANGED <<storeVars, engineVars, recoveryVars, hooks, inserter, evt>>

(* Fault: the event is registered in a unit of work of its own. *)
Insert_OwnUnit(d) ==
  /\ hpc[d] = "insert"
  /\ hooks' = hooks \cup {evt[d].id}
  /\ HookGoto(d, "read")
  /\ UNCHANGED <<storeVars, engineVars, recoveryVars, inserter, evt, answer>>

(* Fault: a row of a unit of work that is still open counts as a duplicate *)
Insert_AnswersEarly(d) ==
  /\ hpc[d] = "insert"
  /\ IF evt[d].id \in hooks \/ inserter[evt[d].id] # Nobody
     THEN /\ HookGoto(d, "reply")
          /\ answer' = [answer EXCEPT ![d] = "duplicate"]
          /\ UNCHANGED inserter
     ELSE /\ inserter' = [inserter EXCEPT ![evt[d].id] = d]
          /\ HookGoto(d, "read")
          /\ UNCHANGED answer
  /\ UNCHANGED <<storeVars, engineVars, recoveryVars, hooks, evt>>

(* register_event, the insert and its flush: the primary key makes it wait *)
(* for the unit of work that has inserted the same key.  If that one       *)
(* committed, IntegrityError, rollback and the duplicate's answer.         *)
Insert(d) ==
  /\ hpc[d] = "insert"
  /\ inserter[evt[d].id] = Nobody
  /\ IF evt[d].id \in hooks
     THEN /\ HookGoto(d, "reply")
          /\ answer' = [answer EXCEPT ![d] = "duplicate"]
          /\ UNCHANGED inserter
     ELSE /\ inserter' = [inserter EXCEPT ![evt[d].id] = d]
          /\ HookGoto(d, "read")
          /\ UNCHANGED answer
  /\ UNCHANGED <<storeVars, engineVars, recoveryVars, hooks, evt>>

(* The state an event stands for; other events change nothing. *)
TargetState(type) ==
  CASE type \in {"payment.authorized", "payment.captured"} -> "COMMITTED"
    [] type = "payment.failed" -> "ROLLED_BACK"
    [] OTHER -> "none"

Refuse(d) == HookGoto(d, "reply") /\ answer' = [answer EXCEPT ![d] = "refused"]
Accept(d) == HookGoto(d, "reply") /\ answer' = [answer EXCEPT ![d] = "ok"]

(* Fault: the merchant of the event is not compared. *)
Mismatch_AnyMerchant(d, revoked) == revoked

(* The merchant and the mandate checks: the mandate may have been revoked. *)
Mismatch(d, revoked) == evt[d].fit = "foreign" \/ revoked

(* get_transaction without a lock, the merchant, the mandate, and the      *)
(* terminal-state protection, all decided on this read.                    *)
ReadAndDecide(d) ==
  LET t == TxOf(d)  row == Loaded(d, TxOf(d))  target == TargetState(TypeOf(d)) IN
  /\ hpc[d] = "read"
  /\ view' = [view EXCEPT ![d][t] = row]
  /\ \E revoked \in BOOLEAN :
       IF Mismatch(d, revoked)
       THEN Refuse(d)
       ELSE IF target = "none"
       THEN Accept(d)
       ELSE IF IsTerminal(row.state) \/ row.state \in {"COMMITTED", "ROLLED_BACK"}
       THEN IF row.state = target THEN Accept(d) ELSE Refuse(d)
       ELSE HookGoto(d, "apply") /\ UNCHANGED answer
  /\ UNCHANGED <<db, attempts, outbox, lock, claim, events, engineVars, recoveryVars,
                 hooks, inserter, evt>>

(* transition_transaction_state: waits for the row lock, then checks and   *)
(* changes the object read before; an illegal transition raises and the    *)
(* unit of work rolls back.  The audit event follows; no outbox event.     *)
ApplyEvent(d) ==
  LET t == TxOf(d)  row == Loaded(d, TxOf(d))  target == TargetState(TypeOf(d)) IN
  /\ hpc[d] = "apply"
  /\ CanLock(d, t)
  /\ lock' = [lock EXCEPT ![t] = d]
  /\ IF TransitionAllowed(row.state, target)
     THEN view' = [view EXCEPT ![d][t].state = target] /\ Accept(d)
     ELSE UNCHANGED view /\ Refuse(d)
  /\ UNCHANGED <<db, attempts, outbox, claim, events, engineVars, recoveryVars,
                 hooks, inserter, evt>>

(* The router: commit on success, HTTPException and rollback otherwise. *)
Reply(d) ==
  /\ hpc[d] = "reply"
  /\ EndUnit(d, answer[d] \in {"ok", "duplicate"})
  /\ HookGoto(d, "done")
  /\ UNCHANGED <<engineVars, recoveryVars, evt, answer>>

(* The process dies, or the audit append or the commit fails: the provider *)
(* gets no answer.                                                         *)
AbortDelivery(d) ==
  /\ hpc[d] \in {"register", "insert", "read", "apply", "reply"}
  /\ EndUnit(d, FALSE)
  /\ HookGoto(d, "done")
  /\ answer' = [answer EXCEPT ![d] = "none"]
  /\ UNCHANGED <<engineVars, recoveryVars, evt>>

DeliveryStep(d) ==
  \/ \E e \in EventIds, fit \in Fit : Receive(d, e, fit)
  \/ LookUp(d) \/ Insert(d) \/ ReadAndDecide(d) \/ ApplyEvent(d) \/ Reply(d)

HookNext ==
  \/ Next /\ UNCHANGED hookVars
  \/ \E d \in Deliveries : DeliveryStep(d) \/ AbortDelivery(d)

HookSpec == HookInit /\ [][HookNext]_<<vars, hookVars>>

---------------------------------------------------------------------------------
(* The effect of an event and its record become durable together, and     *)
(* only once: the unit of work that moves a transaction for a delivery is  *)
(* the first and the only one to record its event, whatever duplicates run *)
(* beside it, and a unit that is lost takes both with it ("Atomic          *)
(* primary-key event registration").                                       *)
EffectWithRecord ==
  [][\A d \in Deliveries :
       hpc[d] = "reply" /\ hpc'[d] = "done" /\ db' # db =>
         evt[d].id \in hooks' \ hooks]_<<vars, hookVars>>

(* A delivery the gateway acknowledged is durable, so the provider may     *)
(* stop repeating it: the acknowledgement of a duplicate never rests on a  *)
(* unit of work that is later rolled back.                                 *)
AcknowledgedIsDurable ==
  \A d \in Deliveries :
    hpc[d] = "done" /\ answer[d] \in {"ok", "duplicate"} => evt[d].id \in hooks

(* With webhooks in play a transaction is COMMITTED only on the provider's *)
(* word: the adapter reported SUCCESS about it, or a delivery that was     *)
(* signed, fresh and of the transaction's own merchant announced its       *)
(* payment as authorized or captured and was acknowledged.                 *)
Endorses(d, t) ==
  /\ hpc[d] = "done" /\ answer[d] = "ok" /\ evt[d].fit = "good"
  /\ TargetState(TypeOf(d)) = "COMMITTED" /\ TxOf(d) = t

CommittedOnProvidersWord ==
  \A t \in Txs :
    db[t].state = "COMMITTED" => t \in confirmed \/ \E d \in Deliveries : Endorses(d, t)
================================================================================
