------------------------------ MODULE ReceiptLedger ------------------------------
(***************************************************************************)
(* The in-memory audit ledger (apps/api/domain/audit_ledger.py) and the    *)
(* signed action receipts (receipt.py, receipt_signer.py,                  *)
(* receipt_verifier.py) of the transactions that the execution service     *)
(* holds.  The ledger's methods run under one lock.  The orchestrator owns *)
(* a ledger and a signer with a key made at start-up.                      *)
(*                                                                         *)
(* SHA-256 is modelled by the hashed content and an Ed25519 signature by   *)
(* the signed hash with the key.  Time stamps that identify nothing are    *)
(* left out, except executed_at.                                           *)
(***************************************************************************)
EXTENDS CommerceOrchestrator

CONSTANTS MaxEvents, MaxReceipts   \* bounds on the ledger and on receipts

VARIABLES
  ledger,    \* _events
  receipts,  \* per transaction, the receipt its holder has
  signed     \* per transaction, what was signed, when and with which key

receiptVars == <<ledger, receipts, signed>>
vars == <<memoryVars, orchestratorVars, ledger, receipts, signed>>

GenesisHash == <<>>
NoReceipt == [tx |-> 0]

(* _compute_event_hash: the event's id and content with the previous hash *)
EventHash(id, t, prev) == <<id, t>> \o prev

HeadHash == IF ledger = <<>> THEN GenesisHash ELSE ledger[Len(ledger)].hash

(* verify_chain and verify_hash *)
VerifyChain ==
  \A i \in DOMAIN ledger :
    /\ ledger[i].prev = IF i = 1 THEN GenesisHash ELSE ledger[i - 1].hash
    /\ ledger[i].hash = EventHash(ledger[i].id, ledger[i].tx, ledger[i].prev)

(* get_latest_event_for_transaction *)
EventsOf(t) == {i \in DOMAIN ledger : ledger[i].tx = t}
LatestEvent(t) == CHOOSE i \in EventsOf(t) : \A j \in EventsOf(t) : j <= i

(* A transaction of this process whose intent has been answered *)
Answered(t) == transactions[t] # NoTx /\ origin[t].done

Appended(t) == Append(ledger,
  [id |-> Len(ledger) + 1, tx |-> t, prev |-> HeadHash,
   hash |-> EventHash(Len(ledger) + 1, t, HeadHash)])

(* append_event *)
AppendEvent(t) ==
  /\ Answered(t)
  /\ Len(ledger) < MaxEvents
  /\ ledger' = Appended(t)
  /\ UNCHANGED <<memoryVars, orchestratorVars, receipts, signed>>

---------------------------------------------------------------------------------
(* Fault: the amount is left out of the canonical payload. *)
CanonicalHash_NoAmount(r) ==
  [tx |-> r.tx, mandate |-> r.mandate, merchant |-> r.merchant, cart |-> r.cart,
   decision |-> r.decision, link |-> r.link]

(* _compute_canonical_hash: everything but the times of execution and      *)
(* creation, the hash and the signature                                    *)
CanonicalHash(r) ==
  [tx |-> r.tx, mandate |-> r.mandate, merchant |-> r.merchant, cart |-> r.cart,
   amount |-> r.amount, decision |-> r.decision, link |-> r.link]

(* The unsigned receipt of a transaction, linked to an audit event *)
Unsigned(t, link) ==
  [tx |-> t, mandate |-> transactions[t].mandate, merchant |-> transactions[t].merchant,
   cart |-> transactions[t].hash, amount |-> transactions[t].amount, decision |-> "ALLOW",
   executedAt |-> 1, link |-> link]

(* The signer's key pair is made when the process starts. *)
Signature(hash) == [key |-> restarts, over |-> hash]

(* append_event and sign_receipt with the hash of the new event: the hash  *)
(* of the unsigned receipt is what is signed.                              *)
SignReceipt(t) ==
  LET r == Unsigned(t, Appended(t)[Len(ledger) + 1].hash)  h == CanonicalHash(r) IN
  /\ Answered(t)
  /\ Len(ledger) < MaxEvents
  /\ Cardinality({u \in Txs : receipts[u] # NoReceipt}) < MaxReceipts
  /\ receipts[t] = NoReceipt
  /\ ledger' = Appended(t)
  /\ receipts' = [receipts EXCEPT ![t] = [body |-> r, hash |-> h, sig |-> Signature(h), tx |-> t]]
  /\ signed' = [signed EXCEPT ![t] = [body |-> r, key |-> restarts, at |-> Len(ledger) + 1]]
  /\ UNCHANGED <<memoryVars, orchestratorVars>>

(* What the holder of a receipt may present: the receipt, or the receipt   *)
(* with another amount, another time of execution or a link to the newest  *)
(* event, with the hash computed again or left as it was                   *)
Presented(t) ==
  LET rc == receipts[t]
      bodies == {rc.body, [rc.body EXCEPT !.amount = @ + 1], [rc.body EXCEPT !.executedAt = 2],
                 [rc.body EXCEPT !.link = HeadHash]}
  IN  UNION {{[rc EXCEPT !.body = b, !.hash = h] : h \in {rc.hash, CanonicalHash(b)}} : b \in bodies}

(* _verify_bindings against the transaction *)
BindingsHold(r, t) ==
  /\ r.tx = t /\ r.mandate = transactions[t].mandate /\ r.merchant = transactions[t].merchant
  /\ r.amount = transactions[t].amount /\ r.cart = transactions[t].hash /\ r.decision = "ALLOW"

(* The audit linkage: the chain is intact, and the receipt names the       *)
(* latest event of its transaction.                                        *)
AuditLinkHolds(r) ==
  /\ r.link # GenesisHash
  /\ VerifyChain
  /\ EventsOf(r.tx) # {}
  /\ ledger[LatestEvent(r.tx)].hash = r.link

(* ReceiptVerifier.verify: payload hash, signature under the public key    *)
(* the caller gives, the bindings it asks for, and the audit linkage when  *)
(* it gives a ledger.  The signer of life n of the process has key n.      *)
ReceiptVerifies(rc, key, bound, withLedger) ==
  /\ rc.hash = CanonicalHash(rc.body)
  /\ rc.sig = [key |-> key, over |-> rc.hash]
  /\ bound => BindingsHold(rc.body, rc.tx)
  /\ withLedger => AuditLinkHolds(rc.body)

---------------------------------------------------------------------------------
Init ==
  /\ OrchestratorInit
  /\ ledger = <<>>
  /\ receipts = [t \in Txs |-> NoReceipt]
  /\ signed = [t \in Txs |-> NoReceipt]

(* A restart empties the ledger; receipts are with their holders. *)
Next ==
  \/ /\ OrchestratorNext
     /\ ledger' = IF restarts' # restarts THEN <<>> ELSE ledger
     /\ UNCHANGED <<receipts, signed>>
  \/ \E t \in Txs : AppendEvent(t) \/ SignReceipt(t)

Spec == Init /\ [][Next]_vars

(* A receipt that is presented verifies exactly when none of its bound     *)
(* fields differs from what was signed (the time of execution may) and the *)
(* key is the one it was signed with; and, when the ledger of the running  *)
(* process is given, the receipt was linked to an event of that ledger and *)
(* no event of its transaction has been appended since.  Comparing it with *)
(* the transaction changes nothing, as long as the process holds the       *)
(* transaction.  Without a ledger a receipt is good for ever.              *)
ReceiptVerdict ==
  \A t \in Txs : receipts[t] # NoReceipt =>
    LET asSigned(rc) == [rc.body EXCEPT !.executedAt = 1] = signed[t].body
        latest == /\ signed[t].key = restarts
                  /\ EventsOf(t) # {} /\ \A i \in EventsOf(t) : i <= signed[t].at
    IN  \A rc \in Presented(t), key \in 0 .. restarts, bound \in BOOLEAN, withLedger \in BOOLEAN :
          (bound => transactions[t] # NoTx) =>
            ( ReceiptVerifies(rc, key, bound, withLedger) <=>
                asSigned(rc) /\ key = signed[t].key /\ (withLedger => latest) )
=================================================================================
