---------------------------- MODULE ReceiptLedgerProofs ----------------------------
(***************************************************************************)
(* Proofs about the intents of the CommerceOrchestrator and the receipts   *)
(* of the ReceiptLedger, for any clients, admins, keys, mandates,          *)
(* merchants, prices and restarts.                                         *)
(*                                                                         *)
(* The inductive invariant has three layers: MandateInv relates the        *)
(* dictionary of mandates, their table and the revocations that were       *)
(* answered; IntentInv says what a call in flight and an answer in the     *)
(* cache know of their transaction; ReceiptInv relates a receipt, what was *)
(* signed and the chain of the ledger.                                     *)
(***************************************************************************)
EXTENDS ReceiptLedger, WellFoundedInduction, TLAPS

(* Mandates *)

MandateState == {None, "ACTIVE", "REVOKED"}
AdminWork == [pc : {"create", "revoke"}, mandate : MandateIds]

(* A revocation that was answered stands in the dictionary of the same     *)
(* life; with a database it stands in the table, and no later life has the *)
(* mandate ACTIVE unless it is seeded.                                     *)
Revoked(m) ==
  /\ revokedIn[m] = restarts => mandates[m] = "REVOKED"
  /\ persistent /\ revokedIn[m] # NeverRevoked =>
       /\ mandateRows[m] = "REVOKED"
       /\ m \in Created => mandates[m] # "ACTIVE"

MandateInv ==
  /\ persistent \in BOOLEAN
  /\ mandates \in [MandateIds -> MandateState]
  /\ mandateRows \in [MandateIds -> MandateState]
  /\ restarts \in Nat
  /\ \A m \in MandateIds : revokedIn[m] \in {NeverRevoked} \cup 0 .. restarts
  /\ DOMAIN revokedIn = MandateIds
  /\ admin \in [Admins -> {Resting} \cup AdminWork]
  /\ \A a \in Admins : admin[a].pc = "create" =>
       /\ admin[a].mandate \in Created /\ mandateRows[admin[a].mandate] = None
       /\ \A b \in Admins :
            admin[b].pc = "create" /\ admin[b].mandate = admin[a].mandate => a = b
  /\ \A a \in Admins : admin[a].pc = "revoke" => mandates[admin[a].mandate] = "REVOKED"
  /\ \A m \in MandateIds : Revoked(m)

(* Intents *)

ReportedState == {"COMMITTED", "FAILURE", "REJECTED", "STEP_UP_REQUIRED"}
Trace == {"EXECUTED", "FAILED", "PENDING", "NOT ATTEMPTED"}
Result == [tx : Txs, state : ReportedState, receipt : BOOLEAN, trace : Trace]
OriginOf == [key : Keys, barred : BOOLEAN, done : BOOLEAN, life : Nat, after : SUBSET Txs]

(* A transaction as the orchestrator builds it *)
IsOrder(o) ==
  /\ o = [state |-> o.state, merchant |-> o.merchant, buyer |-> o.buyer, mandate |-> o.mandate,
          amount |-> o.amount, currency |-> o.currency, hash |-> o.hash]
  /\ o.amount \in Int

(* ReportTruthful, of one answer *)
Truthful(r) ==
  /\ r.state = "COMMITTED" <=> reported[r.tx] = "SUCCESS"
  /\ r.trace = "EXECUTED" <=> reported[r.tx] = "SUCCESS"
  /\ r.state \in {"REJECTED", "STEP_UP_REQUIRED"} => dispatched[r.tx] = 0 /\ ~r.receipt
  /\ r.trace = "NOT ATTEMPTED" => dispatched[r.tx] = 0

Untouched(t) ==
  dispatched[t] = 0 /\ reported[t] = None /\ results[t] = None /\ transactions[t] = NoTx

TxOf(c) == IF call[c].pc = "finish" THEN call[c].result.tx ELSE call[c].tx

(* A call in flight owns its transaction, which no one has touched before  *)
(* it is executed.                                                         *)
Running(c) ==
  /\ call[c].pc \in {"evaluate", "execute", "finish"}
  /\ TxOf(c) \in Txs /\ origin[TxOf(c)] # NoOrigin
  /\ ~origin[TxOf(c)].done /\ origin[TxOf(c)].life = restarts
  /\ call[c].pc \in {"evaluate", "execute"} => Untouched(TxOf(c))
  /\ call[c].pc = "evaluate" =>
       /\ call[c].mandate \in MandateIds /\ call[c].merchant \in Merchants
       /\ origin[TxOf(c)].barred => RevocationStands(call[c].mandate)
  /\ call[c].pc = "execute" => ~origin[TxOf(c)].barred /\ IsOrder(call[c].order)
  /\ call[c].pc = "finish" => call[c].result \in Result /\ Truthful(call[c].result)

IntentTypeOK ==
  /\ restarts \in Nat
  /\ products \in [Merchants -> Prices \cup {NoPrice}]
  /\ origin \in [Txs -> {NoOrigin} \cup OriginOf]
  /\ dispatched \in [Txs -> Nat]
  /\ DOMAIN reported = Txs /\ DOMAIN results = Txs /\ DOMAIN transactions = Txs
  /\ executed \in [Keys -> {NoResult} \cup Result]
  /\ DOMAIN call = Clients

(* A call that begins has a key no answered call of this process has *)
After(u, t) ==
  /\ origin[u] # NoOrigin
  /\ origin[u].life = origin[t].life => origin[u].key # origin[t].key

OriginInv ==
  \A t \in Txs :
    /\ origin[t] = NoOrigin => Untouched(t)
    /\ origin[t] # NoOrigin =>
         /\ origin[t].life <= restarts
         /\ origin[t].barred => dispatched[t] = 0
         /\ origin[t].done /\ origin[t].life = restarts => executed[origin[t].key] # NoResult
         /\ \A u \in origin[t].after : After(u, t)

ClientInv ==
  /\ \A c \in Clients : call[c] = Resting \/ Running(c)
  /\ \A c, d \in Clients :
       call[c] # Resting /\ call[d] # Resting /\ TxOf(c) = TxOf(d) => c = d

CacheInv ==
  \A k \in Keys : executed[k] # NoResult =>
    /\ origin[executed[k].tx] # NoOrigin /\ origin[executed[k].tx].done
    /\ Truthful(executed[k])

HeldInv == \A t \in Txs : transactions[t] # NoTx => IsOrder(transactions[t])

IntentInv == IntentTypeOK /\ OriginInv /\ ClientInv /\ CacheInv /\ HeldInv

(* Receipts *)

LedgerEvent == [id : Nat, tx : Txs, prev : Seq(Nat), hash : Seq(Nat)]

(* The chain is intact, and the length of a hash tells its place *)
LedgerInv ==
  /\ ledger \in Seq(LedgerEvent)
  /\ VerifyChain
  /\ \A i \in DOMAIN ledger : Len(ledger[i].hash) = 2 * i

(* The ledger has events only of intents that this process has answered *)
HeldEvent(i) ==
  LET t == ledger[i].tx
  IN  t \in Txs /\ transactions[t] # NoTx /\ origin[t] # NoOrigin /\ origin[t].done

IsBody(b) ==
  /\ b = [tx |-> b.tx, mandate |-> b.mandate, merchant |-> b.merchant, cart |-> b.cart,
          amount |-> b.amount, decision |-> b.decision, executedAt |-> b.executedAt,
          link |-> b.link]
  /\ b.amount \in Int

(* What was signed stands in the ledger and repeats the transaction, as    *)
(* long as the process that signed it runs; a later one does not know the  *)
(* transaction.                                                            *)
SignedInv(t) ==
  /\ IsBody(signed[t].body) /\ signed[t].body.executedAt = 1
  /\ signed[t].body.tx = t /\ signed[t].body.decision = "ALLOW"
  /\ signed[t].key \in Nat /\ signed[t].key <= restarts
  /\ origin[t] # NoOrigin /\ origin[t].done
  /\ IF signed[t].key = restarts
     THEN /\ signed[t].at \in DOMAIN ledger /\ ledger[signed[t].at].tx = t
          /\ ledger[signed[t].at].hash = signed[t].body.link
          /\ transactions[t] # NoTx /\ BindingsHold(signed[t].body, t)
     ELSE transactions[t] = NoTx

(* The holder has what was signed, with its hash and signature *)
HolderInv(t) ==
  /\ receipts[t] = [body |-> signed[t].body, hash |-> CanonicalHash(signed[t].body),
                    sig |-> receipts[t].sig, tx |-> t]
  /\ receipts[t].sig = [key |-> signed[t].key, over |-> CanonicalHash(signed[t].body)]

ReceiptInv ==
  /\ LedgerInv /\ \A i \in DOMAIN ledger : HeldEvent(i)
  /\ DOMAIN receipts = Txs /\ DOMAIN signed = Txs
  /\ \A t \in Txs : receipts[t] # NoReceipt => SignedInv(t) /\ HolderInv(t)

IInv == MandateInv /\ IntentInv /\ ReceiptInv
--------------------------------------------------------------------------------

(* Mandates: the endpoints and the restart *)

mandateVars == <<persistent, mandates, mandateRows, admin, revokedIn, restarts>>

LEMMA MandateShapes ==
  /\ Resting \notin AdminWork /\ Resting.pc = "idle"
  /\ None \notin {"ACTIVE", "REVOKED"} /\ NeverRevoked \notin Nat
  BY DEF Resting, AdminWork, None, NeverRevoked

LEMMA MandateInitInv == OrchestratorInit => MandateInv
<1> SUFFICES ASSUME OrchestratorInit PROVE MandateInv
  OBVIOUS
<1>1. /\ mandates \in [MandateIds -> MandateState]
      /\ mandateRows = [m \in MandateIds |->
                          IF persistent /\ m \in SeededRows THEN "ACTIVE" ELSE None]
      /\ admin = [a \in Admins |-> Resting] /\ persistent \in BOOLEAN
      /\ restarts = 0 /\ revokedIn = [m \in MandateIds |-> NeverRevoked]
  BY DEF OrchestratorInit, SeedMandates, MandateState
<1>2. mandateRows \in [MandateIds -> MandateState]
  BY <1>1 DEF MandateState
<1>3. \A m \in MandateIds : Revoked(m)
  BY <1>1, MandateShapes DEF Revoked
<1> QED
  BY <1>1, <1>2, <1>3, MandateShapes DEF MandateInv

(* A mandate that a step leaves alone *)
LEMMA RevokedFrame ==
  ASSUME NEW m \in MandateIds, Revoked(m), UNCHANGED <<persistent, restarts>>,
         mandates'[m] = mandates[m], mandateRows'[m] = mandateRows[m],
         revokedIn'[m] = revokedIn[m]
  PROVE  Revoked(m)'
  BY DEF Revoked

(* An admin that takes up or ends its work leaves the others alone *)
LEMMA CreateMandateInv ==
  ASSUME MandateInv, NEW a \in Admins, NEW m \in MandateIds, CreateMandate(a, m)
  PROVE  MandateInv'
<1> DEFINE work == [pc |-> "create", mandate |-> m]
<1>1. /\ m \in Created /\ mandates[m] = None /\ mandateRows[m] = None
      /\ mandates' = [mandates EXCEPT ![m] = "ACTIVE"]
      /\ \A b \in Admins : admin[b] # Resting => admin[b].mandate # m
      /\ UNCHANGED <<persistent, mandateRows, revokedIn, restarts>>
  BY DEF CreateMandate
<1>2. revokedIn[m] # restarts /\ (persistent => revokedIn[m] = NeverRevoked)
  BY <1>1, MandateShapes DEF MandateInv, Revoked
<1>3. /\ mandates' \in [MandateIds -> MandateState] /\ mandates'[m] = "ACTIVE"
      /\ \A n \in MandateIds : n # m => mandates'[n] = mandates[n]
  BY <1>1 DEF MandateInv, MandateState
<1>4. work \in AdminWork /\ work.pc = "create" /\ work.mandate = m
  BY DEF AdminWork
<1> HIDE DEF work
<1>5. admin' = admin \/ admin' = [admin EXCEPT ![a] = work]
  BY DEF CreateMandate, work
<1>6. /\ admin' \in [Admins -> {Resting} \cup AdminWork]
      /\ \A b \in Admins : admin'[b] = admin[b] \/ (b = a /\ admin'[b] = work)
  BY <1>4, <1>5 DEF MandateInv
<1>7. \A b \in Admins : admin[b].pc \in {"create", "revoke"} => admin[b].mandate # m
  BY <1>1, MandateShapes
<1>8. \A b \in Admins : admin'[b].pc = "create" =>
        /\ admin'[b].mandate \in Created /\ mandateRows'[admin'[b].mandate] = None
        /\ \A d \in Admins :
             admin'[d].pc = "create" /\ admin'[d].mandate = admin'[b].mandate => b = d
  BY <1>1, <1>4, <1>6, <1>7 DEF MandateInv
<1>9. \A b \in Admins : admin'[b].pc = "revoke" => mandates'[admin'[b].mandate] = "REVOKED"
  <2> SUFFICES ASSUME NEW b \in Admins, admin'[b].pc = "revoke"
               PROVE  mandates'[admin'[b].mandate] = "REVOKED"
    OBVIOUS
  <2>1. admin'[b] = admin[b]
    BY <1>4, <1>6
  <2>2. admin[b].mandate # m /\ mandates[admin[b].mandate] = "REVOKED"
        /\ admin[b].mandate \in MandateIds
    BY <2>1, <1>7, MandateShapes DEF MandateInv, AdminWork
  <2> QED
    BY <2>1, <2>2, <1>3
<1>10. \A n \in MandateIds : Revoked(n)'
  <2> SUFFICES ASSUME NEW n \in MandateIds PROVE Revoked(n)'
    OBVIOUS
  <2>1. CASE n = m
    BY <2>1, <1>1, <1>2 DEF Revoked
  <2>2. CASE n # m
    BY <2>2, <1>1, <1>3, RevokedFrame DEF MandateInv
  <2> QED
    BY <2>1, <2>2
<1> QED
  BY <1>1, <1>3, <1>6, <1>8, <1>9, <1>10 DEF MandateInv

LEMMA RevokeMandateInv ==
  ASSUME MandateInv, NEW a \in Admins, NEW m \in MandateIds, RevokeMandate(a, m)
  PROVE  MandateInv'
<1> DEFINE work == [pc |-> "revoke", mandate |-> m]
<1>1. /\ mandates' = [mandates EXCEPT ![m] = "REVOKED"]
      /\ UNCHANGED <<persistent, mandateRows, restarts>>
  BY DEF RevokeMandate
<1>2. /\ mandates' \in [MandateIds -> MandateState] /\ mandates'[m] = "REVOKED"
      /\ \A n \in MandateIds : n # m => mandates'[n] = mandates[n]
  BY <1>1 DEF MandateInv, MandateState
<1>3. work \in AdminWork /\ work.pc = "revoke" /\ work.mandate = m
  BY DEF AdminWork
<1> HIDE DEF work
<1>4. \/ admin' = [admin EXCEPT ![a] = work] /\ revokedIn' = revokedIn
      \/ admin' = admin /\ revokedIn' = [revokedIn EXCEPT ![m] = restarts] /\ ~persistent
  BY DEF RevokeMandate, work
<1>5. /\ admin' \in [Admins -> {Resting} \cup AdminWork]
      /\ \A b \in Admins : admin'[b] = admin[b] \/ (b = a /\ admin'[b] = work)
  BY <1>3, <1>4 DEF MandateInv
<1>6. \A b \in Admins : admin'[b].pc = "create" =>
        /\ admin'[b].mandate \in Created /\ mandateRows'[admin'[b].mandate] = None
        /\ \A d \in Admins :
             admin'[d].pc = "create" /\ admin'[d].mandate = admin'[b].mandate => b = d
  BY <1>1, <1>3, <1>5 DEF MandateInv
<1>7. \A b \in Admins : admin'[b].pc = "revoke" => mandates'[admin'[b].mandate] = "REVOKED"
  <2> SUFFICES ASSUME NEW b \in Admins, admin'[b].pc = "revoke"
               PROVE  mandates'[admin'[b].mandate] = "REVOKED"
    OBVIOUS
  <2>1. CASE admin'[b] = work
    BY <2>1, <1>2, <1>3
  <2>2. CASE admin'[b] = admin[b]
    <3>1. mandates[admin[b].mandate] = "REVOKED" /\ admin[b].mandate \in MandateIds
      BY <2>2, MandateShapes DEF MandateInv, AdminWork
    <3> QED
      BY <2>2, <3>1, <1>2
  <2> QED
    BY <2>1, <2>2, <1>5
<1>8. ASSUME NEW n \in MandateIds PROVE Revoked(n)'
  <2>1. CASE n = m
    BY <2>1, <1>1, <1>2, <1>4 DEF MandateInv, Revoked
  <2>2. CASE n # m
    BY <2>2, <1>1, <1>2, <1>4, RevokedFrame DEF MandateInv
  <2> QED
    BY <2>1, <2>2
<1>9. /\ DOMAIN revokedIn' = MandateIds
      /\ \A n \in MandateIds : revokedIn'[n] \in {NeverRevoked} \cup 0 .. restarts'
  BY <1>1, <1>4 DEF MandateInv
<1> QED
  BY <1>1, <1>2, <1>5, <1>6, <1>7, <1>8, <1>9 DEF MandateInv

(* The second half of the two endpoints: the row *)
LEMMA PersistInv ==
  ASSUME MandateInv, NEW a \in Admins, PersistMandate(a) \/ PersistRevocation(a)
  PROVE  MandateInv'
<1> DEFINE m == admin[a].mandate
<1>1. admin[a] \in AdminWork /\ m \in MandateIds
  BY DEF MandateInv, PersistMandate, PersistRevocation, AdminWork
<1>2. admin' = [admin EXCEPT ![a] = Resting] /\ UNCHANGED <<persistent, mandates, restarts>>
  BY DEF PersistMandate, PersistRevocation
<1>3. /\ admin' \in [Admins -> {Resting} \cup AdminWork] /\ admin'[a] = Resting
      /\ \A b \in Admins : b # a => admin'[b] = admin[b]
  BY <1>2 DEF MandateInv
<1> HIDE DEF m
<1>4. CASE UNCHANGED <<mandateRows, revokedIn>>
  <2>1. \A b \in Admins : admin'[b].pc = "create" => b # a
    BY <1>3, MandateShapes
  <2>2. \A b \in Admins : admin'[b].pc = "revoke" => b # a
    BY <1>3, MandateShapes
  <2>3. \A n \in MandateIds : Revoked(n)'
    BY <1>2, <1>4, RevokedFrame DEF MandateInv
  <2> QED
    BY <1>2, <1>3, <1>4, <2>1, <2>2, <2>3 DEF MandateInv
<1>5. CASE /\ admin[a].pc = "create" /\ UNCHANGED revokedIn
           /\ mandateRows' = [mandateRows EXCEPT ![m] = "ACTIVE"]
  <2>1. m \in Created /\ mandateRows[m] = None
        /\ \A b \in Admins : admin[b].pc = "create" /\ b # a => admin[b].mandate # m
    BY <1>5 DEF MandateInv, m
  <2>2. /\ mandateRows' \in [MandateIds -> MandateState] /\ mandateRows'[m] = "ACTIVE"
        /\ \A n \in MandateIds : n # m => mandateRows'[n] = mandateRows[n]
    BY <1>1, <1>5 DEF MandateInv, MandateState
  <2>3. \A b \in Admins : admin'[b].pc = "create" =>
          /\ b # a /\ admin'[b] = admin[b]
          /\ admin[b].mandate \in MandateIds /\ admin[b].mandate # m
    BY <1>3, <2>1, MandateShapes DEF MandateInv, AdminWork
  <2>4. \A b \in Admins : admin'[b].pc = "create" =>
          /\ admin'[b].mandate \in Created /\ mandateRows'[admin'[b].mandate] = None
          /\ \A d \in Admins :
               admin'[d].pc = "create" /\ admin'[d].mandate = admin'[b].mandate => b = d
    BY <2>2, <2>3 DEF MandateInv
  <2>5. \A b \in Admins : admin'[b].pc = "revoke" => mandates'[admin'[b].mandate] = "REVOKED"
    BY <1>2, <1>3, MandateShapes DEF MandateInv
  <2>6. ASSUME NEW n \in MandateIds PROVE Revoked(n)'
    <3>1. CASE n = m
      BY <3>1, <1>1, <1>2, <1>5, <2>1, MandateShapes DEF MandateInv, Revoked
    <3>2. CASE n # m
      BY <3>2, <1>2, <1>5, <2>2, RevokedFrame DEF MandateInv
    <3> QED
      BY <3>1, <3>2
  <2> QED
    BY <1>2, <1>3, <1>5, <2>1, <2>2, <2>4, <2>5, <2>6 DEF MandateInv
<1>6. CASE /\ admin[a].pc = "revoke" /\ revokedIn' = [revokedIn EXCEPT ![m] = restarts]
           /\ <<mandateRows[m], "REVOKED">> \in MandateTransitions
           /\ mandateRows' = [mandateRows EXCEPT ![m] = "REVOKED"]
  <2>1. mandates[m] = "REVOKED"
    BY <1>6 DEF MandateInv, m
  <2>2. mandateRows[m] # None
    BY <1>6 DEF MandateTransitions, None
  <2>3. /\ mandateRows' \in [MandateIds -> MandateState] /\ mandateRows'[m] = "REVOKED"
        /\ \A n \in MandateIds : n # m => mandateRows'[n] = mandateRows[n]
    BY <1>1, <1>6 DEF MandateInv, MandateState
  <2>4. \A b \in Admins : admin'[b].pc = "create" =>
          /\ b # a /\ admin'[b] = admin[b]
          /\ admin[b].mandate \in MandateIds /\ admin[b].mandate # m
    BY <1>3, <2>2, MandateShapes DEF MandateInv, AdminWork
  <2>5. \A b \in Admins : admin'[b].pc = "create" =>
          /\ admin'[b].mandate \in Created /\ mandateRows'[admin'[b].mandate] = None
          /\ \A d \in Admins :
               admin'[d].pc = "create" /\ admin'[d].mandate = admin'[b].mandate => b = d
    BY <2>3, <2>4 DEF MandateInv
  <2>6. \A b \in Admins : admin'[b].pc = "revoke" => mandates'[admin'[b].mandate] = "REVOKED"
    BY <1>2, <1>3, MandateShapes DEF MandateInv
  <2>7. ASSUME NEW n \in MandateIds PROVE Revoked(n)'
    <3>1. CASE n = m
      BY <3>1, <1>1, <1>2, <2>1, <2>3 DEF Revoked
    <3>2. CASE n # m
      BY <3>2, <1>2, <1>6, <2>3, RevokedFrame DEF MandateInv
    <3> QED
      BY <3>1, <3>2
  <2>8. /\ DOMAIN revokedIn' = MandateIds
        /\ \A n \in MandateIds : revokedIn'[n] \in {NeverRevoked} \cup 0 .. restarts'
    BY <1>2, <1>6 DEF MandateInv
  <2> QED
    BY <1>2, <1>3, <2>3, <2>5, <2>6, <2>7, <2>8 DEF MandateInv
<1> QED
  BY <1>4, <1>5, <1>6 DEF PersistMandate, PersistRevocation, m

LEMMA AdminHasMandate ==
  ASSUME MandateInv, NEW a \in Admins, admin[a] # Resting
  PROVE  admin[a].mandate \in MandateIds
  BY DEF MandateInv, AdminWork

LEMMA RestartMandates ==
  ASSUME MandateInv, Restart
  PROVE  MandateInv'
<1>1. /\ UNCHANGED <<persistent, mandateRows, revokedIn>>
      /\ mandates' = [m \in MandateIds |-> IF m \in Seeded THEN "ACTIVE" ELSE None]
      /\ admin' = [a \in Admins |-> Resting]
      /\ restarts' = restarts + 1
  BY DEF Restart, SeedMandates
<1>2. mandates' \in [MandateIds -> MandateState]
  BY <1>1 DEF MandateState
<1>3. ASSUME NEW m \in MandateIds
      PROVE  revokedIn'[m] \in {NeverRevoked} \cup 0 .. restarts' /\ revokedIn'[m] # restarts'
  BY <1>1 DEF MandateInv, NeverRevoked
<1>4. ASSUME NEW m \in MandateIds PROVE Revoked(m)'
  <2>1. m \in Created => mandates'[m] # "ACTIVE"
    BY <1>1, OrchestratorAssumption, MandateShapes
  <2> QED
    BY <1>1, <1>3, <2>1 DEF MandateInv, Revoked
<1> QED
  BY <1>1, <1>2, <1>3, <1>4, MandateShapes DEF MandateInv

(* A mandate whose revocation stands is not active, and in one life of the *)
(* process a revocation stands once it does.                               *)
LEMMA StandsNotActive ==
  ASSUME MandateInv, NEW m \in MandateIds, RevocationStands(m)
  PROVE  mandates[m] # "ACTIVE"
  BY DEF MandateInv, Revoked, RevocationStands

LEMMA StandsOn ==
  ASSUME MandateInv, UNCHANGED <<persistent, restarts>>,
         NEW m \in MandateIds, RevocationStands(m),
         \/ revokedIn' = revokedIn
         \/ \E n \in MandateIds : revokedIn' = [revokedIn EXCEPT ![n] = restarts]
  PROVE  RevocationStands(m)'
  BY DEF RevocationStands, NeverRevoked, MandateInv
--------------------------------------------------------------------------------

(* Intents: shapes, the initial state and the steps of others *)

LEMMA IntentShapes ==
  /\ NoOrigin \notin OriginOf /\ NoResult \notin Result
  /\ Resting.pc = "idle"
  BY DEF Resting, NoOrigin, OriginOf, NoResult, Result

LEMMA IntentInitInv == OrchestratorInit => IntentInv
<1> SUFFICES ASSUME OrchestratorInit PROVE IntentInv
  OBVIOUS
<1>1. /\ transactions = [t \in Txs |-> NoTx] /\ results = [t \in Txs |-> None]
      /\ dispatched = [t \in Txs |-> 0] /\ reported = [t \in Txs |-> None]
      /\ products = [x \in Merchants |-> NoPrice]
      /\ executed = [k \in Keys |-> NoResult] /\ call = [c \in Clients |-> Resting]
      /\ restarts = 0 /\ origin = [t \in Txs |-> NoOrigin]
  BY DEF OrchestratorInit, MemoryInit
<1>2. IntentTypeOK
  BY <1>1 DEF IntentTypeOK
<1>3. OriginInv /\ ClientInv /\ CacheInv /\ HeldInv
  BY <1>1 DEF OriginInv, ClientInv, CacheInv, HeldInv, Untouched
<1> QED
  BY <1>2, <1>3 DEF IntentInv

(* A step that leaves the intents and the revocations that stand alone *)
LEMMA IntentFrame ==
  ASSUME IntentInv,
         UNCHANGED <<memoryVars, executed, call, restarts, origin>>,
         products' \in [Merchants -> Prices \cup {NoPrice}],
         \A m \in MandateIds : RevocationStands(m) => RevocationStands(m)'
  PROVE  IntentInv'
<1>1. UNCHANGED <<transactions, results, dispatched, reported>>
  BY DEF memoryVars
<1>2. IntentTypeOK' /\ OriginInv' /\ CacheInv' /\ HeldInv'
  BY <1>1 DEF IntentInv, IntentTypeOK, OriginInv, After, CacheInv, HeldInv, Untouched,
                 Truthful
<1>3. \A c \in Clients : TxOf(c)' = TxOf(c)
  BY DEF TxOf
<1>4. ASSUME NEW c \in Clients PROVE Running(c) => Running(c)'
  BY <1>1, <1>3 DEF Running, Untouched, Truthful
<1>5. ClientInv'
  BY <1>3, <1>4 DEF IntentInv, ClientInv
<1> QED
  BY <1>2, <1>5 DEF IntentInv

LEMMA RestartIntents ==
  ASSUME IntentInv, Restart
  PROVE  IntentInv'
<1>1. /\ transactions' = [t \in Txs |-> NoTx] /\ results' = [t \in Txs |-> None]
      /\ UNCHANGED <<dispatched, reported, origin>>
      /\ products' = [x \in Merchants |-> NoPrice]
      /\ executed' = [k \in Keys |-> NoResult] /\ call' = [c \in Clients |-> Resting]
      /\ restarts' = restarts + 1
  BY DEF Restart
<1>2. IntentTypeOK'
  BY <1>1 DEF IntentInv, IntentTypeOK
<1>3. OriginInv'
  <2> SUFFICES ASSUME NEW t \in Txs
               PROVE  /\ origin[t] = NoOrigin => Untouched(t)'
                      /\ origin[t] # NoOrigin =>
                           /\ origin[t].life <= restarts'
                           /\ origin[t].barred => dispatched[t] = 0
                           /\ ~ (origin[t].done /\ origin[t].life = restarts')
                           /\ \A u \in origin[t].after : After(u, t)
    BY <1>1 DEF OriginInv, After
  <2>1. origin[t] = NoOrigin => Untouched(t)'
    BY <1>1 DEF IntentInv, OriginInv, Untouched
  <2>2. origin[t] # NoOrigin => origin[t].life \in Nat
    BY DEF IntentInv, IntentTypeOK, OriginOf
  <2> QED
    BY <1>1, <2>1, <2>2 DEF IntentInv, OriginInv, IntentTypeOK
<1>4. ClientInv' /\ CacheInv' /\ HeldInv'
  BY <1>1 DEF ClientInv, CacheInv, HeldInv
<1> QED
  BY <1>2, <1>3, <1>4 DEF IntentInv

(* A step of one client on its own transaction leaves the others' alone *)
LEMMA OthersRun ==
  ASSUME IntentInv, NEW c \in Clients, NEW t \in Txs, NEW r,
         call' = [call EXCEPT ![c] = r], UNCHANGED <<restarts, revokedIn, persistent>>,
         \A u \in Txs : u # t =>
           /\ origin'[u] = origin[u] /\ dispatched'[u] = dispatched[u]
           /\ reported'[u] = reported[u] /\ results'[u] = results[u]
           /\ transactions'[u] = transactions[u],
         \A d \in Clients : d # c /\ call[d] # Resting => TxOf(d) # t,
         r = Resting \/ (Running(c)' /\ TxOf(c)' = t)
  PROVE  ClientInv'
<1>1. call'[c] = r /\ \A d \in Clients : d # c => call'[d] = call[d]
  BY DEF IntentInv, IntentTypeOK
<1>2. \A d \in Clients : d # c => TxOf(d)' = TxOf(d)
  BY <1>1 DEF TxOf
<1>3. ASSUME NEW d \in Clients, d # c PROVE call'[d] = Resting \/ Running(d)'
  <2> SUFFICES ASSUME call[d] # Resting PROVE Running(d)'
    BY <1>1, <1>3
  <2>1. /\ Running(d) /\ TxOf(d) # t /\ TxOf(d)' = TxOf(d) /\ call'[d] = call[d]
        /\ TxOf(d) \in Txs
    BY <1>1, <1>2, <1>3 DEF IntentInv, ClientInv, Running
  <2>2. call[d].pc = "finish" => call[d].result.tx = TxOf(d)
    BY DEF TxOf
  <2>3. ASSUME call[d].pc = "finish" PROVE Truthful(call[d].result)'
    <3>1. Truthful(call[d].result) /\ call[d].result.tx = TxOf(d)
      BY <2>1, <2>2, <2>3 DEF Running
    <3>2. reported'[TxOf(d)] = reported[TxOf(d)] /\ dispatched'[TxOf(d)] = dispatched[TxOf(d)]
      BY <2>1
    <3> QED
      BY <2>1, <3>1, <3>2 DEF Truthful
  <2> QED
    BY <2>1, <2>3 DEF Running, Untouched, RevocationStands
<1>4. \A d \in Clients : call'[d] = Resting \/ Running(d)'
  BY <1>1, <1>3
<1>5. ASSUME NEW d \in Clients, NEW e \in Clients,
             call'[d] # Resting, call'[e] # Resting, TxOf(d)' = TxOf(e)'
      PROVE  d = e
  BY <1>1, <1>2, <1>5 DEF IntentInv, ClientInv
<1> QED
  BY <1>4, <1>5 DEF ClientInv

(* What a client that is at work knows of its transaction *)
LEMMA OwnTransaction ==
  ASSUME IntentInv, NEW c \in Clients, call[c].pc \in {"evaluate", "execute", "finish"}
  PROVE  /\ call[c] # Resting /\ Running(c)
         /\ TxOf(c) \in Txs /\ origin[TxOf(c)] \in OriginOf
         /\ \A d \in Clients : d # c /\ call[d] # Resting => TxOf(d) # TxOf(c)
<1>1. call[c] # Resting /\ Running(c)
  BY IntentShapes DEF IntentInv, ClientInv
<1>2. TxOf(c) \in Txs /\ origin[TxOf(c)] # NoOrigin
  BY <1>1 DEF Running
<1> QED
  BY <1>1, <1>2 DEF IntentInv, IntentTypeOK, ClientInv

LEMMA BeginIntentInv ==
  ASSUME IntentInv, NEW c \in Clients, NEW k \in Keys, NEW m \in MandateIds,
         NEW x \in Merchants, BeginIntent(c, k, m, x)
  PROVE  IntentInv'
<1> DEFINE after == {u \in Txs : origin[u] # NoOrigin /\ origin[u].done}
           work(t) == [pc |-> "evaluate", tx |-> t, mandate |-> m, merchant |-> x]
           new == [key |-> k, barred |-> RevocationStands(m), done |-> FALSE, life |-> restarts,
                   after |-> after]
<1>1. PICK t \in Txs : /\ origin[t] = NoOrigin
                       /\ call' = [call EXCEPT ![c] = work(t)]
                       /\ origin' = [origin EXCEPT ![t] = new]
  BY DEF BeginIntent
<1>2. /\ UNCHANGED <<transactions, results, dispatched, reported, products, executed,
                     restarts, revokedIn, persistent>>
      /\ executed[k] = NoResult
  BY DEF BeginIntent, memoryVars
<1>3. new \in OriginOf /\ new # NoOrigin
  <2>1. restarts \in Nat /\ after \in SUBSET Txs
    BY DEF IntentInv, IntentTypeOK
  <2>2. RevocationStands(m) \in BOOLEAN /\ FALSE \in BOOLEAN
    BY DEF RevocationStands
  <2> HIDE DEF after
  <2>3. new \in OriginOf
    BY <2>1, <2>2, Zenon DEF OriginOf
  <2> QED
    BY <2>3, IntentShapes
<1>4. /\ new.key = k /\ new.barred = RevocationStands(m) /\ new.done = FALSE
      /\ new.life = restarts /\ new.after = after
  OBVIOUS
<1>5. \A u \in after : /\ u # t /\ origin[u] # NoOrigin
                       /\ origin[u].life = restarts => origin[u].key # k
  BY <1>1, <1>2 DEF IntentInv, OriginInv
<1>6. \A u \in Txs : origin[u] # NoOrigin => u # t
  BY <1>1
<1>7. Untouched(t)
  BY <1>1 DEF IntentInv, OriginInv
<1> HIDE DEF new, after
<1>8. /\ origin' \in [Txs -> {NoOrigin} \cup OriginOf] /\ origin'[t] = new
      /\ \A u \in Txs : u # t => origin'[u] = origin[u]
  BY <1>1, <1>3 DEF IntentInv, IntentTypeOK
<1>9. IntentTypeOK'
  BY <1>1, <1>2, <1>8 DEF IntentInv, IntentTypeOK
<1>10. OriginInv'
  <2> SUFFICES ASSUME NEW u \in Txs
               PROVE  /\ origin'[u] = NoOrigin => Untouched(u)'
                      /\ origin'[u] # NoOrigin =>
                           /\ origin'[u].life <= restarts'
                           /\ origin'[u].barred => dispatched'[u] = 0
                           /\ origin'[u].done /\ origin'[u].life = restarts' =>
                                executed'[origin'[u].key] # NoResult
                           /\ \A w \in origin'[u].after : After(w, u)'
    BY DEF OriginInv
  <2>1. CASE u = t
    <3>1. \A w \in after : After(w, t)'
      BY <1>4, <1>5, <1>8 DEF after, After
    <3> QED
      BY <2>1, <3>1, <1>2, <1>3, <1>4, <1>7, <1>8 DEF Untouched, IntentInv, IntentTypeOK
  <2>2. CASE u # t
    <3>1. origin'[u] = origin[u] /\ (origin[u] # NoOrigin => origin[u].after \subseteq Txs)
      BY <2>2, <1>8 DEF IntentInv, IntentTypeOK, OriginOf
    <3>2. origin[u] # NoOrigin => \A w \in origin[u].after : After(w, u)'
      BY <3>1, <1>6, <1>8 DEF IntentInv, OriginInv, After
    <3> QED
      BY <3>1, <3>2, <1>2 DEF IntentInv, OriginInv, Untouched
  <2> QED
    BY <2>1, <2>2
<1>11. CacheInv'
  <2> SUFFICES ASSUME NEW j \in Keys, executed[j] # NoResult
               PROVE  /\ origin'[executed[j].tx] # NoOrigin /\ origin'[executed[j].tx].done
                      /\ Truthful(executed[j])
    BY <1>2 DEF CacheInv, Truthful
  <2>1. /\ origin[executed[j].tx] # NoOrigin /\ origin[executed[j].tx].done
        /\ Truthful(executed[j]) /\ executed[j].tx \in Txs
    BY DEF IntentInv, CacheInv, IntentTypeOK, Result
  <2> QED
    BY <2>1, <1>6, <1>8
<1>12. HeldInv'
  BY <1>2 DEF IntentInv, HeldInv
<1>13. /\ work(t).pc = "evaluate" /\ work(t).tx = t /\ work(t).mandate = m
       /\ work(t).merchant = x
  OBVIOUS
<1> HIDE DEF work
<1>14. call'[c] = work(t)
  BY <1>1 DEF IntentInv, IntentTypeOK
<1>15. TxOf(c)' = t
  BY <1>13, <1>14 DEF TxOf
<1>16. Running(c)'
  BY <1>2, <1>3, <1>4, <1>7, <1>8, <1>13, <1>14, <1>15 DEF Running, Untouched, RevocationStands
<1>17. \A d \in Clients : d # c /\ call[d] # Resting => TxOf(d) # t
  BY <1>6 DEF IntentInv, ClientInv, Running
<1>18. ClientInv'
  BY <1>1, <1>2, <1>8, <1>15, <1>16, <1>17, OthersRun, ZenonT(30)
<1> QED
  BY <1>9, <1>10, <1>11, <1>12, <1>18 DEF IntentInv

(* The controls: an intent that is allowed has an active mandate, and its  *)
(* cart has an integer for its total.                                      *)
LEMMA AllowedIsActive ==
  ASSUME NEW c \in Clients, Aggregate(Outcomes(c), LimitOutcome(c), TRUE) = "ALLOW"
  PROVE  mandates[call[c].mandate] = "ACTIVE"
<1>1. "MANDATE_EVALUATION" \in Controls
  BY DEF Controls
<1>2. Outcomes(c)["MANDATE_EVALUATION"] # "REJECT"
  BY <1>1 DEF Aggregate
<1> QED
  BY <1>1, <1>2 DEF Outcomes

LEMMA AggregateDecides ==
  ASSUME NEW v, NEW s, NEW d \in BOOLEAN
  PROVE  Aggregate(v, s, d) \in Decision
  BY DEF Aggregate, Decision

LEMMA CartTotal ==
  ASSUME IntentTypeOK, NEW c \in Clients, call[c].merchant \in Merchants
  PROVE  CartOf(c).total \in Int
<1> DEFINE x == call[c].merchant
           price == IF products[x] = NoPrice THEN DefaultPrice ELSE products[x]
<1>1. price \in Int
  BY OrchestratorAssumption DEF IntentTypeOK
<1> HIDE DEF price
<1>2. CartOf(c).total = price
  BY DEF CartOf, WithHash, price
<1> QED
  BY <1>1, <1>2

LEMMA EvaluateInv ==
  ASSUME MandateInv, IntentInv, NEW c \in Clients, Evaluate(c)
  PROVE  IntentInv'
<1> DEFINE t == call[c].tx
           decision == Aggregate(Outcomes(c), LimitOutcome(c), TRUE)
           cart == CartOf(c)
           order == [state |-> "AUTHORIZED", merchant |-> cart.merchant, buyer |-> "buyer",
                     mandate |-> cart.mandate, amount |-> cart.total,
                     currency |-> cart.currency, hash |-> cart.hash]
           go == [pc |-> "execute", tx |-> t, v |-> Outcomes(c), order |-> order]
           answer == ResultOf(t, decision, RefusedState(decision), None)
           stop == [pc |-> "finish", result |-> answer]
           r == IF decision = "ALLOW" THEN go ELSE stop
<1>1. /\ call[c].pc = "evaluate" /\ call' = [call EXCEPT ![c] = r]
      /\ UNCHANGED <<transactions, results, dispatched, reported, products, executed,
                     restarts, revokedIn, persistent, origin>>
  BY DEF Evaluate, memoryVars
<1>2. /\ t \in Txs /\ TxOf(c) = t /\ origin[t] \in OriginOf
      /\ \A d \in Clients : d # c /\ call[d] # Resting => TxOf(d) # t
      /\ ~origin[t].done /\ origin[t].life = restarts /\ Untouched(t)
      /\ call[c].mandate \in MandateIds /\ call[c].merchant \in Merchants
      /\ origin[t].barred => RevocationStands(call[c].mandate)
  BY <1>1, OwnTransaction DEF TxOf, Running
<1>3. IntentTypeOK' /\ OriginInv' /\ CacheInv' /\ HeldInv'
  BY <1>1 DEF IntentInv, IntentTypeOK, OriginInv, After, CacheInv, HeldInv, Untouched, Truthful
<1>4. call'[c] = r
  BY <1>1 DEF IntentInv, IntentTypeOK
<1>5. decision = "ALLOW" => ~origin[t].barred
  BY <1>2, AllowedIsActive, StandsNotActive
<1>6. IsOrder(order)
  <2>1. cart.total \in Int
    BY <1>2, CartTotal DEF IntentInv
  <2> HIDE DEF cart
  <2> QED
    BY <2>1 DEF IsOrder
<1>7. decision # "ALLOW" => answer \in Result /\ answer.tx = t /\ Truthful(answer)
  <2>1. decision \in Decision
    BY AggregateDecides
  <2> HIDE DEF decision
  <2>2. RefusedState(decision) \in {"STEP_UP_REQUIRED", "REJECTED"}
    BY DEF RefusedState
  <2>3. decision # "ALLOW" => TraceStatus(decision, None) = "NOT ATTEMPTED"
    BY DEF TraceStatus, None
  <2>4. RefusedState(decision) \in ReportedState /\ "NOT ATTEMPTED" \in Trace
    BY <2>2 DEF ReportedState, Trace
  <2> SUFFICES ASSUME decision # "ALLOW"
               PROVE  answer \in Result /\ answer.tx = t /\ Truthful(answer)
    OBVIOUS
  <2>5. answer = [tx |-> t, state |-> RefusedState(decision), receipt |-> FALSE,
                  trace |-> "NOT ATTEMPTED"]
    BY <2>3 DEF ResultOf
  <2> HIDE DEF answer, t
  <2>6. t \in Txs /\ FALSE \in BOOLEAN
    BY <1>2
  <2>7. /\ answer \in Result /\ answer.tx = t /\ answer.state = RefusedState(decision)
        /\ ~answer.receipt /\ answer.trace = "NOT ATTEMPTED"
    BY <2>4, <2>5, <2>6, Zenon DEF Result
  <2> QED
    BY <1>2, <2>2, <2>7 DEF Truthful, Untouched, None
<1> HIDE DEF decision, order, answer
<1>8. CASE decision = "ALLOW"
  <2>1. r = go /\ go.pc = "execute" /\ go.tx = t /\ go.order = order
    BY <1>8
  <2> HIDE DEF go, t
  <2>2. TxOf(c)' = t
    BY <1>4, <2>1 DEF TxOf
  <2>3. Running(c)'
    BY <1>1, <1>2, <1>4, <1>5, <1>6, <1>8, <2>1, <2>2, IntentShapes DEF Running, Untouched
  <2>4. ClientInv'
    BY <1>1, <1>2, <2>2, <2>3, OthersRun
  <2> QED
    BY <1>3, <2>4 DEF IntentInv
<1>9. CASE decision # "ALLOW"
  <2>1. r = stop /\ stop.pc = "finish" /\ stop.result = answer
    BY <1>9
  <2> HIDE DEF stop, t
  <2>2. TxOf(c)' = t
    BY <1>4, <1>7, <1>9, <2>1 DEF TxOf
  <2>3. call'[c].result \in Result /\ Truthful(call[c].result)'
    BY <1>1, <1>4, <1>7, <1>9, <2>1 DEF Truthful
  <2>4. Running(c)'
    BY <1>1, <1>2, <1>4, <2>1, <2>2, <2>3, IntentShapes DEF Running, Result
  <2>5. ClientInv'
    BY <1>1, <1>2, <2>2, <2>4, OthersRun, ZenonT(30)
  <2> QED
    BY <1>3, <2>5 DEF IntentInv
<1> QED
  BY <1>8, <1>9

(* execute_payment on a transaction that no one has touched: it is refused *)
(* or it reaches the provider once.                                        *)
LEMMA ExecuteOnce ==
  ASSUME IntentInv, NEW t \in Txs, NEW o, NEW asked, NEW v,
         Untouched(t), IsOrder(o), ExecutePayment(t, o, asked, "ALLOW", v, None)
  PROVE  /\ \A u \in Txs : u # t =>
              /\ dispatched'[u] = dispatched[u] /\ reported'[u] = reported[u]
              /\ results'[u] = results[u] /\ transactions'[u] = transactions[u]
         /\ dispatched' \in [Txs -> Nat]
         /\ DOMAIN reported' = Txs /\ DOMAIN results' = Txs /\ DOMAIN transactions' = Txs
         /\ IsOrder(transactions'[t])
         /\ results'[t] # None /\ (results'[t] = "SUCCESS" <=> reported'[t] = "SUCCESS")
<1> USE DEF IntentInv, IntentTypeOK
<1>1. results[t] = None /\ dispatched[t] = 0 /\ reported[t] = None
  BY DEF Untouched
<1>2. ASSUME NEW s PROVE IsOrder([o EXCEPT !.state = s])
  BY DEF IsOrder
<1>3. CASE RejectExecution(t, o)
  <2>1. \E q : IsOrder(q) /\ transactions' = [transactions EXCEPT ![t] = q]
    BY <1>2, <1>3 DEF RejectExecution
  <2> QED
    BY <1>1, <1>3, <2>1 DEF RejectExecution, None
<1>4. CASE \E p \in AdapterAnswers :
             /\ CallProvider(t, p)
             /\ transactions' = [transactions EXCEPT ![t] = [o EXCEPT !.state = StateFor(p)]]
             /\ results' = [results EXCEPT ![t] = p]
  <2>1. PICK p \in AdapterAnswers :
             /\ CallProvider(t, p)
             /\ transactions' = [transactions EXCEPT ![t] = [o EXCEPT !.state = StateFor(p)]]
             /\ results' = [results EXCEPT ![t] = p]
    BY <1>4
  <2>2. \E q : IsOrder(q) /\ transactions' = [transactions EXCEPT ![t] = q]
    BY <1>2, <2>1
  <2>3. p # None
    BY DEF AdapterAnswers, ProviderResult, None
  <2>4. dispatched' = [dispatched EXCEPT ![t] = @ + 1] /\ dispatched'[t] > 0
    BY <1>1, <2>1 DEF CallProvider
  <2>5. reported' = IF p = "UNKNOWN" THEN reported ELSE [reported EXCEPT ![t] = p]
    BY <1>1, <2>1, <2>4 DEF CallProvider, Report
  <2>6. results'[t] = p
    BY <2>1
  <2> QED
    BY <1>1, <2>1, <2>2, <2>3, <2>4, <2>5, <2>6 DEF None
<1> QED
  BY <1>1, <1>3, <1>4 DEF ExecutePayment, None

LEMMA ExecuteIntentInv ==
  ASSUME IntentInv, NEW c \in Clients, ExecuteIntent(c)
  PROVE  IntentInv'
<1> DEFINE t == call[c].tx
           order == call[c].order
           asked == [merchant |-> order.merchant, buyer |-> order.buyer,
                     mandate |-> order.mandate, amount |-> order.amount,
                     currency |-> order.currency, hash |-> order.hash, op |-> "create_order"]
           answer == ResultOf(t, "ALLOW", ExecutedState(results'[t]), results'[t])
           stop == [pc |-> "finish", result |-> answer]
<1>1. /\ call[c].pc = "execute" /\ call' = [call EXCEPT ![c] = stop]
      /\ ExecutePayment(t, order, asked, "ALLOW", call[c].v, None)
      /\ UNCHANGED <<products, executed, restarts, revokedIn, persistent, origin>>
  BY DEF ExecuteIntent
<1>2. /\ t \in Txs /\ TxOf(c) = t /\ origin[t] \in OriginOf /\ origin[t] # NoOrigin
      /\ \A d \in Clients : d # c /\ call[d] # Resting => TxOf(d) # t
      /\ ~origin[t].done /\ origin[t].life = restarts /\ Untouched(t)
      /\ ~origin[t].barred /\ IsOrder(order)
  BY <1>1, OwnTransaction DEF TxOf, Running
<1> HIDE DEF asked
<1>3. /\ \A u \in Txs : u # t =>
           /\ dispatched'[u] = dispatched[u] /\ reported'[u] = reported[u]
           /\ results'[u] = results[u] /\ transactions'[u] = transactions[u]
      /\ dispatched' \in [Txs -> Nat]
      /\ DOMAIN reported' = Txs /\ DOMAIN results' = Txs /\ DOMAIN transactions' = Txs
      /\ IsOrder(transactions'[t])
      /\ results'[t] # None /\ (results'[t] = "SUCCESS" <=> reported'[t] = "SUCCESS")
  <2> HIDE DEF t, order
  <2> QED
    BY <1>1, <1>2, ExecuteOnce
<1>4. /\ answer \in Result /\ answer.tx = t
      /\ answer.state \in {"COMMITTED", "FAILURE"} /\ answer.trace \in {"EXECUTED", "FAILED"}
      /\ answer.state = "COMMITTED" <=> reported'[t] = "SUCCESS"
      /\ answer.trace = "EXECUTED" <=> reported'[t] = "SUCCESS"
  <2> DEFINE s == ExecutedState(results'[t])
             e == TraceStatus("ALLOW", results'[t])
  <2>1. /\ s \in {"COMMITTED", "FAILURE"} /\ e \in {"EXECUTED", "FAILED"}
        /\ s = "COMMITTED" <=> reported'[t] = "SUCCESS"
        /\ e = "EXECUTED" <=> reported'[t] = "SUCCESS"
    BY <1>3 DEF ExecutedState, TraceStatus
  <2>2. s \in ReportedState /\ e \in Trace /\ t \in Txs /\ TRUE \in BOOLEAN
    BY <1>2, <2>1 DEF ReportedState, Trace
  <2>3. answer = [tx |-> t, state |-> s, receipt |-> TRUE, trace |-> e]
    BY DEF ResultOf
  <2> HIDE DEF s, e, answer, t
  <2>4. answer \in Result /\ answer.tx = t /\ answer.state = s /\ answer.trace = e
    BY <2>2, <2>3, Zenon DEF Result
  <2> QED
    BY <2>1, <2>4
<1> HIDE DEF answer, t, order
<1>5. stop.pc = "finish" /\ stop.result = answer
  OBVIOUS
<1> HIDE DEF stop
<1>6. call'[c] = stop
  BY <1>1 DEF IntentInv, IntentTypeOK
<1>7. IntentTypeOK'
  BY <1>1, <1>3 DEF IntentInv, IntentTypeOK
<1>8. OriginInv'
  <2>1. \A u \in Txs : origin[u] = NoOrigin => u # t
    BY <1>2
  <2>2. \A u \in Txs : origin[u] # NoOrigin /\ origin[u].barred => u # t
    BY <1>2
  <2> QED
    BY <1>1, <1>3, <2>1, <2>2 DEF IntentInv, OriginInv, After, Untouched
<1>9. CacheInv'
  <2> SUFFICES ASSUME NEW k \in Keys, executed[k] # NoResult
               PROVE  /\ origin[executed[k].tx] # NoOrigin /\ origin[executed[k].tx].done
                      /\ Truthful(executed[k])'
    BY <1>1 DEF CacheInv, Truthful
  <2>1. /\ origin[executed[k].tx] # NoOrigin /\ origin[executed[k].tx].done
        /\ Truthful(executed[k]) /\ executed[k].tx \in Txs
    BY DEF IntentInv, CacheInv, IntentTypeOK, Result
  <2>2. executed[k].tx # t
    BY <2>1, <1>2
  <2> QED
    BY <2>1, <2>2, <1>1, <1>3 DEF Truthful
<1>10. HeldInv'
  BY <1>3 DEF IntentInv, HeldInv
<1>11. TxOf(c)' = t
  BY <1>4, <1>5, <1>6 DEF TxOf
<1>12. call'[c].result \in Result /\ Truthful(call[c].result)'
  BY <1>4, <1>5, <1>6 DEF Truthful
<1>13. Running(c)'
  BY <1>1, <1>2, <1>5, <1>6, <1>7, <1>11, <1>12 DEF Running, IntentTypeOK, Result
<1>14. ClientInv'
  BY <1>1, <1>2, <1>3, <1>11, <1>13, OthersRun
<1> QED
  BY <1>7, <1>8, <1>9, <1>10, <1>14 DEF IntentInv

LEMMA FinishIntentInv ==
  ASSUME IntentInv, NEW c \in Clients, FinishIntent(c)
  PROVE  IntentInv'
<1> DEFINE result == call[c].result
           t == result.tx
           key == origin[t].key
           closed == [origin[t] EXCEPT !.done = TRUE]
<1>1. /\ call[c].pc = "finish" /\ call' = [call EXCEPT ![c] = Resting]
      /\ executed' = [executed EXCEPT ![key] = result]
      /\ origin' = [origin EXCEPT ![t] = closed]
      /\ UNCHANGED <<transactions, results, dispatched, reported, products, restarts, revokedIn, persistent>>
  BY DEF FinishIntent, Remember, memoryVars
<1>2. /\ t \in Txs /\ origin[t] \in OriginOf /\ origin[t] # NoOrigin
      /\ result \in Result /\ Truthful(result) /\ result # NoResult
      /\ \A d \in Clients : d # c /\ call[d] # Resting => TxOf(d) # t
      /\ origin[t].life = restarts
  BY <1>1, OwnTransaction, IntentShapes DEF TxOf, Running
<1>3. /\ closed \in OriginOf /\ closed # NoOrigin /\ closed.done
      /\ closed.key = key /\ closed.life = origin[t].life /\ closed.after = origin[t].after
      /\ closed.barred = origin[t].barred
  <2> HIDE DEF t
  <2>1. TRUE \in BOOLEAN
    OBVIOUS
  <2>2. closed \in OriginOf
    BY <1>2, <2>1 DEF OriginOf
  <2> QED
    BY <1>2, <2>2, IntentShapes DEF OriginOf
<1>4. key \in Keys
  BY <1>2 DEF OriginOf
<1> HIDE DEF result, t, key, closed
<1>5. /\ origin' \in [Txs -> {NoOrigin} \cup OriginOf] /\ origin'[t] = closed
      /\ \A u \in Txs : u # t => origin'[u] = origin[u]
  BY <1>1, <1>2, <1>3 DEF IntentInv, IntentTypeOK
<1>6. /\ executed' \in [Keys -> {NoResult} \cup Result] /\ executed'[key] = result
      /\ \A k \in Keys : k # key => executed'[k] = executed[k]
  BY <1>1, <1>2, <1>4 DEF IntentInv, IntentTypeOK
<1>7. IntentTypeOK'
  BY <1>1, <1>5, <1>6 DEF IntentInv, IntentTypeOK
<1>8. \A u \in Txs : /\ origin'[u] # NoOrigin <=> origin[u] # NoOrigin
                     /\ origin[u] # NoOrigin => /\ origin'[u].key = origin[u].key
                                                /\ origin'[u].life = origin[u].life
                                                /\ origin'[u].after = origin[u].after
                                                /\ origin'[u].barred = origin[u].barred
                                                /\ origin[u].done => origin'[u].done
  BY <1>2, <1>3, <1>5 DEF key
<1>9. OriginInv'
  <2> SUFFICES ASSUME NEW u \in Txs
               PROVE  /\ origin'[u] = NoOrigin => Untouched(u)'
                      /\ origin'[u] # NoOrigin =>
                           /\ origin'[u].life <= restarts'
                           /\ origin'[u].barred => dispatched'[u] = 0
                           /\ origin'[u].done /\ origin'[u].life = restarts' =>
                                executed'[origin'[u].key] # NoResult
                           /\ \A w \in origin'[u].after : After(w, u)'
    BY DEF OriginInv
  <2>1. origin'[u] = NoOrigin => Untouched(u)'
    BY <1>1, <1>8 DEF IntentInv, OriginInv, Untouched
  <2> SUFFICES ASSUME origin[u] # NoOrigin
               PROVE  /\ origin'[u].life <= restarts'
                      /\ origin'[u].barred => dispatched'[u] = 0
                      /\ origin'[u].done /\ origin'[u].life = restarts' =>
                           executed'[origin'[u].key] # NoResult
                      /\ \A w \in origin'[u].after : After(w, u)'
    BY <1>8, <2>1
  <2>2. origin[u].after \subseteq Txs /\ origin[u].key \in Keys
    BY DEF IntentInv, IntentTypeOK, OriginOf
  <2>3. \A w \in origin'[u].after : After(w, u)'
    BY <1>8, <2>2 DEF IntentInv, OriginInv, After
  <2>4. origin'[u].done /\ origin'[u].life = restarts' => executed'[origin'[u].key] # NoResult
    <3>1. CASE u = t
      BY <3>1, <1>2, <1>3, <1>5, <1>6
    <3>2. CASE u # t
      BY <3>2, <1>1, <1>2, <1>5, <1>6, <2>2 DEF IntentInv, OriginInv
    <3> QED
      BY <3>1, <3>2
  <2> QED
    BY <1>1, <1>8, <2>3, <2>4 DEF IntentInv, OriginInv
<1>10. CacheInv'
  <2> SUFFICES ASSUME NEW k \in Keys, executed'[k] # NoResult
               PROVE  /\ origin'[executed'[k].tx] # NoOrigin /\ origin'[executed'[k].tx].done
                      /\ Truthful(executed[k])'
    BY DEF CacheInv
  <2>1. CASE k = key
    BY <2>1, <1>1, <1>2, <1>3, <1>5, <1>6 DEF t, Truthful
  <2>2. CASE k # key
    <3>1. /\ executed'[k] = executed[k] /\ executed[k].tx \in Txs
          /\ origin[executed[k].tx] # NoOrigin /\ origin[executed[k].tx].done
          /\ Truthful(executed[k])
      BY <2>2, <1>6 DEF IntentInv, CacheInv, IntentTypeOK, Result
    <3> QED
      BY <3>1, <1>1, <1>8 DEF Truthful
  <2> QED
    BY <2>1, <2>2
<1>11. HeldInv'
  BY <1>1 DEF IntentInv, HeldInv
<1>12. ClientInv'
  BY <1>1, <1>2, <1>5, OthersRun
<1> QED
  BY <1>7, <1>9, <1>10, <1>11, <1>12 DEF IntentInv

(* One step of the orchestrator, and what it leaves of an intent that was  *)
(* answered                                                                *)
LEMMA OrchestratorStep ==
  ASSUME MandateInv, IntentInv, OrchestratorNext
  PROVE  MandateInv' /\ IntentInv'
<1>1. ASSUME UNCHANGED mandateVars PROVE MandateInv'
  BY <1>1 DEF mandateVars, MandateInv, Revoked
<1>2. ASSUME NEW x \in Merchants,
             \/ CreateMerchant(x)
             \/ \E on \in BOOLEAN, limit \in Limits : UpdatePolicy(x, on, limit)
             \/ \E price \in Prices : CreateProduct(x, price)
      PROVE  MandateInv' /\ IntentInv'
  <2>1. /\ UNCHANGED mandateVars /\ UNCHANGED <<memoryVars, executed, call, restarts, origin>>
        /\ products' = products \/ \E price \in Prices : products' = [products EXCEPT ![x] = price]
    BY <1>2 DEF CreateMerchant, UpdatePolicy, CreateProduct, mandateVars
  <2>2. /\ products' \in [Merchants -> Prices \cup {NoPrice}]
        /\ \A m \in MandateIds : RevocationStands(m) => RevocationStands(m)'
    BY <2>1 DEF IntentInv, IntentTypeOK, mandateVars, RevocationStands
  <2> QED
    BY <1>1, <2>1, <2>2, IntentFrame
<1>3. ASSUME NEW a \in Admins,
             \/ \E m \in MandateIds : CreateMandate(a, m) \/ RevokeMandate(a, m)
             \/ PersistMandate(a) \/ PersistRevocation(a)
      PROVE  MandateInv' /\ IntentInv'
  <2>1. /\ UNCHANGED <<memoryVars, executed, call, restarts, origin, products>>
        /\ UNCHANGED persistent
        /\ \/ revokedIn' = revokedIn
           \/ \E n \in MandateIds : revokedIn' = [revokedIn EXCEPT ![n] = restarts]
    BY <1>3, AdminHasMandate DEF CreateMandate, RevokeMandate, PersistMandate, PersistRevocation
  <2>2. products' \in [Merchants -> Prices \cup {NoPrice}]
    BY <2>1 DEF IntentInv, IntentTypeOK
  <2>3. \A m \in MandateIds : RevocationStands(m) => RevocationStands(m)'
    BY <2>1, StandsOn DEF MandateInv
  <2> QED
    BY <1>3, <2>1, <2>2, <2>3, IntentFrame, CreateMandateInv, RevokeMandateInv, PersistInv
<1>4. ASSUME NEW c \in Clients,
             \/ \E k \in Keys, m \in MandateIds, x \in Merchants : BeginIntent(c, k, m, x)
             \/ Evaluate(c) \/ ExecuteIntent(c) \/ FinishIntent(c)
      PROVE  MandateInv' /\ IntentInv'
  <2>1. UNCHANGED mandateVars
    BY <1>4 DEF BeginIntent, Evaluate, ExecuteIntent, FinishIntent, mandateVars
  <2> QED
    BY <1>1, <1>4, <2>1, BeginIntentInv, EvaluateInv, ExecuteIntentInv, FinishIntentInv
<1>5. ASSUME Restart PROVE MandateInv' /\ IntentInv'
  BY <1>5, RestartMandates, RestartIntents
<1> QED
  BY <1>2, <1>3, <1>4, <1>5 DEF OrchestratorNext

LEMMA AnsweredStays ==
  ASSUME MandateInv, IntentInv, OrchestratorNext, restarts' = restarts,
         NEW t \in Txs, origin[t] # NoOrigin, origin[t].done
  PROVE  /\ origin'[t] # NoOrigin /\ origin'[t].done
         /\ transactions'[t] = transactions[t]
<1>1. CASE UNCHANGED <<transactions, origin>>
  BY <1>1
<1>2. ASSUME NEW c \in Clients, NEW k \in Keys, NEW m \in MandateIds, NEW x \in Merchants,
             BeginIntent(c, k, m, x)
      PROVE  origin'[t] = origin[t] /\ transactions' = transactions
  <2>1. transactions' = transactions
        /\ \E u \in Txs : \E r : origin[u] = NoOrigin /\ origin' = [origin EXCEPT ![u] = r]
    BY <1>2 DEF BeginIntent, memoryVars
  <2> QED
    BY <2>1 DEF IntentInv, IntentTypeOK
<1>3. ASSUME NEW c \in Clients, ExecuteIntent(c)
      PROVE  origin' = origin /\ transactions'[t] = transactions[t]
  <2> DEFINE u == call[c].tx
             order == call[c].order
             asked == [merchant |-> order.merchant, buyer |-> order.buyer,
                       mandate |-> order.mandate, amount |-> order.amount,
                       currency |-> order.currency, hash |-> order.hash, op |-> "create_order"]
  <2>1. /\ call[c].pc = "execute" /\ origin' = origin
        /\ ExecutePayment(u, order, asked, "ALLOW", call[c].v, None)
    BY <1>3 DEF ExecuteIntent
  <2>2. u \in Txs /\ ~origin[u].done /\ Untouched(u) /\ IsOrder(order)
    BY <2>1, OwnTransaction DEF TxOf, Running
  <2> HIDE DEF u, order, asked
  <2> QED
    BY <2>1, <2>2, ExecuteOnce
<1>4. ASSUME NEW c \in Clients, FinishIntent(c)
      PROVE  origin'[t] # NoOrigin /\ origin'[t].done /\ transactions' = transactions
  <2> DEFINE u == call[c].result.tx
             closed == [origin[u] EXCEPT !.done = TRUE]
  <2>1. /\ call[c].pc = "finish" /\ transactions' = transactions
        /\ origin' = [origin EXCEPT ![u] = closed]
    BY <1>4 DEF FinishIntent, memoryVars
  <2>2. u \in Txs /\ origin[u] \in OriginOf
    BY <2>1, OwnTransaction DEF TxOf
  <2> HIDE DEF u
  <2>3. closed \in OriginOf /\ closed.done
    <3>1. TRUE \in BOOLEAN
      OBVIOUS
    <3>2. closed \in OriginOf
      BY <2>2, <3>1 DEF OriginOf
    <3> QED
      BY <2>2, <3>2 DEF OriginOf
  <2> HIDE DEF closed
  <2> QED
    BY <2>1, <2>2, <2>3, IntentShapes DEF IntentInv, IntentTypeOK
<1>5. ~Restart
  BY DEF Restart, IntentInv, IntentTypeOK
<1>6. ASSUME NEW c \in Clients, Evaluate(c) PROVE UNCHANGED <<transactions, origin>>
  BY <1>6 DEF Evaluate, memoryVars
<1>7. ASSUME NEW x \in Merchants,
             \/ CreateMerchant(x)
             \/ \E on \in BOOLEAN, limit \in Limits : UpdatePolicy(x, on, limit)
             \/ \E price \in Prices : CreateProduct(x, price)
      PROVE  UNCHANGED <<transactions, origin>>
  BY <1>7 DEF CreateMerchant, UpdatePolicy, CreateProduct, memoryVars
<1>8. ASSUME NEW a \in Admins,
             \/ \E m \in MandateIds : CreateMandate(a, m) \/ RevokeMandate(a, m)
             \/ PersistMandate(a) \/ PersistRevocation(a)
      PROVE  UNCHANGED <<transactions, origin>>
  BY <1>8 DEF CreateMandate, RevokeMandate, PersistMandate, PersistRevocation, memoryVars
<1> QED
  BY <1>1, <1>2, <1>3, <1>4, <1>5, <1>6, <1>7, <1>8 DEF OrchestratorNext

(* Receipts: the ledger grows by one event *)

LEMMA HashOfEvent ==
  ASSUME NEW id \in Nat, NEW t \in Txs, NEW prev \in Seq(Nat)
  PROVE  EventHash(id, t, prev) \in Seq(Nat) /\ Len(EventHash(id, t, prev)) = 2 + Len(prev)
<1>1. t \in Nat
  BY OrchestratorAssumption
<1>2. <<id, t>> \in Seq(Nat) /\ Len(<<id, t>>) = 2
  BY <1>1
<1> HIDE DEF EventHash
<1> QED
  BY <1>2 DEF EventHash

LEMMA HeadOfLedger ==
  ASSUME LedgerInv
  PROVE  HeadHash \in Seq(Nat) /\ Len(HeadHash) = 2 * Len(ledger)
<1>1. CASE ledger = <<>>
  BY <1>1 DEF HeadHash, GenesisHash
<1>2. CASE ledger # <<>>
  <2>1. Len(ledger) \in Nat \ {0} /\ Len(ledger) \in DOMAIN ledger
    BY <1>2 DEF LedgerInv
  <2>2. ledger[Len(ledger)] \in LedgerEvent
    BY <2>1 DEF LedgerInv
  <2> QED
    BY <1>2, <2>1, <2>2 DEF HeadHash, LedgerInv, LedgerEvent
<1> QED
  BY <1>1, <1>2

LEMMA AppendedInv ==
  ASSUME LedgerInv, NEW t \in Txs, ledger' = Appended(t)
  PROVE  /\ LedgerInv'
         /\ DOMAIN ledger' = 1 .. Len(ledger) + 1
         /\ \A i \in DOMAIN ledger : i \in DOMAIN ledger' /\ ledger'[i] = ledger[i]
         /\ ledger'[Len(ledger) + 1].tx = t
<1> DEFINE n == Len(ledger)
           hash == EventHash(n + 1, t, HeadHash)
           event == [id |-> n + 1, tx |-> t, prev |-> HeadHash, hash |-> hash]
<1>1. n \in Nat /\ ledger \in Seq(LedgerEvent) /\ DOMAIN ledger = 1 .. n
  BY DEF LedgerInv
<1>2. HeadHash \in Seq(Nat) /\ Len(HeadHash) = 2 * n
  BY HeadOfLedger
<1>3. hash \in Seq(Nat) /\ Len(hash) = 2 * (n + 1)
  <2>1. n + 1 \in Nat
    BY <1>1
  <2>2. hash \in Seq(Nat) /\ Len(hash) = 2 + Len(HeadHash)
    BY <1>2, <2>1, HashOfEvent, Zenon
  <2> QED
    BY <1>1, <1>2, <2>2
<1> HIDE DEF hash
<1>4. /\ event \in LedgerEvent /\ event.id = n + 1 /\ event.tx = t /\ event.prev = HeadHash
      /\ event.hash = hash
  BY <1>1, <1>2, <1>3 DEF LedgerEvent
<1>5. ledger' = Append(ledger, event)
  BY DEF Appended, hash
<1> HIDE DEF n, event
<1>6. /\ ledger' \in Seq(LedgerEvent) /\ Len(ledger') = n + 1 /\ DOMAIN ledger' = 1 .. n + 1
      /\ ledger'[n + 1] = event
      /\ \A i \in 1 .. n : i \in DOMAIN ledger' /\ ledger'[i] = ledger[i]
  BY <1>1, <1>4, <1>5 DEF n
<1>7. HeadHash = IF n = 0 THEN GenesisHash ELSE ledger[n].hash
  BY <1>1 DEF HeadHash, n
<1>8. ASSUME NEW i \in DOMAIN ledger'
      PROVE  /\ ledger'[i].prev = IF i = 1 THEN GenesisHash ELSE ledger'[i - 1].hash
             /\ ledger'[i].hash = EventHash(ledger'[i].id, ledger'[i].tx, ledger'[i].prev)
             /\ Len(ledger'[i].hash) = 2 * i
  <2>1. CASE i = n + 1
    <3>1. n # 0 => n \in 1 .. n /\ ledger'[n] = ledger[n]
      BY <1>1, <1>6
    <3>2. i = 1 <=> n = 0
      BY <1>1, <2>1
    <3>3. ledger'[i].prev = IF i = 1 THEN GenesisHash ELSE ledger'[i - 1].hash
      BY <1>1, <1>4, <1>6, <1>7, <2>1, <3>1, <3>2
    <3>4. ledger'[i].hash = EventHash(ledger'[i].id, ledger'[i].tx, ledger'[i].prev)
      BY <1>4, <1>6, <2>1 DEF hash, n
    <3> QED
      BY <1>3, <1>4, <1>6, <2>1, <3>3, <3>4
  <2>2. CASE i \in 1 .. n
    <3>1. ledger'[i] = ledger[i] /\ (i # 1 => i - 1 \in 1 .. n /\ ledger'[i - 1] = ledger[i - 1])
      BY <1>1, <1>6, <2>2
    <3> QED
      BY <1>1, <2>2, <3>1 DEF LedgerInv, VerifyChain
  <2> QED
    BY <1>1, <1>6, <1>8, <2>1, <2>2
<1>9. LedgerInv'
  BY <1>6, <1>8 DEF LedgerInv, VerifyChain, GenesisHash
<1> QED
  BY <1>1, <1>4, <1>6, <1>9 DEF n

(* The canonical hash tells apart all but the time of execution *)
LEMMA CanonicalHashInjective ==
  ASSUME NEW a, NEW b
  PROVE  CanonicalHash(a) = CanonicalHash(b) <=>
           /\ a.tx = b.tx /\ a.mandate = b.mandate /\ a.merchant = b.merchant
           /\ a.cart = b.cart /\ a.amount = b.amount /\ a.decision = b.decision
           /\ a.link = b.link
  BY DEF CanonicalHash

LEMMA ReceiptInitInv == Init => ReceiptInv
  BY DEF Init, ReceiptInv, LedgerInv, VerifyChain

LEMMA RestartsForget ==
  ASSUME OrchestratorNext, restarts' # restarts
  PROVE  transactions' = [t \in Txs |-> NoTx] /\ origin' = origin
<1>1. Restart
  BY DEF OrchestratorNext, CreateMerchant, UpdatePolicy, CreateProduct, CreateMandate,
         RevokeMandate, PersistMandate, PersistRevocation, BeginIntent, Evaluate,
         ExecuteIntent, FinishIntent
<1> QED
  BY <1>1 DEF Restart

(* A step of the orchestrator: the receipts stay, and a restart empties    *)
(* the ledger and retires the key.                                         *)
LEMMA OrchestratorReceipts ==
  ASSUME IInv, OrchestratorNext,
         ledger' = IF restarts' # restarts THEN <<>> ELSE ledger,
         UNCHANGED <<receipts, signed>>
  PROVE  ReceiptInv'
<1>1. LedgerInv'
  BY DEF IInv, ReceiptInv, LedgerInv, VerifyChain, GenesisHash
<1>2. restarts \in Nat /\ restarts' \in Nat /\ restarts <= restarts'
  <2>1. Restart => restarts' = restarts + 1
    BY DEF Restart
  <2>2. ~Restart => restarts' = restarts
    BY DEF OrchestratorNext, CreateMerchant, UpdatePolicy, CreateProduct, CreateMandate,
           RevokeMandate, PersistMandate, PersistRevocation, BeginIntent, Evaluate,
           ExecuteIntent, FinishIntent
  <2> QED
    BY <2>1, <2>2 DEF IInv, IntentInv, IntentTypeOK
<1>3. ASSUME NEW i \in DOMAIN ledger' PROVE HeldEvent(i)'
  <2>1. restarts' = restarts /\ ledger' = ledger /\ HeldEvent(i)
    BY <1>3 DEF IInv, ReceiptInv
  <2> QED
    BY <2>1, AnsweredStays DEF IInv, HeldEvent
<1>4. ASSUME NEW t \in Txs, receipts[t] # NoReceipt PROVE SignedInv(t)' /\ HolderInv(t)'
  <2>1. SignedInv(t) /\ HolderInv(t)
    BY <1>4 DEF IInv, ReceiptInv
  <2>2. HolderInv(t)'
    BY <2>1 DEF HolderInv
  <2>3. CASE restarts' = restarts
    <3>1. ledger' = ledger
      BY <2>3
    <3>2. /\ origin'[t] # NoOrigin /\ origin'[t].done
          /\ transactions'[t] = transactions[t]
      BY <2>1, <2>3, AnsweredStays DEF IInv, SignedInv
    <3>3. SignedInv(t)'
      BY <2>1, <2>3, <3>1, <3>2 DEF SignedInv, BindingsHold
    <3> QED
      BY <2>2, <3>3
  <2>4. CASE restarts' # restarts
    <3>1. signed[t].key <= restarts' /\ signed[t].key # restarts'
      BY <1>2, <2>1, <2>4 DEF SignedInv
    <3>2. transactions'[t] = NoTx /\ origin' = origin
      BY <2>4, RestartsForget DEF IInv
    <3>3. SignedInv(t)'
      BY <2>1, <3>1, <3>2 DEF SignedInv
    <3> QED
      BY <2>2, <3>3
  <2> QED
    BY <2>3, <2>4
<1> QED
  BY <1>1, <1>3, <1>4 DEF IInv, ReceiptInv

(* An event: what was signed keeps its place in the ledger *)
LEMMA AppendKeepsSigned ==
  ASSUME LedgerInv, NEW t \in Txs, ledger' = Appended(t),
         UNCHANGED <<transactions, restarts, origin>>,
         NEW u \in Txs, SignedInv(u), signed'[u] = signed[u]
  PROVE  SignedInv(u)'
<1>1. \A i \in DOMAIN ledger : i \in DOMAIN ledger' /\ ledger'[i] = ledger[i]
  BY AppendedInv
<1> QED
  BY <1>1 DEF SignedInv, BindingsHold

LEMMA AppendedHeld ==
  ASSUME IInv, NEW t \in Txs, ledger' = Appended(t), Answered(t),
         UNCHANGED <<transactions, origin>>
  PROVE  \A i \in DOMAIN ledger' : HeldEvent(i)'
<1>1. LedgerInv /\ \A i \in DOMAIN ledger : HeldEvent(i)
  BY DEF IInv, ReceiptInv
<1>2. /\ DOMAIN ledger' = 1 .. Len(ledger) + 1
      /\ \A i \in DOMAIN ledger : ledger'[i] = ledger[i]
      /\ ledger'[Len(ledger) + 1].tx = t
  BY <1>1, AppendedInv
<1>3. Len(ledger) \in Nat /\ DOMAIN ledger = 1 .. Len(ledger)
  BY <1>1 DEF LedgerInv
<1>4. origin[t] # NoOrigin
  BY DEF IInv, IntentInv, OriginInv, Untouched, Answered
<1>5. ASSUME NEW i \in DOMAIN ledger' PROVE HeldEvent(i)'
  <2>1. CASE i = Len(ledger) + 1
    BY <2>1, <1>2, <1>4 DEF HeldEvent, Answered
  <2>2. CASE i \in DOMAIN ledger
    BY <2>2, <1>1, <1>2 DEF HeldEvent
  <2> QED
    BY <1>2, <1>3, <1>5, <2>1, <2>2
<1> QED
  BY <1>5

LEMMA AppendEventInv ==
  ASSUME IInv, NEW t \in Txs, AppendEvent(t)
  PROVE  ReceiptInv'
<1>1. /\ ledger' = Appended(t)
      /\ UNCHANGED <<transactions, restarts, origin, receipts, signed>>
  BY DEF AppendEvent, memoryVars, orchestratorVars
<1>2. /\ LedgerInv /\ LedgerInv'
      /\ \A i \in DOMAIN ledger' : HeldEvent(i)'
  BY <1>1, AppendedInv, AppendedHeld DEF IInv, ReceiptInv, AppendEvent
<1>3. ASSUME NEW u \in Txs, receipts'[u] # NoReceipt PROVE SignedInv(u)' /\ HolderInv(u)'
  <2>1. SignedInv(u) /\ HolderInv(u)
    BY <1>1, <1>3 DEF IInv, ReceiptInv
  <2>2. SignedInv(u)'
    BY <1>1, <1>2, <2>1, AppendKeepsSigned
  <2>3. HolderInv(u)'
    BY <1>1, <2>1 DEF HolderInv
  <2> QED
    BY <2>2, <2>3
<1> QED
  BY <1>1, <1>2, <1>3 DEF IInv, ReceiptInv

LEMMA SignReceiptInv ==
  ASSUME IInv, NEW t \in Txs, SignReceipt(t)
  PROVE  ReceiptInv'
<1> DEFINE n == Len(ledger)
           link == Appended(t)[n + 1].hash
           r == Unsigned(t, link)
           h == CanonicalHash(r)
           receipt == [body |-> r, hash |-> h, sig |-> Signature(h), tx |-> t]
           record == [body |-> r, key |-> restarts, at |-> n + 1]
<1>1. /\ ledger' = Appended(t)
      /\ receipts' = [receipts EXCEPT ![t] = receipt]
      /\ signed' = [signed EXCEPT ![t] = record]
      /\ UNCHANGED <<transactions, restarts, origin>>
      /\ transactions[t] # NoTx /\ origin[t].done /\ Answered(t)
  BY DEF SignReceipt, memoryVars, orchestratorVars, Answered
<1>2. /\ LedgerInv /\ LedgerInv' /\ n + 1 \in DOMAIN ledger'
      /\ ledger'[n + 1].tx = t /\ ledger'[n + 1].hash = link
      /\ \A i \in DOMAIN ledger' : HeldEvent(i)'
  <2>1. LedgerInv /\ n \in Nat
    BY DEF IInv, ReceiptInv, LedgerInv
  <2> QED
    BY <1>1, <2>1, AppendedInv, AppendedHeld
<1>3. origin[t] # NoOrigin /\ IsOrder(transactions[t]) /\ restarts \in Nat
  BY <1>1 DEF IInv, IntentInv, OriginInv, HeldInv, IntentTypeOK, Untouched
<1> HIDE DEF link, n
<1>4. /\ IsBody(r) /\ r.executedAt = 1 /\ r.tx = t /\ r.decision = "ALLOW" /\ r.link = link
      /\ r.mandate = transactions[t].mandate /\ r.merchant = transactions[t].merchant
      /\ r.amount = transactions[t].amount /\ r.cart = transactions[t].hash
  BY <1>3 DEF Unsigned, IsBody, IsOrder
<1> HIDE DEF r
<1>5. /\ record.body = r /\ record.key = restarts /\ record.at = n + 1
      /\ receipt = [body |-> receipt.body, hash |-> receipt.hash, sig |-> receipt.sig, tx |-> t]
      /\ receipt.body = r /\ receipt.hash = h /\ receipt.sig = [key |-> restarts, over |-> h]
  BY DEF Signature
<1> HIDE DEF record, receipt
<1>6. /\ DOMAIN receipts' = Txs /\ DOMAIN signed' = Txs
      /\ receipts'[t] = receipt /\ signed'[t] = record
      /\ \A u \in Txs : u # t => receipts'[u] = receipts[u] /\ signed'[u] = signed[u]
  BY <1>1 DEF IInv, ReceiptInv
<1>7. ASSUME NEW u \in Txs, receipts'[u] # NoReceipt PROVE SignedInv(u)' /\ HolderInv(u)'
  <2>1. CASE u = t
    <3>1. SignedInv(t)'
      BY <1>1, <1>2, <1>3, <1>4, <1>5, <1>6 DEF SignedInv, BindingsHold
    <3>2. HolderInv(t)'
      BY <1>4, <1>5, <1>6 DEF HolderInv
    <3> QED
      BY <2>1, <3>1, <3>2
  <2>2. CASE u # t
    <3>1. SignedInv(u) /\ HolderInv(u)
      BY <1>6, <1>7, <2>2 DEF IInv, ReceiptInv
    <3>2. SignedInv(u)'
      BY <1>1, <1>2, <1>6, <2>2, <3>1, AppendKeepsSigned
    <3>3. HolderInv(u)'
      BY <1>6, <2>2, <3>1 DEF HolderInv
    <3> QED
      BY <3>2, <3>3
  <2> QED
    BY <2>1, <2>2
<1> QED
  BY <1>2, <1>6, <1>7 DEF ReceiptInv

(* A set of natural numbers that is not empty has a least element *)
LEMMA NatMin ==
  ASSUME NEW S \in SUBSET Nat, S # {}
  PROVE  \E x \in S : \A y \in S : x <= y
<1> DEFINE R == OpToRel(<, Nat)
<1>1. IsWellFoundedOn(R, Nat)
  BY NatLessThanWellFounded
<1> HIDE DEF R
<1>2. PICK x \in S : \A y \in S : ~ (<<y, x>> \in R)
  BY <1>1, WFMin, Zenon
<1>3. \A y \in S : ~(y < x)
  <2> SUFFICES ASSUME NEW y \in S, y < x PROVE FALSE
    OBVIOUS
  <2>1. y \in Nat /\ x \in Nat
    OBVIOUS
  <2>2. <<y, x>> \in {ss \in Nat \X Nat : ss[1] < ss[2]}
    BY <2>1
  <2>3. <<y, x>> \in R
    BY <2>2 DEF R, OpToRel
  <2> QED
    BY <2>3, <1>2
<1> QED
  BY <1>3

(* get_latest_event_for_transaction finds the latest event *)
LEMMA LatestIsLast ==
  ASSUME LedgerInv, NEW t, EventsOf(t) # {}
  PROVE  /\ LatestEvent(t) \in EventsOf(t) /\ EventsOf(t) \subseteq DOMAIN ledger
         /\ \A j \in EventsOf(t) : j <= LatestEvent(t)
<1> DEFINE n == Len(ledger)
           S == {k \in Nat : n - k \in EventsOf(t)}
<1>1. /\ n \in Nat /\ DOMAIN ledger = 1 .. n /\ EventsOf(t) \subseteq 1 .. n
  BY DEF LedgerInv, EventsOf
<1> HIDE DEF n
<1>2. \A i \in EventsOf(t) : n - i \in Nat /\ n - (n - i) = i
  BY <1>1
<1>3. S # {} /\ S \in SUBSET Nat
  BY <1>2
<1>4. PICK k \in S : \A l \in S : k <= l
  BY <1>3, NatMin
<1>5. n - k \in EventsOf(t) /\ \A j \in EventsOf(t) : j <= n - k
  BY <1>1, <1>2, <1>4
<1>6. \E i \in EventsOf(t) : \A j \in EventsOf(t) : j <= i
  BY <1>5
<1> QED
  BY <1>1, <1>6 DEF LatestEvent

(* What a holder may present: its receipt with another body, and a hash    *)
(* that is either the one that was signed or that of the body              *)
LEMMA PresentedShape ==
  ASSUME NEW t \in Txs, SignedInv(t), HolderInv(t), NEW rc \in Presented(t)
  PROVE  /\ IsBody(rc.body) /\ rc.tx = t
         /\ rc.sig = [key |-> signed[t].key, over |-> CanonicalHash(signed[t].body)]
         /\ rc.hash \in {CanonicalHash(signed[t].body), CanonicalHash(rc.body)}
<1> DEFINE old == receipts[t]
           was == signed[t].body
           bodies == {old.body, [old.body EXCEPT !.amount = @ + 1],
                      [old.body EXCEPT !.executedAt = 2], [old.body EXCEPT !.link = HeadHash]}
<1>1. /\ old = [body |-> was, hash |-> CanonicalHash(was), sig |-> old.sig, tx |-> t]
      /\ old.sig = [key |-> signed[t].key, over |-> CanonicalHash(was)]
      /\ IsBody(was)
  BY DEF HolderInv, SignedInv
<1>2. PICK b \in bodies : \E h \in {old.hash, CanonicalHash(b)} :
                          rc = [old EXCEPT !.body = b, !.hash = h]
  BY DEF Presented
<1>3. PICK h \in {old.hash, CanonicalHash(b)} : rc = [old EXCEPT !.body = b, !.hash = h]
  BY <1>2
<1>4. IsBody(b)
  <2>1. IsBody(old.body)
    BY <1>1
  <2> QED
    BY <1>2, <2>1 DEF IsBody
<1> HIDE DEF old, was, bodies
<1>5. rc.body = b /\ rc.hash = h /\ rc.sig = old.sig /\ rc.tx = t
  BY <1>1, <1>3
<1> QED
  BY <1>1, <1>3, <1>4, <1>5 DEF was

LEMMA VerdictIsExact ==
  ASSUME ReceiptInv
  PROVE  ReceiptVerdict
<1> SUFFICES ASSUME NEW t \in Txs, receipts[t] # NoReceipt, NEW rc \in Presented(t),
                    NEW key \in 0 .. restarts, NEW bound \in BOOLEAN,
                    NEW withLedger \in BOOLEAN, bound => transactions[t] # NoTx
             PROVE  ReceiptVerifies(rc, key, bound, withLedger) <=>
                      /\ [rc.body EXCEPT !.executedAt = 1] = signed[t].body
                      /\ key = signed[t].key
                      /\ withLedger => /\ signed[t].key = restarts
                                       /\ EventsOf(t) # {}
                                       /\ \A i \in EventsOf(t) : i <= signed[t].at
  BY DEF ReceiptVerdict
<1> DEFINE body == rc.body
           was == signed[t].body
           at == signed[t].at
           latest == /\ signed[t].key = restarts
                     /\ EventsOf(t) # {} /\ \A i \in EventsOf(t) : i <= at
<1>1. LedgerInv /\ SignedInv(t) /\ HolderInv(t) /\ \A i \in DOMAIN ledger : HeldEvent(i)
  BY DEF ReceiptInv
<1>2. /\ IsBody(body) /\ IsBody(was) /\ was.executedAt = 1 /\ was.tx = t /\ rc.tx = t
      /\ rc.sig = [key |-> signed[t].key, over |-> CanonicalHash(was)]
      /\ rc.hash \in {CanonicalHash(was), CanonicalHash(body)}
  BY <1>1, PresentedShape DEF SignedInv
<1>3. ASSUME signed[t].key = restarts
      PROVE  /\ at \in DOMAIN ledger /\ at \in EventsOf(t) /\ ledger[at].hash = was.link
             /\ transactions[t] # NoTx /\ BindingsHold(was, t)
  BY <1>1, <1>3 DEF SignedInv, EventsOf
<1>4. signed[t].key # restarts => transactions[t] = NoTx /\ EventsOf(t) = {}
  BY <1>1 DEF SignedInv, EventsOf, HeldEvent
<1> HIDE DEF at
<1>5. [body EXCEPT !.executedAt = 1] = was <=> CanonicalHash(body) = CanonicalHash(was)
  <2> HIDE DEF body, was
  <2>1. [body EXCEPT !.executedAt = 1] =
          [tx |-> body.tx, mandate |-> body.mandate, merchant |-> body.merchant,
           cart |-> body.cart, amount |-> body.amount, decision |-> body.decision,
           executedAt |-> 1, link |-> body.link]
    BY <1>2 DEF IsBody
  <2>2. was = [tx |-> was.tx, mandate |-> was.mandate, merchant |-> was.merchant,
               cart |-> was.cart, amount |-> was.amount, decision |-> was.decision,
               executedAt |-> 1, link |-> was.link]
    BY <1>2 DEF IsBody
  <2>3. CanonicalHash(body) = CanonicalHash([body EXCEPT !.executedAt = 1])
    BY <2>1 DEF CanonicalHash
  <2>4. ASSUME CanonicalHash(body) = CanonicalHash(was)
        PROVE  [body EXCEPT !.executedAt = 1] = was
    <3>1. /\ body.tx = was.tx /\ body.mandate = was.mandate /\ body.merchant = was.merchant
          /\ body.cart = was.cart /\ body.amount = was.amount
          /\ body.decision = was.decision /\ body.link = was.link
      BY <2>4, CanonicalHashInjective
    <3> QED
      BY <2>1, <2>2, <3>1
  <2> QED
    BY <2>3, <2>4
<1>6. CanonicalHash(body) = CanonicalHash(was) =>
        /\ body.tx = t /\ body.link = was.link /\ body.mandate = was.mandate
        /\ body.merchant = was.merchant /\ body.amount = was.amount
        /\ body.cart = was.cart /\ body.decision = was.decision
  BY <1>2, CanonicalHashInjective
<1> HIDE DEF body, was
(* The payload hash and the signature *)
<1>7. rc.hash = CanonicalHash(body) /\ rc.sig = [key |-> key, over |-> rc.hash] <=>
        CanonicalHash(body) = CanonicalHash(was) /\ key = signed[t].key
  <2>1. rc.sig.key = signed[t].key /\ rc.sig.over = CanonicalHash(was)
    BY <1>2
  <2>2. ASSUME rc.hash = CanonicalHash(body), rc.sig = [key |-> key, over |-> rc.hash]
        PROVE  CanonicalHash(body) = CanonicalHash(was) /\ key = signed[t].key
    BY <2>1, <2>2
  <2>3. ASSUME CanonicalHash(body) = CanonicalHash(was), key = signed[t].key
        PROVE  rc.hash = CanonicalHash(body) /\ rc.sig = [key |-> key, over |-> rc.hash]
    BY <1>2, <2>3
  <2> QED
    BY <2>2, <2>3
(* The bindings and the audit link of a receipt that says what was signed  *)
<1>8. ASSUME CanonicalHash(body) = CanonicalHash(was), transactions[t] # NoTx
      PROVE  BindingsHold(body, t)
  BY <1>3, <1>4, <1>6, <1>8 DEF BindingsHold
<1>9. ASSUME CanonicalHash(body) = CanonicalHash(was), AuditLinkHolds(body)
      PROVE  latest
  <2>1. EventsOf(t) # {} /\ ledger[LatestEvent(t)].hash = was.link /\ signed[t].key = restarts
    BY <1>4, <1>6, <1>9 DEF AuditLinkHolds
  <2>2. LatestEvent(t) \in DOMAIN ledger /\ \A i \in EventsOf(t) : i <= LatestEvent(t)
    BY <1>1, <2>1, LatestIsLast
  <2>3. 2 * LatestEvent(t) = 2 * at /\ LatestEvent(t) \in Nat /\ at \in Nat
    BY <1>1, <1>3, <2>1, <2>2 DEF LedgerInv
  <2>4. LatestEvent(t) = at
    BY <2>3
  <2> QED
    BY <2>1, <2>2, <2>4
<1>10. ASSUME CanonicalHash(body) = CanonicalHash(was), latest
       PROVE  AuditLinkHolds(body)
  <2>1. /\ LatestEvent(t) \in EventsOf(t) /\ EventsOf(t) \subseteq DOMAIN ledger
        /\ \A j \in EventsOf(t) : j <= LatestEvent(t)
    BY <1>1, <1>10, LatestIsLast
  <2>2. LatestEvent(t) = at
    BY <1>1, <1>3, <1>10, <2>1 DEF LedgerInv
  <2>3. body.link # GenesisHash
    <3>1. Len(body.link) = 2 * at /\ at \in Nat /\ at # 0
      BY <1>1, <1>3, <1>6, <1>10 DEF LedgerInv
    <3> QED
      BY <3>1 DEF GenesisHash
  <2> QED
    BY <1>1, <1>3, <1>6, <1>10, <2>2, <2>3 DEF AuditLinkHolds, LedgerInv
<1> HIDE DEF latest
<1>11. ReceiptVerifies(rc, key, bound, withLedger) <=>
         /\ CanonicalHash(body) = CanonicalHash(was) /\ key = signed[t].key
         /\ withLedger => latest
  <2>1. ReceiptVerifies(rc, key, bound, withLedger) <=>
          /\ CanonicalHash(body) = CanonicalHash(was) /\ key = signed[t].key
          /\ bound => BindingsHold(body, t)
          /\ withLedger => AuditLinkHolds(body)
    BY <1>2, <1>7 DEF ReceiptVerifies, body
  <2> QED
    BY <2>1, <1>8, <1>9, <1>10
<1> QED
  BY <1>5, <1>11 DEF body, was, at, latest

--------------------------------------------------------------------------------

LEMMA InitInv == Init => IInv
  BY MandateInitInv, IntentInitInv, ReceiptInitInv DEF Init, IInv

LEMMA NextInv ==
  ASSUME IInv, [Next]_vars
  PROVE  IInv'
<1>1. CASE UNCHANGED <<memoryVars, orchestratorVars>> /\ ReceiptInv'
  <2>1. UNCHANGED <<transactions, results, dispatched, reported, persistent, mandates,
                    mandateRows, products, executed, call, admin, restarts, revokedIn, origin>>
    BY <1>1 DEF memoryVars, orchestratorVars
  <2>2. MandateInv'
    BY <2>1 DEF IInv, MandateInv, Revoked
  <2>3. products' \in [Merchants -> Prices \cup {NoPrice}]
    BY <2>1 DEF IInv, IntentInv, IntentTypeOK
  <2>4. /\ UNCHANGED <<memoryVars, executed, call, restarts, origin>>
        /\ \A m \in MandateIds : RevocationStands(m) => RevocationStands(m)'
    BY <1>1, <2>1 DEF RevocationStands
  <2>5. IntentInv'
    BY <2>3, <2>4, IntentFrame DEF IInv
  <2> QED
    BY <1>1, <2>2, <2>5 DEF IInv
<1>2. CASE /\ OrchestratorNext
           /\ ledger' = IF restarts' # restarts THEN <<>> ELSE ledger
           /\ UNCHANGED <<receipts, signed>>
  BY <1>2, OrchestratorStep, OrchestratorReceipts DEF IInv
<1>3. ASSUME NEW t \in Txs, AppendEvent(t) \/ SignReceipt(t)
      PROVE  UNCHANGED <<memoryVars, orchestratorVars>> /\ ReceiptInv'
  <2>1. ReceiptInv'
    BY <1>3, AppendEventInv, SignReceiptInv
  <2> QED
    BY <1>3, <2>1 DEF AppendEvent, SignReceipt
<1>4. CASE UNCHANGED vars
  <2>1. UNCHANGED <<memoryVars, orchestratorVars, ledger, receipts, signed>>
    BY <1>4 DEF vars
  <2>2. UNCHANGED <<transactions, restarts, origin>>
    BY <2>1 DEF memoryVars, orchestratorVars
  <2>3. LedgerInv'
    BY <2>1 DEF IInv, ReceiptInv, LedgerInv, VerifyChain
  <2>4. \A t \in Txs : receipts'[t] # NoReceipt => SignedInv(t)' /\ HolderInv(t)'
    BY <2>1, <2>2 DEF IInv, ReceiptInv, SignedInv, HolderInv, BindingsHold
  <2>5. ReceiptInv'
    BY <2>1, <2>2, <2>3, <2>4 DEF IInv, ReceiptInv, HeldEvent
  <2> QED
    BY <1>1, <2>1, <2>5
<1> QED
  BY <1>1, <1>2, <1>3, <1>4 DEF Next

(* The inductive invariant: what the dictionaries, the table of mandates,  *)
(* the calls in flight, the cache, the ledger and the receipts know of     *)
(* each other.                                                             *)
THEOREM Invariance == Spec => []IInv
<1>1. Init => IInv
  BY InitInv
<1>2. IInv /\ [Next]_vars => IInv'
  BY NextInv
<1> QED
  BY <1>1, <1>2, PTL DEF Spec

LEMMA IntentsAreSafe ==
  ASSUME IInv
  PROVE  ReplayIsSafeUntilRestart /\ RevocationSticks /\ ReportTruthful
<1>1. ReplayIsSafeUntilRestart
  BY DEF IInv, IntentInv, OriginInv, After, ReplayIsSafeUntilRestart
<1>2. RevocationSticks
  <2>1. ASSUME NEW m \in MandateIds, revokedIn[m] = restarts
        PROVE  GetMandate(m) = {"REVOKED"}
    <3>1. mandates[m] = "REVOKED" /\ (persistent => mandateRows[m] = "REVOKED")
      BY <2>1 DEF IInv, MandateInv, Revoked, NeverRevoked
    <3> QED
      BY <3>1 DEF GetMandate
  <2>2. ASSUME NEW m \in Created, persistent, revokedIn[m] # NeverRevoked
        PROVE  GetMandate(m) \subseteq {"REVOKED", None}
    <3>1. m \in MandateIds
      BY DEF MandateIds
    <3>2. mandates[m] \in {None, "REVOKED"} /\ mandateRows[m] = "REVOKED"
      BY <2>2, <3>1 DEF IInv, MandateInv, Revoked, MandateState
    <3> QED
      BY <3>2 DEF GetMandate
  <2> QED
    BY <2>1, <2>2 DEF IInv, IntentInv, OriginInv, RevocationSticks
<1>3. ReportTruthful
  <2>1. \A c \in Clients : call[c].pc = "finish" => Truthful(call[c].result)
    BY IntentShapes DEF IInv, IntentInv, ClientInv, Running
  <2>2. \A k \in Keys : executed[k] # NoResult => Truthful(executed[k])
    BY DEF IInv, IntentInv, CacheInv
  <2>3. \A r \in Answers : Truthful(r)
    BY <2>1, <2>2 DEF Answers
  <2> QED
    BY <2>3 DEF ReportTruthful, Truthful
<1> QED
  BY <1>1, <1>2, <1>3

(* As long as the process runs, an intent that begins after one with its   *)
(* idempotency key was answered reaches the provider only when that one    *)
(* did not, because execute_intent looks the key up before anything else   *)
(* and the answer is kept whatever it was.  A restart forgets the answers. *)
THEOREM ReplaysSafeUntilRestart == Spec => []ReplayIsSafeUntilRestart
  BY Invariance, IntentsAreSafe, PTL

(* A revocation that was answered holds until the process ends, whether    *)
(* the database answers or not; with a database and for a mandate that is  *)
(* not seeded it holds in later lives too, where get_mandate says REVOKED  *)
(* or, while the database fails, 404, and no intent is charged to it.      *)
THEOREM RevocationsStick == Spec => []RevocationSticks
  BY Invariance, IntentsAreSafe, PTL

(* execute_intent reports a payment as executed exactly when the adapter   *)
(* reported SUCCESS for it, which is no capture, and as refused only when  *)
(* the provider was never called, also when the answer comes from the      *)
(* cache.                                                                  *)
THEOREM ReportsTruthful == Spec => []ReportTruthful
  BY Invariance, IntentsAreSafe, PTL

(* ReceiptVerifier.verify accepts what a holder presents exactly when its  *)
(* bound fields are the signed ones and the key is the one it was signed   *)
(* with, and, if it is given the ledger of the running process, that       *)
(* process signed it and the ledger has no later event of its transaction. *)
THEOREM ReceiptVerdictExact == Spec => []ReceiptVerdict
<1>1. IInv => ReceiptVerdict
  BY VerdictIsExact DEF IInv
<1> QED
  BY <1>1, Invariance, PTL
================================================================================
