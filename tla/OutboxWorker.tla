------------------------------ MODULE OutboxWorker ------------------------------
(***************************************************************************)
(* apps/workers/outbox_worker.py: worker processes that read the oldest    *)
(* pending outbox records, mark each DISPATCHED and commit the batch.      *)
(* Together with the units of work of AuditChain, which write the records, *)
(* this is the transactional outbox of the gateway.                        *)
(***************************************************************************)
EXTENDS AuditChain

CONSTANTS Workers, BatchSize

ASSUME WorkerAssumption == BatchSize \in Nat \ {0}

VARIABLES
  batch,   \* per worker, the positions of the records still to mark
  marked   \* per worker, the positions it has marked and not committed

vars == <<events, mine, latest, locked, loop, pc, item, verdict, staged, outbox, failures,
          batch, marked>>

(* Types of the audit chain and the outbox; a worker holds positions that exist. *)
TypeOK ==
  /\ events \subseteq Event
  /\ mine \in [Units -> SUBSET Event]
  /\ latest \in [Units -> SUBSET Event]
  /\ locked \in [Units -> SUBSET Event]
  /\ loop \in [Loops -> Units \cup {Nobody}]
  /\ pc \in [Units -> Place]
  /\ \A u \in Units : item[u] \in 1..ItemsOf[u]
  /\ verdict \in [Units -> Verdict]
  /\ failures \in 0..MaxFailures
  /\ \A i \in DOMAIN outbox : outbox[i].status \in {"PENDING", "DISPATCHED"}
  /\ \A w \in Workers : {batch[w][i] : i \in DOMAIN batch[w]} \cup marked[w] \subseteq DOMAIN outbox

Init ==
  /\ ChainInit
  /\ batch = [w \in Workers |-> <<>>]
  /\ marked = [w \in Workers |-> {}]

(* get_pending_events: the first BatchSize pending records *)
PendingEvents ==
  LET pending == SelectSeq([i \in DOMAIN outbox |-> i], LAMBDA i : outbox[i].status = "PENDING")
  IN  SubSeq(pending, 1, IF BatchSize < Len(pending) THEN BatchSize ELSE Len(pending))

ReadBatch(w) ==
  /\ batch[w] = <<>> /\ marked[w] = {}
  /\ PendingEvents # <<>>
  /\ batch' = [batch EXCEPT ![w] = PendingEvents]
  /\ UNCHANGED <<chainVars, marked>>

(* mark_dispatched: the UPDATE waits for another worker's uncommitted one. *)
MarkDispatched(w) ==
  /\ batch[w] # <<>>
  /\ \A v \in Workers \ {w} : batch[w][1] \notin marked[v]
  /\ marked' = [marked EXCEPT ![w] = @ \cup {batch[w][1]}]
  /\ batch' = [batch EXCEPT ![w] = Tail(@)]
  /\ UNCHANGED chainVars

(* Fault: process_batch returns without commit, and the block rolls back. *)
Dispatched_NotCommitted(positions) == outbox

Dispatched(positions) ==
  [i \in DOMAIN outbox |->
     IF i \in positions THEN [outbox[i] EXCEPT !.status = "DISPATCHED"] ELSE outbox[i]]

CommitBatch(w) ==
  /\ batch[w] = <<>> /\ marked[w] # {}
  /\ outbox' = Dispatched(marked[w])
  /\ marked' = [marked EXCEPT ![w] = {}]
  /\ UNCHANGED <<events, mine, latest, locked, loop, pc, item, verdict, staged, failures, batch>>

(* run catches the exception of a lost batch and polls again. *)
LoseBatch(w) ==
  /\ failures < MaxFailures
  /\ batch[w] # <<>> \/ marked[w] # {}
  /\ failures' = failures + 1
  /\ batch' = [batch EXCEPT ![w] = <<>>]
  /\ marked' = [marked EXCEPT ![w] = {}]
  /\ UNCHANGED <<events, mine, latest, locked, loop, pc, item, verdict, staged, outbox>>

ProcessBatch(w) == ReadBatch(w) \/ MarkDispatched(w) \/ CommitBatch(w)

Next ==
  \/ \E u \in Units : (Proceed(u) \/ FailUnit(u)) /\ UNCHANGED <<batch, marked>>
  \/ \E w \in Workers : ProcessBatch(w) \/ LoseBatch(w)

Spec == Init /\ [][Next]_vars

(* A coroutine that can go on does, and a worker keeps polling. *)
FairSpec ==
  /\ Spec
  /\ \A u \in Units : WF_vars(Proceed(u) /\ UNCHANGED <<batch, marked>>)
  /\ \A w \in Workers : WF_vars(ProcessBatch(w))

---------------------------------------------------------------------------------
(* verify_chain accepts the committed table at every moment, whatever      *)
(* units of work of however many processes append at the same time: the    *)
(* numbers are 1, 2, 3 ... without gaps or duplicates, and each event      *)
(* links to the one before it.                                             *)
ChainValid ==
  /\ \A d, e \in events : d.seq = e.seq => d = e
  /\ \A e \in events :
       \/ e.seq = 1 /\ e.prev = Genesis
       \/ \E d \in events : d.seq + 1 = e.seq /\ e.prev = d.id

(* A payment that the recovery service settles is published if and only if *)
(* it is in the audit trail, although the two records are written by       *)
(* separate calls, one append may be refused in the middle of a batch, and *)
(* the worker swallows the exception of an item and goes on to commit.     *)
RecoveryWritesBoth ==
  \A u \in Units : KindOf[u] = "recovery" =>
    \A i \in 1..ItemsOf[u] :
      (\E e \in events : e.id = <<u, i>>) <=> (\E p \in DOMAIN outbox : outbox[p].id = <<u, i>>)

(* No unit waits for ever: the event loop's lock, which is held while      *)
(* waiting for a row lock, and the row locks, which are held until the     *)
(* commit, cannot block each other.                                        *)
UnitsEnd == \A u \in Units : []<>(pc[u] \in {"idle", "done", "answered"})

(* At-least-once delivery: every committed outbox record is eventually     *)
(* dispatched, with several workers that read the same records and lose    *)
(* batches.                                                                *)
EveryEventDispatched ==
  \A u \in Units : \A i \in 1..ItemsOf[u] :
    []<>(\A p \in DOMAIN outbox :
           outbox[p].id = <<u, i>> => outbox[p].status = "DISPATCHED")
=================================================================================
