------------------------------- MODULE AuditChain -------------------------------
(***************************************************************************)
(* The hash-chained audit_events table of db/repository/audit_repository.py *)
(* and the units of work that append to it.  append_event holds a lock of  *)
(* the event loop while it selects the latest row FOR UPDATE, computes the *)
(* next sequence number and the link, and inserts; unique constraints      *)
(* refuse a sequence number that is taken.  What a unit of work writes     *)
(* depends on who runs it:                                                 *)
(*   "recovery"  TransactionRecoveryService: for each payment it settles   *)
(*               an audit event, then an outbox record                     *)
(*   "execution" async_execute_payment: an outbox record, no audit event   *)
(*   "record"    ReconciliationService, WebhookEngine and the routers that *)
(*               append one audit event, and no outbox record              *)
(*   "auth"      the authentication of an API key: an audit event, whose   *)
(*               unit rolls back when the key is refused                   *)
(*                                                                         *)
(* A hash is modelled by the id of its event: ids are unique, and the hash *)
(* of an event covers its id and the previous hash.                        *)
(***************************************************************************)
EXTENDS Naturals, Sequences

CONSTANTS
  Units,        \* units of work
  KindOf,       \* who runs each unit, one of Kinds
  ItemsOf,      \* how many payments each unit writes about before it commits
  LoopOf,       \* the event loop (process) a unit runs in
  Loops,
  MaxFailures,  \* how many failures from outside may happen
  Nobody

Kinds == {"recovery", "execution", "record", "auth"}

ASSUME ChainAssumption ==
  /\ KindOf \in [Units -> Kinds]
  /\ ItemsOf \in [Units -> Nat \ {0}]
  /\ \A u \in Units : KindOf[u] # "recovery" => ItemsOf[u] = 1
  /\ LoopOf \in [Units -> Loops]
  /\ MaxFailures \in Nat
  /\ Nobody \notin Units

(* The recovery worker, whose batches append several events in one unit of *)
(* work, is a process of its own.                                          *)
ASSUME BatchAloneInLoop ==
  \A u \in Units : ItemsOf[u] > 1 => \A q \in Units \ {u} : LoopOf[q] # LoopOf[u]

VARIABLES
  events,    \* the committed rows of audit_events
  mine,      \* per unit, the rows it has flushed and not committed
  latest,    \* per unit, the row its last SELECT ... FOR UPDATE chose, if any
  locked,    \* per unit, the committed rows it holds locks on
  loop,      \* the unit inside _audit_append_lock of each event loop
  pc, item,  \* per unit, where it is, and the item it works on
  verdict,   \* per unit of an authentication, what it found
  staged,    \* per unit, the outbox records it has flushed and not committed
  outbox,    \* the committed outbox_events, oldest first
  failures

chainVars == <<events, mine, latest, locked, loop, pc, item, verdict, staged, outbox, failures>>

Ids == Units \X (Nat \ {0})
Genesis == <<>>
Event == [seq : Nat \ {0}, prev : Ids \cup {Genesis}, id : Ids]

Place == {"idle", "append", "select", "wait", "insert", "publish", "answer",
          "commit", "raise", "doomed", "done", "answered"}
Verdict == {"none", "ok", "refused"}

ChainInit ==
  /\ events = {} /\ outbox = <<>> /\ failures = 0
  /\ mine = [u \in Units |-> {}]
  /\ latest = [u \in Units |-> {}]
  /\ locked = [u \in Units |-> {}]
  /\ loop = [l \in Loops |-> Nobody]
  /\ pc = [u \in Units |-> "idle"]
  /\ item = [u \in Units |-> 1]
  /\ verdict = [u \in Units |-> "none"]
  /\ staged = [u \in Units |-> <<>>]

---------------------------------------------------------------------------------
(* An execution has no audit event to append: it goes on to publish. *)
Begin(u, v) ==
  /\ pc[u] = "idle"
  /\ (KindOf[u] = "auth") <=> (v # "none")
  /\ pc' = [pc EXCEPT ![u] = IF KindOf[u] = "execution" THEN "publish" ELSE "append"]
  /\ item' = [item EXCEPT ![u] = 1]
  /\ verdict' = [verdict EXCEPT ![u] = v]
  /\ UNCHANGED <<events, mine, latest, locked, loop, staged, outbox, failures>>

(* async with _get_audit_lock() *)
EnterLoopLock(u) ==
  /\ pc[u] = "append"
  /\ loop[LoopOf[u]] = Nobody
  /\ loop' = [loop EXCEPT ![LoopOf[u]] = u]
  /\ pc' = [pc EXCEPT ![u] = "select"]
  /\ UNCHANGED <<events, mine, latest, locked, item, verdict, staged, outbox, failures>>

(* The latest row that a unit sees: what is committed, and its own.  It is *)
(* chosen before the wait for its lock, and not chosen again after it.     *)
LatestOf(rows) == {e \in rows : \A d \in rows : d.seq <= e.seq}

SelectLatest(u) ==
  /\ pc[u] = "select"
  /\ latest' = [latest EXCEPT ![u] = LatestOf(events \cup mine[u])]
  /\ pc' = [pc EXCEPT ![u] = "wait"]
  /\ UNCHANGED <<events, mine, locked, loop, item, verdict, staged, outbox, failures>>

(* The row lock is granted and the event loop's lock released. *)
LockLatest(u) ==
  /\ pc[u] = "wait"
  /\ \A q \in Units \ {u} : latest[u] \cap locked[q] = {}
  /\ locked' = [locked EXCEPT ![u] = @ \cup (latest[u] \cap events)]
  /\ loop' = [loop EXCEPT ![LoopOf[u]] = Nobody]
  /\ pc' = [pc EXCEPT ![u] = "insert"]
  /\ UNCHANGED <<events, mine, latest, item, verdict, staged, outbox, failures>>

(* sequence_number + 1 and event_hash of the latest row, or 1 and the      *)
(* genesis hash.                                                           *)
NextEvent(u) ==
  [seq  |-> IF latest[u] = {} THEN 1 ELSE (CHOOSE e \in latest[u] : TRUE).seq + 1,
   prev |-> IF latest[u] = {} THEN Genesis ELSE (CHOOSE e \in latest[u] : TRUE).id,
   id   |-> <<u, item[u]>>]

(* Fault: sequence_number without its unique constraint. *)
Taken_NoConstraint(n) == FALSE

(* unique=True of sequence_number *)
Taken(n) == \E e \in events : e.seq = n

(* An INSERT waits for the end of a unit that flushed the same number. *)
MayInsert(u) == \A q \in Units \ {u} : \A e \in mine[q] : e.seq # NextEvent(u).seq

(* What a unit does with its payment once the audit event is written. *)
AfterInsert(u) ==
  IF KindOf[u] = "recovery" THEN "publish" ELSE IF KindOf[u] = "auth" THEN "answer" ELSE "commit"

InsertEvent(u) ==
  /\ pc[u] = "insert"
  /\ MayInsert(u)
  /\ ~Taken(NextEvent(u).seq)
  /\ mine' = [mine EXCEPT ![u] = @ \cup {NextEvent(u)}]
  /\ pc' = [pc EXCEPT ![u] = AfterInsert(u)]
  /\ UNCHANGED <<events, latest, locked, loop, item, verdict, staged, outbox, failures>>

(* Fault: a failed append leaves the unit of work usable, and the          *)
(* recovered payment is published without its audit event.                 *)
AfterRefusal_Continues(u) == "publish"

(* The IntegrityError makes the session unusable: whoever swallows the     *)
(* ValueError finds that commit raises as well.                            *)
AfterRefusal(u) == "doomed"

RefuseEvent(u) ==
  /\ pc[u] = "insert"
  /\ MayInsert(u)
  /\ Taken(NextEvent(u).seq)
  /\ pc' = [pc EXCEPT ![u] = AfterRefusal(u)]
  /\ UNCHANGED <<events, mine, latest, locked, loop, item, verdict, staged, outbox, failures>>

(* create_event of the outbox: by the recovery service after the audit     *)
(* event of the same payment, by the execution engine without one.         *)
PublishEvent(u) ==
  /\ pc[u] = "publish"
  /\ staged' = [staged EXCEPT ![u] = Append(@, [id |-> <<u, item[u]>>, status |-> "PENDING"])]
  /\ IF item[u] < ItemsOf[u]
     THEN item' = [item EXCEPT ![u] = @ + 1] /\ pc' = [pc EXCEPT ![u] = "append"]
     ELSE pc' = [pc EXCEPT ![u] = "commit"] /\ UNCHANGED item
  /\ UNCHANGED <<events, mine, latest, locked, loop, verdict, outbox, failures>>

(* _authenticate_with_uow: a refused key raises HTTPException inside the   *)
(* unit of work.                                                           *)
AnswerAuth(u) ==
  /\ pc[u] = "answer"
  /\ pc' = [pc EXCEPT ![u] = IF verdict[u] = "ok" THEN "commit" ELSE "raise"]
  /\ UNCHANGED <<events, mine, latest, locked, loop, item, verdict, staged, outbox, failures>>

---------------------------------------------------------------------------------
(* Fault: the connection is not given back, and its row locks stay. *)
LocksAfter_Leaked(u) == locked

(* The end of a transaction releases its row locks. *)
LocksAfter(u) == [locked EXCEPT ![u] = {}]

EndUnit(u, outcome) ==
  /\ mine' = [mine EXCEPT ![u] = {}]
  /\ latest' = [latest EXCEPT ![u] = {}]
  /\ staged' = [staged EXCEPT ![u] = <<>>]
  /\ locked' = LocksAfter(u)
  /\ loop' = [l \in Loops |-> IF loop[l] = u THEN Nobody ELSE loop[l]]
  /\ pc' = [pc EXCEPT ![u] = outcome]
  /\ UNCHANGED <<item, verdict>>

CommitUnit(u) ==
  /\ pc[u] = "commit"
  /\ events' = events \cup mine[u]
  /\ outbox' = outbox \o staged[u]
  /\ EndUnit(u, "done")
  /\ UNCHANGED failures

(* A unit whose session failed, and an exception that leaves the block. *)
RollbackUnit(u) ==
  /\ pc[u] \in {"doomed", "raise"}
  /\ EndUnit(u, IF pc[u] = "raise" THEN "answered" ELSE "idle")
  /\ UNCHANGED <<events, outbox, failures>>

(* A lost connection, a cancelled request or a crash. *)
FailUnit(u) ==
  /\ failures < MaxFailures
  /\ pc[u] \notin {"idle", "done", "answered"}
  /\ failures' = failures + 1
  /\ EndUnit(u, "idle")
  /\ UNCHANGED <<events, outbox>>

Proceed(u) ==
  \/ \E v \in Verdict : Begin(u, v)
  \/ EnterLoopLock(u) \/ SelectLatest(u) \/ LockLatest(u)
  \/ InsertEvent(u) \/ RefuseEvent(u) \/ PublishEvent(u) \/ AnswerAuth(u)
  \/ CommitUnit(u) \/ RollbackUnit(u)
=================================================================================
