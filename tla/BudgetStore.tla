------------------------------ MODULE BudgetStore ------------------------------
(***************************************************************************)
(* The persistent budget methods, async_reserve, async_commit and          *)
(* async_release of apps/api/domain/budget_engine.py over                  *)
(* db/repository/budget_repository.py.  Each call runs in a unit of work   *)
(* of its own: it locks the mandate row, reads the reservation, and writes *)
(* it; the caller commits or rolls back.  The engine also keeps what it    *)
(* wrote in memory, before anybody knows whether the commit succeeds.      *)
(* The sessions belong to one process, which may restart; every            *)
(* reservation belongs to a transaction of its own.                        *)
(***************************************************************************)
EXTENDS Budgets

CONSTANT Sessions

ASSUME StoreAssumption == Nobody \notin Sessions

VARIABLES
  mandates,  \* the mandates rows that exist: daily_budget_paise, or none
  rows,      \* the committed budget_reservations rows
  lock,      \* the session that holds each mandate's row lock
  call,      \* per session, the call it is executing
  write,     \* per session, its uncommitted reservation row
  cache      \* _reservations of the engine

storeVars == <<mandates, rows, lock, call, write, cache>>

Call == [op : {"reserve", "commit", "release"}, mandate : Mandates, id : ResIds, amount : Amounts]
NoCall == [op |-> "none"]

(* Types of the tables, the row locks, the sessions and the memory. *)
StoreTypeOK ==
  /\ mandates \in [Mandates -> SUBSET Limits]
  /\ rows \in [ResIds -> Reservation \cup {NoReservation}]
  /\ lock \in [Mandates -> Sessions \cup {Nobody}]
  /\ call \in [Sessions -> Call \cup {NoCall}]
  /\ write \in [Sessions -> Reservation \cup {NoReservation}]
  /\ cache \in [ResIds -> Reservation \cup {NoReservation}]

StoreInit ==
  /\ mandates = [m \in Mandates |-> {}]
  /\ rows = [i \in ResIds |-> NoReservation]
  /\ lock = [m \in Mandates |-> Nobody]
  /\ call = [s \in Sessions |-> NoCall]
  /\ write = [s \in Sessions |-> NoReservation]
  /\ cache = [i \in ResIds |-> NoReservation]

StoreLedger == INSTANCE BudgetLedger WITH book <- rows, cap <- mandates

(* Fault: spending that is already committed is left out. *)
ReservedTotal_ReservedOnly(m) == StoreLedger!Total(rows, m, {"RESERVED"})

(* calculate_reserved_total, of what is committed *)
ReservedTotal(m) == StoreLedger!Total(rows, m, {"RESERVED", "COMMITTED"})

---------------------------------------------------------------------------------
CreateMandate(m, limit) ==
  /\ mandates[m] = {}
  /\ mandates' = [mandates EXCEPT ![m] = {limit}]
  /\ UNCHANGED <<rows, lock, call, write, cache>>

Start(s, c) ==
  /\ call[s] = NoCall
  /\ call' = [call EXCEPT ![s] = c]
  /\ UNCHANGED <<mandates, rows, lock, write, cache>>

(* Fault: the mandate row is read without FOR UPDATE. *)
CanLock_NoRowLock(s, m) == TRUE

CanLock(s, m) == lock[m] \in {Nobody, s}

(* lock_mandate_budget_for_update *)
LockMandate(s) ==
  /\ call[s] # NoCall
  /\ write[s] = NoReservation
  /\ mandates[call[s].mandate] # {}
  /\ CanLock(s, call[s].mandate)
  /\ lock[call[s].mandate] # s
  /\ lock' = [lock EXCEPT ![call[s].mandate] = s]
  /\ UNCHANGED <<mandates, rows, call, write, cache>>

(* The row a call writes, once its checks pass. *)
Written(c) ==
  IF c.op = "reserve"
  THEN [mandate |-> c.mandate, amount |-> c.amount, state |-> "RESERVED"]
  ELSE [rows[c.id] EXCEPT !.state = IF c.op = "commit" THEN "COMMITTED" ELSE "RELEASED"]

(* The checks of the three methods after the lock is granted.  An INSERT   *)
(* waits for a concurrent one with the same primary key.                   *)
Accepts(s, c) ==
  IF c.op = "reserve"
  THEN /\ rows[c.id] = NoReservation
       /\ \E limit \in mandates[c.mandate] : ReservedTotal(c.mandate) + c.amount <= limit
       /\ ~ \E q \in Sessions \ {s} : write[q] # NoReservation /\ call[q].id = c.id
  ELSE /\ rows[c.id] # NoReservation
       /\ rows[c.id].mandate = c.mandate
       /\ rows[c.id].state = "RESERVED"

Write(s) ==
  /\ call[s] # NoCall
  /\ write[s] = NoReservation
  /\ lock[call[s].mandate] = s
  /\ Accepts(s, call[s])
  /\ write' = [write EXCEPT ![s] = Written(call[s])]
  /\ cache' = [cache EXCEPT ![call[s].id] = Written(call[s])]
  /\ UNCHANGED <<mandates, rows, lock, call>>

EndSession(s) ==
  /\ lock' = [m \in Mandates |-> IF lock[m] = s THEN Nobody ELSE lock[m]]
  /\ call' = [call EXCEPT ![s] = NoCall]
  /\ write' = [write EXCEPT ![s] = NoReservation]
  /\ UNCHANGED <<mandates, cache>>

CommitUow(s) ==
  /\ write[s] # NoReservation
  /\ rows' = [rows EXCEPT ![call[s].id] = write[s]]
  /\ EndSession(s)

(* A refused or failed call, or a caller that gives up. *)
RollbackUow(s) ==
  /\ call[s] # NoCall
  /\ UNCHANGED rows
  /\ EndSession(s)

(* The process restarts: its memory is empty and its transactions are gone. *)
Restart ==
  /\ cache' = [i \in ResIds |-> NoReservation]
  /\ lock' = [m \in Mandates |-> Nobody]
  /\ call' = [s \in Sessions |-> NoCall]
  /\ write' = [s \in Sessions |-> NoReservation]
  /\ UNCHANGED <<mandates, rows>>

StoreNext ==
  \/ \E m \in Mandates, limit \in Limits : CreateMandate(m, limit)
  \/ \E s \in Sessions :
       \/ \E c \in Call : Start(s, c)
       \/ LockMandate(s) \/ Write(s) \/ CommitUow(s) \/ RollbackUow(s)
  \/ Restart

StoreSpec == StoreInit /\ [][StoreNext]_storeVars

---------------------------------------------------------------------------------
(* "Row-locks MandateModel for atomic accounting under database            *)
(* concurrency": the committed rows change as the atomic ledger does, so   *)
(* no set of concurrent sessions reserves beyond the limit or settles a    *)
(* reservation twice.                                                      *)
StoreImplementsLedger == StoreLedger!Spec

(* The engine's memory, which get_reservation answers from and which is    *)
(* written before the unit of work commits, never contradicts a            *)
(* reservation that is settled in the database: no interleaving leaves it  *)
(* COMMITTED in one and RELEASED in the other.                             *)
MemoryAgreesOnSettled ==
  \A i \in ResIds :
    rows[i].state \in {"COMMITTED", "RELEASED"} /\ cache[i] # NoReservation => cache[i] = rows[i]
=================================================================================
