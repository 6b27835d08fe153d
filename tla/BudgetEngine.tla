------------------------------ MODULE BudgetEngine ------------------------------
(***************************************************************************)
(* BudgetEngine of apps/api/domain/budget_engine.py: threads that reserve, *)
(* commit and release under one lock per mandate.  The reservations of all *)
(* mandates share one dictionary, guarded by a global lock for each single *)
(* access only, so an operation is two steps: look up, check and change    *)
(* the mandate's budget, then write the reservation.                       *)
(***************************************************************************)
EXTENDS Budgets

CONSTANTS Threads,
          IdsOf,        \* the uuids the engine draws for the calls of each mandate
          SuppliedIds,  \* ids that callers of any mandate may supply instead
          Resettable    \* the mandates whose budget may be registered again

(* A uuid is drawn for one call only: no other mandate's call and no caller *)
(* comes up with it.                                                        *)
ASSUME BudgetAssumption ==
  /\ IdsOf \in [Mandates -> SUBSET (ResIds \ SuppliedIds)]
  /\ \A m, n \in Mandates : m # n => IdsOf[m] \cap IdsOf[n] = {}
  /\ SuppliedIds \subseteq ResIds
  /\ Resettable \subseteq Mandates
  /\ Nobody \notin Threads

VARIABLES
  budgets,       \* _budgets
  reservations,  \* _reservations
  holder,        \* the thread inside each mandate's lock
  job            \* per thread, the reservation it has yet to write

vars == <<budgets, reservations, holder, job>>

Budget == [limit : Nat, spent : Nat, reserved : Nat]
NoBudget == [limit |-> "none"]

Job == [id : ResIds, mandate : Mandates, res : Reservation]
NoJob == [id |-> "none"]

(* Types of _budgets, _reservations, the lock holders and the pending writes. *)
TypeOK ==
  /\ budgets \in [Mandates -> Budget \cup {NoBudget}]
  /\ reservations \in [ResIds -> Reservation \cup {NoReservation}]
  /\ holder \in [Mandates -> Threads \cup {Nobody}]
  /\ job \in [Threads -> Job \cup {NoJob}]

Init ==
  /\ budgets = [m \in Mandates |-> NoBudget]
  /\ reservations = [i \in ResIds |-> NoReservation]
  /\ holder = [m \in Mandates |-> Nobody]
  /\ job = [th \in Threads |-> NoJob]

---------------------------------------------------------------------------------
(* Fault: the check that forgets what is reserved. *)
CanReserve_SpentOnly(budget, a) == budget.spent + a <= budget.limit

(* assert_can_reserve *)
CanReserve(budget, a) == budget.spent + budget.reserved + a <= budget.limit

reserve_budget(budget, a) == [budget EXCEPT !.reserved = @ + a]

commit_reservation(budget, a) == [budget EXCEPT !.reserved = @ - a, !.spent = @ + a]

release_reservation(budget, a) == [budget EXCEPT !.reserved = @ - a]

---------------------------------------------------------------------------------
(* A thread enters the mandate's lock and changes its budget; what is left *)
(* to do inside the lock is to write the reservation.                      *)
Enter(th, m, i, budget, res) ==
  /\ holder' = [holder EXCEPT ![m] = th]
  /\ budgets' = [budgets EXCEPT ![m] = budget]
  /\ job' = [job EXCEPT ![th] = [id |-> i, mandate |-> m, res |-> res]]
  /\ UNCHANGED reservations

MayEnter(th, m) == job[th] = NoJob /\ holder[m] = Nobody

(* register_budget: "Register or reset" *)
RegisterBudget(m, limit) ==
  /\ holder[m] = Nobody
  /\ budgets[m] = NoBudget \/ m \in Resettable
  /\ budgets' = [budgets EXCEPT ![m] = [limit |-> limit, spent |-> 0, reserved |-> 0]]
  /\ UNCHANGED <<reservations, holder, job>>

Reserve(th, m, i, a) ==
  /\ MayEnter(th, m)
  /\ budgets[m] # NoBudget
  /\ reservations[i] = NoReservation
  /\ CanReserve(budgets[m], a)
  /\ Enter(th, m, i, reserve_budget(budgets[m], a),
           [mandate |-> m, amount |-> a, state |-> "RESERVED"])

(* Fault: commit accepts any reservation of the mandate. *)
Committable_AnyState(i, m) == reservations[i] # NoReservation /\ reservations[i].mandate = m

(* The state checks of commit, and those of release: EXPIRED, which        *)
(* release would accept as well, is a state nothing ever sets.             *)
Committable(i, m) ==
  /\ reservations[i] # NoReservation
  /\ reservations[i].mandate = m
  /\ reservations[i].state = "RESERVED"

(* commit; reserving less than the amount raises in commit_reservation. *)
Commit(th, m, i) ==
  /\ MayEnter(th, m)
  /\ Committable(i, m)
  /\ budgets[m] # NoBudget
  /\ reservations[i].amount <= budgets[m].reserved
  /\ Enter(th, m, i, commit_reservation(budgets[m], reservations[i].amount),
           [reservations[i] EXCEPT !.state = "COMMITTED"])

(* release, called by a transaction's owner or by the audit of stranded    *)
(* reservations.                                                           *)
Release(th, m, i) ==
  /\ MayEnter(th, m)
  /\ Committable(i, m)
  /\ budgets[m] # NoBudget
  /\ reservations[i].amount <= budgets[m].reserved
  /\ Enter(th, m, i, release_reservation(budgets[m], reservations[i].amount),
           [reservations[i] EXCEPT !.state = "RELEASED"])

(* The reservation is written under the global lock; the mandate's lock is *)
(* left.                                                                   *)
WriteReservation(th) ==
  /\ job[th] # NoJob
  /\ reservations' = [reservations EXCEPT ![job[th].id] = job[th].res]
  /\ holder' = [holder EXCEPT ![job[th].mandate] = Nobody]
  /\ job' = [job EXCEPT ![th] = NoJob]
  /\ UNCHANGED budgets

Next ==
  \/ \E m \in Mandates, limit \in Limits : RegisterBudget(m, limit)
  \/ \E th \in Threads, m \in Mandates :
       \/ \E i \in IdsOf[m] \cup SuppliedIds, a \in Amounts : Reserve(th, m, i, a)
       \/ \E i \in ResIds : Commit(th, m, i) \/ Release(th, m, i)
  \/ \E th \in Threads : WriteReservation(th)

Spec == Init /\ [][Next]_vars

---------------------------------------------------------------------------------
(* The "Fundamental Financial Invariant" of the engine, for every          *)
(* interleaving of its threads: what is spent and reserved stays within    *)
(* the daily limit.                                                        *)
WithinLimit ==
  \A m \in Mandates : budgets[m] # NoBudget =>
    budgets[m].spent + budgets[m].reserved <= budgets[m].limit

(* A reservation whose id the engine drew is settled at most once: commit  *)
(* and release exclude each other ("Prevents double-spend, double-commit,  *)
(* double-release, commit-after-release, and release-after-commit"), also  *)
(* when budgets are registered again beside it.  It is not so for an id    *)
(* callers supplied: two mandates look it up under two locks.              *)
DrawnIds(ms) == UNION {IdsOf[m] : m \in ms}

SettledOnce ==
  [][\A i \in DrawnIds(Mandates) : reservations[i] # NoReservation /\ reservations'[i] # reservations[i] =>
       /\ reservations[i].state = "RESERVED"
       /\ reservations'[i] = [reservations[i] EXCEPT !.state = reservations'[i].state]]_vars

(* The book as the callers of m observe it: an operation takes effect when *)
(* it changes the budget, before the thread inside the lock writes.        *)
Observed(i, m) ==
  IF holder[m] # Nobody /\ job[holder[m]].id = i
  THEN job[holder[m]].res
  ELSE reservations[i]

Owner(i) == CHOOSE m \in Mandates : i \in IdsOf[m]
RegisteredOnce == Mandates \ Resettable

Ledger == INSTANCE BudgetLedger WITH
            Mandates <- RegisteredOnce,
            ResIds <- DrawnIds(RegisteredOnce),
            book <- [i \in DrawnIds(RegisteredOnce) |-> Observed(i, Owner(i))],
            cap <- [m \in RegisteredOnce |->
                      IF budgets[m] = NoBudget THEN {} ELSE {budgets[m].limit}]

(* "Guarantees linearizability and atomicity of budget operations across   *)
(* concurrent execution": for the mandates registered once and the ids the *)
(* engine draws, the threads implement the atomic ledger, whatever happens *)
(* beside it under supplied ids and to mandates registered again.          *)
ImplementsLedger == Ledger!Spec
=================================================================================
