------------------------------ MODULE BudgetProofs ------------------------------
(***************************************************************************)
(* Proofs about BudgetEngine and BudgetStore for any number of threads or  *)
(* sessions, mandates and reservations, any amounts and any limits.        *)
(*                                                                         *)
(* Both implement BudgetLedger.  The argument rests on one comparison:     *)
(* what an operation holds against the limit is no less than the sum of    *)
(* the ledger's reservations, for the engine through its counters          *)
(* (BookInv), for the store because nobody changes the rows between its    *)
(* sum and its commit (Pending).  What such a sum is comes from the        *)
(* definition of SumFunction by looking at a smallest set on which the     *)
(* claim fails.                                                            *)
(***************************************************************************)
EXTENDS BudgetEngine, BudgetStore, Functions, FiniteSetTheorems, WellFoundedInduction, TLAPS

---------------------------------------------------------------------------------
(* The threads of BudgetEngine *)

(* A registered budget starts, or starts again, within its limit. *)
LEMMA RegisterKeepsLimit ==
  ASSUME TypeOK, WithinLimit, NEW m \in Mandates, NEW limit \in Limits, RegisterBudget(m, limit)
  PROVE  TypeOK' /\ WithinLimit'
<1>1. limit \in Nat
  BY BudgetAssumption, AmountsAssumption
<1>2. TypeOK'
  BY <1>1 DEF RegisterBudget, TypeOK, Budget
<1>3. WithinLimit'
  BY <1>1 DEF RegisterBudget, TypeOK, WithinLimit, NoBudget
<1> QED
  BY <1>2, <1>3

(* The three operations enter the lock with a budget that keeps the limit. *)
LEMMA EnterKeepsLimit ==
  ASSUME TypeOK, WithinLimit, NEW th \in Threads, NEW m \in Mandates, NEW i \in ResIds,
         NEW budget \in Budget, NEW res \in Reservation,
         budget.spent + budget.reserved <= budget.limit, Enter(th, m, i, budget, res)
  PROVE  TypeOK' /\ WithinLimit'
<1>1. TypeOK'
  BY DEF Enter, TypeOK, Job
<1>2. WithinLimit'
  BY DEF Enter, TypeOK, WithinLimit
<1> QED
  BY <1>1, <1>2

(* reserve, commit and release keep every budget within its limit. *)
LEMMA OperationKeepsLimit ==
  ASSUME TypeOK, WithinLimit, NEW th \in Threads, NEW m \in Mandates, NEW i \in ResIds,
         \/ \E a \in Amounts : Reserve(th, m, i, a)
         \/ Commit(th, m, i) \/ Release(th, m, i)
  PROVE  TypeOK' /\ WithinLimit'
<1>1. /\ budgets[m] \in Budget
      /\ budgets[m].limit \in Nat /\ budgets[m].spent \in Nat /\ budgets[m].reserved \in Nat
      /\ budgets[m].spent + budgets[m].reserved <= budgets[m].limit
  BY DEF Reserve, Commit, Release, TypeOK, WithinLimit, Budget
<1>2. ASSUME NEW a \in Amounts, Reserve(th, m, i, a)
      PROVE  TypeOK' /\ WithinLimit'
  <2> DEFINE new == reserve_budget(budgets[m], a)
  <2>1. a \in Nat
    BY BudgetAssumption, AmountsAssumption
  <2>2. new \in Budget /\ new.spent + new.reserved <= new.limit
    BY <1>1, <1>2, <2>1 DEF Reserve, CanReserve, reserve_budget, Budget
  <2>3. [mandate |-> m, amount |-> a, state |-> "RESERVED"] \in Reservation
    BY DEF Reservation, BudgetState
  <2> HIDE DEF new
  <2>4. Enter(th, m, i, new, [mandate |-> m, amount |-> a, state |-> "RESERVED"])
    BY <1>2 DEF Reserve, new
  <2> QED
    BY <2>2, <2>3, <2>4, EnterKeepsLimit
<1>3. ASSUME reservations[i] \in Reservation
      PROVE  /\ reservations[i].amount \in Nat
             /\ [reservations[i] EXCEPT !.state = "COMMITTED"] \in Reservation
             /\ [reservations[i] EXCEPT !.state = "RELEASED"] \in Reservation
  BY <1>3, AmountsAssumption DEF Reservation, BudgetState
<1>4. CASE Commit(th, m, i)
  <2> DEFINE a == reservations[i].amount
  <2> DEFINE new == commit_reservation(budgets[m], a)
  <2> DEFINE res == [reservations[i] EXCEPT !.state = "COMMITTED"]
  <2>1. reservations[i] \in Reservation /\ a <= budgets[m].reserved /\ Enter(th, m, i, new, res)
    BY <1>4 DEF Commit, Committable, TypeOK
  <2>2. a \in Nat /\ res \in Reservation
    BY <1>3, <2>1
  <2>3. budgets[m].reserved - a \in Nat /\ budgets[m].spent + a \in Nat
    BY <1>1, <2>1, <2>2
  <2>4. new \in Budget /\ new.spent + new.reserved <= new.limit
    <3>1. /\ new.limit = budgets[m].limit /\ new.spent = budgets[m].spent + a
          /\ new.reserved = budgets[m].reserved - a
      BY <1>1 DEF commit_reservation, Budget
    <3>2. new \in Budget
      BY <1>1, <2>3 DEF commit_reservation, Budget
    <3> QED
      BY <1>1, <2>2, <3>1, <3>2
  <2> HIDE DEF new, res
  <2> QED
    BY <2>1, <2>2, <2>4, EnterKeepsLimit
<1>5. CASE Release(th, m, i)
  <2> DEFINE a == reservations[i].amount
  <2> DEFINE new == release_reservation(budgets[m], a)
  <2> DEFINE res == [reservations[i] EXCEPT !.state = "RELEASED"]
  <2>1. reservations[i] \in Reservation /\ a <= budgets[m].reserved /\ Enter(th, m, i, new, res)
    BY <1>5 DEF Release, Committable, TypeOK
  <2>2. a \in Nat /\ res \in Reservation
    BY <1>3, <2>1
  <2>3. new \in Budget /\ new.spent + new.reserved <= new.limit
    BY <1>1, <2>1, <2>2 DEF release_reservation, Budget
  <2> HIDE DEF new, res
  <2> QED
    BY <2>1, <2>2, <2>3, EnterKeepsLimit
<1> QED
  BY <1>2, <1>4, <1>5

(* Writing the reservation changes no budget. *)
LEMMA WriteKeepsLimit ==
  ASSUME TypeOK, WithinLimit, NEW th \in Threads, WriteReservation(th)
  PROVE  TypeOK' /\ WithinLimit'
<1>1. TypeOK'
  BY DEF WriteReservation, TypeOK, Job
<1>2. WithinLimit'
  BY DEF WriteReservation, WithinLimit
<1> QED
  BY <1>1, <1>2

(* The types and the financial invariant hold of every interleaving of the *)
(* engine's threads, resets by register_budget included.                   *)
THEOREM LimitInvariance == Spec => [](TypeOK /\ WithinLimit)
<1>1. Init => TypeOK /\ WithinLimit
  BY BudgetAssumption, AmountsAssumption DEF Init, TypeOK, WithinLimit
<1>2. TypeOK /\ WithinLimit /\ [Next]_vars => TypeOK' /\ WithinLimit'
  <2> SUFFICES ASSUME TypeOK, WithinLimit, [Next]_vars
               PROVE  TypeOK' /\ WithinLimit'
    OBVIOUS
  <2>1. ASSUME NEW m \in Mandates, NEW limit \in Limits, RegisterBudget(m, limit)
        PROVE  TypeOK' /\ WithinLimit'
    BY <2>1, RegisterKeepsLimit
  <2>2. ASSUME NEW th \in Threads, NEW m \in Mandates, NEW i \in IdsOf[m] \cup SuppliedIds,
               NEW a \in Amounts, Reserve(th, m, i, a)
        PROVE  TypeOK' /\ WithinLimit'
    <3>1. i \in ResIds
      BY BudgetAssumption, AmountsAssumption
    <3> QED
      BY <2>2, <3>1, OperationKeepsLimit
  <2>3. ASSUME NEW th \in Threads, NEW m \in Mandates, NEW i \in ResIds,
               Commit(th, m, i) \/ Release(th, m, i)
        PROVE  TypeOK' /\ WithinLimit'
    BY <2>3, OperationKeepsLimit
  <2>4. ASSUME NEW th \in Threads, WriteReservation(th)
        PROVE  TypeOK' /\ WithinLimit'
    BY <2>4, WriteKeepsLimit
  <2>5. CASE UNCHANGED vars
    BY <2>5 DEF vars, TypeOK, WithinLimit
  <2> QED
    BY <2>1, <2>2, <2>3, <2>4, <2>5 DEF Next
<1> QED
  BY <1>1, <1>2, PTL DEF Spec

(* "spent_paise + reserved_paise + requested_paise <= daily_limit_paise":  *)
(* no interleaving overdraws a budget.                                     *)
THEOREM BudgetNeverOverdrawn == Spec => []WithinLimit
BY LimitInvariance, PTL

---------------------------------------------------------------------------------
(* Settlement.  An id the engine draws is used under one mandate only, so  *)
(* that the mandate's lock protects the reservation between its lookup and *)
(* its write.                                                              *)

(* The thread that holds a mandate's lock is the one with an operation of  *)
(* that mandate to finish.                                                 *)
InsideInv ==
  /\ \A th \in Threads : job[th] # NoJob => holder[job[th].mandate] = th
  /\ \A m \in Mandates : holder[m] # Nobody => job[holder[m]] # NoJob /\ job[holder[m]].mandate = m

(* A thread inside a lock still sees what it looked up: either its id is   *)
(* free, or the reservation is RESERVED and only its state will change.    *)
StillSees(th) ==
  \/ reservations[job[th].id] = NoReservation
  \/ /\ reservations[job[th].id].state = "RESERVED"
     /\ job[th].res = [reservations[job[th].id] EXCEPT !.state = job[th].res.state]

JobInv ==
  /\ InsideInv
  /\ \A m \in Mandates : \A i \in IdsOf[m] :
       reservations[i] # NoReservation => reservations[i].mandate = m
  /\ \A th \in Threads : job[th] # NoJob =>
       /\ job[th].res.mandate = job[th].mandate
       /\ \A m \in Mandates : job[th].id \in IdsOf[m] => m = job[th].mandate /\ StillSees(th)

(* The id of an operation of m is drawn for no other mandate. *)
OfOneMandate(i, m) == i \in ResIds /\ \A n \in Mandates : i \in IdsOf[n] => n = m

(* Entering the lock keeps what is known of the pending reservations. *)
LEMMA EnterJobInv ==
  ASSUME TypeOK, JobInv, NEW th \in Threads, NEW m \in Mandates, NEW i, OfOneMandate(i, m),
         NEW budget, NEW res \in Reservation, MayEnter(th, m), Enter(th, m, i, budget, res),
         res.mandate = m,
         \/ reservations[i] = NoReservation
         \/ /\ reservations[i].state = "RESERVED"
            /\ res = [reservations[i] EXCEPT !.state = res.state]
  PROVE  JobInv'
<1>1. PICK new : new = [id |-> i, mandate |-> m, res |-> res]
  OBVIOUS
<1>2. /\ new.id = i /\ new.mandate = m /\ new.res = res /\ new # NoJob
      /\ \A t \in Threads : job'[t] = IF t = th THEN new ELSE job[t]
      /\ \A n \in Mandates : holder'[n] = IF n = m THEN th ELSE holder[n]
      /\ UNCHANGED reservations
  BY <1>1 DEF Enter, TypeOK, NoJob
<1>3. \A t \in Threads : job[t] # NoJob => job[t].mandate \in Mandates
  BY DEF TypeOK, Job
<1>4. job[th] = NoJob /\ holder[m] = Nobody
  BY DEF MayEnter
<1>5. \A t \in Threads : job[t] # NoJob => t # th /\ job[t].mandate # m
  BY <1>4, BudgetAssumption DEF JobInv, InsideInv
<1>6. \A n \in Mandates : holder[n] # Nobody => holder[n] \in Threads /\ holder[n] # th
  BY <1>4 DEF JobInv, InsideInv, TypeOK
<1>7. InsideInv'
  <2>1. \A t \in Threads : job'[t] # NoJob => holder'[job'[t].mandate] = t
    BY <1>2, <1>3, <1>5 DEF JobInv, InsideInv
  <2>2. \A n \in Mandates :
          holder'[n] # Nobody => job'[holder'[n]] # NoJob /\ job'[holder'[n]].mandate = n
    BY <1>2, <1>6 DEF JobInv, InsideInv
  <2> QED
    BY <2>1, <2>2 DEF InsideInv
<1>8. ASSUME NEW t \in Threads, job'[t] # NoJob
      PROVE  /\ job'[t].res.mandate = job'[t].mandate
             /\ \A n \in Mandates :
                  job'[t].id \in IdsOf[n] => n = job'[t].mandate /\ StillSees(t)'
  <2>1. CASE t = th
    <3>1. job'[t] = new /\ StillSees(t)'
      BY <1>2, <2>1 DEF StillSees
    <3> QED
      BY <1>2, <3>1 DEF OfOneMandate
  <2>2. CASE t # th
    <3>1. job'[t] = job[t] /\ job[t] # NoJob
      BY <1>2, <1>8, <2>2
    <3>2. StillSees(t)' <=> StillSees(t)
      BY <1>2, <3>1 DEF StillSees
    <3> QED
      BY <3>1, <3>2 DEF JobInv
  <2> QED
    BY <2>1, <2>2
<1> QED
  BY <1>2, <1>7, <1>8 DEF JobInv

(* Writing a reservation keeps what is known of the pending ones. *)
LEMMA WriteJobInv ==
  ASSUME TypeOK, JobInv, NEW th \in Threads, WriteReservation(th)
  PROVE  JobInv'
<1>1. PICK k, n, r : k = job[th].id /\ n = job[th].mandate /\ r = job[th].res
  OBVIOUS
<1>2. /\ k \in ResIds /\ job[th] # NoJob /\ n \in Mandates /\ r \in Reservation
      /\ holder[n] = th /\ r.mandate = n
  BY <1>1 DEF WriteReservation, TypeOK, Job, JobInv, InsideInv
<1>3. /\ \A i \in ResIds : reservations'[i] = IF i = k THEN r ELSE reservations[i]
      /\ \A t \in Threads : job'[t] = IF t = th THEN NoJob ELSE job[t]
      /\ \A m \in Mandates : holder'[m] = IF m = n THEN Nobody ELSE holder[m]
  BY <1>1, <1>2 DEF WriteReservation, TypeOK
<1>4. \A t \in Threads : job[t] # NoJob =>
        /\ job[t].mandate \in Mandates /\ job[t].id \in ResIds
        /\ t # th => job[t].mandate # n
  BY <1>2 DEF TypeOK, Job, JobInv, InsideInv
<1>5. InsideInv'
  <2>1. \A t \in Threads : job'[t] # NoJob => holder'[job'[t].mandate] = t
    BY <1>3, <1>4 DEF JobInv, InsideInv
  <2>2. \A m \in Mandates : m # n /\ holder[m] # Nobody => holder[m] \in Threads /\ holder[m] # th
    BY <1>1 DEF TypeOK, JobInv, InsideInv
  <2>3. \A m \in Mandates :
          holder'[m] # Nobody => job'[holder'[m]] # NoJob /\ job'[holder'[m]].mandate = m
    BY <1>3, <2>2 DEF JobInv, InsideInv
  <2> QED
    BY <2>1, <2>3 DEF InsideInv
<1>6. \A m \in Mandates : k \in IdsOf[m] => m = n
  BY <1>1, <1>2 DEF JobInv
<1>7. \A m \in Mandates : \A i \in IdsOf[m] :
        reservations'[i] # NoReservation => reservations'[i].mandate = m
  <2>1. \A m \in Mandates : \A i \in IdsOf[m] : i \in ResIds
    BY BudgetAssumption
  <2> QED
    BY <1>2, <1>3, <1>6, <2>1 DEF JobInv
<1>8. ASSUME NEW t \in Threads, job'[t] # NoJob
      PROVE  /\ job'[t].res.mandate = job'[t].mandate
             /\ \A m \in Mandates :
                  job'[t].id \in IdsOf[m] => m = job'[t].mandate /\ StillSees(t)'
  <2>1. t # th /\ job'[t] = job[t] /\ job[t] # NoJob
    BY <1>3, <1>8
  <2>2. ASSUME NEW m \in Mandates, job[t].id \in IdsOf[m]
        PROVE  m = job[t].mandate /\ StillSees(t)'
    <3>1. m = job[t].mandate /\ StillSees(t) /\ job[t].id \in ResIds
      BY <1>4, <2>1, <2>2 DEF JobInv
    <3>2. job[t].id # k
      BY <1>4, <1>6, <2>1, <2>2, <3>1
    <3> QED
      BY <1>3, <2>1, <3>1, <3>2 DEF StillSees
  <2> QED
    BY <2>1, <2>2 DEF JobInv
<1> QED
  BY <1>5, <1>7, <1>8 DEF JobInv

(* The ids of an operation. *)
LEMMA IdsAre ==
  ASSUME TypeOK, JobInv, NEW m \in Mandates
  PROVE  /\ \A i \in IdsOf[m] \cup SuppliedIds : OfOneMandate(i, m)
         /\ \A i \in ResIds : Committable(i, m) => OfOneMandate(i, m)
<1>1. \A i \in IdsOf[m] \cup SuppliedIds : OfOneMandate(i, m)
  BY BudgetAssumption DEF OfOneMandate
<1>2. \A i \in ResIds : Committable(i, m) => OfOneMandate(i, m)
  BY DEF OfOneMandate, Committable, JobInv
<1> QED
  BY <1>1, <1>2

(* Every step keeps what is known of the pending reservations. *)
LEMMA NextJobInv ==
  ASSUME TypeOK, JobInv, [Next]_vars
  PROVE  JobInv'
<1>1. ASSUME UNCHANGED <<reservations, holder, job>> PROVE JobInv'
  BY <1>1 DEF JobInv, InsideInv, StillSees
<1>2. ASSUME NEW th \in Threads, NEW m \in Mandates, NEW i \in IdsOf[m] \cup SuppliedIds,
             NEW a \in Amounts, Reserve(th, m, i, a)
      PROVE  JobInv'
  <2> DEFINE res == [mandate |-> m, amount |-> a, state |-> "RESERVED"]
  <2>1. OfOneMandate(i, m) /\ res \in Reservation /\ res.mandate = m
    BY IdsAre DEF Reservation, BudgetState
  <2> HIDE DEF res
  <2>2. /\ MayEnter(th, m) /\ reservations[i] = NoReservation
        /\ Enter(th, m, i, reserve_budget(budgets[m], a), res)
    BY <1>2 DEF Reserve, res
  <2> QED
    BY <2>1, <2>2, EnterJobInv
<1>3. ASSUME NEW th \in Threads, NEW m \in Mandates, NEW i \in ResIds, NEW budget,
             NEW state \in BudgetState, MayEnter(th, m), Committable(i, m),
             Enter(th, m, i, budget, [reservations[i] EXCEPT !.state = state])
      PROVE  JobInv'
  <2> DEFINE res == [reservations[i] EXCEPT !.state = state]
  <2>1. /\ reservations[i] \in Reservation /\ reservations[i].state = "RESERVED"
        /\ reservations[i].mandate = m /\ OfOneMandate(i, m)
    BY <1>3, IdsAre DEF Committable, TypeOK
  <2>2. res \in Reservation /\ res.mandate = m /\ res = [reservations[i] EXCEPT !.state = res.state]
    BY <2>1 DEF Reservation
  <2> HIDE DEF res
  <2>3. Enter(th, m, i, budget, res)
    BY <1>3 DEF res
  <2> QED
    BY <1>3, <2>1, <2>2, <2>3, EnterJobInv
<1>4. ASSUME NEW th \in Threads, NEW m \in Mandates, NEW i \in ResIds,
             Commit(th, m, i) \/ Release(th, m, i)
      PROVE  JobInv'
  BY <1>3, <1>4 DEF Commit, Release, BudgetState
<1>5. ASSUME NEW th \in Threads, WriteReservation(th)
      PROVE  JobInv'
  BY <1>5, WriteJobInv
<1> QED
  BY <1>1, <1>2, <1>4, <1>5 DEF Next, RegisterBudget, vars

(* A reservation whose id the engine drew is settled at most once, by      *)
(* commit or by release but never by both, whatever other mandates do with *)
(* ids supplied to them and however often budgets are registered again.    *)
THEOREM ReservationSettledOnce == Spec => SettledOnce
<1> DEFINE Settled(i) ==
      reservations[i] # NoReservation /\ reservations'[i] # reservations[i] =>
        /\ reservations[i].state = "RESERVED"
        /\ reservations'[i] = [reservations[i] EXCEPT !.state = reservations'[i].state]
<1>1. Init => JobInv
  BY BudgetAssumption DEF Init, JobInv, InsideInv
<1>2. TypeOK /\ JobInv /\ [Next]_vars => JobInv'
  BY NextJobInv
<1>3. TypeOK /\ JobInv /\ [Next]_vars => [\A i \in DrawnIds(Mandates) : Settled(i)]_vars
  <2> SUFFICES ASSUME TypeOK, JobInv, Next, NEW m \in Mandates, NEW i \in IdsOf[m]
               PROVE  Settled(i)
    BY DEF DrawnIds
  <2>1. CASE UNCHANGED reservations
    BY <2>1
  <2>2. ASSUME NEW th \in Threads, WriteReservation(th)
        PROVE  Settled(i)
    <3>1. job[th] # NoJob /\ job[th].id \in ResIds /\ i \in ResIds
      BY <2>2, BudgetAssumption DEF WriteReservation, TypeOK, Job
    <3>2. reservations'[i] = IF i = job[th].id THEN job[th].res ELSE reservations[i]
      BY <2>2, <3>1 DEF WriteReservation, TypeOK
    <3>3. i = job[th].id => StillSees(th)
      BY <3>1 DEF JobInv
    <3> QED
      BY <3>2, <3>3 DEF StillSees
  <2> QED
    BY <2>1, <2>2 DEF Next, RegisterBudget, Reserve, Commit, Release, Enter
<1>4. Spec => []TypeOK
  BY LimitInvariance, PTL
<1> QED
  BY <1>1, <1>2, <1>3, <1>4, PTL DEF Spec, SettledOnce

---------------------------------------------------------------------------------
(* Sums *)

(* Induction over finite sets, as an argument about a smallest             *)
(* counterexample.                                                         *)
LEMMA NatMin ==
  ASSUME NEW S \in SUBSET Nat, S # {}
  PROVE  \E x \in S : \A y \in S : x <= y
<1> DEFINE R == OpToRel(<, Nat)
<1>1. IsWellFoundedOn(R, Nat)
  BY NatLessThanWellFounded
<1> HIDE DEF R
<1>2. PICK x \in S : \A y \in S : ~ (<<y, x>> \in R)
  BY <1>1, WFMin, Zenon
<1>3. \A y \in S : ~(y < x)
  <2> SUFFICES ASSUME NEW y \in S, y < x PROVE FALSE
    OBVIOUS
  <2>1. y \in Nat /\ x \in Nat
    OBVIOUS
  <2>2. <<y, x>> \in {ss \in Nat \X Nat : ss[1] < ss[2]}
    BY <2>1
  <2>3. <<y, x>> \in R
    BY <2>2 DEF R, OpToRel
  <2> QED
    BY <2>3, <1>2
<1> QED
  BY <1>3

(* In a collection of finite sets some set is smallest. *)
LEMMA SmallestSet ==
  ASSUME NEW C, C # {}, \A s \in C : IsFiniteSet(s)
  PROVE  \E s \in C : \A t \in C : Cardinality(s) <= Cardinality(t)
<1> DEFINE sizes == {Cardinality(s) : s \in C}
<1>1. sizes \in SUBSET Nat /\ sizes # {}
  BY FS_CardinalityType
<1>2. PICK n \in sizes : \A k \in sizes : n <= k
  BY <1>1, NatMin
<1> QED
  BY <1>2

First(s) == CHOOSE x \in s : TRUE

(* g is the sum of f over each subset of U, taken element by element. *)
Sums(g, f, U) ==
  g = [s \in SUBSET U |-> IF s = {} THEN 0 ELSE f[First(s)] + g[s \ {First(s)}]]

LEMMA FirstIn ==
  ASSUME NEW s, s # {}
  PROVE  First(s) \in s
  BY DEF First

LEMMA SmallerSet ==
  ASSUME NEW s, IsFiniteSet(s), NEW x \in s
  PROVE  /\ IsFiniteSet(s \ {x}) /\ Cardinality(s) \in Nat /\ Cardinality(s \ {x}) \in Nat
         /\ Cardinality(s \ {x}) < Cardinality(s)
<1>1. /\ IsFiniteSet(s \ {x}) /\ Cardinality(s \ {x}) = Cardinality(s) - 1
  BY FS_RemoveElement
<1>2. Cardinality(s) \in Nat /\ Cardinality(s \ {x}) \in Nat
  BY <1>1, FS_CardinalityType
<1> QED
  BY <1>1, <1>2

(* Such a g exists. *)
LEMMA SumsExist ==
  ASSUME NEW U, IsFiniteSet(U), NEW f \in [U -> Nat]
  PROVE  \E g \in [SUBSET U -> Nat] : Sums(g, f, U)
<1> DEFINE upTo(n) == {s \in SUBSET U : Cardinality(s) <= n}
           Good(n) == \E g \in [upTo(n) -> Nat] : \A s \in upTo(n) :
                        g[s] = IF s = {} THEN 0 ELSE f[First(s)] + g[s \ {First(s)}]
<1>1. \A s \in SUBSET U : IsFiniteSet(s) /\ Cardinality(s) \in Nat
  BY FS_Subset, FS_CardinalityType
<1>2. \A s \in SUBSET U : s # {} =>
        /\ First(s) \in s /\ First(s) \in U /\ s \ {First(s)} \in SUBSET U
        /\ Cardinality(s \ {First(s)}) \in Nat /\ Cardinality(s \ {First(s)}) < Cardinality(s)
  BY <1>1, FirstIn, SmallerSet
<1>3. Good(0)
  <2>1. ASSUME NEW s \in SUBSET U, Cardinality(s) <= 0 PROVE s = {}
    <3> SUFFICES ASSUME s # {} PROVE FALSE
      OBVIOUS
    <3>1. Cardinality(s \ {First(s)}) \in Nat /\ Cardinality(s \ {First(s)}) < Cardinality(s)
      BY <1>2
    <3>2. Cardinality(s) \in Nat
      BY <1>1
    <3> QED
      BY <2>1, <3>1, <3>2
  <2>2. [s \in upTo(0) |-> 0] \in [upTo(0) -> Nat]
    OBVIOUS
  <2> WITNESS [s \in upTo(0) |-> 0] \in [upTo(0) -> Nat]
  <2> QED
    BY <2>1
<1>4. ASSUME NEW n \in Nat, Good(n) PROVE Good(n + 1)
  <2>1. PICK h \in [upTo(n) -> Nat] : \A s \in upTo(n) :
                        h[s] = IF s = {} THEN 0 ELSE f[First(s)] + h[s \ {First(s)}]
    BY <1>4
  <2> DEFINE g == [s \in upTo(n + 1) |->
                     IF s = {} THEN 0 ELSE f[First(s)] + h[s \ {First(s)}]]
  <2>2. \A s \in upTo(n + 1) : s # {} => s \ {First(s)} \in upTo(n)
    BY <1>1, <1>2
  <2>3. \A s \in upTo(n) : s \in upTo(n + 1)
    BY <1>1
  <2>4. \A s \in upTo(n) : g[s] = h[s]
    BY <2>1, <2>3
  <2>5. \A s \in upTo(n + 1) : g[s] = IF s = {} THEN 0 ELSE f[First(s)] + g[s \ {First(s)}]
    BY <2>2, <2>4
  <2>6. g \in [upTo(n + 1) -> Nat]
    <3>1. \A s \in upTo(n + 1) : s # {} => f[First(s)] \in Nat /\ h[s \ {First(s)}] \in Nat
      BY <1>2, <2>2
    <3> QED
      BY <3>1
  <2> QED
    BY <2>5, <2>6
<1> HIDE DEF Good
<1>5. \A n \in Nat : Good(n)
  <2> SUFFICES ASSUME {n \in Nat : ~Good(n)} # {} PROVE FALSE
    OBVIOUS
  <2>1. PICK n \in {k \in Nat : ~Good(k)} : \A k \in {j \in Nat : ~Good(j)} : n <= k
    BY NatMin
  <2>2. n \in Nat /\ ~Good(n) /\ n # 0
    BY <1>3, <2>1
  <2>3. n - 1 \in Nat /\ ~(n <= n - 1) /\ (n - 1) + 1 = n
    BY <2>2
  <2>4. Good(n - 1)
    BY <2>1, <2>3
  <2> QED
    BY <1>4, <2>2, <2>3, <2>4
<1>6. upTo(Cardinality(U)) = SUBSET U
  BY <1>1, FS_Subset
<1>7. Good(Cardinality(U))
  BY <1>5, FS_CardinalityType
<1>8. PICK g \in [SUBSET U -> Nat] : \A s \in SUBSET U :
                        g[s] = IF s = {} THEN 0 ELSE f[First(s)] + g[s \ {First(s)}]
  BY <1>6, <1>7 DEF Good
<1>9. Sums(g, f, U)
  BY <1>8 DEF Sums
<1> QED
  BY <1>9

(* The sum does not depend on the larger set it is defined over. *)
LEMMA SumsAgree ==
  ASSUME NEW U, IsFiniteSet(U), NEW V \in SUBSET U, NEW f \in [U -> Nat], NEW e \in [V -> Nat],
         \A x \in V : e[x] = f[x], NEW g, Sums(g, f, U), NEW h, Sums(h, e, V)
  PROVE  \A s \in SUBSET V : g[s] = h[s]
<1> DEFINE Bad == {s \in SUBSET V : g[s] # h[s]}
<1> SUFFICES ASSUME Bad # {} PROVE FALSE
  OBVIOUS
<1>1. \A s \in SUBSET V : IsFiniteSet(s) /\ s \in SUBSET U
  BY FS_Subset
<1>2. PICK s \in Bad : \A t \in Bad : Cardinality(s) <= Cardinality(t)
  BY <1>1, SmallestSet
<1>3. s \in SUBSET V /\ s \in SUBSET U /\ g[s] # h[s]
  BY <1>1, <1>2
<1>4. /\ g[s] = IF s = {} THEN 0 ELSE f[First(s)] + g[s \ {First(s)}]
      /\ h[s] = IF s = {} THEN 0 ELSE e[First(s)] + h[s \ {First(s)}]
  BY <1>3 DEF Sums
<1>5. s # {}
  BY <1>3, <1>4
<1>6. /\ First(s) \in V /\ s \ {First(s)} \in SUBSET V
      /\ ~(Cardinality(s) <= Cardinality(s \ {First(s)}))
  <2>1. First(s) \in s
    BY <1>1, <1>3, <1>5, FirstIn
  <2>2. /\ Cardinality(s) \in Nat /\ Cardinality(s \ {First(s)}) \in Nat
        /\ Cardinality(s \ {First(s)}) < Cardinality(s)
    BY <1>1, <1>3, <2>1, SmallerSet
  <2> QED
    BY <1>3, <2>1, <2>2
<1>7. g[s \ {First(s)}] = h[s \ {First(s)}]
  BY <1>2, <1>6
<1> QED
  BY <1>3, <1>4, <1>5, <1>6, <1>7

(* Any element may be taken first. *)
SumOver(g, f, U) ==
  IsFiniteSet(U) /\ f \in [U -> Nat] /\ g \in [SUBSET U -> Nat] /\ Sums(g, f, U)

LEMMA SumsTake ==
  ASSUME NEW U, NEW f, NEW g, SumOver(g, f, U)
  PROVE  \A x \in U : g[U] = f[x] + g[U \ {x}]
<1> SUFFICES \A s \in SUBSET U : \A x \in s : g[s] = f[x] + g[s \ {x}]
  OBVIOUS
<1> USE DEF SumOver
<1> DEFINE Bad == {s \in SUBSET U : \E x \in s : g[s] # f[x] + g[s \ {x}]}
<1> SUFFICES ASSUME Bad # {} PROVE FALSE
  OBVIOUS
<1>1. \A s \in SUBSET U : IsFiniteSet(s)
  BY FS_Subset
<1>2. PICK s \in Bad : \A t \in Bad : Cardinality(s) <= Cardinality(t)
  BY <1>1, SmallestSet
<1>3. PICK x \in s : g[s] # f[x] + g[s \ {x}]
  BY <1>2
<1>4. PICK y : y = First(s)
  OBVIOUS
<1>5. s \in SUBSET U /\ s # {} /\ IsFiniteSet(s) /\ y \in s
  BY <1>1, <1>3, <1>4, FirstIn
<1>6. g[s] = f[y] + g[s \ {y}]
  BY <1>4, <1>5 DEF Sums
<1>7. x # y
  BY <1>3, <1>6
<1>8. ASSUME NEW z \in s, NEW w \in s, z # w PROVE g[s \ {z}] = f[w] + g[(s \ {z}) \ {w}]
  <2>1. /\ Cardinality(s) \in Nat /\ Cardinality(s \ {z}) \in Nat
        /\ Cardinality(s \ {z}) < Cardinality(s)
    BY <1>5, SmallerSet
  <2>2. s \ {z} \in SUBSET U /\ ~(s \ {z} \in Bad)
    BY <1>2, <1>5, <2>1
  <2> QED
    BY <1>8, <2>2
<1>9. g[s \ {y}] = f[x] + g[(s \ {y}) \ {x}] /\ g[s \ {x}] = f[y] + g[(s \ {x}) \ {y}]
  BY <1>5, <1>7, <1>8
<1>10. (s \ {y}) \ {x} = (s \ {x}) \ {y} /\ (s \ {x}) \ {y} \in SUBSET U
  BY <1>5
<1>11. f[x] \in Nat /\ f[y] \in Nat /\ g[(s \ {x}) \ {y}] \in Nat
  BY <1>5, <1>10
<1>12. PICK a \in Nat, b \in Nat, c \in Nat :
         a = f[x] /\ b = f[y] /\ c = g[(s \ {x}) \ {y}]
  BY <1>11
<1>13. g[s] = b + (a + c) /\ f[x] + g[s \ {x}] = a + (b + c)
  BY <1>6, <1>9, <1>10, <1>12
<1> QED
  BY <1>3, <1>12, <1>13

(* SumFunction is the sum over the whole domain. *)
LEMMA SumIs ==
  ASSUME NEW U, IsFiniteSet(U), NEW f \in [U -> Nat]
  PROVE  \E g \in [SUBSET U -> Nat] : Sums(g, f, U) /\ SumFunction(f) = g[U]
<1>1. PICK h \in [SUBSET U -> Nat] : Sums(h, f, U)
  BY SumsExist
<1> DEFINE g == CHOOSE k : Sums(k, f, U)
<1>2. Sums(g, f, U)
  BY <1>1
<1>3. SumFunction(f) = g[U]
  BY DEF SumFunction, SumFunctionOnSet, FoldFunctionOnSet, MapThenFoldSet, Sums, First
<1> HIDE DEF g
<1>4. \A s \in SUBSET U : g[s] = h[s]
  BY <1>1, <1>2, SumsAgree
<1>5. g \in [SUBSET U -> Nat]
  <2>1. DOMAIN g = SUBSET U /\ g = [s \in SUBSET U |-> g[s]]
    BY <1>2 DEF Sums
  <2> QED
    BY <1>4, <2>1
<1> QED
  BY <1>2, <1>3, <1>5

(* e is f without its element x. *)
Without(e, V, f, U, x) ==
  /\ IsFiniteSet(U) /\ f \in [U -> Nat] /\ x \in U
  /\ V = U \ {x} /\ e \in [V -> Nat] /\ \A y \in V : e[y] = f[y]

(* Taking an element out of a function takes its value out of the sum. *)
LEMMA SumRemove ==
  ASSUME NEW U, NEW f, NEW x, NEW V, NEW e, Without(e, V, f, U, x)
  PROVE  /\ SumFunction(f) \in Nat /\ SumFunction(e) \in Nat
         /\ SumFunction(f) = f[x] + SumFunction(e)
<1> USE DEF Without
<1>1. V = U \ {x}
  OBVIOUS
<1>2. IsFiniteSet(V) /\ V \in SUBSET U
  BY FS_RemoveElement
<1>3. PICK g \in [SUBSET U -> Nat] : Sums(g, f, U) /\ SumFunction(f) = g[U]
  BY SumIs
<1>4. PICK h \in [SUBSET V -> Nat] : Sums(h, e, V) /\ SumFunction(e) = h[V]
  BY <1>2, SumIs
<1>5. g[V] = h[V]
  BY <1>2, <1>3, <1>4, SumsAgree
<1>6. SumOver(g, f, U)
  BY <1>3 DEF SumOver
<1>7. g[U] = f[x] + g[V]
  <2>1. \A y \in U : g[U] = f[y] + g[U \ {y}]
    <3> HIDE <1>1, <1>2, <1>3, <1>4, <1>5
    <3> QED
      BY <1>6, SumsTake
  <2> QED
    BY <1>1, <2>1
<1>8. g[U] \in Nat /\ h[V] \in Nat
  OBVIOUS
<1> QED
  BY <1>3, <1>4, <1>5, <1>7, <1>8

LEMMA SumEmpty ==
  ASSUME NEW f, DOMAIN f = {}, f = [y \in {} |-> f[y]]
  PROVE  SumFunction(f) = 0
<1>1. f \in [{} -> Nat]
  OBVIOUS
<1>2. IsFiniteSet({})
  BY FS_EmptySet
<1>3. PICK g \in [SUBSET {} -> Nat] : Sums(g, f, {}) /\ SumFunction(f) = g[{}]
  BY <1>1, <1>2, SumIs
<1> QED
  BY <1>3 DEF Sums

---------------------------------------------------------------------------------
(* The sessions of BudgetStore.  The mandate's row lock covers everything  *)
(* between the checks of a call and its commit; an inserted id is waited   *)
(* for whatever mandate it is inserted under.                              *)

(* A session that has written sees at its commit what it checked: the free *)
(* id and the room under the limit, or the reservation it settles; and the *)
(* memory already shows its write.                                         *)
Pending(s) ==
  LET c == call[s] IN
  /\ c \in Call /\ lock[c.mandate] = s
  /\ write[s] = Written(c) /\ cache[c.id] = write[s]
  /\ IF c.op = "reserve"
     THEN /\ rows[c.id] = NoReservation
          /\ \E limit \in mandates[c.mandate] : ReservedTotal(c.mandate) + c.amount <= limit
     ELSE /\ rows[c.id] # NoReservation
          /\ rows[c.id].mandate = c.mandate
          /\ rows[c.id].state = "RESERVED"

WriterInv == \A s \in Sessions : write[s] # NoReservation => Pending(s)

OneWriterPerId ==
  \A s, q \in Sessions :
    write[s] # NoReservation /\ write[q] # NoReservation /\ call[s].id = call[q].id => s = q

StoreInv == StoreTypeOK /\ WriterInv /\ OneWriterPerId /\ MemoryAgreesOnSettled

LEMMA StoreInitInv == StoreInit => StoreInv
<1> SUFFICES ASSUME StoreInit PROVE StoreInv
  OBVIOUS
<1>1. StoreTypeOK
  BY DEF StoreInit, StoreTypeOK
<1>2. WriterInv /\ OneWriterPerId
  BY DEF StoreInit, WriterInv, OneWriterPerId
<1>3. MemoryAgreesOnSettled
  BY DEF StoreInit, MemoryAgreesOnSettled
<1> QED
  BY <1>1, <1>2, <1>3 DEF StoreInv

(* What a call writes is a reservation of its mandate. *)
LEMMA WrittenType ==
  ASSUME StoreTypeOK, NEW c \in Call,
         c.op # "reserve" => rows[c.id] # NoReservation /\ rows[c.id].mandate = c.mandate
  PROVE  /\ Written(c) \in Reservation /\ Written(c).mandate = c.mandate
         /\ Written(c) # NoReservation
<1>1. c.mandate \in Mandates /\ c.id \in ResIds /\ c.amount \in Amounts
  BY DEF Call
<1>2. CASE c.op = "reserve"
  BY <1>1, <1>2 DEF Written, Reservation, BudgetState, NoReservation
<1>3. CASE c.op # "reserve"
  <2>1. rows[c.id] \in Reservation /\ rows[c.id].mandate = c.mandate
    BY <1>1, <1>3 DEF StoreTypeOK
  <2>2. PICK state \in BudgetState : Written(c) = [rows[c.id] EXCEPT !.state = state]
    BY <1>3 DEF Written, BudgetState
  <2> QED
    BY <2>1, <2>2 DEF Reservation, NoReservation
<1> QED
  BY <1>2, <1>3

(* A row of one mandate is not part of another one's total. *)
LEMMA TotalFrame ==
  ASSUME StoreTypeOK, NEW m, NEW i \in ResIds, NEW r \in Reservation,
         rows' = [rows EXCEPT ![i] = r], r.mandate # m,
         rows[i] # NoReservation => rows[i].mandate # m
  PROVE  ReservedTotal(m)' = ReservedTotal(m)
<1> DEFINE held(e) == {j \in ResIds : StoreLedger!Holds(e[j], m, {"RESERVED", "COMMITTED"})}
           amounts(e) == [j \in held(e) |-> e[j].amount]
<1>1. \A j \in ResIds : rows'[j] = IF j = i THEN r ELSE rows[j]
  BY DEF StoreTypeOK
<1>2. held(rows') = held(rows) /\ i \notin held(rows)
  BY <1>1 DEF StoreLedger!Holds, StoreLedger!Free, NoReservation
<1>3. amounts(rows') = amounts(rows)
  <2>1. \A j \in held(rows) : rows'[j].amount = rows[j].amount
    BY <1>1, <1>2
  <2> HIDE DEF held
  <2> QED
    BY <1>2, <2>1
<1> HIDE DEF amounts
<1>4. ReservedTotal(m) = StoreLedger!SumFunction(amounts(rows))
  BY DEF ReservedTotal, StoreLedger!Total, amounts
<1>5. ReservedTotal(m)' = StoreLedger!SumFunction(amounts(rows'))
  BY DEF ReservedTotal, StoreLedger!Total, amounts
<1> QED
  BY <1>3, <1>4, <1>5

(* A pending write stays so while its call, its lock, its rows and the     *)
(* total of its mandate stay.                                              *)
LEMMA PendingFrame ==
  ASSUME NEW s, NEW c, c = call[s], Pending(s), call'[s] = c, write'[s] = write[s],
         lock'[c.mandate] = s, cache'[c.id] = cache[c.id], rows'[c.id] = rows[c.id],
         mandates[c.mandate] \subseteq mandates'[c.mandate],
         ReservedTotal(c.mandate)' = ReservedTotal(c.mandate)
  PROVE  Pending(s)'
<1>1. Written(c)' = Written(c)
  BY DEF Written
<1>2. Written(c) = Written(call[s]) /\ Written(c)' = Written(call[s])'
  OBVIOUS
<1>3. ReservedTotal(c.mandate) = ReservedTotal(call[s].mandate)
      /\ ReservedTotal(c.mandate)' = ReservedTotal(call[s].mandate)'
  OBVIOUS
<1> QED
  BY <1>1, <1>2, <1>3 DEF Pending

(* Steps that write no reservation *)
LEMMA TotalSame ==
  ASSUME NEW m, UNCHANGED rows
  PROVE  ReservedTotal(m)' = ReservedTotal(m)
  BY DEF ReservedTotal

LEMMA CreateMandateInv ==
  ASSUME StoreInv, NEW m \in Mandates, NEW limit \in Limits, CreateMandate(m, limit)
  PROVE  StoreInv'
<1>1. /\ UNCHANGED <<rows, lock, call, write, cache>>
      /\ \A n \in Mandates : mandates[n] \subseteq mandates'[n]
  BY DEF CreateMandate, StoreInv, StoreTypeOK
<1>2. StoreTypeOK'
  BY DEF CreateMandate, StoreInv, StoreTypeOK
<1>3. WriterInv'
  <2> SUFFICES ASSUME NEW s \in Sessions, write'[s] # NoReservation PROVE Pending(s)'
    BY DEF WriterInv
  <2>1. PICK c : c = call[s]
    OBVIOUS
  <2>2. Pending(s) /\ c \in Call
    BY <1>1, <2>1 DEF StoreInv, WriterInv, Pending
  <2>3. c.mandate \in Mandates /\ lock[c.mandate] = s
    BY <2>1, <2>2 DEF Call, Pending
  <2> QED
    BY <1>1, <2>1, <2>2, <2>3, TotalSame, PendingFrame
<1> QED
  BY <1>1, <1>2, <1>3 DEF StoreInv, OneWriterPerId, MemoryAgreesOnSettled

LEMMA StartInv ==
  ASSUME StoreInv, NEW s \in Sessions, NEW c \in Call, Start(s, c)
  PROVE  StoreInv'
<1>1. /\ UNCHANGED <<mandates, rows, lock, write, cache>> /\ call[s] = NoCall
      /\ call' = [call EXCEPT ![s] = c]
  BY DEF Start
<1>2. StoreTypeOK'
  BY <1>1 DEF StoreInv, StoreTypeOK
<1>3. write[s] = NoReservation
  BY <1>1 DEF StoreInv, WriterInv, Pending, Call, NoCall
<1>4. \A q \in Sessions : write[q] # NoReservation => call'[q] = call[q]
  BY <1>1, <1>3 DEF StoreInv, StoreTypeOK
<1>5. WriterInv'
  <2> SUFFICES ASSUME NEW q \in Sessions, write'[q] # NoReservation PROVE Pending(q)'
    BY DEF WriterInv
  <2>1. PICK d : d = call[q]
    OBVIOUS
  <2>2. Pending(q) /\ lock[d.mandate] = q
    BY <1>1, <2>1 DEF StoreInv, WriterInv, Pending
  <2> QED
    BY <1>1, <1>4, <2>1, <2>2, TotalSame, PendingFrame
<1>6. OneWriterPerId'
  BY <1>1, <1>4 DEF StoreInv, OneWriterPerId
<1> QED
  BY <1>1, <1>2, <1>5, <1>6 DEF StoreInv, MemoryAgreesOnSettled

LEMMA LockInv ==
  ASSUME StoreInv, NEW s \in Sessions, LockMandate(s)
  PROVE  StoreInv'
<1>1. PICK m : m = call[s].mandate
  OBVIOUS
<1>2. /\ UNCHANGED <<mandates, rows, call, write, cache>> /\ write[s] = NoReservation
      /\ lock[m] \in {Nobody, s} /\ lock' = [lock EXCEPT ![m] = s]
  BY <1>1 DEF LockMandate, CanLock
<1>3. m \in Mandates
  BY <1>1 DEF LockMandate, StoreInv, StoreTypeOK, Call
<1>4. StoreTypeOK'
  BY <1>2, <1>3 DEF StoreInv, StoreTypeOK
<1>5. WriterInv'
  <2> SUFFICES ASSUME NEW q \in Sessions, write'[q] # NoReservation PROVE Pending(q)'
    BY DEF WriterInv
  <2>1. PICK d : d = call[q]
    OBVIOUS
  <2>2. Pending(q) /\ lock[d.mandate] = q /\ q # s /\ d.mandate \in Mandates
    BY <1>2, <2>1 DEF StoreInv, WriterInv, Pending, Call
  <2>3. lock'[d.mandate] = q
    BY <1>2, <1>3, <2>2, StoreAssumption DEF StoreInv, StoreTypeOK
  <2> QED
    BY <1>2, <2>1, <2>2, <2>3, TotalSame, PendingFrame
<1> QED
  BY <1>2, <1>4, <1>5 DEF StoreInv, OneWriterPerId, MemoryAgreesOnSettled

(* The three methods write what they checked, under the mandate's lock. *)
LEMMA WriteInv ==
  ASSUME StoreInv, NEW s \in Sessions, Write(s)
  PROVE  StoreInv'
<1>1. PICK c : c = call[s]
  OBVIOUS
<1>2. PICK w : w = Written(c)
  OBVIOUS
<1>3. /\ UNCHANGED <<mandates, rows, lock, call>> /\ write[s] = NoReservation
      /\ lock[c.mandate] = s /\ Accepts(s, c)
      /\ write' = [write EXCEPT ![s] = w] /\ cache' = [cache EXCEPT ![c.id] = w]
  BY <1>1, <1>2 DEF Write
<1>4. c \in Call /\ c.id \in ResIds /\ c.mandate \in Mandates
  BY <1>1 DEF Write, StoreInv, StoreTypeOK, Call
<1>5. w \in Reservation /\ w.mandate = c.mandate /\ w # NoReservation
  BY <1>2, <1>3, <1>4, WrittenType DEF Accepts, StoreInv
<1>6. /\ \A q \in Sessions : write'[q] = IF q = s THEN w ELSE write[q]
      /\ \A i \in ResIds : cache'[i] = IF i = c.id THEN w ELSE cache[i]
  BY <1>3, <1>4 DEF StoreInv, StoreTypeOK
<1>7. StoreTypeOK'
  BY <1>3, <1>4, <1>5 DEF StoreInv, StoreTypeOK
(* No other session is writing the same id. *)
<1>8. ASSUME NEW q \in Sessions, q # s, write[q] # NoReservation
      PROVE  Pending(q) /\ call[q].id # c.id
  <2>1. Pending(q)
    BY <1>8 DEF StoreInv, WriterInv
  <2>2. CASE c.op = "reserve"
    BY <1>3, <1>8, <2>1, <2>2 DEF Accepts
  <2>3. CASE c.op # "reserve"
    <3>1. /\ rows[c.id] # NoReservation /\ rows[c.id].mandate = c.mandate
      BY <1>3, <2>3 DEF Accepts
    <3>2. call[q].id = c.id => rows[c.id].mandate = call[q].mandate /\ lock[call[q].mandate] = q
      BY <2>1, <3>1 DEF Pending
    <3> QED
      BY <1>3, <1>8, <2>1, <3>1, <3>2
  <2> QED
    BY <2>1, <2>2, <2>3
<1>9. Pending(s)'
  <2>1. Written(c)' = w /\ Written(c)' = Written(call[s])'
    BY <1>1, <1>2, <1>3 DEF Written
  <2>2. write'[s] = w /\ cache'[c.id] = w /\ call'[s] = c /\ lock'[c.mandate] = s
    BY <1>1, <1>3, <1>4, <1>6
  <2>3. ReservedTotal(c.mandate)' = ReservedTotal(c.mandate)
        /\ ReservedTotal(c.mandate)' = ReservedTotal(call[s].mandate)'
    BY <1>1, <1>3, TotalSame
  <2> QED
    BY <1>3, <1>4, <2>1, <2>2, <2>3 DEF Pending, Accepts
<1>10. WriterInv'
  <2> SUFFICES ASSUME NEW q \in Sessions, q # s, write[q] # NoReservation PROVE Pending(q)'
    BY <1>6, <1>9 DEF WriterInv
  <2>1. PICK d : d = call[q]
    OBVIOUS
  <2>2. Pending(q) /\ lock[d.mandate] = q /\ d.id # c.id /\ d.id \in ResIds
    BY <1>8, <2>1 DEF Pending, Call
  <2> QED
    BY <1>3, <1>6, <2>1, <2>2, TotalSame, PendingFrame
<1>11. OneWriterPerId'
  BY <1>1, <1>3, <1>6, <1>8 DEF StoreInv, OneWriterPerId
<1>12. MemoryAgreesOnSettled'
  <2>1. rows[c.id].state \notin {"COMMITTED", "RELEASED"}
    BY <1>3 DEF Accepts, NoReservation
  <2> QED
    BY <1>3, <1>6, <2>1 DEF StoreInv, MemoryAgreesOnSettled
<1> QED
  BY <1>7, <1>10, <1>11, <1>12 DEF StoreInv

(* The end of a unit of work frees the locks of its session only. *)
LEMMA EndSessionFrame ==
  ASSUME StoreInv, NEW s \in Sessions, EndSession(s)
  PROVE  /\ UNCHANGED <<mandates, cache>>
         /\ rows' \in [ResIds -> Reservation \cup {NoReservation}] => StoreTypeOK'
         /\ \A q \in Sessions : write'[q] # NoReservation =>
              /\ q # s /\ write'[q] = write[q] /\ call'[q] = call[q]
              /\ Pending(q) /\ lock'[call[q].mandate] = q
         /\ OneWriterPerId'
<1>1. /\ UNCHANGED <<mandates, cache>>
      /\ lock' = [m \in Mandates |-> IF lock[m] = s THEN Nobody ELSE lock[m]]
      /\ call' = [call EXCEPT ![s] = NoCall] /\ write' = [write EXCEPT ![s] = NoReservation]
  BY DEF EndSession
<1>2. rows' \in [ResIds -> Reservation \cup {NoReservation}] => StoreTypeOK'
  BY <1>1 DEF StoreInv, StoreTypeOK
<1>3. ASSUME NEW q \in Sessions, write'[q] # NoReservation
      PROVE  /\ q # s /\ write'[q] = write[q] /\ call'[q] = call[q]
             /\ Pending(q) /\ lock'[call[q].mandate] = q
  <2>1. q # s /\ write'[q] = write[q] /\ call'[q] = call[q]
    BY <1>1, <1>3 DEF StoreInv, StoreTypeOK
  <2>2. Pending(q)
    BY <1>3, <2>1 DEF StoreInv, WriterInv
  <2>3. lock[call[q].mandate] = q /\ call[q].mandate \in Mandates
    BY <2>2 DEF Pending, Call
  <2> QED
    BY <1>1, <2>1, <2>2, <2>3
<1>4. OneWriterPerId'
  BY <1>3 DEF StoreInv, OneWriterPerId
<1> QED
  BY <1>1, <1>2, <1>3, <1>4

LEMMA RollbackInv ==
  ASSUME StoreInv, NEW s \in Sessions, RollbackUow(s)
  PROVE  StoreInv'
<1>1. UNCHANGED rows /\ EndSession(s)
  BY DEF RollbackUow
<1>2. UNCHANGED <<mandates, cache>> /\ StoreTypeOK' /\ OneWriterPerId'
  BY <1>1, EndSessionFrame DEF StoreInv, StoreTypeOK
<1>3. WriterInv'
  <2> SUFFICES ASSUME NEW q \in Sessions, write'[q] # NoReservation PROVE Pending(q)'
    BY DEF WriterInv
  <2>1. PICK d : d = call[q]
    OBVIOUS
  <2>2. Pending(q) /\ lock'[d.mandate] = q /\ write'[q] = write[q] /\ call'[q] = d
    BY <1>1, <2>1, EndSessionFrame
  <2> QED
    BY <1>1, <1>2, <2>1, <2>2, TotalSame, PendingFrame
<1> QED
  BY <1>1, <1>2, <1>3 DEF StoreInv, MemoryAgreesOnSettled

LEMMA CommitInv ==
  ASSUME StoreInv, NEW s \in Sessions, CommitUow(s)
  PROVE  StoreInv'
<1>1. PICK c, w : c = call[s] /\ w = write[s]
  OBVIOUS
<1>2. /\ write[s] # NoReservation /\ rows' = [rows EXCEPT ![c.id] = w] /\ EndSession(s)
  BY <1>1 DEF CommitUow
<1>3. /\ Pending(s) /\ c \in Call /\ c.id \in ResIds /\ lock[c.mandate] = s
      /\ w = Written(c) /\ cache[c.id] = w
      /\ rows[c.id] # NoReservation => rows[c.id].mandate = c.mandate
  BY <1>1, <1>2 DEF StoreInv, WriterInv, Pending, Call
<1>4. w \in Reservation /\ w.mandate = c.mandate
  BY <1>1, <1>3, WrittenType DEF Pending, StoreInv
<1>5. /\ \A i \in ResIds : rows'[i] = IF i = c.id THEN w ELSE rows[i]
      /\ rows' \in [ResIds -> Reservation \cup {NoReservation}]
  BY <1>2, <1>3, <1>4 DEF StoreInv, StoreTypeOK
<1>6. UNCHANGED <<mandates, cache>> /\ StoreTypeOK' /\ OneWriterPerId'
  BY <1>2, <1>5, EndSessionFrame
<1>7. WriterInv'
  <2> SUFFICES ASSUME NEW q \in Sessions, write'[q] # NoReservation PROVE Pending(q)'
    BY DEF WriterInv
  <2>1. PICK d : d = call[q]
    OBVIOUS
  <2>2. /\ Pending(q) /\ lock'[d.mandate] = q /\ write'[q] = write[q] /\ call'[q] = d /\ q # s
    BY <1>2, <2>1, EndSessionFrame
  <2>3. d.id # c.id /\ d.id \in ResIds
    BY <1>1, <1>2, <2>1, <2>2 DEF StoreInv, OneWriterPerId, Pending, Call
  <2>4. d.mandate # c.mandate
    BY <1>3, <2>1, <2>2 DEF Pending
  <2>5. ReservedTotal(d.mandate)' = ReservedTotal(d.mandate)
    BY <1>2, <1>3, <1>4, <2>4, TotalFrame DEF StoreInv
  <2> QED
    BY <1>5, <1>6, <2>1, <2>2, <2>3, <2>5, PendingFrame
<1>8. MemoryAgreesOnSettled'
  BY <1>3, <1>5, <1>6 DEF StoreInv, MemoryAgreesOnSettled
<1> QED
  BY <1>6, <1>7, <1>8 DEF StoreInv

LEMMA StoreNextInv ==
  ASSUME StoreInv, [StoreNext]_storeVars
  PROVE  StoreInv'
<1>1. CASE Restart
  <2>1. StoreTypeOK'
    BY <1>1 DEF Restart, StoreInv, StoreTypeOK
  <2>2. WriterInv' /\ OneWriterPerId' /\ MemoryAgreesOnSettled'
    BY <1>1 DEF Restart, WriterInv, OneWriterPerId, MemoryAgreesOnSettled
  <2> QED
    BY <2>1, <2>2 DEF StoreInv
<1>2. CASE UNCHANGED storeVars
  <2>1. UNCHANGED <<mandates, rows, lock, call, write, cache>>
    BY <1>2 DEF storeVars
  <2>2. \A s \in Sessions : Pending(s)' <=> Pending(s)
    BY <2>1 DEF Pending, Written, ReservedTotal
  <2> QED
    BY <2>1, <2>2 DEF StoreInv, StoreTypeOK, WriterInv, OneWriterPerId, MemoryAgreesOnSettled
<1> QED
  BY <1>1, <1>2, CreateMandateInv, StartInv, LockInv, WriteInv, CommitInv, RollbackInv
  DEF StoreNext

---------------------------------------------------------------------------------
(* The sessions keep StoreInv, whatever they interleave, roll back or lose *)
(* in a restart.                                                           *)
THEOREM StoreInvariance == StoreSpec => []StoreInv
<1>1. StoreInv /\ [StoreNext]_storeVars => StoreInv'
  BY StoreNextInv
<1> QED
  BY StoreInitInv, <1>1, PTL DEF StoreSpec

(* _reservations, written before the unit of work commits, never shows     *)
(* another outcome than the database for a settled reservation.            *)
THEOREM MemoryAgrees == StoreSpec => []MemoryAgreesOnSettled
<1>1. StoreInv => MemoryAgreesOnSettled
  BY DEF StoreInv
<1> QED
  BY StoreInvariance, <1>1, PTL

(* What a unit of work commits is one step of the ledger: the reservation  *)
(* still fits the limit, or is settled for the first time.                 *)
LEMMA CommitRefines ==
  ASSUME StoreInv, NEW s \in Sessions, CommitUow(s)
  PROVE  StoreLedger!Next
<1>1. PICK c : c = call[s]
  OBVIOUS
<1>2. /\ write[s] # NoReservation /\ rows' = [rows EXCEPT ![c.id] = write[s]]
      /\ UNCHANGED mandates
  BY <1>1 DEF CommitUow, EndSession
<1>3. /\ c \in Call /\ write[s] = Written(c) /\ Pending(s)
      /\ c.mandate \in Mandates /\ c.id \in ResIds /\ c.amount \in Amounts
      /\ c.op \in {"reserve", "commit", "release"}
  BY <1>1, <1>2 DEF StoreInv, WriterInv, Pending, Call
<1>4. CASE c.op = "reserve"
  <2>1. /\ rows[c.id] = StoreLedger!Free
        /\ \E limit \in mandates[c.mandate] : ReservedTotal(c.mandate) + c.amount <= limit
    BY <1>1, <1>3, <1>4 DEF Pending, StoreLedger!Free, NoReservation
  <2>2. rows' = [rows EXCEPT ![c.id] =
          [mandate |-> c.mandate, amount |-> c.amount, state |-> "RESERVED"]]
    BY <1>2, <1>3, <1>4 DEF Written
  <2>3. StoreLedger!Reserve(c.mandate, c.id, c.amount)
    BY <1>2, <2>1, <2>2 DEF StoreLedger!Reserve, ReservedTotal
  <2> QED
    BY <1>3, <2>3 DEF StoreLedger!Next
<1>5. CASE c.op # "reserve"
  <2>1. rows[c.id] # StoreLedger!Free /\ rows[c.id].state = "RESERVED"
    BY <1>1, <1>3, <1>5 DEF Pending, StoreLedger!Free, NoReservation
  <2>2. PICK state \in {"COMMITTED", "RELEASED"} : Written(c) = [rows[c.id] EXCEPT !.state = state]
    BY <1>5 DEF Written
  <2>3. rows' = [rows EXCEPT ![c.id].state = state]
    BY <1>2, <1>3, <2>2
  <2>4. StoreLedger!Settle(c.id, state)
    BY <1>2, <2>1, <2>3 DEF StoreLedger!Settle
  <2> QED
    BY <1>3, <2>4 DEF StoreLedger!Next
<1> QED
  BY <1>4, <1>5

(* Sessions that lock the mandate's row, sum, insert and settle implement  *)
(* the atomic ledger: no interleaving, rollback or restart lets them       *)
(* reserve beyond a limit or settle a reservation twice.                   *)
THEOREM StoreRefinesLedger == StoreSpec => StoreImplementsLedger
<1>1. StoreInit => StoreLedger!Init
  BY DEF StoreInit, StoreLedger!Init, StoreLedger!Free, NoReservation
<1>2. StoreInv /\ [StoreNext]_storeVars => [StoreLedger!Next]_<<rows, mandates>>
  <2> SUFFICES ASSUME StoreInv, [StoreNext]_storeVars, ~ UNCHANGED <<rows, mandates>>
               PROVE  StoreLedger!Next
    OBVIOUS
  <2>1. ASSUME NEW m \in Mandates, NEW limit \in Limits, CreateMandate(m, limit)
        PROVE  StoreLedger!Next
    BY <2>1 DEF CreateMandate, StoreLedger!Next, StoreLedger!Open
  <2>2. ASSUME NEW s \in Sessions, CommitUow(s) PROVE StoreLedger!Next
    BY <2>2, CommitRefines
  <2>3. ASSUME NEW s \in Sessions,
               (\E c \in Call : Start(s, c)) \/ LockMandate(s) \/ Write(s) \/ RollbackUow(s)
        PROVE  FALSE
    BY <2>3 DEF Start, LockMandate, Write, RollbackUow, EndSession
  <2>4. ~ Restart /\ ~ UNCHANGED storeVars
    BY DEF Restart, storeVars
  <2> QED
    BY <2>1, <2>2, <2>3, <2>4 DEF StoreNext
<1> QED
  BY StoreInvariance, <1>1, <1>2, PTL DEF StoreSpec, StoreImplementsLedger, StoreLedger!Spec

---------------------------------------------------------------------------------
(* The threads implement the ledger.  Of a mandate that is registered once *)
(* spent plus reserved is at least the sum of its reservations as its own  *)
(* callers observe them, under drawn and supplied ids; the ledger's        *)
(* reservations are those under drawn ids.                                 *)

Entries == Reservation \cup {NoReservation}
Spending == {"RESERVED", "COMMITTED"}
Held(b, m) == {j \in ResIds : Ledger!Holds(b[j], m, Spending)}
Sum(b, m) == SumFunction([j \in Held(b, m) |-> b[j].amount])

LEMMA HoldsIs ==
  ASSUME NEW r \in Entries, NEW m
  PROVE  Ledger!Holds(r, m, Spending) <=> r \in Reservation /\ r.mandate = m /\ r.state \in Spending
  BY DEF Ledger!Holds, Ledger!Free, Entries, NoReservation, Reservation, BudgetState, Spending

(* d is the book b with r as the entry of i. *)
Entered(d, b, i, r) ==
  b \in [ResIds -> Entries] /\ i \in ResIds /\ r \in Entries /\ d = [b EXCEPT ![i] = r]

(* A new reservation adds its amount to the sum of its mandate. *)
LEMMA SumAdds ==
  ASSUME NEW b, NEW m, NEW i, NEW r, NEW d, Entered(d, b, i, r), IsFiniteSet(Held(b, m)),
         i \notin Held(b, m), r \in Reservation, r.mandate = m, r.state \in Spending
  PROVE  IsFiniteSet(Held(d, m)) /\ Sum(d, m) = Sum(b, m) + r.amount
<1>1. /\ \A j \in ResIds : d[j] = IF j = i THEN r ELSE b[j]
      /\ i \in ResIds /\ r \in Entries /\ b \in [ResIds -> Entries]
  BY DEF Entered
<1>2. Held(d, m) = Held(b, m) \cup {i}
  BY <1>1, HoldsIs DEF Held
<1>3. IsFiniteSet(Held(d, m)) /\ i \in Held(d, m) /\ Held(d, m) \ {i} = Held(b, m)
  <2>1. IsFiniteSet(Held(b, m) \cup {i})
    BY FS_AddElement
  <2> QED
    BY <1>2, <2>1
<1>4. \A j \in Held(d, m) : d[j].amount \in Nat
  BY <1>1, HoldsIs, AmountsAssumption DEF Held, Reservation
<1>5. PICK f : f = [j \in Held(d, m) |-> d[j].amount]
  OBVIOUS
<1>6. f \in [Held(d, m) -> Nat] /\ f[i] = r.amount
  BY <1>1, <1>3, <1>4, <1>5
<1>7. PICK e : e = [j \in Held(b, m) |-> b[j].amount]
  OBVIOUS
<1>8. e \in [Held(b, m) -> Nat] /\ \A j \in Held(b, m) : e[j] = f[j]
  <2>1. \A j \in Held(b, m) : d[j].amount = b[j].amount /\ j \in Held(d, m)
    BY <1>1, <1>2 DEF Held
  <2> QED
    BY <1>4, <1>5, <1>7, <2>1
<1>9. /\ SumFunction(f) \in Nat /\ SumFunction(e) \in Nat
      /\ SumFunction(f) = f[i] + SumFunction(e)
  <2>1. Without(e, Held(b, m), f, Held(d, m), i)
    BY <1>3, <1>6, <1>8 DEF Without
  <2> QED
    BY <2>1, SumRemove
<1>10. r.amount \in Nat
  BY AmountsAssumption DEF Reservation
<1>11. Sum(d, m) = SumFunction(f) /\ Sum(b, m) = SumFunction(e)
  BY <1>5, <1>7 DEF Sum
<1> QED
  BY <1>3, <1>6, <1>9, <1>10, <1>11

(* An entry outside the sum changes without changing it; so does the state *)
(* of one inside that stays there.                                         *)
LEMMA SumSame ==
  ASSUME NEW b, NEW m, NEW i, NEW r, NEW d, Entered(d, b, i, r),
         Ledger!Holds(r, m, Spending) <=> Ledger!Holds(b[i], m, Spending),
         Ledger!Holds(r, m, Spending) => r.amount = b[i].amount
  PROVE  Held(d, m) = Held(b, m) /\ Sum(d, m) = Sum(b, m)
<1>1. i \in ResIds /\ \A j \in ResIds : d[j] = IF j = i THEN r ELSE b[j]
  BY DEF Entered
<1>2. Held(d, m) = Held(b, m)
  BY <1>1 DEF Held
<1>3. [j \in Held(d, m) |-> d[j].amount] = [j \in Held(b, m) |-> b[j].amount]
  <2>1. \A j \in Held(b, m) : d[j].amount = b[j].amount
    BY <1>1 DEF Held
  <2> QED
    BY <1>2, <2>1
<1> QED
  BY <1>2, <1>3 DEF Sum

(* A released reservation takes its amount out of the sum. *)
LEMMA SumReleases ==
  ASSUME NEW b, NEW m, IsFiniteSet(Held(b, m)), NEW i \in Held(b, m),
         NEW r, ~ Ledger!Holds(r, m, Spending), NEW d, Entered(d, b, i, r)
  PROVE  /\ IsFiniteSet(Held(d, m)) /\ Sum(d, m) \in Nat /\ b[i].amount \in Nat
         /\ Sum(b, m) = Sum(d, m) + b[i].amount
<1>1. /\ i \in ResIds /\ \A j \in ResIds : d[j] = IF j = i THEN r ELSE b[j]
      /\ b \in [ResIds -> Entries]
  BY DEF Entered
<1>2. Held(d, m) = Held(b, m) \ {i} /\ IsFiniteSet(Held(d, m))
  <2>1. Held(d, m) = Held(b, m) \ {i}
    BY <1>1 DEF Held
  <2> QED
    BY <2>1, FS_RemoveElement
<1>3. \A j \in Held(b, m) : b[j].amount \in Nat
  BY <1>1, HoldsIs, AmountsAssumption DEF Held, Reservation
<1>4. PICK f : f = [j \in Held(b, m) |-> b[j].amount]
  OBVIOUS
<1>5. f \in [Held(b, m) -> Nat] /\ f[i] = b[i].amount
  BY <1>3, <1>4
<1>6. PICK e : e = [j \in Held(d, m) |-> d[j].amount]
  OBVIOUS
<1>7. e \in [Held(d, m) -> Nat] /\ \A j \in Held(d, m) : e[j] = f[j]
  <2>1. \A j \in Held(d, m) : d[j].amount = b[j].amount /\ j \in Held(b, m)
    BY <1>1, <1>2 DEF Held
  <2> QED
    BY <1>3, <1>4, <1>6, <2>1
<1>8. /\ SumFunction(f) \in Nat /\ SumFunction(e) \in Nat
      /\ SumFunction(f) = f[i] + SumFunction(e)
  <2>1. Without(e, Held(d, m), f, Held(b, m), i)
    BY <1>2, <1>5, <1>7 DEF Without
  <2> QED
    BY <2>1, SumRemove
<1>9. Sum(b, m) = SumFunction(f) /\ Sum(d, m) = SumFunction(e)
  BY <1>4, <1>6 DEF Sum
<1> QED
  BY <1>2, <1>3, <1>5, <1>8, <1>9

(* The sum of a part is no larger. *)
LEMMA SumPart ==
  ASSUME NEW U, IsFiniteSet(U), NEW f \in [U -> Nat], NEW V \in SUBSET U
  PROVE  /\ SumFunction(f) \in Nat /\ SumFunction([y \in V |-> f[y]]) \in Nat
         /\ SumFunction([y \in V |-> f[y]]) <= SumFunction(f)
<1> DEFINE part(W) == [y \in W |-> f[y]]
           Bad == {W \in SUBSET U :
                     V \subseteq W /\ ~(SumFunction(part(V)) <= SumFunction(part(W)))}
<1>1. \A W \in SUBSET U : IsFiniteSet(W)
  BY FS_Subset
<1>2. \A W \in SUBSET U : part(W) \in [W -> Nat]
  OBVIOUS
<1>3. ASSUME NEW W \in SUBSET U PROVE SumFunction(part(W)) \in Nat
  <2> HIDE DEF part
  <2>1. PICK g \in [SUBSET W -> Nat] : SumFunction(part(W)) = g[W]
    BY <1>1, <1>2, SumIs
  <2> QED
    BY <2>1
<1>4. f = part(U)
  OBVIOUS
<1>5. Bad = {}
  <2> SUFFICES ASSUME Bad # {} PROVE FALSE
    OBVIOUS
  <2>1. PICK W \in Bad : \A T \in Bad : Cardinality(W) <= Cardinality(T)
    BY <1>1, SmallestSet
  <2>2. /\ W \in SUBSET U /\ V \subseteq W /\ ~(SumFunction(part(V)) <= SumFunction(part(W)))
    BY <2>1
  <2>3. W # V
    <3> HIDE DEF part
    <3> QED
      BY <1>3, <2>2
  <2>4. PICK x \in W : x \notin V
    BY <2>2, <2>3
  <2>5. PICK T : T = W \ {x}
    OBVIOUS
  <2>6. T \in SUBSET U /\ V \subseteq T
    BY <2>2, <2>4, <2>5
  <2>7. Without(part(T), T, part(W), W, x)
    BY <1>1, <1>2, <2>2, <2>4, <2>5, <2>6 DEF Without
  <2>8. part(W)[x] \in Nat
    BY <1>2, <2>2
  <2>9. ~(T \in Bad)
    <3>1. /\ Cardinality(W) \in Nat /\ Cardinality(T) \in Nat /\ Cardinality(T) < Cardinality(W)
      BY <1>1, <2>2, <2>4, <2>5, SmallerSet
    <3> HIDE DEF Bad
    <3> QED
      BY <2>1, <3>1
  <2>10. SumFunction(part(V)) <= SumFunction(part(T))
    BY <2>6, <2>9
  <2> HIDE DEF part, Bad
  <2>11. SumFunction(part(W)) = part(W)[x] + SumFunction(part(T))
    BY <2>7, SumRemove
  <2> QED
    BY <1>3, <2>2, <2>6, <2>8, <2>10, <2>11
<1>6. SumFunction(part(V)) <= SumFunction(part(U))
  BY <1>5
<1>7. SumFunction(part(U)) \in Nat /\ SumFunction(part(V)) \in Nat
  <2> HIDE DEF part
  <2> QED
    BY <1>3
<1> QED
  BY <1>4, <1>6, <1>7

LEMMA SumInNat ==
  ASSUME NEW b \in [ResIds -> Entries], NEW m, IsFiniteSet(Held(b, m))
  PROVE  /\ [j \in Held(b, m) |-> b[j].amount] \in [Held(b, m) -> Nat]
         /\ Sum(b, m) \in Nat
<1>1. \A j \in Held(b, m) : b[j].amount \in Nat
  BY HoldsIs, AmountsAssumption DEF Held, Reservation
<1>2. PICK f : f = [j \in Held(b, m) |-> b[j].amount]
  OBVIOUS
<1>3. f \in [Held(b, m) -> Nat]
  BY <1>1, <1>2
<1>4. SumFunction(f) \in Nat
  BY <1>3, SumPart
<1> QED
  BY <1>2, <1>3, <1>4 DEF Sum

(* What the callers of a mandate observe *)
BookOf(m) == [i \in ResIds |-> Observed(i, m)]
Drawn == DrawnIds(RegisteredOnce)
Book == [i \in Drawn |-> Observed(i, Owner(i))]
Caps == [m \in RegisteredOnce |-> IF budgets[m] = NoBudget THEN {} ELSE {budgets[m].limit}]

BookInv ==
  \A m \in RegisteredOnce :
    /\ IsFiniteSet(Held(BookOf(m), m))
    /\ Sum(BookOf(m), m) <=
         IF budgets[m] = NoBudget THEN 0 ELSE budgets[m].spent + budgets[m].reserved

LEMMA BookType ==
  ASSUME TypeOK, JobInv, NEW m \in Mandates
  PROVE  BookOf(m) \in [ResIds -> Entries]
<1>1. ASSUME NEW i \in ResIds PROVE Observed(i, m) \in Entries
  <2>1. CASE holder[m] # Nobody
    <3>1. holder[m] \in Threads /\ job[holder[m]] # NoJob
      BY <2>1 DEF TypeOK, JobInv, InsideInv
    <3>2. job[holder[m]].res \in Entries /\ reservations[i] \in Entries
      BY <3>1 DEF TypeOK, Job, Entries
    <3> QED
      BY <3>2 DEF Observed
  <2>2. CASE holder[m] = Nobody
    BY <2>2 DEF Observed, TypeOK, Entries
  <2> QED
    BY <2>1, <2>2
<1> QED
  BY <1>1 DEF BookOf

(* An id is drawn for one mandate, and its entry belongs to that mandate. *)
LEMMA DrawnIs ==
  ASSUME NEW m \in RegisteredOnce, NEW i \in IdsOf[m]
  PROVE  m \in Mandates /\ i \in ResIds /\ i \in Drawn /\ Owner(i) = m
<1>1. m \in Mandates /\ i \in ResIds /\ i \in Drawn
  BY BudgetAssumption DEF RegisteredOnce, Drawn, DrawnIds
<1>2. \A n \in Mandates : i \in IdsOf[n] => n = m
  BY <1>1, BudgetAssumption
<1>3. Owner(i) = m
  BY <1>1, <1>2 DEF Owner
<1> QED
  BY <1>1, <1>3

LEMMA DrawnEntry ==
  ASSUME TypeOK, JobInv, NEW m \in RegisteredOnce, NEW i \in IdsOf[m]
  PROVE  /\ Book[i] = BookOf(m)[i]
         /\ Book[i] = NoReservation \/ Book[i].mandate = m
<1>1. m \in Mandates /\ i \in ResIds /\ Book[i] = Observed(i, m) /\ BookOf(m)[i] = Observed(i, m)
  BY DrawnIs DEF Book, BookOf
<1>2. Observed(i, m) = NoReservation \/ Observed(i, m).mandate = m
  <2>1. CASE holder[m] # Nobody /\ job[holder[m]].id = i
    <3>1. /\ holder[m] \in Threads /\ job[holder[m]] # NoJob
          /\ job[holder[m]].mandate = m
      BY <1>1, <2>1 DEF TypeOK, JobInv, InsideInv
    <3>2. job[holder[m]].res.mandate = m
      BY <3>1 DEF JobInv
    <3> QED
      BY <2>1, <3>2 DEF Observed
  <2>2. CASE ~(holder[m] # Nobody /\ job[holder[m]].id = i)
    BY <1>1, <2>2 DEF Observed, JobInv
  <2> QED
    BY <2>1, <2>2
<1> QED
  BY <1>1, <1>2

(* The ledger's total is a part of what the mandate's callers observe. *)
LEMMA LedgerTotal ==
  ASSUME TypeOK, JobInv, NEW m \in RegisteredOnce, IsFiniteSet(Held(BookOf(m), m))
  PROVE  /\ Ledger!Total(Book, m, Spending) \in Nat /\ Sum(BookOf(m), m) \in Nat
         /\ Ledger!Total(Book, m, Spending) <= Sum(BookOf(m), m)
<1>1. PICK b : b = BookOf(m)
  OBVIOUS
<1>2. b \in [ResIds -> Entries]
  BY <1>1, BookType DEF RegisteredOnce
<1>3. PICK f : f = [j \in Held(b, m) |-> b[j].amount]
  OBVIOUS
<1>4. f \in [Held(b, m) -> Nat] /\ IsFiniteSet(Held(b, m))
  BY <1>1, <1>2, <1>3, SumInNat
<1> DEFINE part == {j \in Drawn : Ledger!Holds(Book[j], m, Spending)}
<1>5. \A j \in part : j \in Held(b, m) /\ Book[j] = b[j]
  <2> SUFFICES ASSUME NEW j \in part PROVE j \in Held(b, m) /\ Book[j] = b[j]
    OBVIOUS
  <2>1. PICK n \in RegisteredOnce : j \in IdsOf[n]
    BY DEF Drawn, DrawnIds
  <2>2. Book[j] # NoReservation /\ Book[j].mandate = m
    BY DEF Ledger!Holds, Ledger!Free, NoReservation
  <2>3. n = m
    BY <2>1, <2>2, DrawnEntry
  <2>4. Book[j] = b[j] /\ j \in ResIds
    BY <1>1, <2>1, <2>3, DrawnEntry, DrawnIs
  <2> QED
    BY <2>4 DEF Held
<1>6. PICK V : V = part
  OBVIOUS
<1>7. V \in SUBSET Held(b, m) /\ \A j \in V : f[j] = Book[j].amount
  BY <1>3, <1>5, <1>6
<1>8. [j \in V |-> f[j]] = [j \in V |-> Book[j].amount]
  BY <1>7
<1>9. /\ SumFunction(f) \in Nat /\ SumFunction([j \in V |-> Book[j].amount]) \in Nat
      /\ SumFunction([j \in V |-> Book[j].amount]) <= SumFunction(f)
  <2> HIDE <1>3, <1>5, <1>6
  <2> QED
    BY <1>4, <1>7, <1>8, SumPart
<1>10. Ledger!Total(Book, m, Spending) = SumFunction([j \in V |-> Book[j].amount])
  BY <1>6 DEF Drawn, Ledger!Total, Ledger!SumFunction, Ledger!SumFunctionOnSet,
         Ledger!FoldFunctionOnSet, Ledger!MapThenFoldSet,
         SumFunction, SumFunctionOnSet, FoldFunctionOnSet, MapThenFoldSet
<1>11. Sum(BookOf(m), m) = SumFunction(f)
  BY <1>1, <1>3 DEF Sum
<1> QED
  BY <1>9, <1>10, <1>11

(* An operation takes effect when its thread enters the lock, and its own  *)
(* mandate's callers alone observe it.                                     *)
LEMMA EnterObserved ==
  ASSUME TypeOK, JobInv, NEW th \in Threads, NEW m \in Mandates, NEW i \in ResIds,
         NEW budget, NEW res, MayEnter(th, m), Enter(th, m, i, budget, res)
  PROVE  /\ Observed(i, m) = reservations[i]
         /\ \A j \in ResIds : Observed(j, m)' = IF j = i THEN res ELSE Observed(j, m)
         /\ \A n \in Mandates : n # m => \A j \in ResIds : Observed(j, n)' = Observed(j, n)
<1>1. PICK new : new = [id |-> i, mandate |-> m, res |-> res]
  OBVIOUS
<1>2. /\ new.id = i /\ new.res = res /\ holder[m] = Nobody /\ job[th] = NoJob
      /\ \A t \in Threads : job'[t] = IF t = th THEN new ELSE job[t]
      /\ \A n \in Mandates : holder'[n] = IF n = m THEN th ELSE holder[n]
      /\ UNCHANGED reservations /\ th # Nobody
  BY <1>1, BudgetAssumption DEF Enter, MayEnter, TypeOK
<1>3. \A j \in ResIds : Observed(j, m) = reservations[j]
  BY <1>2 DEF Observed
<1>4. \A j \in ResIds : Observed(j, m)' = IF j = i THEN res ELSE reservations[j]
  BY <1>2 DEF Observed
<1>5. ASSUME NEW n \in Mandates, n # m, NEW j \in ResIds
      PROVE  Observed(j, n)' = Observed(j, n)
  <2>1. holder[n] # Nobody => job'[holder[n]] = job[holder[n]]
    BY <1>2 DEF TypeOK, JobInv, InsideInv
  <2> QED
    BY <1>2, <1>5, <2>1 DEF Observed
<1> QED
  BY <1>3, <1>4, <1>5

(* Writing a reservation changes nothing that its mandate's callers        *)
(* observe; another mandate's callers may find it under a supplied id.     *)
LEMMA WriteObserved ==
  ASSUME TypeOK, JobInv, NEW th \in Threads, WriteReservation(th),
         NEW n, n = job[th].mandate, NEW k, k = job[th].id, NEW r, r = job[th].res
  PROVE  /\ n \in Mandates /\ k \in ResIds /\ r \in Reservation /\ r.mandate = n
         /\ \A j \in ResIds : Observed(j, n)' = Observed(j, n)
         /\ \A m \in Mandates : m # n => \A j \in ResIds :
              \/ Observed(j, m)' = Observed(j, m)
              \/ j = k /\ Observed(j, m)' = r
<1>1. /\ n \in Mandates /\ k \in ResIds /\ r \in Reservation /\ r.mandate = n
      /\ job[th] # NoJob /\ holder[n] = th /\ th # Nobody
  BY BudgetAssumption DEF WriteReservation, TypeOK, Job, JobInv, InsideInv
<1>2. /\ \A i \in ResIds : reservations'[i] = IF i = k THEN r ELSE reservations[i]
      /\ \A t \in Threads : job'[t] = IF t = th THEN NoJob ELSE job[t]
      /\ \A m \in Mandates : holder'[m] = IF m = n THEN Nobody ELSE holder[m]
  BY <1>1 DEF WriteReservation, TypeOK
<1>3. \A j \in ResIds : Observed(j, n)' = Observed(j, n)
  BY <1>1, <1>2 DEF Observed
<1>4. ASSUME NEW m \in Mandates, m # n, NEW j \in ResIds
      PROVE  Observed(j, m)' = Observed(j, m) \/ (j = k /\ Observed(j, m)' = r)
  <2>1. holder[m] # Nobody => job'[holder[m]] = job[holder[m]]
    <3>1. holder[m] # Nobody => holder[m] \in Threads /\ job[holder[m]].mandate = m
      BY DEF TypeOK, JobInv, InsideInv
    <3>2. holder[m] # th
      BY <1>1, <1>4, <3>1
    <3> QED
      BY <1>2, <3>1, <3>2
  <2> QED
    BY <1>2, <1>4, <2>1 DEF Observed
<1> QED
  BY <1>1, <1>3, <1>4

(* The ledger changes with the operations on its drawn ids. *)
LEMMA EnterBook ==
  ASSUME TypeOK, JobInv, NEW th \in Threads, NEW m \in Mandates, NEW i, OfOneMandate(i, m),
         NEW budget, NEW res, MayEnter(th, m), Enter(th, m, i, budget, res)
  PROVE  /\ BookOf(m)[i] = reservations[i]
         /\ BookOf(m)' = [BookOf(m) EXCEPT ![i] = res]
         /\ \A n \in Mandates : n # m => BookOf(n)' = BookOf(n)
         /\ IF m \in RegisteredOnce /\ i \in IdsOf[m]
            THEN i \in Drawn /\ Book' = [Book EXCEPT ![i] = res]
            ELSE Book' = Book
<1>1. /\ i \in ResIds /\ Observed(i, m) = reservations[i]
      /\ \A j \in ResIds : Observed(j, m)' = IF j = i THEN res ELSE Observed(j, m)
      /\ \A n \in Mandates : n # m => \A j \in ResIds : Observed(j, n)' = Observed(j, n)
  BY EnterObserved DEF OfOneMandate
<1>2. /\ BookOf(m)[i] = reservations[i]
      /\ BookOf(m)' = [BookOf(m) EXCEPT ![i] = res]
      /\ \A n \in Mandates : n # m => BookOf(n)' = BookOf(n)
  BY <1>1 DEF BookOf
<1>3. ASSUME NEW j \in Drawn
      PROVE  /\ Observed(j, Owner(j))' = IF j = i THEN res ELSE Observed(j, Owner(j))
             /\ j = i => m \in RegisteredOnce /\ i \in IdsOf[m]
  <2>1. PICK n \in RegisteredOnce : j \in IdsOf[n]
    BY DEF Drawn, DrawnIds
  <2>2. n \in Mandates /\ j \in ResIds /\ Owner(j) = n
    BY <2>1, DrawnIs
  <2>3. j = i => n = m
    BY <2>1, <2>2 DEF OfOneMandate
  <2>4. Observed(j, n)' = IF j = i THEN res ELSE Observed(j, n)
    BY <1>1, <2>2, <2>3
  <2> QED
    BY <2>1, <2>2, <2>3, <2>4
<1>4. CASE m \in RegisteredOnce /\ i \in IdsOf[m]
  <2>1. i \in Drawn
    BY <1>4, DrawnIs
  <2>2. Book' = [Book EXCEPT ![i] = res]
    BY <1>3 DEF Book
  <2> QED
    BY <1>2, <1>4, <2>1, <2>2
<1>5. CASE ~(m \in RegisteredOnce /\ i \in IdsOf[m])
  <2>1. Book' = Book
    BY <1>3, <1>5 DEF Book
  <2> QED
    BY <1>2, <1>5, <2>1
<1> QED
  BY <1>4, <1>5

LEMMA CapsSame ==
  ASSUME TypeOK, NEW m \in Mandates, NEW budget \in Budget,
         budgets[m] # NoBudget, budget.limit = budgets[m].limit,
         budgets' = [budgets EXCEPT ![m] = budget]
  PROVE  Caps' = Caps
<1>1. /\ \A n \in Mandates : budgets'[n] = IF n = m THEN budget ELSE budgets[n]
      /\ budget # NoBudget
  BY DEF TypeOK, Budget, NoBudget
<1> QED
  BY <1>1 DEF Caps, RegisteredOnce

(* The budget of the mandate still covers what its callers observe. *)
LEMMA EnterBookInv ==
  ASSUME TypeOK, JobInv, BookInv, NEW th \in Threads, NEW m \in Mandates,
         NEW i, OfOneMandate(i, m), NEW budget \in Budget, NEW res, MayEnter(th, m),
         Enter(th, m, i, budget, res), NEW d, d = [BookOf(m) EXCEPT ![i] = res],
         m \in RegisteredOnce =>
           IsFiniteSet(Held(d, m)) /\ Sum(d, m) <= budget.spent + budget.reserved
  PROVE  BookInv'
<1>1. /\ BookOf(m)' = d
      /\ \A n \in RegisteredOnce : n # m => BookOf(n)' = BookOf(n)
  BY EnterBook DEF RegisteredOnce
<1>2. /\ \A n \in Mandates : budgets'[n] = IF n = m THEN budget ELSE budgets[n]
      /\ budget # NoBudget
  BY DEF Enter, TypeOK, Budget, NoBudget
<1>3. ASSUME NEW n \in RegisteredOnce
      PROVE  /\ IsFiniteSet(Held(BookOf(n)', n))
             /\ Sum(BookOf(n)', n) <=
                  IF budgets'[n] = NoBudget THEN 0 ELSE budgets'[n].spent + budgets'[n].reserved
  <2>1. n \in Mandates
    BY DEF RegisteredOnce
  <2>2. CASE n = m
    BY <1>1, <1>2, <2>1, <2>2
  <2>3. CASE n # m
    BY <1>1, <1>2, <2>1, <2>3 DEF BookInv
  <2> QED
    BY <2>2, <2>3
<1> QED
  BY <1>3 DEF BookInv

LEMMA ReserveRefines ==
  ASSUME TypeOK, JobInv, BookInv, NEW th \in Threads, NEW m \in Mandates,
         NEW i \in IdsOf[m] \cup SuppliedIds, NEW a \in Amounts, Reserve(th, m, i, a)
  PROVE  BookInv' /\ (Ledger!Next \/ UNCHANGED <<Book, Caps>>)
<1>1. PICK budget, r : /\ budget = reserve_budget(budgets[m], a)
                       /\ r = [mandate |-> m, amount |-> a, state |-> "RESERVED"]
  OBVIOUS
<1>2. /\ MayEnter(th, m) /\ budgets[m] # NoBudget /\ reservations[i] = NoReservation
      /\ CanReserve(budgets[m], a) /\ Enter(th, m, i, budget, r)
  BY <1>1 DEF Reserve
<1>3. OfOneMandate(i, m) /\ i \in ResIds /\ a \in Nat
  BY IdsAre, AmountsAssumption DEF OfOneMandate
<1>4. /\ budgets[m] \in Budget /\ budgets[m].spent \in Nat /\ budgets[m].reserved \in Nat
      /\ budgets[m].limit \in Nat
  BY <1>2 DEF TypeOK, Budget
<1>5. /\ budget \in Budget /\ budget.limit = budgets[m].limit
      /\ budget.spent = budgets[m].spent /\ budget.reserved = budgets[m].reserved + a
  BY <1>1, <1>3, <1>4 DEF reserve_budget, Budget
<1>6. r \in Reservation /\ r.mandate = m /\ r.state \in Spending /\ r.amount = a
  BY <1>1 DEF Reservation, BudgetState, Spending
<1>7. PICK b, d : b = BookOf(m) /\ d = [BookOf(m) EXCEPT ![i] = r]
  OBVIOUS
<1>8. /\ b[i] = NoReservation /\ BookOf(m)' = d /\ Entered(d, b, i, r)
      /\ IF m \in RegisteredOnce /\ i \in IdsOf[m]
         THEN i \in Drawn /\ Book' = [Book EXCEPT ![i] = r]
         ELSE Book' = Book
  BY <1>2, <1>3, <1>6, <1>7, EnterBook, BookType DEF Entered, Entries
<1>9. /\ Caps' = Caps
      /\ \A n : ~ Ledger!Holds(NoReservation, n, Spending)
  BY <1>2, <1>5, CapsSame DEF Enter, Ledger!Holds, Ledger!Free, NoReservation
<1>10. ASSUME m \in RegisteredOnce
       PROVE  /\ IsFiniteSet(Held(d, m)) /\ Sum(d, m) <= budget.spent + budget.reserved
              /\ Sum(b, m) \in Nat /\ Sum(b, m) <= budgets[m].spent + budgets[m].reserved
  <2>1. IsFiniteSet(Held(b, m)) /\ Sum(b, m) <= budgets[m].spent + budgets[m].reserved
    BY <1>2, <1>7, <1>10 DEF BookInv
  <2>2. i \notin Held(b, m)
    BY <1>8, <1>9 DEF Held
  <2>3. IsFiniteSet(Held(d, m)) /\ Sum(d, m) = Sum(b, m) + a
    BY <1>6, <1>8, <2>1, <2>2, SumAdds
  <2>4. Sum(b, m) \in Nat
    BY <1>8, <2>1, SumInNat DEF Entered
  <2> QED
    BY <1>3, <1>4, <1>5, <2>1, <2>3, <2>4
<1>11. BookInv'
  BY <1>2, <1>3, <1>5, <1>7, <1>10, EnterBookInv
<1>12. CASE m \in RegisteredOnce /\ i \in IdsOf[m]
  <2>1. Ledger!Total(Book, m, Spending) + a <= budgets[m].limit
    <3>1. PICK total : total = Ledger!Total(Book, m, Spending)
      OBVIOUS
    <3>2. IsFiniteSet(Held(BookOf(m), m))
      BY <1>12 DEF BookInv
    <3>3. total \in Nat /\ total <= Sum(b, m)
      BY <1>7, <1>12, <3>1, <3>2, LedgerTotal
    <3> QED
      BY <1>2, <1>3, <1>4, <1>10, <1>12, <3>1, <3>3 DEF CanReserve
  <2>2. Caps[m] = {budgets[m].limit}
    BY <1>2, <1>12 DEF Caps
  <2>3. \E limit \in Caps[m] : Ledger!Total(Book, m, {"RESERVED", "COMMITTED"}) + a <= limit
    BY <2>1, <2>2 DEF Spending
  <2>4. Book[i] = Ledger!Free /\ Book' =
          [Book EXCEPT ![i] = [mandate |-> m, amount |-> a, state |-> "RESERVED"]]
    BY <1>1, <1>7, <1>8, <1>12, DrawnEntry DEF Ledger!Free, NoReservation
  <2>5. Ledger!Reserve(m, i, a)
    BY <1>9, <2>3, <2>4 DEF Ledger!Reserve, Book, Caps, Drawn
  <2> QED
    BY <1>8, <1>11, <1>12, <2>5 DEF Ledger!Next, Drawn
<1>13. CASE ~(m \in RegisteredOnce /\ i \in IdsOf[m])
  BY <1>8, <1>9, <1>11, <1>13
<1> QED
  BY <1>12, <1>13

(* commit and release *)
LEMMA SettleRefines ==
  ASSUME TypeOK, JobInv, BookInv, NEW th \in Threads, NEW m \in Mandates,
         NEW i \in ResIds, Commit(th, m, i) \/ Release(th, m, i)
  PROVE  BookInv' /\ (Ledger!Next \/ UNCHANGED <<Book, Caps>>)
<1>1. PICK budget, r, s :
        /\ \/ /\ s = "COMMITTED"
              /\ budget = commit_reservation(budgets[m], reservations[i].amount)
           \/ /\ s = "RELEASED"
              /\ budget = release_reservation(budgets[m], reservations[i].amount)
        /\ r = [reservations[i] EXCEPT !.state = s]
        /\ Enter(th, m, i, budget, r)
  <2>1. ASSUME NEW budget, NEW r, budget = commit_reservation(budgets[m], reservations[i].amount),
               r = [reservations[i] EXCEPT !.state = "COMMITTED"], Commit(th, m, i)
        PROVE  Enter(th, m, i, budget, r)
    BY <2>1 DEF Commit
  <2>2. ASSUME NEW budget, NEW r, budget = release_reservation(budgets[m], reservations[i].amount),
               r = [reservations[i] EXCEPT !.state = "RELEASED"], Release(th, m, i)
        PROVE  Enter(th, m, i, budget, r)
    BY <2>2 DEF Release
  <2> QED
    BY <2>1, <2>2, Zenon
<1>2. PICK a : a = reservations[i].amount
  OBVIOUS
<1>3. /\ MayEnter(th, m) /\ budgets[m] # NoBudget /\ Committable(i, m) /\ a <= budgets[m].reserved
  BY <1>2 DEF Commit, Release
<1>4. /\ budgets[m] \in Budget /\ budgets[m].spent \in Nat /\ budgets[m].reserved \in Nat
  BY <1>3 DEF TypeOK, Budget
<1>5. /\ reservations[i] \in Reservation /\ reservations[i].mandate = m
      /\ reservations[i].state = "RESERVED" /\ OfOneMandate(i, m) /\ a \in Nat
  <2>1. reservations[i] \in Reservation /\ reservations[i].mandate = m
        /\ reservations[i].state = "RESERVED" /\ OfOneMandate(i, m)
    BY <1>3, IdsAre DEF Committable, TypeOK
  <2> QED
    BY <1>2, <2>1, AmountsAssumption DEF Reservation
<1>6. /\ r \in Reservation /\ r.mandate = m /\ r.state = s /\ r.amount = a
      /\ s \in {"COMMITTED", "RELEASED"}
  BY <1>1, <1>2, <1>5 DEF Reservation, BudgetState
<1>7. PICK b, d : b = BookOf(m) /\ d = [BookOf(m) EXCEPT ![i] = r]
  OBVIOUS
<1>8. /\ b[i] = reservations[i] /\ BookOf(m)' = d /\ Entered(d, b, i, r)
      /\ IF m \in RegisteredOnce /\ i \in IdsOf[m]
         THEN i \in Drawn /\ Book' = [Book EXCEPT ![i] = r]
         ELSE Book' = Book
  BY <1>1, <1>3, <1>5, <1>6, <1>7, EnterBook, BookType DEF Entered, Entries
<1>9. /\ Ledger!Holds(b[i], m, Spending)
      /\ s = "COMMITTED" => Ledger!Holds(r, m, Spending)
      /\ s = "RELEASED" => ~ Ledger!Holds(r, m, Spending)
  BY <1>5, <1>6, <1>8, HoldsIs DEF Entries, Spending
<1>10. /\ budget \in Budget /\ budget.limit = budgets[m].limit
       /\ budget.spent + budget.reserved =
            IF s = "COMMITTED" THEN budgets[m].spent + budgets[m].reserved
            ELSE budgets[m].spent + budgets[m].reserved - a
  <2>1. budgets[m].reserved - a \in Nat /\ budgets[m].spent + a \in Nat
    BY <1>3, <1>4, <1>5
  <2>2. CASE s = "COMMITTED"
    <3>1. budget = commit_reservation(budgets[m], a)
      BY <1>1, <1>2, <2>2
    <3>2. /\ budget \in Budget /\ budget.limit = budgets[m].limit
          /\ budget.spent = budgets[m].spent + a /\ budget.reserved = budgets[m].reserved - a
      BY <1>4, <2>1, <3>1 DEF commit_reservation, Budget
    <3> QED
      BY <1>4, <1>5, <2>2, <3>2
  <2>3. CASE s = "RELEASED"
    <3>1. budget = release_reservation(budgets[m], a)
      BY <1>1, <1>2, <2>3
    <3>2. /\ budget \in Budget /\ budget.limit = budgets[m].limit
          /\ budget.spent = budgets[m].spent /\ budget.reserved = budgets[m].reserved - a
      BY <1>4, <2>1, <3>1 DEF release_reservation, Budget
    <3> QED
      BY <1>4, <1>5, <2>3, <3>2
  <2> QED
    BY <1>6, <2>2, <2>3
<1>11. Caps' = Caps
  BY <1>1, <1>3, <1>10, CapsSame DEF Enter
<1>12. ASSUME m \in RegisteredOnce
       PROVE  IsFiniteSet(Held(d, m)) /\ Sum(d, m) <= budget.spent + budget.reserved
  <2>1. IsFiniteSet(Held(b, m)) /\ Sum(b, m) <= budgets[m].spent + budgets[m].reserved
    BY <1>3, <1>7, <1>12 DEF BookInv
  <2>2. CASE s = "COMMITTED"
    <3>1. r.amount = b[i].amount
      BY <1>2, <1>6, <1>8
    <3>2. Held(d, m) = Held(b, m) /\ Sum(d, m) = Sum(b, m)
      BY <1>8, <1>9, <2>2, <3>1, SumSame
    <3> QED
      BY <1>10, <2>1, <2>2, <3>2
  <2>3. CASE s = "RELEASED"
    <3>1. i \in Held(b, m)
      BY <1>9 DEF Held
    <3>2. IsFiniteSet(Held(d, m)) /\ Sum(d, m) \in Nat /\ Sum(b, m) = Sum(d, m) + a
      BY <1>2, <1>8, <1>9, <2>1, <2>3, <3>1, SumReleases
    <3>3. s # "COMMITTED"
      BY <2>3
    <3> QED
      BY <1>4, <1>5, <1>10, <2>1, <3>2, <3>3
  <2> QED
    BY <1>6, <2>2, <2>3
<1>13. BookInv'
  BY <1>1, <1>3, <1>5, <1>7, <1>10, <1>12, EnterBookInv
<1>14. CASE m \in RegisteredOnce /\ i \in IdsOf[m]
  <2>1. Book[i] = reservations[i] /\ i \in Drawn
    BY <1>7, <1>8, <1>14, DrawnEntry
  <2>2. Book[i] # Ledger!Free /\ Book[i].state = "RESERVED"
    BY <1>5, <2>1 DEF Ledger!Free, Reservation
  <2>3. Book' = [Book EXCEPT ![i].state = s]
    BY <1>1, <1>8, <1>14, <2>1
  <2>4. Ledger!Settle(i, s)
    BY <1>11, <2>2, <2>3 DEF Ledger!Settle, Book, Caps, Drawn
  <2> QED
    BY <1>6, <1>13, <2>1, <2>4 DEF Ledger!Next, Drawn
<1>15. CASE ~(m \in RegisteredOnce /\ i \in IdsOf[m])
  BY <1>8, <1>11, <1>13, <1>15
<1> QED
  BY <1>14, <1>15

(* Nothing observed changes. *)
LEMMA QuietBook ==
  ASSUME UNCHANGED <<reservations, holder, job>>
  PROVE  Book' = Book /\ \A m \in RegisteredOnce : BookOf(m)' = BookOf(m)
  BY DEF Book, BookOf, Observed

(* register_budget, of a mandate that has no budget yet and of one that is *)
(* registered again and so outside the ledger                              *)
LEMMA RegisterRefines ==
  ASSUME TypeOK, BookInv, NEW m \in Mandates, NEW limit \in Limits, RegisterBudget(m, limit)
  PROVE  BookInv' /\ (Ledger!Next \/ UNCHANGED <<Book, Caps>>)
<1>1. PICK budget : budget = [limit |-> limit, spent |-> 0, reserved |-> 0]
  OBVIOUS
<1>2. /\ m \in RegisteredOnce => budgets[m] = NoBudget
      /\ budgets' = [budgets EXCEPT ![m] = budget]
      /\ UNCHANGED <<reservations, holder, job>>
  BY <1>1 DEF RegisterBudget, RegisteredOnce
<1>3. budget # NoBudget /\ budget.limit = limit /\ budget.spent = 0 /\ budget.reserved = 0
  BY <1>1 DEF NoBudget
<1>4. Book' = Book /\ \A n \in RegisteredOnce : BookOf(n)' = BookOf(n)
  BY <1>2, QuietBook
<1>5. \A n \in Mandates : budgets'[n] = IF n = m THEN budget ELSE budgets[n]
  BY <1>2 DEF TypeOK
<1>6. \A n \in RegisteredOnce :
        /\ IsFiniteSet(Held(BookOf(n)', n))
        /\ Sum(BookOf(n)', n) <=
             IF budgets'[n] = NoBudget THEN 0 ELSE budgets'[n].spent + budgets'[n].reserved
  BY <1>2, <1>3, <1>4, <1>5 DEF BookInv, RegisteredOnce
<1>7. BookInv'
  BY <1>6 DEF BookInv
<1>8. CASE m \in RegisteredOnce
  <2>1. Caps[m] = {} /\ Caps' = [Caps EXCEPT ![m] = {limit}]
    BY <1>2, <1>3, <1>5, <1>8 DEF Caps, RegisteredOnce
  <2>2. Ledger!Open(m, limit)
    BY <1>4, <2>1 DEF Ledger!Open, Book, Caps, Drawn
  <2> QED
    BY <1>7, <1>8, <2>2 DEF Ledger!Next
<1>9. CASE m \notin RegisteredOnce
  <2>1. Caps' = Caps
    BY <1>5, <1>9 DEF Caps, RegisteredOnce
  <2> QED
    BY <1>4, <1>7, <2>1
<1> QED
  BY <1>8, <1>9

(* Writing a reservation is unseen by its own mandate's callers; under a   *)
(* supplied id it can only hide another mandate's reservation.             *)
LEMMA WriteRefines ==
  ASSUME TypeOK, JobInv, BookInv, NEW th \in Threads, WriteReservation(th)
  PROVE  BookInv' /\ UNCHANGED <<Book, Caps>>
<1>1. PICK n, k, r : n = job[th].mandate /\ k = job[th].id /\ r = job[th].res
  OBVIOUS
<1>2. /\ n \in Mandates /\ k \in ResIds /\ r \in Reservation /\ r.mandate = n
      /\ \A j \in ResIds : Observed(j, n)' = Observed(j, n)
      /\ \A m \in Mandates : m # n => \A j \in ResIds :
           \/ Observed(j, m)' = Observed(j, m)
           \/ j = k /\ Observed(j, m)' = r
  BY <1>1, WriteObserved
<1>3. \A m \in Mandates : k \in IdsOf[m] => m = n
  BY <1>1 DEF WriteReservation, JobInv
<1>4. ASSUME NEW j \in Drawn PROVE Observed(j, Owner(j))' = Observed(j, Owner(j))
  <2>1. PICK m \in RegisteredOnce : j \in IdsOf[m]
    BY DEF Drawn, DrawnIds
  <2>2. m \in Mandates /\ j \in ResIds /\ Owner(j) = m
    BY <2>1, DrawnIs
  <2>3. Observed(j, m)' = Observed(j, m)
    BY <1>2, <1>3, <2>1, <2>2
  <2> QED
    BY <2>2, <2>3
<1>5. Book' = Book /\ Caps' = Caps /\ UNCHANGED budgets
  BY <1>4 DEF Book, Caps, WriteReservation
<1>6. ASSUME NEW m \in RegisteredOnce
      PROVE  /\ IsFiniteSet(Held(BookOf(m)', m))
             /\ Sum(BookOf(m)', m) <=
                  IF budgets[m] = NoBudget THEN 0 ELSE budgets[m].spent + budgets[m].reserved
  <2>1. m \in Mandates
    BY DEF RegisteredOnce
  <2>2. PICK b, d : b = BookOf(m) /\ d = BookOf(m)'
    OBVIOUS
  <2>3. /\ IsFiniteSet(Held(b, m))
        /\ Sum(b, m) <=
             IF budgets[m] = NoBudget THEN 0 ELSE budgets[m].spent + budgets[m].reserved
    BY <2>2 DEF BookInv
  <2>4. CASE d = b
    BY <2>2, <2>3, <2>4
  <2>5. CASE d # b
    <3>1. m # n
      BY <1>2, <2>2, <2>5 DEF BookOf
    <3>2. \A j \in ResIds : d[j] = b[j] \/ (j = k /\ d[j] = r)
      BY <1>2, <2>1, <2>2, <3>1 DEF BookOf
    <3>3. b \in [ResIds -> Entries] /\ d = [j \in ResIds |-> d[j]] /\ b = [j \in ResIds |-> b[j]]
      BY <2>1, <2>2, BookType DEF BookOf
    <3>4. d[k] = r
      BY <2>5, <3>2, <3>3
    <3>5. Entered(d, b, k, r)
      BY <1>2, <3>2, <3>3, <3>4 DEF Entered, Entries
    <3>6. ~ Ledger!Holds(r, m, Spending)
      BY <1>2, <3>1 DEF Ledger!Holds
    <3>7. CASE k \in Held(b, m)
      <4>1. /\ IsFiniteSet(Held(d, m)) /\ Sum(d, m) \in Nat /\ b[k].amount \in Nat
            /\ Sum(b, m) = Sum(d, m) + b[k].amount
        BY <2>3, <3>5, <3>6, <3>7, SumReleases
      <4>2. Sum(d, m) <= Sum(b, m)
        BY <4>1
      <4>3. PICK limit : limit =
              IF budgets[m] = NoBudget THEN 0 ELSE budgets[m].spent + budgets[m].reserved
        OBVIOUS
      <4>4. limit \in Nat
        BY <2>1, <4>3 DEF TypeOK, Budget
      <4>5. Sum(d, m) <= limit
        BY <2>3, <4>1, <4>3, <4>4
      <4> QED
        BY <2>2, <4>1, <4>3, <4>5
    <3>8. CASE k \notin Held(b, m)
      <4>1. ~ Ledger!Holds(b[k], m, Spending)
        BY <1>2, <3>8 DEF Held
      <4>2. Held(d, m) = Held(b, m) /\ Sum(d, m) = Sum(b, m)
        BY <3>5, <3>6, <4>1, SumSame
      <4> QED
        BY <2>2, <2>3, <4>2
    <3> QED
      BY <3>7, <3>8
  <2> QED
    BY <2>4, <2>5
<1>7. BookInv'
  BY <1>5, <1>6 DEF BookInv
<1> QED
  BY <1>5, <1>7

LEMMA InitRefines == Init => BookInv /\ Ledger!Init
<1> SUFFICES ASSUME Init PROVE BookInv /\ Ledger!Init
  OBVIOUS
<1>1. /\ \A m \in Mandates : \A i \in ResIds : Observed(i, m) = NoReservation
      /\ \A m \in Mandates : budgets[m] = NoBudget
  BY DEF Observed, Init
<1>2. ASSUME NEW m \in RegisteredOnce
      PROVE  IsFiniteSet(Held(BookOf(m), m)) /\ Sum(BookOf(m), m) = 0
  <2>1. PICK b : b = BookOf(m)
    OBVIOUS
  <2>2. b = [i \in ResIds |-> NoReservation]
    BY <1>1, <2>1 DEF BookOf, RegisteredOnce
  <2>3. Held(b, m) = {}
    BY <2>2 DEF Held, Ledger!Holds, Ledger!Free, NoReservation
  <2>4. PICK f : f = [j \in Held(b, m) |-> b[j].amount]
    OBVIOUS
  <2>5. DOMAIN f = {} /\ f = [y \in {} |-> f[y]]
    BY <2>3, <2>4
  <2>6. SumFunction(f) = 0
    BY <2>5, SumEmpty
  <2> QED
    BY <2>1, <2>3, <2>4, <2>6, FS_EmptySet DEF Sum
<1>3. BookInv
  <2>1. ASSUME NEW m \in RegisteredOnce
        PROVE  Sum(BookOf(m), m) <=
                 IF budgets[m] = NoBudget THEN 0 ELSE budgets[m].spent + budgets[m].reserved
    <3>1. budgets[m] = NoBudget
      BY <1>1 DEF RegisteredOnce
    <3>2. Sum(BookOf(m), m) = 0
      BY <1>2
    <3> QED
      BY <3>1, <3>2
  <2> QED
    BY <1>2, <2>1 DEF BookInv
<1>4. ASSUME NEW i \in Drawn PROVE Observed(i, Owner(i)) = NoReservation
  <2>1. PICK m \in RegisteredOnce : i \in IdsOf[m]
    BY DEF Drawn, DrawnIds
  <2> QED
    BY <1>1, <2>1, DrawnIs
<1>5. Book = [i \in Drawn |-> Ledger!Free]
  BY <1>4 DEF Book, Ledger!Free, NoReservation
<1>6. Caps = [m \in RegisteredOnce |-> {}]
  BY <1>1 DEF Caps, RegisteredOnce
<1> QED
  BY <1>3, <1>5, <1>6 DEF Ledger!Init, Book, Caps, Drawn

LEMMA NextRefines ==
  ASSUME TypeOK, JobInv, BookInv, [Next]_vars
  PROVE  BookInv' /\ (Ledger!Next \/ UNCHANGED <<Book, Caps>>)
<1>1. ASSUME NEW m \in Mandates, NEW limit \in Limits, RegisterBudget(m, limit)
      PROVE  BookInv' /\ (Ledger!Next \/ UNCHANGED <<Book, Caps>>)
  BY <1>1, RegisterRefines
<1>2. ASSUME NEW th \in Threads, NEW m \in Mandates, NEW i \in IdsOf[m] \cup SuppliedIds,
             NEW a \in Amounts, Reserve(th, m, i, a)
      PROVE  BookInv' /\ (Ledger!Next \/ UNCHANGED <<Book, Caps>>)
  BY <1>2, ReserveRefines
<1>3. ASSUME NEW th \in Threads, NEW m \in Mandates, NEW i \in ResIds,
             Commit(th, m, i) \/ Release(th, m, i)
      PROVE  BookInv' /\ (Ledger!Next \/ UNCHANGED <<Book, Caps>>)
  BY <1>3, SettleRefines
<1>4. ASSUME NEW th \in Threads, WriteReservation(th)
      PROVE  BookInv' /\ UNCHANGED <<Book, Caps>>
  BY <1>4, WriteRefines
<1>5. CASE UNCHANGED vars
  <2>1. /\ Book' = Book /\ UNCHANGED budgets
        /\ \A m \in RegisteredOnce : BookOf(m)' = BookOf(m)
    BY <1>5, QuietBook DEF vars
  <2>2. Caps' = Caps
    BY <2>1 DEF Caps
  <2>3. \A m \in RegisteredOnce :
          /\ IsFiniteSet(Held(BookOf(m)', m))
          /\ Sum(BookOf(m)', m) <=
               IF budgets'[m] = NoBudget THEN 0 ELSE budgets'[m].spent + budgets'[m].reserved
    BY <2>1 DEF BookInv
  <2>4. BookInv'
    BY <2>3 DEF BookInv
  <2> QED
    BY <2>1, <2>2, <2>4
<1> QED
  BY <1>1, <1>2, <1>3, <1>4, <1>5 DEF Next

(* The threads implement the atomic ledger ("Guarantees linearizability    *)
(* and atomicity of budget operations across concurrent execution"): for   *)
(* the ids the engine draws and the mandates registered once, every        *)
(* operation takes effect at one instant, and a reservation only when the  *)
(* reservations that callers observe leave room for it, although other     *)
(* reservations are overwritten under ids that callers supply and other    *)
(* budgets are registered again.                                           *)
THEOREM EngineRefinesLedger == Spec => ImplementsLedger
<1>1. Init => JobInv
  BY BudgetAssumption DEF Init, JobInv, InsideInv
<1>2. TypeOK /\ JobInv /\ [Next]_vars => JobInv'
  BY NextJobInv
<1>3. TypeOK /\ JobInv /\ BookInv /\ [Next]_vars
        => BookInv' /\ (Ledger!Next \/ UNCHANGED <<Book, Caps>>)
  BY NextRefines
<1>4. UNCHANGED <<Book, Caps>> <=>
        UNCHANGED <<[i \in DrawnIds(RegisteredOnce) |-> Observed(i, Owner(i))],
                    [m \in RegisteredOnce |->
                       IF budgets[m] = NoBudget THEN {} ELSE {budgets[m].limit}]>>
  BY DEF Book, Caps, Drawn
<1> QED
  BY LimitInvariance, InitRefines, <1>1, <1>2, <1>3, <1>4, PTL
     DEF Spec, ImplementsLedger, Ledger!Spec
=================================================================================
