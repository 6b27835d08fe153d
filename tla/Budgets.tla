-------------------------------- MODULE Budgets --------------------------------
(***************************************************************************)
(* What the two implementations of the budget share: mandates with a daily *)
(* limit, amounts in paise, and reservations (domain/budget.py, and the    *)
(* budget_reservations table).                                             *)
(***************************************************************************)
EXTENDS Naturals

CONSTANTS Mandates,
          ResIds,     \* reservation ids
          Amounts,    \* amounts asked for, in paise
          Limits,     \* daily limits of the mandates
          Nobody      \* holds a free lock

(* A non-positive amount is refused at once, a negative limit by the types. *)
ASSUME AmountsAssumption == Amounts \subseteq Nat \ {0} /\ Limits \subseteq Nat

BudgetState == {"RESERVED", "COMMITTED", "RELEASED"}
Reservation == [mandate : Mandates, amount : Amounts, state : BudgetState]
NoReservation == [state |-> "FREE"]
================================================================================
