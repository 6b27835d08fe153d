------------------------------ MODULE MCBudgetStore ------------------------------
(* Instances of BudgetStore for TLC. *)
EXTENDS BudgetStore, TLC

Symmetry == Permutations(Sessions) \cup Permutations(ResIds) \cup Permutations(Mandates)
=================================================================================
