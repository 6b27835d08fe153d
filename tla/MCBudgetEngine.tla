----------------------------- MODULE MCBudgetEngine -----------------------------
(* Instances of BudgetEngine for TLC. *)
EXTENDS BudgetEngine, TLC

CONSTANTS m1, m2, i1, i2, i3

(* The uuids drawn for the two mandates. *)
OwnIds == [m \in Mandates |-> IF m = m1 THEN {i1, i2} ELSE {i3}]
=================================================================================
