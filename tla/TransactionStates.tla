--------------------------- MODULE TransactionStates ---------------------------
(***************************************************************************)
(* The transaction state machine of apps/api/domain/types.py and the       *)
(* repository method that applies it to a stored row                       *)
(* (db/repository/transaction_repository.py).  Every component that moves  *)
(* a payment from one state to another goes through these operators.       *)
(***************************************************************************)
EXTENDS Naturals, Sequences

TransactionState ==
  { "DRAFT", "PROPOSED", "VALIDATING", "REJECTED", "STEP_UP_REQUIRED",
    "USER_APPROVED", "RESERVED", "AUTHORIZED", "EXECUTING", "SUCCESS",
    "FAILURE", "COMMITTED", "ROLLED_BACK", "COMPLETED", "RECEIPT",
    "EXPIRED", "CONSUMED" }

(* _TRANSACTION_LEGAL_TRANSITIONS, as a relation. *)
LegalTransitions ==
  { <<"DRAFT", "PROPOSED">>, <<"PROPOSED", "VALIDATING">>,
    <<"VALIDATING", "REJECTED">>, <<"VALIDATING", "STEP_UP_REQUIRED">>,
    <<"VALIDATING", "RESERVED">>, <<"STEP_UP_REQUIRED", "USER_APPROVED">>,
    <<"USER_APPROVED", "RESERVED">>, <<"RESERVED", "AUTHORIZED">>,
    <<"AUTHORIZED", "EXECUTING">>,
    <<"EXECUTING", "SUCCESS">>, <<"EXECUTING", "FAILURE">>,
    <<"EXECUTING", "COMMITTED">>, <<"EXECUTING", "ROLLED_BACK">>,
    <<"SUCCESS", "COMMITTED">>, <<"FAILURE", "ROLLED_BACK">>,
    <<"COMMITTED", "COMPLETED">>, <<"ROLLED_BACK", "COMPLETED">>,
    <<"COMPLETED", "RECEIPT">> }

IsTerminal(s) == s \in {"REJECTED", "COMPLETED", "EXPIRED", "RECEIPT"}

CanTransitionTo(s, target) == <<s, target>> \in LegalTransitions

(* can_execute, the guard of Transaction.is_executable. *)
CanExecute(s) == s = "AUTHORIZED"

(* The test of transition_transaction_state; when it fails the method      *)
(* raises TransactionStateError and the row is left alone.                 *)
TransitionAllowed(s, target) == ~IsTerminal(s) /\ CanTransitionTo(s, target)

(* Several transition_transaction_state calls in a row: the first illegal  *)
(* one raises, and what the earlier ones wrote stays in the session.       *)
LegalPrefixes(s, path) ==
  { n \in 0 .. Len(path) :
      \A i \in 1 .. n : TransitionAllowed(IF i = 1 THEN s ELSE path[i - 1], path[i]) }

PathLegal(s, path) == Len(path) \in LegalPrefixes(s, path)

StateAfter(s, path) ==
  LET n == CHOOSE m \in LegalPrefixes(s, path) :
             \A k \in LegalPrefixes(s, path) : k <= m
  IN  IF n = 0 THEN s ELSE path[n]
================================================================================
