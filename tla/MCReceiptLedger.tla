----------------------------- MODULE MCReceiptLedger -----------------------------
(* Instances of ReceiptLedger for TLC. *)
EXTENDS ReceiptLedger

ClientSymmetry == Permutations(Clients) \cup Permutations(Admins)
=================================================================================
