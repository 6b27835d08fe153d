---------------------------- MODULE MCPaymentGateway ----------------------------
(* Instances of PaymentGateway for TLC. *)
EXTENDS PaymentGateway, TLC

CONSTANTS r1, r2, r3, p1, p2

(* Requests r1 and r3 share process p1; r2 runs in p2. *)
MCProcOf == [r \in Requests |-> IF r = r2 THEN p2 ELSE p1]

(* The two requests of one process, and the idempotency keys, are alike. *)
Alike == Permutations({r1, r3}) \cup Permutations(Keys)
=================================================================================
