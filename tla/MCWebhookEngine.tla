---------------------------- MODULE MCWebhookEngine ----------------------------
(* An instance of WebhookEngine for TLC: one transaction, four events. *)
EXTENDS WebhookEngine, TLC

CONSTANTS r1, r2, p1, p2, authorized, captured, failed, other

MCProcOf == [r \in Requests |-> IF r = r2 THEN p2 ELSE p1]

MCEventOf == [e \in EventIds |->
  [tx |-> 1,
   type |-> CASE e = authorized -> "payment.authorized"
              [] e = captured -> "payment.captured"
              [] e = failed -> "payment.failed"
              [] OTHER -> "payment.unknown"]]

DeliverySymmetry == Permutations(Deliveries)
================================================================================
