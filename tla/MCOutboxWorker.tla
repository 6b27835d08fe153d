----------------------------- MODULE MCOutboxWorker -----------------------------
(* Instances of OutboxWorker for TLC. *)
EXTENDS OutboxWorker, TLC

CONSTANTS u1, u2, u3, u4, api, recovery

(* In the API process u1 authenticates, u2 applies a webhook and u4        *)
(* executes a payment; u3 is a batch of two payments of the recovery       *)
(* worker, a process of its own.                                           *)
MCKindOf == (u1 :> "auth") @@ (u2 :> "record") @@ (u3 :> "recovery") @@ (u4 :> "execution")
MCItemsOf == [u \in Units |-> IF u = u3 THEN 2 ELSE 1]
MCLoopOf == [u \in Units |-> IF u = u3 THEN recovery ELSE api]
=================================================================================
