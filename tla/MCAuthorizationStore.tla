--------------------------- MODULE MCAuthorizationStore ---------------------------
(* Instances of AuthorizationStore for TLC. *)
EXTENDS AuthorizationStore, TLC

CONSTANTS u1, u2, u3, p1, p2

(* Units u1 and u3 run in process p1, u2 in p2. *)
MCProcOf == [u \in Units |-> IF u = u2 THEN p2 ELSE p1]

Symmetry == Permutations({u1, u3} \cap Units) \cup Permutations(Contexts)
=================================================================================
