------------------------ MODULE MCAuthorizationPipeline ------------------------
(* An instance of AuthorizationPipeline for TLC. *)
EXTENDS AuthorizationPipeline

(* Products 1 and 2; the cap is 10, the step-up band reaches 11, and the   *)
(* merchant's limit is 12.                                                 *)
Item(product, cat, qty, price) ==
  [product |-> product, merchant |-> None, cat |-> cat, qty |-> qty, price |-> price,
   currency |-> None, injected |-> FALSE, described |-> TRUE]

Good ==
  [wellformed |-> TRUE, injected |-> FALSE, buyer |-> "b1", merchant |-> "m1",
   mandate |-> "man1", prompted |-> TRUE, currency |-> "INR", region |-> "IN",
   op |-> "create_order", items |-> <<Item(2, "food", 2, 4), Item(1, "food", 1, 1)>>,
   tax |-> 1, shipping |-> 0, total |-> 10]

MCProposals ==
  { Good,
    [Good EXCEPT !.items = <<Item(1, "food", 1, 11)>>, !.tax = 0, !.total = Absent],
    [Good EXCEPT !.total = 2] }

Mandate ==
  [status |-> "ACTIVE", auto |-> TRUE, issued |-> 0, expires |-> 2, buyer |-> "b1",
   merchants |-> {"m1"}, currency |-> "INR", regions |-> {"IN"}, cats |-> {"food"}, cap |-> 10]

MCMandates == { Mandate, [Mandate EXCEPT !.merchants = {}, !.cats = {}, !.regions = {}] }

Policy ==
  [merchant |-> "m1", expires |-> 9, enabled |-> TRUE, blocked |-> {"payout"},
   allowed |-> {"create_order"}, currency |-> "INR", regions |-> {"IN"},
   cats |-> {"food", "toys"}, limit |-> 12, pct |-> 10]

MCPolicies == { Policy }

CallerSymmetry == Permutations(Callers)
===============================================================================
