------------------------------ MODULE MCAgentStepUp ------------------------------
(***************************************************************************)
(* Two agents of one session: both run, or one runs and both shop.  a1 may *)
(* repeat a tool until the loop or the iteration limit stops it; a2 has    *)
(* one tool call.                                                          *)
(***************************************************************************)
EXTENDS AgentStepUp, TLC

CONSTANTS a1, a2, s1

MCWorkloads ==
  {[runs |-> {a1, a2}, shops |-> {}, steers |-> 2],
   [runs |-> {a2}, shops |-> {a1, a2}, steers |-> 0]}
MCSessionOf == [a \in Agents |-> s1]
MCPartyOf == [a \in Agents |-> a]
MCConfig == (a1 :> [iterations |-> 8, calls |-> 3])
         @@ (a2 :> [iterations |-> 5, calls |-> 1])
MCAsks == (a1 :> {<<"search", "ok">>})
       @@ (a2 :> {<<"search", "bad">>, <<"search", "ok">>, NoCall})

Cart(kind, named, extra, total) ==
  [kind |-> kind, extra |-> extra, total |-> total,
   item |-> [named |-> named, quantity |-> 2, price |-> 3, subtotal |-> NotGiven]]

MCProposals ==
  (a1 :> {Cart("amount", FALSE, 0, NotGiven)})
  @@ (a2 :> {Cart("cart", TRUE, 1, 7), [kind |-> "foreign"]})
=============================================================================
