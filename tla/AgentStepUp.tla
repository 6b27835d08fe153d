------------------------------ MODULE AgentStepUp ------------------------------
(***************************************************************************)
(* Step-up approval of an agent's purchase (agent/stepup: manager.py,      *)
(* security.py, gateway_adapter.py) beside the runs of AgentRuntime, the   *)
(* hand-over of a proposal to the gateway (agent/intent) and the masking   *)
(* of MCP tools (agent/mcp).                                               *)
(*                                                                         *)
(* process_step_up_flow is called by a driver on the AgentState of an      *)
(* agent whose run may be under way in another thread.  The manager's      *)
(* methods run under its lock; the flow calls two of them and then         *)
(* transition_to, three critical sections and three steps here.  A cart    *)
(* hash and its total are one value, the terms.                            *)
(***************************************************************************)
EXTENDS AgentRuntime

CONSTANTS
  PartyOf,        \* buyer and merchant of an agent's state
  Terms,          \* carts a flow may be called for
  Approvers,      \* identities that decide
  Humans,         \* those verify_approver_identity does not turn away
  TTL,            \* life of a challenge
  MaxTime,        \* bound on the clock
  MaxChallenges,  \* bound on challenges
  MaxFlows,       \* bound on calls of process_step_up_flow
  MaxQuantity, MaxPrice, MaxTotal   \* limits of the intent parser

ASSUME HumansAssumption ==
  /\ Humans \subseteq Approvers
  /\ TTL \in Nat /\ MaxTime \in Nat /\ MaxChallenges \in Nat

VARIABLES
  challenges,  \* _challenges by number
  current,     \* _session_index
  flow,        \* a call of process_step_up_flow per agent
  flows,       \* calls so far
  now,         \* the clock
  decided,     \* per challenge, who decided, on what terms and when
  handover     \* outcome of normalize_agent_state per agent

stepUpVars == <<challenges, current, flow, flows, now, decided, handover>>
vars == <<runtimeVars, stepUpVars>>

Ids == 1..MaxChallenges
NoChallenge == 0
Absent == [status |-> "none"]
NotGiven == -1
Undecided == [by |-> "nobody"]

Issued == {c \in Ids : challenges[c] # Absent}

Expired(ch) == now > ch.expires

---------------------------------------------------------------------------------
(* The manager *)

(* get_challenge: a pending challenge past its time becomes EXPIRED *)
Seen(ch) ==
  IF ch.status = "PENDING" /\ Expired(ch) THEN [ch EXCEPT !.status = "EXPIRED"]
  ELSE ch

(* create_challenge: the session's index names the newest one only *)
NewChallenge(a, terms) ==
  [session |-> SessionOf[a], party |-> PartyOf[a], terms |-> terms,
   expires |-> now + TTL, status |-> "PENDING"]

(* verify_challenge_binding *)
Bound(ch, a, terms) ==
  /\ ch.session = SessionOf[a]
  /\ ch.party = PartyOf[a]
  /\ ch.terms = terms

(* Fault: a resolved challenge may be resolved again. *)
Active_Again(ch) == ~Expired(ch)

(* verify_challenge_active *)
Active(ch) == ch.status = "PENDING" /\ ~Expired(ch)

(* verify_approver_identity *)
IsHuman(who) == who \in Humans

(* resolve_decision: found, approver, binding, active, then the decision *)
Resolvable(c, a, terms, who) ==
  /\ c \in Issued
  /\ IsHuman(who)
  /\ Bound(challenges[c], a, terms)
  /\ Active(Seen(challenges[c]))

---------------------------------------------------------------------------------
(* process_step_up_flow *)

FlowCalled(a) ==
  /\ flow[a].pc = "idle"
  /\ flows < MaxFlows
  /\ flows' = flows + 1

NoFlow == [pc |-> "idle"]

(* The challenges once the call has looked up the session's one *)
LookedUp(a) ==
  [c \in Ids |-> IF c = current[SessionOf[a]] THEN Seen(challenges[c])
                 ELSE challenges[c]]

FlowTransition(a, to) ==
  agent' = IF Legal(agent[a].state, to) THEN [agent EXCEPT ![a].state = to]
           ELSE agent

(* No challenge and no decision: the call will create one *)
FlowOpens(a, terms) ==
  /\ FlowCalled(a)
  /\ current[SessionOf[a]] = NoChallenge
  /\ flow' = [flow EXCEPT ![a] = [pc |-> "open", terms |-> terms]]
  /\ UNCHANGED <<runtimeVars, challenges, current, now, decided, handover>>

(* The challenge is stored, then the state moves if it may. *)
FlowCreates(a) ==
  /\ flow[a].pc = "open"
  /\ Cardinality(Issued) < MaxChallenges
  /\ LET c == Cardinality(Issued) + 1 IN
       /\ challenges' = [challenges EXCEPT ![c] = NewChallenge(a, flow[a].terms)]
       /\ current' = [current EXCEPT ![SessionOf[a]] = c]
  /\ flow' = [flow EXCEPT ![a] = [pc |-> "move", to |-> "WAITING_FOR_GATEWAY"]]
  /\ UNCHANGED <<runtimeVars, flows, now, decided, handover>>

(* A decision on challenge c; a refused one raises and changes nothing but *)
(* what the look-ups expired.  A rejection is stored and then raises: the  *)
(* AgentState has no set_error.                                            *)
Status(choice) == IF choice = "approve" THEN "APPROVED" ELSE "REJECTED"

FlowDecides(a, terms, c, who, choice) ==
  /\ FlowCalled(a)
  /\ IF Resolvable(c, a, terms, who)
     THEN /\ challenges' = [LookedUp(a) EXCEPT ![c].status = Status(choice)]
          /\ decided' = [decided EXCEPT ![c] =
               [by |-> who, terms |-> terms, at |-> now, status |-> Status(choice)]]
          /\ flow' = [flow EXCEPT ![a] =
               IF choice = "approve" THEN [pc |-> "move", to |-> "PROPOSAL_READY"]
               ELSE NoFlow]
     ELSE /\ challenges' = IF c \in Issued THEN [LookedUp(a) EXCEPT ![c] = Seen(@)]
                            ELSE LookedUp(a)
          /\ UNCHANGED <<flow, decided>>
  /\ UNCHANGED <<runtimeVars, current, now, handover>>

(* No decision yet: an expired challenge raises, else the state waits. *)
FlowWaits(a) ==
  /\ FlowCalled(a)
  /\ current[SessionOf[a]] # NoChallenge
  /\ challenges' = LookedUp(a)
  /\ flow' = [flow EXCEPT ![a] =
       IF Expired(challenges[current[SessionOf[a]]]) THEN NoFlow
       ELSE [pc |-> "move", to |-> "WAITING_FOR_GATEWAY"]]
  /\ UNCHANGED <<runtimeVars, current, now, decided, handover>>

(* The transition the call ends with; an illegal one raises to the driver *)
FlowMoves(a) ==
  /\ flow[a].pc = "move"
  /\ FlowTransition(a, flow[a].to)
  /\ flow' = [flow EXCEPT ![a] = NoFlow]
  /\ UNCHANGED <<run, cancelled, registryVars, challenges, current, flows, now,
                 decided, handover>>

(* Before the first challenge no time is compared. *)
Tick ==
  /\ now < MaxTime /\ Issued # {}
  /\ now' = now + 1
  /\ UNCHANGED <<runtimeVars, challenges, current, flow, flows, decided, handover>>

---------------------------------------------------------------------------------
(* The hand-over of a completed run's proposal: agent/intent *)

(* parse_item: quantity and price in range, a declared subtotal is right *)
ItemValid(i) ==
  /\ i.named
  /\ i.quantity \in 1..MaxQuantity
  /\ i.price \in 1..MaxPrice
  /\ i.subtotal \in {NotGiven, i.quantity * i.price}

ItemTotal(i) == i.quantity * i.price

(* parse_intent_payload: a declared total may leave tax and shipping out *)
PayloadValid(p) ==
  LET grand == ItemTotal(p.item) + p.extra
  IN /\ p.kind \notin {"none", "foreign"}
     /\ ItemValid(p.item)
     /\ p.total \in {NotGiven, grand, ItemTotal(p.item)}
     /\ grand <= MaxTotal

(* build_proposal_request as normalize_agent_state calls it: the request   *)
(* is totalled again, and without the payload's tax and shipping           *)
RequestTotal(p) == ItemTotal(p.item)

(* normalize_agent_state.  It raises on a payload that is not valid, and   *)
(* without a prompt of the caller's: the state has none to fall back on.   *)
HandOver(a) ==
  /\ run[a].pc = "returned" /\ agent[a].state = "COMPLETED"
  /\ handover[a] = NotGiven
  /\ PayloadValid(agent[a].payload)
  /\ handover' = [handover EXCEPT ![a] = RequestTotal(agent[a].payload)]
  /\ UNCHANGED <<runtimeVars, challenges, current, flow, flows, now, decided>>

---------------------------------------------------------------------------------
(* The MCP gateway: agent/mcp *)

Operations ==
  {"create_order", "create_payment_link", "fetch_payment", "payout",
   "settlement", "bank_transfer"}

(* STANDARD_MCP_TOOLS: every operation has its tool, three are blocked *)
Blocked == {"payout", "settlement", "bank_transfer"}

(* filter_tools_for_scope, the answer to tools/list *)
Listed(allowed, blocked) ==
  {t \in Operations : t \in allowed /\ t \notin blocked /\ t \notin Blocked}

(* authorize_tool_call, before every tools/call is executed *)
AuthorizeCall(t, allowed, blocked, authorized) ==
  IF t \notin Operations THEN "MCP_TOOL_NOT_FOUND"
  ELSE IF t \in Blocked \cup blocked THEN "MCP_TOOL_BLOCKED"
  ELSE IF t \notin allowed THEN "MCP_TOOL_UNAUTHORIZED"
  ELSE IF ~authorized THEN "MCP_TRANSACTION_UNAUTHORIZED"
  ELSE "authorized"
---------------------------------------------------------------------------------
Init ==
  /\ RuntimeInit
  /\ challenges = [c \in Ids |-> Absent]
  /\ current = [s \in Sessions |-> NoChallenge]
  /\ flow = [a \in Agents |-> NoFlow]
  /\ flows = 0
  /\ now = 0
  /\ decided = [c \in Ids |-> Undecided]
  /\ handover = [a \in Agents |-> NotGiven]

FlowStep(a) == FlowCreates(a) \/ FlowMoves(a)

Next ==
  \/ RuntimeNext /\ UNCHANGED stepUpVars
  \/ \E a \in Agents : HandOver(a)
  \/ \E a \in workload.shops :
       \/ FlowStep(a) \/ FlowWaits(a)
       \/ \E terms \in Terms :
            \/ FlowOpens(a, terms)
            \/ \E c \in Issued, who \in Approvers, choice \in {"approve", "reject"} :
                 FlowDecides(a, terms, c, who, choice)
  \/ Tick

Spec == Init /\ [][Next]_vars

(* A thread in run goes on; the model adapter and the tools return. *)
FairSpec ==
  Spec /\ \A a \in Agents : WF_vars(RunStep(a) /\ UNCHANGED stepUpVars)

---------------------------------------------------------------------------------
Running(a) == run[a].pc \notin {"none", "returned", "raised"}
Ended(a) == run[a].pc \in {"returned", "raised"}

(* Every run comes to an end, whatever the model asks for, the tools       *)
(* answer, the token does and a step-up flow does to the same state in     *)
(* another thread; and the state it leaves is a terminal one               *)
(* (runtime.py: the limits at the head of the loop, the handlers).         *)
RunsSettle ==
  \A a \in Agents : Running(a) ~> (Ended(a) /\ agent[a].state \in Terminal)

(* Runs that share a session together execute a tool at most               *)
(* max_invocations times between two resets of the counters, and no run    *)
(* goes over the tool calls and iterations of its own configuration        *)
(* (registry.py: the counter tested and raised under the lock;             *)
(* runtime.py: the limits).                                                *)
ToolUseIsBounded ==
  /\ \A k \in Sessions \X Tools : executed[k] <= MaxInvocations * (1 + resets)
  /\ \A a \in Agents : /\ run[a].calls <= Config[a].calls
                       /\ run[a].iterations <= Config[a].iterations

(* A challenge is settled once: what was approved or rejected, by a human, *)
(* in time and for the terms it was created for, stays so, however many    *)
(* flows share the session and whatever is sent again later                *)
(* (manager.py resolve_decision, get_challenge).                           *)
DecisionStands ==
  [][\A c \in Issued :
       /\ challenges[c].status # "PENDING" => challenges'[c] = challenges[c]
       /\ decided'[c] # decided[c] =>
            /\ decided'[c].by \in Humans
            /\ decided'[c].at <= challenges[c].expires
            /\ decided'[c].terms = challenges[c].terms
            /\ challenges'[c].status = decided'[c].status]_vars

(* What tools/list shows a session is exactly what tools/call lets it      *)
(* execute once the gateway has said ALLOW, for every scope, and nothing   *)
(* is executed without it (masking.py and authorization.py each test the   *)
(* scope on their own).                                                    *)
McpListIsCallable ==
  \A allowed, blocked \in SUBSET Operations :
    /\ Listed(allowed, blocked) =
         {t \in Operations : AuthorizeCall(t, allowed, blocked, TRUE) = "authorized"}
    /\ \A t \in Operations : AuthorizeCall(t, allowed, blocked, FALSE) # "authorized"
=============================================================================
