------------------------------ MODULE AgentRuntime ------------------------------
(***************************************************************************)
(* The agent execution loop (agent/graph: machine.py, nodes.py, state.py,  *)
(* runtime.py) and the tool registry its runs share (agent/tools).         *)
(*                                                                         *)
(* Every agent a has one AgentState and one thread in AgentRuntime.run.    *)
(* The loop reads current_state and then runs a node: between the two      *)
(* another thread may move the same state (AgentStepUp), so they are two   *)
(* steps.  The model adapter and the tools are outside the repository: a   *)
(* model answers anything, a tool returns or raises.  Elapsed time is not  *)
(* counted: the deadline may have passed at any turn of the loop.          *)
(***************************************************************************)
EXTENDS Integers, Sequences, FiniteSets

CONSTANTS
  Agents,          \* one AgentState each
  SessionOf,       \* its session_id; two agents may share one
  Config,          \* AgentConfig of its runtime: iterations, calls
  Asks,            \* tool calls its model may make, <<name, arguments>>
  Proposals,       \* proposal payloads its model may answer with
  Tools,           \* tools that can be registered, by name
  Usable,          \* those enabled, not blocked, of permitted capabilities
  MaxInvocations,  \* max_invocations of every tool, per session
  Workloads        \* which agents run and which shop side by side, and a bound
                   \* on cancellations, unregister and reset_counts calls

ASSUME ConfigAssumption ==
  /\ IsFiniteSet(Agents)
  /\ Config \in [Agents -> [iterations : Nat \ {0}, calls : Nat]]
  /\ MaxInvocations \in Nat
  /\ \A w \in Workloads : w.runs \cup w.shops \subseteq Agents

NoCall == <<"", "">>
NoProposal == [kind |-> "none"]
ToolName(call) == call[1]
BadArguments == "bad"     \* over-long, or naming an authority field or target

VARIABLES
  workload,   \* the one of Workloads that the process serves
  agent,      \* AgentState: current_state and proposal payload
  run,        \* its thread, with what only the run reads of the state:
              \* pending call, iterations, calls, last two tool signatures
  cancelled,  \* the cancellation token of its run
  names,      \* _tools entries under "name"
  keys,       \* _tools entries under "name:version"
  counts,     \* _invocation_counts per session and tool
  resets,     \* reset_counts calls so far
  steered,    \* those and the cancelled and unregister calls so far
  executed    \* tool.execute calls per session and tool

runtimeVars == <<workload, agent, run, cancelled, names, keys, counts, resets, steered,
                executed>>

Sessions == {SessionOf[a] : a \in Agents}

---------------------------------------------------------------------------------
(* The state machine *)

Terminal == {"COMPLETED", "FAILED", "CANCELLED", "TIMED_OUT"}

Halts == {"FAILED", "CANCELLED", "TIMED_OUT"}

LegalTransitions ==
  [IDLE                   |-> {"RECEIVING_INPUT", "FAILED", "CANCELLED"},
   RECEIVING_INPUT        |-> {"PLANNING"} \cup Halts,
   PLANNING               |-> {"TOOL_REQUESTED", "PROPOSAL_READY", "COMPLETED"}
                              \cup Halts,
   TOOL_REQUESTED         |-> {"WAITING_FOR_TOOL"} \cup Halts,
   WAITING_FOR_TOOL       |-> {"PROCESSING_TOOL_RESULT"} \cup Halts,
   PROCESSING_TOOL_RESULT |-> {"PLANNING", "PROPOSAL_READY"} \cup Halts,
   PROPOSAL_READY         |-> {"WAITING_FOR_GATEWAY", "COMPLETED"} \cup Halts,
   WAITING_FOR_GATEWAY    |-> {"COMPLETED"} \cup Halts,
   COMPLETED              |-> {}, FAILED    |-> {},
   CANCELLED              |-> {}, TIMED_OUT |-> {}]

AgentStates == DOMAIN LegalTransitions

(* validate_transition *)
Legal(from, to) == from \notin Terminal /\ to \in LegalTransitions[from]

FreshState == [state |-> "IDLE", payload |-> NoProposal]

---------------------------------------------------------------------------------
(* The loop *)

Thread(pc) ==
  [pc |-> pc, pending |-> NoCall, iterations |-> 0, calls |-> 0, last |-> <<>>]

At(a, p) == run[a].pc = p

(* A thread goes on at p, or leaves run for good *)
Goto(a, r, p) ==
  run' = [run EXCEPT ![a] = IF p \in {"returned", "raised"} THEN Thread(p)
                            ELSE [r EXCEPT !.pc = p]]

(* Fault: the handlers only re-raise. *)
Failed_NotMarked(s) == s

(* The run leaves with an exception.  The handlers move a state that is    *)
(* not terminal to FAILED, which every such state allows.                  *)
Failed(s) == [s EXCEPT !.state = IF @ \in Terminal THEN @ ELSE "FAILED"]

Raise(a) ==
  /\ agent' = [agent EXCEPT ![a] = Failed(@)]
  /\ Goto(a, run[a], "raised")

(* transition_to inside a node, to go on as thread r at p; when it is      *)
(* refused, the exception ends the run                                     *)
Moves(a, to, r, p) ==
  IF Legal(agent[a].state, to)
  THEN /\ agent' = [agent EXCEPT ![a].state = to]
       /\ Goto(a, r, p)
  ELSE Raise(a)

registryVars == <<workload, names, keys, counts, resets, steered, executed>>

Steer == steered < workload.steers /\ steered' = steered + 1

(* run: NodeReceiveInput *)
StartRun(a) ==
  /\ At(a, "none") /\ a \in workload.runs
  /\ Moves(a, "RECEIVING_INPUT", run[a], "received")
  /\ UNCHANGED <<cancelled, registryVars>>

InputReceived(a) ==
  /\ At(a, "received")
  /\ Moves(a, "PLANNING", run[a], "loop")
  /\ UNCHANGED <<cancelled, registryVars>>

(* The caller sets the token while the run is under way. *)
Cancel(a) ==
  /\ ~cancelled[a]
  /\ run[a].pc \notin {"none", "returned", "raised"}
  /\ cancelled' = [cancelled EXCEPT ![a] = TRUE]
  /\ Steer
  /\ UNCHANGED <<workload, agent, run, names, keys, counts, resets, executed>>

LoopExit(a) ==
  /\ At(a, "loop") /\ agent[a].state \in Terminal
  /\ Goto(a, run[a], "returned")
  /\ UNCHANGED <<agent, cancelled, registryVars>>

LoopCancelled(a) ==
  /\ At(a, "loop") /\ agent[a].state \notin Terminal /\ cancelled[a]
  /\ Moves(a, "CANCELLED", run[a], "raised")
  /\ UNCHANGED <<cancelled, registryVars>>

LoopTimedOut(a) ==
  /\ At(a, "loop") /\ agent[a].state \notin Terminal /\ ~cancelled[a]
  /\ Moves(a, "TIMED_OUT", run[a], "raised")
  /\ UNCHANGED <<cancelled, registryVars>>

(* One iteration: count it, stop at the limit, else read the state *)
LoopTurn(a) ==
  /\ At(a, "loop") /\ agent[a].state \notin Terminal /\ ~cancelled[a]
  /\ IF run[a].iterations + 1 > Config[a].iterations
     THEN Raise(a)
     ELSE /\ Goto(a, [run[a] EXCEPT !.iterations = @ + 1], agent[a].state)
          /\ UNCHANGED agent
  /\ UNCHANGED <<cancelled, registryVars>>

---------------------------------------------------------------------------------
(* The nodes *)

PlanTool(a) ==
  /\ At(a, "PLANNING")
  /\ \E call \in Asks[a] :
       Moves(a, "TOOL_REQUESTED", [run[a] EXCEPT !.pending = call], "loop")
  /\ UNCHANGED <<cancelled, registryVars>>

PlanProposal(a) ==
  /\ At(a, "PLANNING")
  /\ \E p \in Proposals[a] :
       IF Legal(agent[a].state, "PROPOSAL_READY")
       THEN /\ agent' = [agent EXCEPT ![a] = [state |-> "PROPOSAL_READY", payload |-> p]]
            /\ Goto(a, run[a], "loop")
       ELSE Raise(a)
  /\ UNCHANGED <<cancelled, registryVars>>

PlanNothing(a) ==
  /\ At(a, "PLANNING")
  /\ Moves(a, "COMPLETED", run[a], "loop")
  /\ UNCHANGED <<cancelled, registryVars>>

(* The adapter raises *)
PlanFails(a) ==
  /\ At(a, "PLANNING")
  /\ Raise(a)
  /\ UNCHANGED <<cancelled, registryVars>>

(* The tool limit, then the third equal request in a row, then the node *)
LoopDetected(a) == run[a].last = <<run[a].pending, run[a].pending>>

Remember(last, call) == IF last = <<>> THEN <<call>> ELSE <<last[Len(last)], call>>

ToolLimitReached(a) == run[a].calls >= Config[a].calls

RefuseTool(a) ==
  /\ At(a, "TOOL_REQUESTED")
  /\ ToolLimitReached(a) \/ LoopDetected(a)
  /\ Raise(a)
  /\ UNCHANGED <<cancelled, registryVars>>

NoToolRequested(a) ==
  /\ At(a, "TOOL_REQUESTED")
  /\ ~ToolLimitReached(a) /\ ~LoopDetected(a)
  /\ run[a].pending = NoCall
  /\ Moves(a, "FAILED", run[a], "loop")
  /\ UNCHANGED <<cancelled, registryVars>>

RequestTool(a) ==
  /\ At(a, "TOOL_REQUESTED")
  /\ ~ToolLimitReached(a) /\ ~LoopDetected(a)
  /\ run[a].pending # NoCall
  /\ Moves(a, "WAITING_FOR_TOOL",
           [run[a] EXCEPT !.calls = @ + 1, !.last = Remember(@, run[a].pending)],
           "resolve")
  /\ UNCHANGED <<cancelled, registryVars>>

(* The tool result, whichever it is, comes back to the node. *)
ToolAnswered(a) ==
  Moves(a, "PROCESSING_TOOL_RESULT", [run[a] EXCEPT !.pending = NoCall], "loop")

ProcessToolResult(a) ==
  /\ At(a, "PROCESSING_TOOL_RESULT")
  /\ Moves(a, "PLANNING", run[a], "loop")
  /\ UNCHANGED <<cancelled, registryVars>>

(* build_proposal raises on a currency or an operation it does not know *)
Buildable(p) == p.kind # "foreign"

PrepareProposal(a) ==
  /\ At(a, "PROPOSAL_READY")
  /\ IF Buildable(agent[a].payload)
     THEN Moves(a, "WAITING_FOR_GATEWAY", run[a], "submitted")
     ELSE Raise(a)
  /\ UNCHANGED <<cancelled, registryVars>>

ProposalSubmitted(a) ==
  /\ At(a, "submitted")
  /\ Moves(a, "COMPLETED", run[a], "loop")
  /\ UNCHANGED <<cancelled, registryVars>>

(* NodeFinalize, and the break out of the loop *)
Finalize(a) ==
  /\ At(a, "WAITING_FOR_GATEWAY")
  /\ Moves(a, "COMPLETED", run[a], "returned")
  /\ UNCHANGED <<cancelled, registryVars>>

---------------------------------------------------------------------------------
(* The tool registry *)

(* register: refused while either entry is there *)
Register(t) ==
  /\ t \notin names /\ t \notin keys
  /\ names' = names \cup {t}
  /\ keys' = keys \cup {t}
  /\ UNCHANGED <<workload, agent, run, cancelled, counts, resets, steered, executed>>

(* unregister: without a version the versioned entry stays *)
Unregister(t, versioned) ==
  /\ t \in names
  /\ names' = names \ {t}
  /\ keys' = IF versioned THEN keys \ {t} ELSE keys
  /\ Steer
  /\ UNCHANGED <<workload, agent, run, cancelled, counts, resets, executed>>

ResetCounts ==
  /\ Steer
  /\ counts' = [k \in Sessions \X Tools |-> 0]
  /\ resets' = resets + 1
  /\ UNCHANGED <<workload, agent, run, cancelled, names, keys, executed>>

(* resolve, without a version as execute_tool asks; a name that            *)
(* validate_tool_name refuses is never registered                          *)
Resolved(n) == n \in names

(* Enabled, not blocked, and of capabilities execute_tool's policy allows *)
Permitted(n) == n \in Usable

(* validate_input_payload *)
ArgumentsAccepted(call) == call[2] # BadArguments

(* authorize_and_execute up to the counter *)
ResolveTool(a) ==
  /\ At(a, "resolve")
  /\ LET n == ToolName(run[a].pending)
     IN IF Resolved(n) /\ Permitted(n)
        THEN /\ Goto(a, run[a], "reserve")
             /\ UNCHANGED agent
        ELSE ToolAnswered(a)
  /\ UNCHANGED <<cancelled, registryVars>>

InvocationKey(a) == <<SessionOf[a], ToolName(run[a].pending)>>

(* Fault: the limit itself is still let through. *)
HasInvocation_OneMore(k) == counts[k] <= MaxInvocations

(* The counter is tested and raised under the lock *)
HasInvocation(k) == counts[k] < MaxInvocations

ReserveInvocation(a) ==
  /\ At(a, "reserve")
  /\ \/ /\ ~HasInvocation(InvocationKey(a))
        /\ ToolAnswered(a)
        /\ UNCHANGED counts
     \/ /\ HasInvocation(InvocationKey(a))
        /\ counts' = [counts EXCEPT ![InvocationKey(a)] = @ + 1]
        /\ IF ArgumentsAccepted(run[a].pending)
           THEN Goto(a, run[a], "execute") /\ UNCHANGED agent
           ELSE ToolAnswered(a)
  /\ UNCHANGED <<workload, cancelled, names, keys, resets, steered, executed>>

(* tool.execute returns, fails, raises or returns too much: a ToolResult *)
ExecuteTool(a) ==
  /\ At(a, "execute")
  /\ executed' = [executed EXCEPT ![InvocationKey(a)] = @ + 1]
  /\ ToolAnswered(a)
  /\ UNCHANGED <<workload, cancelled, names, keys, counts, resets, steered>>

---------------------------------------------------------------------------------
RuntimeInit ==
  /\ workload \in Workloads
  /\ agent = [a \in Agents |-> FreshState]
  /\ run = [a \in Agents |-> Thread("none")]
  /\ cancelled = [a \in Agents |-> FALSE]
  /\ names = Tools
  /\ keys = Tools
  /\ counts = [k \in Sessions \X Tools |-> 0]
  /\ resets = 0
  /\ steered = 0
  /\ executed = [k \in Sessions \X Tools |-> 0]

(* What the thread of a run does by itself *)
RunStep(a) ==
  \/ InputReceived(a) \/ LoopExit(a) \/ LoopCancelled(a) \/ LoopTurn(a)
  \/ PlanTool(a) \/ PlanProposal(a) \/ PlanNothing(a) \/ PlanFails(a)
  \/ RefuseTool(a) \/ NoToolRequested(a) \/ RequestTool(a) 
  \/ ResolveTool(a) \/ ReserveInvocation(a) \/ ExecuteTool(a)
  \/ ProcessToolResult(a) \/ PrepareProposal(a) \/ ProposalSubmitted(a)
  \/ Finalize(a)

RuntimeNext ==
  \/ \E a \in Agents : StartRun(a) \/ RunStep(a) \/ LoopTimedOut(a) \/ Cancel(a)
  \/ \E t \in Tools : Register(t) \/ \E v \in BOOLEAN : Unregister(t, v)
  \/ ResetCounts
=============================================================================
