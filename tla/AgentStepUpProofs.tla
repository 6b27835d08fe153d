------------------------------ MODULE AgentStepUpProofs ------------------------------
(***************************************************************************)
(* Bounds on the tools an agent session uses, finality of the step-up      *)
(* decisions, and the agreement of the two MCP scope tests.                *)
(*                                                                         *)
(* The argument for the bound.  An invocation is counted before the tool   *)
(* is executed, and reset_counts may fall between the two.  So what a      *)
(* session has executed and is about to execute is at most the counter     *)
(* plus one full allowance per reset (CountInv).                           *)
(***************************************************************************)
EXTENDS AgentStepUp, FiniteSetTheorems, TLAPS

(* masking.py and authorization.py test a session's scope independently of *)
(* each other: they agree on every scope and every tool of the catalogue.  *)
THEOREM McpAgreement == McpListIsCallable
<1>1. SUFFICES ASSUME NEW allowed \in SUBSET Operations,
                      NEW blocked \in SUBSET Operations
               PROVE  /\ Listed(allowed, blocked) =
                           {t \in Operations :
                              AuthorizeCall(t, allowed, blocked, TRUE) = "authorized"}
                      /\ \A t \in Operations :
                           AuthorizeCall(t, allowed, blocked, FALSE) # "authorized"
  BY Zenon DEF McpListIsCallable
<1>2. ASSUME NEW t \in Operations
      PROVE  /\ AuthorizeCall(t, allowed, blocked, TRUE) = "authorized"
                <=> /\ t \in allowed
                    /\ t \notin blocked
                    /\ t \notin Blocked
             /\ AuthorizeCall(t, allowed, blocked, FALSE) # "authorized"
  <2>1. CASE t \in Blocked \cup blocked
    BY <2>1 DEF AuthorizeCall
  <2>2. CASE t \notin Blocked \cup blocked /\ t \notin allowed
    BY <2>2 DEF AuthorizeCall
  <2>3. CASE t \notin Blocked \cup blocked /\ t \in allowed
    BY <2>3 DEF AuthorizeCall
  <2> QED
    BY <2>1, <2>2, <2>3
<1>3. Listed(allowed, blocked) =
        {t \in Operations : AuthorizeCall(t, allowed, blocked, TRUE) = "authorized"}
  BY <1>2, Zenon DEF Listed
<1> QED
  BY <1>2, <1>3, Zenon

---------------------------------------------------------------------------------
Places ==
  {"none", "received", "loop", "submitted", "resolve", "reserve", "execute", "returned",
   "raised"} \cup AgentStates

Pendings == {NoCall} \cup UNION {Asks[a] : a \in Agents}
Payloads == {NoProposal} \cup UNION {Proposals[a] : a \in Agents}

Threads ==
  [pc : Places, pending : Pendings, iterations : Nat, calls : Nat, last : Seq(Pendings)]

(* A thread within its limits, that names a registered tool once resolved *)
ThreadOK(a, x) ==
  /\ x \in Threads
  /\ x.calls <= Config[a].calls
  /\ x.iterations <= Config[a].iterations
  /\ x.pc \in {"reserve", "execute"} => ToolName(x.pending) \in Tools

AgentTypes == agent \in [Agents -> [state : AgentStates, payload : Payloads]]

RunInv ==
  /\ AgentTypes
  /\ run \in [Agents -> Threads]
  /\ \A a \in Agents : ThreadOK(a, run[a])
  /\ names \subseteq Tools
  /\ workload \in Workloads

(* The agents between the counter and the tool *)
Executing(k) == {a \in Agents : run[a].pc = "execute" /\ InvocationKey(a) = k}

CountInv ==
  /\ counts \in [Sessions \X Tools -> Nat]
  /\ executed \in [Sessions \X Tools -> Nat]
  /\ resets \in Nat
  /\ \A k \in Sessions \X Tools :
       /\ counts[k] <= MaxInvocations
       /\ executed[k] + Cardinality(Executing(k)) <= MaxInvocations * resets + counts[k]

AgentInv == RunInv /\ CountInv

(* The twelve states of machine.py. *)
LEMMA StatesOfMachine ==
  AgentStates = {"IDLE", "RECEIVING_INPUT", "PLANNING", "TOOL_REQUESTED", "WAITING_FOR_TOOL",
                 "PROCESSING_TOOL_RESULT", "PROPOSAL_READY", "WAITING_FOR_GATEWAY",
                 "COMPLETED", "FAILED", "CANCELLED", "TIMED_OUT"}
BY DEF AgentStates, LegalTransitions

(* A legal transition ends in a state of the machine. *)
LEMMA LegalStaysInMachine ==
  ASSUME NEW from \in AgentStates, NEW to, Legal(from, to) PROVE to \in AgentStates
BY StatesOfMachine DEF Legal, LegalTransitions, Halts

(* A thread that leaves run keeps nothing but its outcome. *)
LEMMA ThreadIsOK ==
  ASSUME NEW a \in Agents, NEW p \in {"returned", "raised", "none"}
  PROVE  ThreadOK(a, Thread(p)) /\ Thread(p).pc = p
<1>1. Config[a].calls \in Nat /\ Config[a].iterations \in Nat
  BY ConfigAssumption
<1>2. Thread(p) \in Threads
  BY DEF Thread, Threads, Places, Pendings
<1> QED BY <1>1, <1>2 DEF Thread, ThreadOK

(* Executing is a finite set. *)
LEMMA ExecutingFinite ==
  ASSUME NEW k PROVE IsFiniteSet(Executing(k)) /\ Cardinality(Executing(k)) \in Nat
<1>1. Executing(k) \in SUBSET Agents
  BY DEF Executing
<1> QED BY <1>1, ConfigAssumption, FS_Subset, FS_CardinalityType

(* The registry, the tokens and the steps of the flows leave the counters  *)
(* and the threads alone.                                                  *)
LEMMA ThreadsRest ==
  ASSUME AgentInv, UNCHANGED <<run, counts, resets, executed, workload>>,
         AgentTypes', names' \subseteq Tools
  PROVE  AgentInv'
<1>1. RunInv'
  BY DEF AgentInv, RunInv, ThreadOK
<1>2. \A k : Executing(k)' = Executing(k)
  BY DEF Executing, InvocationKey
<1>3. CountInv'
  BY <1>2 DEF AgentInv, CountInv
<1> QED BY <1>1, <1>3 DEF AgentInv

(* A thread that is not about to execute, and will not be, goes on. *)
LEMMA ThreadGoes ==
  ASSUME AgentInv, NEW a \in Agents, NEW x, ThreadOK(a, x),
         run' = [run EXCEPT ![a] = x], run[a].pc # "execute", x.pc # "execute",
         AgentTypes', UNCHANGED <<names, counts, resets, executed, workload>>
  PROVE  AgentInv'
<1>1. run \in [Agents -> Threads] /\ x \in Threads
  BY DEF AgentInv, RunInv, ThreadOK
<1>2. RunInv'
  BY <1>1 DEF AgentInv, RunInv, ThreadOK
<1>3. \A k : Executing(k)' = Executing(k)
  BY <1>1 DEF Executing, InvocationKey
<1>4. CountInv'
  BY <1>3 DEF AgentInv, CountInv
<1> QED BY <1>2, <1>4 DEF AgentInv

(* A thread that goes on at p within its limits, or leaves run, is one of  *)
(* those above, and so is one whose transition is refused.                 *)
LEMMA GotoForm ==
  ASSUME RunInv, NEW a \in Agents, NEW r, NEW p \in Places, Goto(a, r, p),
         ThreadOK(a, [r EXCEPT !.pc = p]), [r EXCEPT !.pc = p].pc = p
  PROVE  \E x : ThreadOK(a, x) /\ x.pc = p /\ run' = [run EXCEPT ![a] = x]
<1>1. CASE p \in {"returned", "raised"}
  BY <1>1, ThreadIsOK DEF Goto
<1>2. CASE p \notin {"returned", "raised"}
  BY <1>2 DEF Goto
<1> QED BY <1>1, <1>2

(* The exit with an exception. *)
LEMMA RaiseForm ==
  ASSUME RunInv, NEW a \in Agents, Raise(a)
  PROVE  AgentTypes' /\ \E x : ThreadOK(a, x) /\ x.pc = "raised" /\ run' = [run EXCEPT ![a] = x]
<1>1. run' = [run EXCEPT ![a] = Thread("raised")]
  BY DEF Raise, Goto
<1>2. AgentTypes'
  BY StatesOfMachine DEF Raise, Failed, RunInv, AgentTypes
<1> QED BY <1>1, <1>2, ThreadIsOK

(* A transition inside a node. *)
LEMMA MovesForm ==
  ASSUME RunInv, NEW a \in Agents, NEW to, NEW r, NEW p \in Places, Moves(a, to, r, p),
         ThreadOK(a, [r EXCEPT !.pc = p]), [r EXCEPT !.pc = p].pc = p
  PROVE  AgentTypes' /\ \E x : ThreadOK(a, x) /\ x.pc \in {p, "raised"} /\ run' = [run EXCEPT ![a] = x]
<1>1. CASE Legal(agent[a].state, to)
  <2>1. agent' = [agent EXCEPT ![a].state = to] /\ Goto(a, r, p)
    BY <1>1 DEF Moves
  <2>2. AgentTypes'
    BY <1>1, <2>1, LegalStaysInMachine DEF RunInv, AgentTypes
  <2> QED BY <2>1, <2>2, GotoForm
<1>2. CASE ~ Legal(agent[a].state, to)
  BY <1>2, RaiseForm DEF Moves
<1> QED BY <1>1, <1>2

(* A thread as it is, at another place of the loop. *)
LEMMA PcMoves ==
  ASSUME RunInv, NEW a \in Agents, NEW p \in Places \ {"reserve", "execute"}
  PROVE  ThreadOK(a, [run[a] EXCEPT !.pc = p]) /\ [run[a] EXCEPT !.pc = p].pc = p
<1>1. run[a] \in Threads /\ ThreadOK(a, run[a])
  BY DEF RunInv
<1>2. [run[a] EXCEPT !.pc = p] \in Threads
  BY <1>1 DEF Threads
<1> QED BY <1>1, <1>2 DEF ThreadOK, Threads

(* The answer of a tool, whatever it is, brings the thread back to its     *)
(* loop.                                                                   *)
LEMMA AnsweredForm ==
  ASSUME RunInv, NEW a \in Agents, ToolAnswered(a)
  PROVE  AgentTypes' /\ \E x : ThreadOK(a, x) /\ x.pc \in {"loop", "raised"} /\ run' = [run EXCEPT ![a] = x]
<1> DEFINE r == [run[a] EXCEPT !.pending = NoCall]
<1>1. run[a] \in Threads /\ ThreadOK(a, run[a])
  BY DEF RunInv
<1>2. [r EXCEPT !.pc = "loop"] \in Threads /\ [r EXCEPT !.pc = "loop"].pc = "loop"
      /\ [r EXCEPT !.pc = "loop"].calls = run[a].calls
      /\ [r EXCEPT !.pc = "loop"].iterations = run[a].iterations
  BY <1>1 DEF Threads, Places, Pendings
<1>3. ThreadOK(a, [r EXCEPT !.pc = "loop"])
  BY <1>1, <1>2 DEF ThreadOK
<1>4. Moves(a, "PROCESSING_TOOL_RESULT", r, "loop") /\ "loop" \in Places
  BY DEF ToolAnswered, Places
<1> HIDE DEF r
<1> QED BY <1>2, <1>3, <1>4, MovesForm

(* Every step of a run that neither counts nor executes a tool. *)
LEMMA QuietSteps ==
  ASSUME AgentInv, NEW a \in Agents,
         \/ StartRun(a) \/ InputReceived(a) \/ LoopExit(a) \/ LoopCancelled(a)
         \/ LoopTimedOut(a) \/ LoopTurn(a) \/ PlanTool(a) \/ PlanProposal(a)
         \/ PlanNothing(a) \/ PlanFails(a) \/ RefuseTool(a) \/ NoToolRequested(a)
         \/ RequestTool(a) \/ ResolveTool(a) \/ ProcessToolResult(a)
         \/ PrepareProposal(a) \/ ProposalSubmitted(a) \/ Finalize(a)
  PROVE  AgentInv'
<1>0. RunInv /\ AgentTypes /\ run \in [Agents -> Threads] /\ run[a] \in Threads /\ ThreadOK(a, run[a])
  BY DEF AgentInv, RunInv
<1>p. /\ {"none", "received", "loop", "submitted", "resolve", "reserve", "execute", "returned",
          "raised"} \subseteq Places /\ AgentStates \subseteq Places
      /\ "reserve" \notin AgentStates /\ "execute" \notin AgentStates
  BY StatesOfMachine DEF Places
<1>c. Config[a].calls \in Nat /\ Config[a].iterations \in Nat
  BY ConfigAssumption
<1>s. ASSUME run[a].pc # "execute", UNCHANGED registryVars, AgentTypes',
             \E x : ThreadOK(a, x) /\ x.pc # "execute" /\ run' = [run EXCEPT ![a] = x]
      PROVE  AgentInv'
  BY <1>s, ThreadGoes DEF registryVars
<1>m. ASSUME run[a].pc # "execute", UNCHANGED registryVars,
             NEW to, NEW p \in {"received", "loop", "submitted", "resolve", "returned", "raised"},
             Moves(a, to, run[a], p)
      PROVE  AgentInv'
  <2>1. ThreadOK(a, [run[a] EXCEPT !.pc = p]) /\ [run[a] EXCEPT !.pc = p].pc = p /\ p \in Places
    BY <1>0, <1>p, PcMoves
  <2>2. AgentTypes' /\ \E x : ThreadOK(a, x) /\ x.pc \in {p, "raised"} /\ run' = [run EXCEPT ![a] = x]
    BY <1>0, <1>m, <2>1, MovesForm
  <2> QED BY <1>m, <1>s, <2>2
<1>r. ASSUME run[a].pc # "execute", UNCHANGED registryVars, Raise(a)
      PROVE  AgentInv'
  <2>1. AgentTypes' /\ \E x : ThreadOK(a, x) /\ x.pc = "raised" /\ run' = [run EXCEPT ![a] = x]
    BY <1>0, <1>r, RaiseForm
  <2> QED BY <1>r, <1>s, <2>1
<1>1. CASE StartRun(a) \/ InputReceived(a) \/ LoopCancelled(a) \/ LoopTimedOut(a)
  BY <1>1, <1>m DEF StartRun, InputReceived, LoopCancelled, LoopTimedOut, At
<1>2. CASE PlanNothing(a) \/ NoToolRequested(a) \/ ProcessToolResult(a) \/ ProposalSubmitted(a)
           \/ Finalize(a)
  BY <1>2, <1>m, <1>p, StatesOfMachine DEF PlanNothing, NoToolRequested, ProcessToolResult, ProposalSubmitted, Finalize, At
<1>3. CASE PlanFails(a) \/ RefuseTool(a)
  BY <1>3, <1>r DEF PlanFails, RefuseTool, At
<1>4. CASE PrepareProposal(a)
  <2>1. run[a].pc = "PROPOSAL_READY" /\ UNCHANGED registryVars
    BY <1>4 DEF PrepareProposal, At
  <2>2. Moves(a, "WAITING_FOR_GATEWAY", run[a], "submitted") \/ Raise(a)
    BY <1>4 DEF PrepareProposal
  <2> QED BY <1>m, <1>r, <2>1, <2>2
<1>5. CASE LoopExit(a)
  <2>1. run' = [run EXCEPT ![a] = Thread("returned")] /\ run[a].pc = "loop" /\ UNCHANGED registryVars
        /\ AgentTypes'
    BY <1>0, <1>5 DEF LoopExit, Goto, At, AgentTypes
  <2> QED BY <1>s, <2>1, ThreadIsOK
<1>6. CASE LoopTurn(a)
  <2>0. run[a].pc = "loop" /\ UNCHANGED registryVars
    BY <1>6 DEF LoopTurn, At
  <2>1. CASE run[a].iterations + 1 > Config[a].iterations
    BY <1>6, <1>r, <2>0, <2>1 DEF LoopTurn
  <2>2. CASE ~ (run[a].iterations + 1 > Config[a].iterations)
    <3> DEFINE r == [run[a] EXCEPT !.iterations = @ + 1]
               s == agent[a].state
    <3>1. Goto(a, r, s) /\ agent' = agent /\ s \in AgentStates
      BY <1>0, <1>6, <2>2 DEF LoopTurn, AgentTypes
    <3>2. /\ [r EXCEPT !.pc = s] \in Threads /\ [r EXCEPT !.pc = s].pc = s
          /\ [r EXCEPT !.pc = s].calls = run[a].calls
          /\ [r EXCEPT !.pc = s].iterations = run[a].iterations + 1
      <4>1. r \in Threads /\ r.calls = run[a].calls /\ r.iterations = run[a].iterations + 1
        <5>1. run[a].iterations + 1 \in Nat
          BY <1>0 DEF Threads
        <5> QED BY <1>0, <5>1 DEF Threads
      <4>2. s \in Places
        BY <1>p, <3>1
      <4> HIDE DEF r, s
      <4> QED BY <4>1, <4>2 DEF Threads
    <3>3. run[a].iterations \in Nat
      BY <1>0 DEF Threads
    <3>4. ThreadOK(a, [r EXCEPT !.pc = s])
      BY <1>0, <1>c, <1>p, <2>2, <3>1, <3>2, <3>3 DEF ThreadOK
    <3> HIDE DEF r, s
    <3>5. \E x : ThreadOK(a, x) /\ x.pc = s /\ run' = [run EXCEPT ![a] = x]
      BY <1>0, <1>p, <3>1, <3>2, <3>4, GotoForm
    <3>6. AgentTypes'
      BY <1>0, <3>1 DEF AgentTypes
    <3> QED BY <1>p, <1>s, <2>0, <3>1, <3>5, <3>6
  <2> QED BY <2>1, <2>2
<1>7. CASE PlanTool(a)
  <2>1. PICK call \in Asks[a] :
          Moves(a, "TOOL_REQUESTED", [run[a] EXCEPT !.pending = call], "loop")
    BY <1>7 DEF PlanTool
  <2> DEFINE r == [run[a] EXCEPT !.pending = call]
  <2>2. run[a].pc = "PLANNING" /\ UNCHANGED registryVars
    BY <1>7 DEF PlanTool, At
  <2>3. call \in Pendings
    BY DEF Pendings
  <2>4. /\ [r EXCEPT !.pc = "loop"] \in Threads /\ [r EXCEPT !.pc = "loop"].pc = "loop"
        /\ [r EXCEPT !.pc = "loop"].calls = run[a].calls
        /\ [r EXCEPT !.pc = "loop"].iterations = run[a].iterations
    BY <1>0, <1>p, <2>3 DEF Threads
  <2>5. ThreadOK(a, [r EXCEPT !.pc = "loop"])
    BY <1>0, <2>4 DEF ThreadOK
  <2> HIDE DEF r
  <2>6. AgentTypes' /\ \E x : ThreadOK(a, x) /\ x.pc \in {"loop", "raised"} /\ run' = [run EXCEPT ![a] = x]
    BY <1>0, <1>p, <2>1, <2>4, <2>5, MovesForm DEF r
  <2> QED BY <1>s, <2>2, <2>6
<1>8. CASE PlanProposal(a)
  <2>0. run[a].pc = "PLANNING" /\ UNCHANGED registryVars
    BY <1>8 DEF PlanProposal, At
  <2>1. CASE Raise(a)
    BY <1>r, <2>0, <2>1
  <2>2. CASE ~ Raise(a)
    <3>1. PICK q \in Proposals[a] :
            /\ agent' = [agent EXCEPT ![a] = [state |-> "PROPOSAL_READY", payload |-> q]]
            /\ Goto(a, run[a], "loop")
      BY <1>8, <2>2 DEF PlanProposal
    <3>2. q \in Payloads
      BY DEF Payloads
    <3>3. AgentTypes'
      BY <1>0, <3>1, <3>2, StatesOfMachine DEF AgentTypes
    <3>4. ThreadOK(a, [run[a] EXCEPT !.pc = "loop"]) /\ [run[a] EXCEPT !.pc = "loop"].pc = "loop"
      BY <1>0, <1>p, PcMoves
    <3>5. \E x : ThreadOK(a, x) /\ x.pc = "loop" /\ run' = [run EXCEPT ![a] = x]
      BY <1>0, <1>p, <3>1, <3>4, GotoForm
    <3> QED BY <1>s, <2>0, <3>3, <3>5
  <2> QED BY <2>1, <2>2
<1>9. CASE RequestTool(a)
  <2> DEFINE l == Remember(run[a].last, run[a].pending)
             r == [run[a] EXCEPT !.calls = @ + 1, !.last = Remember(@, run[a].pending)]
  <2>0. run[a].pc = "TOOL_REQUESTED" /\ UNCHANGED registryVars /\ ~ (run[a].calls >= Config[a].calls)
        /\ Moves(a, "WAITING_FOR_TOOL", r, "resolve")
    BY <1>9 DEF RequestTool, At, ToolLimitReached
  <2>1. l \in Seq(Pendings)
    <3>1. run[a].last \in Seq(Pendings) /\ run[a].pending \in Pendings
      BY <1>0 DEF Threads
    <3>2. CASE run[a].last = <<>>
      BY <3>1, <3>2 DEF Remember
    <3>3. CASE run[a].last # <<>>
      <4>1. run[a].last[Len(run[a].last)] \in Pendings
        BY <3>1, <3>3
      <4>2. l = <<run[a].last[Len(run[a].last)], run[a].pending>>
        BY <3>3 DEF Remember
      <4> QED BY <3>1, <4>1, <4>2
    <3> QED BY <3>2, <3>3
  <2>2. r = [run[a] EXCEPT !.calls = run[a].calls + 1, !.last = l] /\ run[a].calls \in Nat
    BY <1>0 DEF Threads
  <2> HIDE DEF l, r
  <2>3. /\ [r EXCEPT !.pc = "resolve"] \in Threads /\ [r EXCEPT !.pc = "resolve"].pc = "resolve"
        /\ [r EXCEPT !.pc = "resolve"].calls = run[a].calls + 1
        /\ [r EXCEPT !.pc = "resolve"].iterations = run[a].iterations
    <3>1. r \in Threads /\ r.calls = run[a].calls + 1 /\ r.iterations = run[a].iterations
      <4>1. run[a].calls + 1 \in Nat
        BY <2>2
      <4> QED BY <1>0, <2>1, <2>2, <4>1 DEF Threads
    <3> QED BY <1>p, <3>1 DEF Threads
  <2>4. ThreadOK(a, [r EXCEPT !.pc = "resolve"])
    BY <1>0, <1>c, <2>0, <2>2, <2>3 DEF ThreadOK
  <2>5. AgentTypes' /\ \E x : ThreadOK(a, x) /\ x.pc \in {"resolve", "raised"} /\ run' = [run EXCEPT ![a] = x]
    BY <1>0, <1>p, <2>0, <2>3, <2>4, MovesForm
  <2> QED BY <1>s, <2>0, <2>5
<1>10. CASE ResolveTool(a)
  <2> DEFINE n == ToolName(run[a].pending)
  <2>0. run[a].pc = "resolve" /\ UNCHANGED registryVars
    BY <1>10 DEF ResolveTool, At
  <2>1. CASE Resolved(n) /\ Permitted(n)
    <3>1. Goto(a, run[a], "reserve") /\ agent' = agent
      BY <1>10, <2>1 DEF ResolveTool
    <3>2. n \in Tools
      BY <1>0, <2>1 DEF Resolved, RunInv
    <3>3. /\ [run[a] EXCEPT !.pc = "reserve"] \in Threads
          /\ [run[a] EXCEPT !.pc = "reserve"].pc = "reserve"
          /\ [run[a] EXCEPT !.pc = "reserve"].pending = run[a].pending
          /\ [run[a] EXCEPT !.pc = "reserve"].calls = run[a].calls
          /\ [run[a] EXCEPT !.pc = "reserve"].iterations = run[a].iterations
      BY <1>0, <1>p DEF Threads
    <3>4. ThreadOK(a, [run[a] EXCEPT !.pc = "reserve"])
      BY <1>0, <3>2, <3>3 DEF ThreadOK
    <3>5. \E x : ThreadOK(a, x) /\ x.pc = "reserve" /\ run' = [run EXCEPT ![a] = x]
      BY <1>0, <1>p, <3>1, <3>3, <3>4, GotoForm
    <3>6. AgentTypes'
      BY <1>0, <3>1 DEF AgentTypes
    <3> QED BY <1>s, <2>0, <3>5, <3>6
  <2>2. CASE ~ (Resolved(n) /\ Permitted(n))
    <3>1. ToolAnswered(a)
      BY <1>10, <2>2 DEF ResolveTool
    <3> QED BY <1>0, <1>s, <2>0, <3>1, AnsweredForm
  <2> QED BY <2>1, <2>2
<1> QED BY <1>1, <1>2, <1>3, <1>4, <1>5, <1>6, <1>7, <1>8, <1>9, <1>10

(* One more allowance per reset. *)
LEMMA OneMoreAllowance == ASSUME NEW m \in Nat, NEW n \in Nat PROVE m * (n + 1) = m * n + m
OBVIOUS

(* The counter is raised for the agent that will execute the tool. *)
LEMMA ReserveCounts ==
  ASSUME AgentInv, NEW a \in Agents, ReserveInvocation(a)
  PROVE  AgentInv'
<1>0. RunInv /\ AgentTypes /\ run \in [Agents -> Threads] /\ run[a] \in Threads /\ ThreadOK(a, run[a])
  BY DEF AgentInv, RunInv
<1>1. run[a].pc = "reserve" /\ UNCHANGED <<workload, names, resets, executed>>
  BY DEF ReserveInvocation, At
<1>2. PICK key \in Sessions \X Tools : key = InvocationKey(a)
  BY <1>0, <1>1 DEF ThreadOK, InvocationKey, Sessions
<1>3. /\ counts \in [Sessions \X Tools -> Nat] /\ executed \in [Sessions \X Tools -> Nat]
      /\ resets \in Nat /\ MaxInvocations \in Nat /\ MaxInvocations * resets \in Nat
      /\ \A k \in Sessions \X Tools :
           /\ counts[k] <= MaxInvocations
           /\ executed[k] + Cardinality(Executing(k)) <= MaxInvocations * resets + counts[k]
  BY ConfigAssumption DEF AgentInv, CountInv
<1>4. CASE ~ HasInvocation(key)
  <2>1. ToolAnswered(a) /\ UNCHANGED counts
    BY <1>2, <1>4 DEF ReserveInvocation
  <2>2. AgentTypes' /\ \E x : ThreadOK(a, x) /\ x.pc \in {"loop", "raised"} /\ run' = [run EXCEPT ![a] = x]
    BY <1>0, <2>1, AnsweredForm
  <2> QED BY <1>1, <2>1, <2>2, ThreadGoes
<1>5. CASE HasInvocation(key)
  <2>1. counts' = [counts EXCEPT ![key] = @ + 1] /\ counts[key] < MaxInvocations
    BY <1>2, <1>5 DEF ReserveInvocation, HasInvocation
  <2>2. /\ counts' \in [Sessions \X Tools -> Nat] /\ counts'[key] = counts[key] + 1
        /\ \A k \in Sessions \X Tools : k # key => counts'[k] = counts[k]
    BY <1>2, <1>3, <2>1
  <2>3. \A k \in Sessions \X Tools : counts'[k] <= MaxInvocations /\ counts'[k] \in Nat /\ counts[k] \in Nat
    BY <1>2, <1>3, <2>1, <2>2
  <2>4. CASE ArgumentsAccepted(run[a].pending)
    <3>1. Goto(a, run[a], "execute") /\ agent' = agent
      BY <1>2, <1>5, <2>4 DEF ReserveInvocation
    <3>2. run' = [run EXCEPT ![a] = [run[a] EXCEPT !.pc = "execute"]]
      BY <3>1 DEF Goto
    <3>3. /\ [run[a] EXCEPT !.pc = "execute"] \in Threads
          /\ [run[a] EXCEPT !.pc = "execute"].pc = "execute"
          /\ [run[a] EXCEPT !.pc = "execute"].pending = run[a].pending
          /\ [run[a] EXCEPT !.pc = "execute"].calls = run[a].calls
          /\ [run[a] EXCEPT !.pc = "execute"].iterations = run[a].iterations
      BY <1>0 DEF Threads, Places
    <3>4. ThreadOK(a, [run[a] EXCEPT !.pc = "execute"])
      BY <1>0, <1>1, <3>3 DEF ThreadOK
    <3>5. /\ run' \in [Agents -> Threads] /\ run'[a].pc = "execute"
          /\ run'[a].pending = run[a].pending /\ \A b \in Agents \ {a} : run'[b] = run[b]
      BY <1>0, <3>2, <3>3
    <3>6. \A b \in Agents : ThreadOK(b, run'[b])
      BY <1>0, <3>2, <3>4 DEF RunInv
    <3>7. RunInv'
      BY <1>0, <1>1, <3>1, <3>5, <3>6 DEF RunInv, AgentTypes, ThreadOK
    <3>8. Executing(key)' = Executing(key) \cup {a} /\ a \notin Executing(key)
      BY <1>1, <1>2, <3>5 DEF Executing, InvocationKey
    <3>9. \A k : k # key => Executing(k)' = Executing(k)
      BY <1>1, <1>2, <3>5 DEF Executing, InvocationKey
    <3>10. Cardinality(Executing(key)') = Cardinality(Executing(key)) + 1
      BY <3>8, ExecutingFinite, FS_AddElement
    <3>11. ASSUME NEW k \in Sessions \X Tools
           PROVE  executed[k] + Cardinality(Executing(k)') <= MaxInvocations * resets + counts'[k]
      <4>1. Cardinality(Executing(k)) \in Nat /\ executed[k] \in Nat
        BY <1>3, ExecutingFinite
      <4>2. executed[k] + Cardinality(Executing(k)) <= MaxInvocations * resets + counts[k]
        BY <1>3
      <4>3. CASE k = key
        BY <1>3, <2>2, <2>3, <3>10, <4>1, <4>2, <4>3
      <4>4. CASE k # key
        BY <1>3, <2>2, <2>3, <3>9, <4>1, <4>2, <4>4
      <4> QED BY <4>3, <4>4
    <3>12. CountInv'
      BY <1>1, <1>3, <2>2, <2>3, <3>11 DEF CountInv
    <3> QED BY <3>7, <3>12 DEF AgentInv
  <2>5. CASE ~ ArgumentsAccepted(run[a].pending)
    <3>1. ToolAnswered(a)
      BY <1>2, <1>5, <2>5 DEF ReserveInvocation
    <3>2. AgentTypes' /\ \E x : ThreadOK(a, x) /\ x.pc \in {"loop", "raised"} /\ run' = [run EXCEPT ![a] = x]
      BY <1>0, <3>1, AnsweredForm
    <3>3. PICK x : ThreadOK(a, x) /\ x.pc \in {"loop", "raised"} /\ run' = [run EXCEPT ![a] = x]
      BY <3>2
    <3>4. x \in Threads
      BY <3>3 DEF ThreadOK
    <3>5. RunInv'
      BY <1>0, <1>1, <3>2, <3>3, <3>4 DEF RunInv, ThreadOK
    <3>6. \A k : Executing(k)' = Executing(k)
      BY <1>0, <1>1, <3>3, <3>4 DEF Executing, InvocationKey
    <3>7. ASSUME NEW k \in Sessions \X Tools
          PROVE  executed[k] + Cardinality(Executing(k)') <= MaxInvocations * resets + counts'[k]
      <4>1. Cardinality(Executing(k)) \in Nat /\ executed[k] \in Nat
        BY <1>3, ExecutingFinite
      <4>2. executed[k] + Cardinality(Executing(k)) <= MaxInvocations * resets + counts[k]
        BY <1>3
      <4>3. counts[k] <= counts'[k]
        BY <1>3, <2>2, <2>3
      <4> QED BY <1>3, <2>3, <3>6, <4>1, <4>2, <4>3
    <3>8. CountInv'
      BY <1>1, <1>3, <2>2, <2>3, <3>7 DEF CountInv
    <3> QED BY <3>5, <3>8 DEF AgentInv
  <2> QED BY <2>4, <2>5
<1> QED BY <1>4, <1>5

(* The tool is executed, and its agent no longer about to execute it. *)
LEMMA ExecuteCounts ==
  ASSUME AgentInv, NEW a \in Agents, ExecuteTool(a)
  PROVE  AgentInv'
<1>0. RunInv /\ AgentTypes /\ run \in [Agents -> Threads] /\ run[a] \in Threads /\ ThreadOK(a, run[a])
  BY DEF AgentInv, RunInv
<1>1. /\ run[a].pc = "execute" /\ UNCHANGED <<workload, names, resets, counts>>
      /\ executed' = [executed EXCEPT ![InvocationKey(a)] = @ + 1] /\ ToolAnswered(a)
  BY DEF ExecuteTool, At
<1>2. PICK key \in Sessions \X Tools : key = InvocationKey(a)
  BY <1>0, <1>1 DEF ThreadOK, InvocationKey, Sessions
<1>3. /\ counts \in [Sessions \X Tools -> Nat] /\ executed \in [Sessions \X Tools -> Nat]
      /\ resets \in Nat /\ MaxInvocations * resets \in Nat
      /\ \A k \in Sessions \X Tools :
           /\ counts[k] <= MaxInvocations
           /\ executed[k] + Cardinality(Executing(k)) <= MaxInvocations * resets + counts[k]
  BY ConfigAssumption DEF AgentInv, CountInv
<1>4. AgentTypes' /\ \E x : ThreadOK(a, x) /\ x.pc \in {"loop", "raised"} /\ run' = [run EXCEPT ![a] = x]
  BY <1>0, <1>1, AnsweredForm
<1>5. PICK x : ThreadOK(a, x) /\ x.pc \in {"loop", "raised"} /\ run' = [run EXCEPT ![a] = x]
  BY <1>4
<1>6. x \in Threads
  BY <1>5 DEF ThreadOK
<1>7. RunInv'
  BY <1>0, <1>1, <1>4, <1>5, <1>6 DEF RunInv, ThreadOK
<1>8. Executing(key)' = Executing(key) \ {a} /\ a \in Executing(key)
  BY <1>0, <1>1, <1>2, <1>5, <1>6 DEF Executing, InvocationKey
<1>9. \A k : k # key => Executing(k)' = Executing(k)
  BY <1>0, <1>1, <1>2, <1>5, <1>6 DEF Executing, InvocationKey
<1>10. Cardinality(Executing(key)') = Cardinality(Executing(key)) - 1
  BY <1>8, ExecutingFinite, FS_RemoveElement
<1>11. /\ executed' \in [Sessions \X Tools -> Nat] /\ executed'[key] = executed[key] + 1
       /\ \A k \in Sessions \X Tools : k # key => executed'[k] = executed[k]
  BY <1>1, <1>2, <1>3
<1>12. ASSUME NEW k \in Sessions \X Tools
       PROVE  executed'[k] + Cardinality(Executing(k)') <= MaxInvocations * resets + counts[k]
  <2>1. Cardinality(Executing(k)) \in Nat /\ executed[k] \in Nat /\ counts[k] \in Nat
    BY <1>3, ExecutingFinite
  <2>2. executed[k] + Cardinality(Executing(k)) <= MaxInvocations * resets + counts[k]
    BY <1>3
  <2>3. CASE k = key
    BY <1>3, <1>10, <1>11, <2>1, <2>2, <2>3
  <2>4. CASE k # key
    BY <1>3, <1>9, <1>11, <2>1, <2>2, <2>4
  <2> QED BY <2>3, <2>4
<1>13. CountInv'
  BY <1>1, <1>3, <1>11, <1>12 DEF CountInv
<1> QED BY <1>7, <1>13 DEF AgentInv

(* reset_counts grants every session a new allowance. *)
LEMMA ResetCounted ==
  ASSUME AgentInv, ResetCounts PROVE AgentInv'
<1>0. /\ counts' = [k \in Sessions \X Tools |-> 0] /\ resets' = resets + 1
      /\ UNCHANGED <<workload, agent, run, names, executed>>
  BY DEF ResetCounts
<1>1. RunInv'
  BY <1>0 DEF AgentInv, RunInv, AgentTypes, ThreadOK
<1>2. \A k : Executing(k)' = Executing(k)
  BY <1>0 DEF Executing, InvocationKey
<1>3. /\ counts \in [Sessions \X Tools -> Nat] /\ executed \in [Sessions \X Tools -> Nat]
      /\ resets \in Nat /\ MaxInvocations \in Nat /\ MaxInvocations * resets \in Nat
      /\ MaxInvocations * (resets + 1) = MaxInvocations * resets + MaxInvocations
  BY ConfigAssumption, OneMoreAllowance DEF AgentInv, CountInv
<1>4. ASSUME NEW k \in Sessions \X Tools
      PROVE  executed[k] + Cardinality(Executing(k)) <= MaxInvocations * (resets + 1) + 0
  <2>1. Cardinality(Executing(k)) \in Nat /\ executed[k] \in Nat /\ counts[k] \in Nat
    BY <1>3, ExecutingFinite
  <2>2. /\ executed[k] + Cardinality(Executing(k)) <= MaxInvocations * resets + counts[k]
        /\ counts[k] <= MaxInvocations
    BY DEF AgentInv, CountInv
  <2> QED BY <1>3, <2>1, <2>2
<1>5. CountInv'
  BY <1>0, <1>2, <1>3, <1>4 DEF CountInv
<1> QED BY <1>1, <1>5 DEF AgentInv

(* Every step, of a run, a flow, the registry or the hand-over. *)
LEMMA AgentNext == AgentInv /\ [Next]_vars => AgentInv'
<1> SUFFICES ASSUME AgentInv, [Next]_vars PROVE AgentInv'
  OBVIOUS
<1>0. AgentTypes /\ names \subseteq Tools /\ workload \in Workloads /\ workload.shops \subseteq Agents
  BY ConfigAssumption DEF AgentInv, RunInv
<1>1. ASSUME RuntimeNext PROVE AgentInv'
  <2>1. ASSUME NEW a \in Agents, Cancel(a) PROVE AgentInv'
    BY <1>0, <2>1, ThreadsRest DEF Cancel, AgentTypes
  <2>2. ASSUME NEW a \in Agents, StartRun(a) \/ RunStep(a) \/ LoopTimedOut(a) PROVE AgentInv'
    BY <2>2, QuietSteps, ReserveCounts, ExecuteCounts DEF RunStep
  <2>3. ASSUME NEW t \in Tools, Register(t) \/ \E v \in BOOLEAN : Unregister(t, v) PROVE AgentInv'
    BY <1>0, <2>3, ThreadsRest DEF Register, Unregister, AgentTypes
  <2> QED BY <1>1, <2>1, <2>2, <2>3, ResetCounted DEF RuntimeNext
<1>2. ASSUME NEW a \in Agents, HandOver(a) PROVE AgentInv'
  BY <1>0, <1>2, ThreadsRest DEF HandOver, runtimeVars, AgentTypes
<1>3. ASSUME NEW a \in Agents, FlowMoves(a) PROVE AgentInv'
  <2>1. AgentTypes'
    <3>1. CASE Legal(agent[a].state, flow[a].to)
      <4>1. agent' = [agent EXCEPT ![a].state = flow[a].to] /\ flow[a].to \in AgentStates
        BY <1>0, <1>3, <3>1, LegalStaysInMachine DEF FlowMoves, FlowTransition, AgentTypes
      <4> QED BY <1>0, <4>1 DEF AgentTypes
    <3>2. CASE ~ Legal(agent[a].state, flow[a].to)
      BY <1>0, <1>3, <3>2 DEF FlowMoves, FlowTransition, AgentTypes
    <3> QED BY <3>1, <3>2
  <2> QED BY <1>0, <1>3, <2>1, ThreadsRest DEF FlowMoves, registryVars
<1>4. ASSUME NEW a \in Agents, FlowCreates(a) \/ FlowWaits(a) PROVE AgentInv'
  BY <1>0, <1>4, ThreadsRest DEF FlowCreates, FlowWaits, runtimeVars, AgentTypes
<1>5. ASSUME NEW a \in Agents, NEW terms \in Terms, FlowOpens(a, terms) PROVE AgentInv'
  BY <1>0, <1>5, ThreadsRest DEF FlowOpens, runtimeVars, AgentTypes
<1>6. ASSUME NEW a \in Agents, NEW terms \in Terms, NEW c \in Issued, NEW who \in Approvers,
             NEW choice \in {"approve", "reject"}, FlowDecides(a, terms, c, who, choice)
      PROVE  AgentInv'
  BY <1>0, <1>6, ThreadsRest DEF FlowDecides, runtimeVars, AgentTypes
<1>7. CASE Tick
  BY <1>0, <1>7, ThreadsRest DEF Tick, runtimeVars, AgentTypes
<1>8. CASE UNCHANGED vars
  BY <1>0, <1>8, ThreadsRest DEF vars, runtimeVars, AgentTypes
<1> QED BY <1>0, <1>1, <1>2, <1>3, <1>4, <1>5, <1>6, <1>7, <1>8 DEF Next, FlowStep

(* The inductive invariant of the runs and the registry. *)
THEOREM AgentInvariance == Spec => []AgentInv
<1>1. Init => AgentInv
  <2> SUFFICES ASSUME Init PROVE AgentInv
    OBVIOUS
  <2>0. /\ workload \in Workloads /\ agent = [a \in Agents |-> FreshState]
        /\ run = [a \in Agents |-> Thread("none")] /\ names = Tools
        /\ counts = [k \in Sessions \X Tools |-> 0] /\ resets = 0
        /\ executed = [k \in Sessions \X Tools |-> 0]
    BY DEF Init, RuntimeInit
  <2>1. AgentTypes
    BY <2>0, StatesOfMachine DEF AgentTypes, FreshState, Payloads
  <2>2. \A a \in Agents : ThreadOK(a, run[a]) /\ run[a].pc = "none"
    BY <2>0, ThreadIsOK
  <2>3. run \in [Agents -> Threads]
    BY <2>0, ThreadIsOK DEF ThreadOK
  <2>4. \A k : Executing(k) = {}
    BY <2>2 DEF Executing
  <2>5. CountInv
    <3>1. Cardinality({}) = 0 /\ MaxInvocations \in Nat /\ MaxInvocations * 0 = 0
      BY ConfigAssumption, FS_EmptySet
    <3>2. ASSUME NEW k \in Sessions \X Tools
          PROVE  /\ counts[k] <= MaxInvocations
                 /\ executed[k] + Cardinality(Executing(k)) <= MaxInvocations * resets + counts[k]
      <4>1. counts[k] = 0 /\ executed[k] = 0 /\ Cardinality(Executing(k)) = 0 /\ MaxInvocations * resets = 0
        BY <2>0, <2>4, <3>1
      <4> QED BY <3>1, <4>1
    <3> QED BY <2>0, <3>2 DEF CountInv
  <2> QED BY <2>0, <2>1, <2>2, <2>3, <2>5 DEF AgentInv, RunInv
<1> QED BY <1>1, AgentNext, PTL DEF Spec

(* Runs that share a session execute a tool at most max_invocations times  *)
(* per reset, and no run exceeds its own limits, for any agents, tools and *)
(* configurations.                                                         *)
THEOREM ToolUseBounded == Spec => []ToolUseIsBounded
<1>1. AgentInv => ToolUseIsBounded
  <2> SUFFICES ASSUME AgentInv PROVE ToolUseIsBounded
    OBVIOUS
  <2>1. ASSUME NEW k \in Sessions \X Tools PROVE executed[k] <= MaxInvocations * (1 + resets)
    <3>1. /\ Cardinality(Executing(k)) \in Nat /\ executed[k] \in Nat /\ counts[k] \in Nat
          /\ resets \in Nat /\ MaxInvocations \in Nat /\ MaxInvocations * resets \in Nat
      BY ExecutingFinite, ConfigAssumption DEF AgentInv, CountInv
    <3>2. /\ executed[k] + Cardinality(Executing(k)) <= MaxInvocations * resets + counts[k]
          /\ counts[k] <= MaxInvocations
      BY DEF AgentInv, CountInv
    <3>3. MaxInvocations * (1 + resets) = MaxInvocations * resets + MaxInvocations
      BY <3>1, OneMoreAllowance
    <3> QED BY <3>1, <3>2, <3>3
  <2>2. \A a \in Agents : run[a].calls <= Config[a].calls /\ run[a].iterations <= Config[a].iterations
    BY DEF AgentInv, RunInv, ThreadOK
  <2> QED BY <2>1, <2>2 DEF ToolUseIsBounded
<1> QED BY <1>1, AgentInvariance, PTL

---------------------------------------------------------------------------------
Challenge ==
  [session : Sessions, party : {PartyOf[a] : a \in Agents}, terms : Terms, expires : Nat,
   status : {"PENDING", "APPROVED", "REJECTED", "EXPIRED"}]

Flows ==
  {NoFlow} \cup [pc : {"open"}, terms : Terms]
    \cup [pc : {"move"}, to : {"WAITING_FOR_GATEWAY", "PROPOSAL_READY"}]

Decision ==
  {Undecided}
    \cup [by : Approvers, terms : Terms, at : Nat, status : {"APPROVED", "REJECTED"}]

(* Challenges are numbered as they are created, and none is removed. *)
ChallengeInv ==
  /\ challenges \in [Ids -> Challenge \cup {Absent}]
  /\ decided \in [Ids -> Decision]
  /\ flow \in [Agents -> Flows]
  /\ now \in Nat
  /\ \E n \in 0..MaxChallenges : Issued = 1..n

(* A challenge is never one that is missing. *)
LEMMA ChallengeIsIssued == ASSUME NEW ch \in Challenge PROVE ch # Absent /\ ch.status # "none"
BY DEF Challenge, Absent

(* get_challenge changes nothing but a pending status. *)
LEMMA SeenChallenge ==
  ASSUME NEW ch \in Challenge
  PROVE  /\ Seen(ch) \in Challenge
         /\ ch.status # "PENDING" => Seen(ch) = ch
         /\ Seen(ch).status = "PENDING" => Seen(ch) = ch /\ ~ Expired(ch)
         /\ Seen(ch).terms = ch.terms
<1>1. CASE ch.status = "PENDING" /\ Expired(ch)
  <2>1. Seen(ch) = [ch EXCEPT !.status = "EXPIRED"]
    BY <1>1 DEF Seen
  <2>2. [ch EXCEPT !.status = "EXPIRED"] \in Challenge
        /\ [ch EXCEPT !.status = "EXPIRED"].terms = ch.terms
        /\ [ch EXCEPT !.status = "EXPIRED"].status = "EXPIRED"
    BY DEF Challenge
  <2> QED BY <1>1, <2>1, <2>2
<1>2. CASE ~ (ch.status = "PENDING" /\ Expired(ch))
  BY <1>2 DEF Seen
<1> QED BY <1>1, <1>2

(* The look-up of a session's challenge keeps every other one. *)
LEMMA LookUpKeeps ==
  ASSUME ChallengeInv, NEW a \in Agents
  PROVE  /\ LookedUp(a) \in [Ids -> Challenge \cup {Absent}]
         /\ \A c \in Ids : LookedUp(a)[c] \in {challenges[c], Seen(challenges[c])}
         /\ \A c \in Ids \ Issued : LookedUp(a)[c] = Absent
         /\ \A c \in Issued : LookedUp(a)[c] \in Challenge
<1>0. challenges \in [Ids -> Challenge \cup {Absent}]
  BY DEF ChallengeInv
<1>1. /\ \A c \in Ids \ Issued : challenges[c] = Absent
      /\ \A c \in Issued : challenges[c] \in Challenge /\ c \in Ids
  BY <1>0 DEF Issued
<1>2. Seen(Absent) = Absent
  BY DEF Seen, Absent
<1>3. \A c \in Ids : LookedUp(a)[c] \in {challenges[c], Seen(challenges[c])}
  BY DEF LookedUp
<1>4. \A c \in Ids \ Issued : LookedUp(a)[c] = Absent
  BY <1>1, <1>2, <1>3
<1>5. \A c \in Issued : LookedUp(a)[c] \in Challenge
  BY <1>1, <1>3, SeenChallenge
<1>6. LookedUp(a) = [c \in Ids |-> LookedUp(a)[c]]
  BY DEF LookedUp
<1> QED BY <1>3, <1>4, <1>5, <1>6

(* A step that keeps the issued challenges issued, and the missing ones    *)
(* missing, keeps their numbering.                                         *)
LEMMA NumberingKept ==
  ASSUME ChallengeInv, challenges' \in [Ids -> Challenge \cup {Absent}],
         \A c \in Issued : challenges'[c] \in Challenge,
         \A c \in Ids \ Issued : challenges'[c] = Absent
  PROVE  Issued' = Issued /\ \E n \in 0..MaxChallenges : Issued' = 1..n
<1>1. Issued' = Issued
  BY ChallengeIsIssued DEF Issued, Ids
<1> QED BY <1>1 DEF ChallengeInv

(* A call that decides a challenge, or is refused. *)
LEMMA DecideKeeps ==
  ASSUME ChallengeInv, NEW a \in Agents, NEW terms \in Terms, NEW c \in Issued,
         NEW who \in Approvers, NEW choice \in {"approve", "reject"},
         FlowDecides(a, terms, c, who, choice)
  PROVE  /\ ChallengeInv'
         /\ \A d \in Issued : challenges[d].status # "PENDING" => challenges'[d] = challenges[d]
         /\ \A d \in Issued : decided'[d] # decided[d] =>
              /\ decided'[d].by \in Humans
              /\ decided'[d].at <= challenges[d].expires
              /\ decided'[d].terms = challenges[d].terms
              /\ challenges'[d].status = decided'[d].status
<1> DEFINE looked == LookedUp(a)
           stat == Status(choice)
           verdict == [by |-> who, terms |-> terms, at |-> now, status |-> stat]
<1>0. /\ challenges \in [Ids -> Challenge \cup {Absent}] /\ flow \in [Agents -> Flows] /\ now \in Nat
      /\ c \in Ids /\ challenges[c] \in Challenge /\ UNCHANGED now
      /\ \A d \in Issued : d \in Ids /\ challenges[d] \in Challenge
  BY DEF ChallengeInv, Issued, FlowDecides
<1>1. /\ looked \in [Ids -> Challenge \cup {Absent}]
      /\ \A d \in Ids : looked[d] \in {challenges[d], Seen(challenges[d])}
      /\ \A d \in Ids \ Issued : looked[d] = Absent
      /\ \A d \in Issued : looked[d] \in Challenge
  BY LookUpKeeps
<1>2. stat \in {"APPROVED", "REJECTED"}
  BY DEF Status
<1>3. \A d \in Issued : challenges[d].status # "PENDING" => looked[d] = challenges[d]
  BY <1>0, <1>1, SeenChallenge
<1> HIDE DEF looked, stat
<1>4. CASE Resolvable(c, a, terms, who)
  <2>1. /\ challenges' = [looked EXCEPT ![c].status = stat]
        /\ decided' = [decided EXCEPT ![c] = verdict]
        /\ flow' = [flow EXCEPT ![a] =
               IF choice = "approve" THEN [pc |-> "move", to |-> "PROPOSAL_READY"] ELSE NoFlow]
    BY <1>4 DEF FlowDecides, looked, stat
  <2>2. /\ who \in Humans /\ challenges[c].terms = terms
        /\ challenges[c].status = "PENDING" /\ ~ Expired(challenges[c])
    BY <1>0, <1>4, SeenChallenge DEF Resolvable, IsHuman, Bound, Active
  <2>3. looked[c] \in Challenge /\ [looked[c] EXCEPT !.status = stat] \in Challenge
        /\ [looked[c] EXCEPT !.status = stat].status = stat
    BY <1>1, <1>2 DEF Challenge
  <2>4. /\ challenges' \in [Ids -> Challenge \cup {Absent}]
        /\ challenges'[c] = [looked[c] EXCEPT !.status = stat]
        /\ \A d \in Ids \ {c} : challenges'[d] = looked[d]
    BY <1>0, <1>1, <2>1, <2>3
  <2>5. /\ \A d \in Issued : challenges'[d] \in Challenge
        /\ \A d \in Ids \ Issued : challenges'[d] = Absent
    BY <1>0, <1>1, <2>3, <2>4
  <2>6. flow' \in [Agents -> Flows]
    BY <1>0, <2>1 DEF Flows
  <2>7. verdict \in Decision
    BY <1>0, <1>2 DEF Decision
  <2>8. ChallengeInv'
    <3>1. \E n \in 0..MaxChallenges : Issued' = 1..n
      BY <2>4, <2>5, NumberingKept
    <3> HIDE DEF verdict
    <3>2. decided' \in [Ids -> Decision]
      BY <1>0, <2>1, <2>7 DEF ChallengeInv
    <3> QED BY <1>0, <2>4, <2>6, <3>1, <3>2 DEF ChallengeInv
  <2>9. now <= challenges[c].expires
    BY <1>0, <2>2 DEF Expired, Challenge
  <2>10. \A d \in Issued : challenges[d].status # "PENDING" => challenges'[d] = challenges[d]
    BY <1>0, <1>3, <2>2, <2>4
  <2>11. decided'[c] = verdict /\ \A d \in Ids \ {c} : decided'[d] = decided[d]
    BY <1>0, <2>1 DEF ChallengeInv
  <2>12. verdict.by = who /\ verdict.at = now /\ verdict.terms = terms /\ verdict.status = stat
    OBVIOUS
  <2> HIDE DEF verdict
  <2> QED BY <1>0, <2>2, <2>3, <2>4, <2>8, <2>9, <2>10, <2>11, <2>12
<1>5. CASE ~ Resolvable(c, a, terms, who)
  <2>1. challenges' = [looked EXCEPT ![c] = Seen(@)] /\ UNCHANGED <<flow, decided>>
    BY <1>5 DEF FlowDecides, looked
  <2>2. looked[c] \in Challenge /\ Seen(looked[c]) \in Challenge
        /\ (looked[c].status # "PENDING" => Seen(looked[c]) = looked[c])
    BY <1>1, SeenChallenge
  <2>3. /\ challenges' \in [Ids -> Challenge \cup {Absent}]
        /\ challenges'[c] = Seen(looked[c])
        /\ \A d \in Ids \ {c} : challenges'[d] = looked[d]
    BY <1>0, <1>1, <2>1, <2>2
  <2>4. /\ \A d \in Issued : challenges'[d] \in Challenge
        /\ \A d \in Ids \ Issued : challenges'[d] = Absent
    BY <1>0, <1>1, <2>2, <2>3
  <2>5. ChallengeInv'
    <3>1. \E n \in 0..MaxChallenges : Issued' = 1..n
      BY <2>3, <2>4, NumberingKept
    <3> QED BY <1>0, <2>1, <2>3, <3>1 DEF ChallengeInv
  <2>6. \A d \in Issued : challenges[d].status # "PENDING" => challenges'[d] = challenges[d]
    BY <1>0, <1>3, <2>2, <2>3
  <2> QED BY <2>1, <2>5, <2>6
<1> QED BY <1>4, <1>5

(* A new challenge takes a number that none has. *)
LEMMA CreateKeeps ==
  ASSUME ChallengeInv, NEW a \in Agents, FlowCreates(a)
  PROVE  ChallengeInv' /\ \A d \in Issued : challenges'[d] = challenges[d]
<1> DEFINE new == NewChallenge(a, flow[a].terms)
<1>0. /\ challenges \in [Ids -> Challenge \cup {Absent}] /\ flow \in [Agents -> Flows] /\ now \in Nat
      /\ UNCHANGED <<now, decided>> /\ flow[a].pc = "open"
      /\ flow' = [flow EXCEPT ![a] = [pc |-> "move", to |-> "WAITING_FOR_GATEWAY"]]
      /\ Cardinality(Issued) < MaxChallenges
      /\ challenges' = [challenges EXCEPT ![Cardinality(Issued) + 1] = new]
  BY DEF ChallengeInv, FlowCreates
<1>1. PICK n \in 0..MaxChallenges : Issued = 1..n
  BY DEF ChallengeInv
<1>2. n \in Nat /\ MaxChallenges \in Nat
  BY <1>1, HumansAssumption
<1>3. Cardinality(1..n) = n
  <2>1. Cardinality(1..n) = IF 1 > n THEN 0 ELSE n - 1 + 1
    BY <1>2, FS_Interval
  <2> QED BY <1>2, <2>1
<1>4. Cardinality(Issued) = n
  BY <1>1, <1>3
<1>5. n + 1 \in Ids /\ n + 1 \notin Issued /\ n + 1 \in 0..MaxChallenges /\ Issued \cup {n + 1} = 1..(n + 1)
  BY <1>0, <1>1, <1>2, <1>4 DEF Ids
<1>6. flow[a].terms \in Terms
  <2>1. NoFlow.pc # "open" /\ \A f \in [pc : {"move"}, to : {"WAITING_FOR_GATEWAY", "PROPOSAL_READY"}] : f.pc # "open"
    BY DEF NoFlow
  <2>2. flow[a] \in [pc : {"open"}, terms : Terms]
    BY <1>0, <2>1 DEF Flows
  <2> QED BY <2>2
<1>7. new \in Challenge
  BY <1>0, <1>6, HumansAssumption DEF NewChallenge, Challenge, Sessions
<1> HIDE DEF new
<1>8. /\ challenges' \in [Ids -> Challenge \cup {Absent}] /\ challenges'[n + 1] = new
      /\ \A d \in Ids \ {n + 1} : challenges'[d] = challenges[d]
  BY <1>0, <1>4, <1>5, <1>7
<1>9. Issued' = Issued \cup {n + 1}
  BY <1>5, <1>7, <1>8, ChallengeIsIssued DEF Issued
<1>10. flow' \in [Agents -> Flows]
  BY <1>0 DEF Flows
<1>11. ChallengeInv'
  BY <1>0, <1>5, <1>8, <1>9, <1>10 DEF ChallengeInv
<1>12. \A d \in Issued : challenges'[d] = challenges[d]
  BY <1>5, <1>8 DEF Issued
<1> QED BY <1>11, <1>12

(* What any step does to the challenges and the decisions. *)
LEMMA ChallengeNext ==
  ASSUME ChallengeInv, AgentInv, [Next]_vars
  PROVE  /\ ChallengeInv'
         /\ \A d \in Issued : challenges[d].status # "PENDING" => challenges'[d] = challenges[d]
         /\ \A d \in Issued : decided'[d] # decided[d] =>
              /\ decided'[d].by \in Humans
              /\ decided'[d].at <= challenges[d].expires
              /\ decided'[d].terms = challenges[d].terms
              /\ challenges'[d].status = decided'[d].status
<1> DEFINE Goal == /\ ChallengeInv'
                   /\ \A d \in Issued : challenges[d].status # "PENDING" => challenges'[d] = challenges[d]
                   /\ \A d \in Issued : decided'[d] # decided[d] =>
                        /\ decided'[d].by \in Humans
                        /\ decided'[d].at <= challenges[d].expires
                        /\ decided'[d].terms = challenges[d].terms
                        /\ challenges'[d].status = decided'[d].status
<1> SUFFICES Goal
  OBVIOUS
<1>0. workload.shops \subseteq Agents
  BY ConfigAssumption DEF AgentInv, RunInv
<1>q. ASSUME UNCHANGED <<challenges, decided>>, flow' \in [Agents -> Flows], now' \in Nat PROVE Goal
  <2>1. Issued' = Issued
    BY <1>q DEF Issued
  <2> QED BY <1>q, <2>1 DEF ChallengeInv
<1>t. flow \in [Agents -> Flows] /\ now \in Nat
  BY DEF ChallengeInv
<1>1. CASE UNCHANGED stepUpVars
  BY <1>1, <1>q, <1>t DEF stepUpVars
<1>2. ASSUME NEW a \in Agents, HandOver(a) PROVE Goal
  BY <1>2, <1>q, <1>t DEF HandOver
<1>3. ASSUME NEW a \in Agents, FlowCreates(a) PROVE Goal
  BY <1>3, CreateKeeps DEF FlowCreates
<1>4. ASSUME NEW a \in Agents, FlowMoves(a) PROVE Goal
  BY <1>4, <1>q, <1>t DEF FlowMoves, Flows
<1>5. ASSUME NEW a \in Agents, FlowWaits(a) PROVE Goal
  <2>1. challenges' = LookedUp(a) /\ UNCHANGED <<decided, now>>
    BY <1>5 DEF FlowWaits
  <2>2. /\ LookedUp(a) \in [Ids -> Challenge \cup {Absent}]
        /\ \A c \in Ids : LookedUp(a)[c] \in {challenges[c], Seen(challenges[c])}
        /\ \A c \in Ids \ Issued : LookedUp(a)[c] = Absent
        /\ \A c \in Issued : LookedUp(a)[c] \in Challenge
    BY LookUpKeeps
  <2>3. \E n \in 0..MaxChallenges : Issued' = 1..n
    BY <2>1, <2>2, NumberingKept
  <2>4. flow' \in [Agents -> Flows]
    BY <1>5, <1>t DEF FlowWaits, Flows
  <2>5. ChallengeInv'
    BY <1>t, <2>1, <2>2, <2>3, <2>4 DEF ChallengeInv
  <2>6. \A d \in Issued : d \in Ids /\ challenges[d] \in Challenge
    BY DEF ChallengeInv, Issued
  <2>7. \A d \in Issued : challenges[d].status # "PENDING" => challenges'[d] = challenges[d]
    BY <2>1, <2>2, <2>6, SeenChallenge
  <2> QED BY <2>1, <2>5, <2>7
<1>6. ASSUME NEW a \in Agents, NEW terms \in Terms, FlowOpens(a, terms) PROVE Goal
  BY <1>6, <1>q, <1>t DEF FlowOpens, Flows
<1>7. ASSUME NEW a \in Agents, NEW terms \in Terms, NEW c \in Issued, NEW who \in Approvers,
             NEW choice \in {"approve", "reject"}, FlowDecides(a, terms, c, who, choice)
      PROVE  Goal
  BY <1>7, DecideKeeps
<1>8. CASE Tick
  BY <1>8, <1>q, <1>t DEF Tick
<1>9. CASE UNCHANGED vars
  BY <1>1, <1>9 DEF vars, stepUpVars
<1> HIDE DEF Goal
<1>10. ASSUME NEW a \in workload.shops,
              \/ FlowStep(a) \/ FlowWaits(a)
              \/ \E terms \in Terms :
                   \/ FlowOpens(a, terms)
                   \/ \E c \in Issued, who \in Approvers, choice \in {"approve", "reject"} :
                        FlowDecides(a, terms, c, who, choice)
       PROVE  Goal
  <2>1. a \in Agents
    BY <1>0
  <2>2. CASE FlowStep(a) \/ FlowWaits(a)
    BY <1>3, <1>4, <1>5, <2>1, <2>2 DEF FlowStep
  <2>3. ASSUME NEW terms \in Terms, FlowOpens(a, terms) PROVE Goal
    BY <1>6, <2>1, <2>3
  <2>4. ASSUME NEW terms \in Terms, NEW c \in Issued, NEW who \in Approvers,
               NEW choice \in {"approve", "reject"}, FlowDecides(a, terms, c, who, choice)
        PROVE  Goal
    BY <1>7, <2>1, <2>4
  <2> QED BY <1>10, <2>2, <2>3, <2>4
<1> QED BY <1>1, <1>2, <1>8, <1>9, <1>10 DEF Next

(* A decision on a challenge is taken by a human, in time and for the      *)
(* terms the challenge was made for, and nothing changes it afterwards,    *)
(* whatever flows share the session.                                       *)
THEOREM DecisionsStand == Spec => DecisionStands
<1>1. Init => ChallengeInv
  <2> SUFFICES ASSUME Init PROVE ChallengeInv
    OBVIOUS
  <2>1. Issued = 1..0
    BY DEF Init, Issued
  <2>2. 0 \in 0..MaxChallenges
    BY HumansAssumption
  <2> QED BY <2>1, <2>2 DEF Init, ChallengeInv, Flows, Decision
<1>2. ChallengeInv /\ AgentInv /\ [Next]_vars => ChallengeInv'
  BY ChallengeNext
<1>3. ChallengeInv /\ AgentInv /\ [Next]_vars =>
        [\A c \in Issued :
           /\ challenges[c].status # "PENDING" => challenges'[c] = challenges[c]
           /\ decided'[c] # decided[c] =>
                /\ decided'[c].by \in Humans
                /\ decided'[c].at <= challenges[c].expires
                /\ decided'[c].terms = challenges[c].terms
                /\ challenges'[c].status = decided'[c].status]_vars
  BY ChallengeNext
<1> QED BY <1>1, <1>2, <1>3, AgentInvariance, PTL DEF Spec, DecisionStands
=============================================================================
