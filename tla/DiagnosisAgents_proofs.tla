----------------------- MODULE DiagnosisAgents_proofs -----------------------
(***************************************************************************)
(* Proofs about the agents that Diagnosis composes, for any number of      *)
(* requests and any scenarios: what the custom agent's requests share,     *)
(* what the LangGraph agent and the Ops Graph plan, read and answer, that  *)
(* both are governed, and that both endpoints come to the same verdict.    *)
(***************************************************************************)
EXTENDS Diagnosis_proofs, FiniteSetTheorems

-----------------------------------------------------------------------------
(* The custom agent (ioa_v2_custom). *)

CustomFields == DOMAIN React!initial_state

Counting == {"choose_next_step", "execute_tool", "generate_final_answer"}

\* A reply of /api/diagnose holds the thread while it counts, so the count is its own.
CustomState(c) ==
  /\ DOMAIN graph[c] = CustomFields
  /\ \E S : graph[c].observations \in Seq(S)
  /\ graph[c].at \in {"generate_final_answer", "answered"} => graph[c].observations # <<>>
  /\ c \notin Streams =>
       /\ graph[c].at \in Counting => holder = c /\ memory.token_usage = graph[c].own
       /\ graph[c].at \in {"answered", "invalid"} => graph[c].reported = graph[c].own

CustomInv == mode = "ioa_v2_custom" => \A c \in Clients : CustomState(c)

MemoryInv == /\ DOMAIN memory = DOMAIN React!initial_memory
             /\ \E S : memory.conversation_history \in Seq(S)
             /\ HistoryIsPaired

-----------------------------------------------------------------------------
(* The LangGraph agent (ioa_v2_langgraph): what a question and the services    *)
(* lead to, and what is known at each node of the graph.                       *)

PolicyFields == DOMAIN Policy!initial_state

Asked == [scenario.question EXCEPT !.source = effective_data_source]

Decision == Policy!classify_intent(Asked)
Registered == Policy!TOOL_REGISTRY[Decision.tool]

Accepted == Asked.size = "fits"
Authorized == Registered.needs = "device" => Asked.device = "plain"
CallsTool == ~(Decision.tool = "scan_company_threshold" /\ "number" \notin Asked.words)

\* A company tool stands the simulator in for a database that cannot be read.
StoodIn == world.tool \in {"fails", "lost"} /\ Policy!FallsBack(Decision.tool)
ToolFails == /\ CallsTool /\ world.tool \in {"fails", "lost"}
             /\ Policy!FallsBack(Decision.tool) => world.tool = "lost"
Evidence ==
  IF ~CallsTool THEN "error"
  ELSE IF world.tool \in {"fails", "lost"} THEN "snapshot"
  ELSE IF world.tool = "none" /\ Decision.tool = "get_device_status" THEN "none" ELSE "evidence"
ReadsOfTool ==
  IF CallsTool THEN {Asked.source} \cup (IF StoodIn THEN {"simulator"} ELSE {}) ELSE {}

\* Nothing was read; what run_tool leaves.
Unread(g) == g.executions = 0 /\ g.reads = {} /\ g.evidence = "none"
Read(g) == g.executions = 1 /\ g.reads = ReadsOfTool /\ g.evidence = Evidence
Selected(g) == g.tool = Decision.tool /\ g.intent = Decision.intent

\* Why the request is denied, and what it has read by then.
Denial(g) ==
  \/ /\ ~Accepted /\ g.executions = 0 /\ g.reads = {}
     /\ g.reason = IF Asked.size = "blank" THEN "empty_request" ELSE "request_too_large"
  \/ /\ Accepted /\ ~Authorized /\ g.executions = 0 /\ g.reads = {}
     /\ g.reason = "missing_device_identifier"
  \/ /\ Accepted /\ Authorized /\ Evidence = "none" /\ g.executions = 1 /\ g.reads = ReadsOfTool
     /\ g.reason = "missing_tool_evidence"

AtNode(g) ==
  CASE g.at = "off" ->
         Unread(g) /\ g.reason = "" /\ g.prompts = 0 /\ g.answer = "none" /\ g.allowed
    [] g.at = "validate_request" ->
         Unread(g) /\ g.reason = "" /\ g.prompts = 0 /\ g.answer = "none" /\ g.allowed
    [] g.at = "select_tool" ->
         /\ Unread(g) /\ g.prompts = 0 /\ g.answer = "none" /\ g.allowed /\ Accepted
         /\ g.reason = "request_validated"
    [] g.at = "authorize_tool" ->
         /\ Unread(g) /\ g.prompts = 0 /\ g.answer = "none" /\ g.allowed /\ Accepted
         /\ g.reason = "request_validated" /\ Selected(g)
    [] g.at = "run_tool" ->
         /\ Unread(g) /\ g.prompts = 0 /\ g.answer = "none" /\ g.allowed /\ Accepted /\ Authorized
         /\ g.reason = "tool_authorized" /\ Selected(g)
    [] g.at = "validate_evidence" ->
         /\ Read(g) /\ g.prompts = 0 /\ g.answer = "none" /\ g.allowed /\ Accepted /\ Authorized
         /\ g.reason = "tool_authorized" /\ ~ToolFails
    [] g.at \in {"generate_answer", "await_model"} ->
         /\ Read(g) /\ g.prompts = 0 /\ g.answer = "none" /\ g.allowed /\ Accepted /\ Authorized
         /\ g.reason = "evidence_validated" /\ ~ToolFails
         /\ Evidence # "none"
    [] g.at = "answered" ->
         /\ Read(g) /\ g.prompts = 1 /\ g.answer = "answer" /\ Accepted /\ Authorized
         /\ g.reason = "evidence_validated" /\ ~ToolFails
         /\ Evidence # "none" /\ world.model # "raises"
    [] g.at = "deny_request" -> Denial(g) /\ g.prompts = 0 /\ g.answer = "none" /\ ~g.allowed
    [] g.at = "denied" -> Denial(g) /\ g.prompts = 0 /\ g.answer = g.reason
    [] g.at = "raised" ->
         \/ /\ Accepted /\ Authorized /\ ToolFails
            /\ g.executions = 1 /\ g.reads = ReadsOfTool /\ g.prompts = 0 /\ g.answer = "none"
            /\ g.reason = "tool_authorized"
         \/ /\ Read(g) /\ g.prompts = 1 /\ g.answer = "none" /\ Accepted /\ Authorized
            /\ g.reason = "evidence_validated" /\ ~ToolFails
            /\ Evidence # "none" /\ world.model = "raises"
    [] g.at = "closed" -> g.prompts = 0 \/ (g.prompts = 1 /\ Read(g) /\ Evidence # "none")

Reasons == {"", "request_validated", "tool_authorized", "evidence_validated", "empty_request",
            "request_too_large", "missing_device_identifier", "missing_tool_evidence"}

PolicyNodes == {"off", "validate_request", "select_tool", "authorize_tool", "run_tool",
                "validate_evidence", "generate_answer", "await_model", "answered",
                "deny_request", "denied", "raised", "closed"}

PolicyAt(g, r) ==
  /\ DOMAIN g = PolicyFields /\ g.at \in PolicyNodes
  /\ g.executions \in {0, 1} /\ g.reason \in Reasons
  /\ g.at # "off" => r = Asked
  /\ AtNode(g)

PolicyState(c) == PolicyAt(graph[c], request[c])

PolicyInv == /\ DOMAIN request = Clients
             /\ mode = "ioa_v2_langgraph" => \A c \in Clients : PolicyState(c)

AInv == IInv /\ MemoryInv /\ CustomInv /\ PolicyInv
-----------------------------------------------------------------------------
(* What a step does to the agents.  While a reply of /api/diagnose is worked   *)
(* on, its thread is not given up.                                             *)

AgentsRest ==
  /\ UNCHANGED <<scenario, world, request, graph, memory>>
  /\ \A c \in Clients : (holder = c /\ graph[c].at \in Working /\ outbox[c] = <<>>) => holder' = c

AgentStarts(c) == /\ graph[c].at = "off" /\ holder = Nobody /\ scenario' = scenario
                  /\ StartAgent(c)

AgentMoves(c) == /\ AgentStep(c) /\ holder \in {c, Nobody} /\ holder' = c
                 /\ scenario' = scenario /\ world' = world

AgentCloses(c) ==
  /\ c \in Streams
  /\ graph' = [graph EXCEPT ![c].at = IF @ \in {"answered", "denied", "failed", "invalid", "off"}
                                      THEN @ ELSE "closed"]
  /\ UNCHANGED <<scenario, world, request, memory, holder>>

LEMMA Moves ==
  ASSUME IInv, [Next]_vars
  PROVE  \/ AgentsRest
         \/ \E c \in Clients : AgentStarts(c) \/ AgentMoves(c) \/ AgentCloses(c)
<1>1. ASSUME NEW d \in Clients, Runs(d), NEW c \in Clients, holder = c
      PROVE  c = d
  BY <1>1, NobodyAssumption DEF Runs
<1>2. ASSUME NEW c \in Clients, graph[c].at \in Working, outbox[c] = <<>>
      PROVE  job[c].todo # <<>> /\ Current(c).type = "agent"
  <2>1. AtWork(c) /\ mode \in Modes
    BY DEF IInv, Sound, Typed
  <2>2. job[c].todo = Script(c) /\ ScriptShape(Script(c), c)
    BY <1>2, <2>1, ScriptsAreShaped DEF AtWork
  <2>3. job[c].todo # <<>>
    BY <2>2 DEF ScriptShape
  <2>4. QED
    BY <1>2, <2>3, AgentIsFirst
<1>3. ASSUME NEW d \in Clients, Admit(d)
      PROVE  AgentStarts(d)
  <2>1. graph[d].at = "off"
    BY <1>3 DEF IInv, Sound, AtRest, Admit
  <2>2. QED
    BY <1>3, <2>1 DEF Admit, AgentStarts
<1>4. ASSUME NEW d \in Clients, Refuse(d)
      PROVE  AgentsRest
  BY <1>4 DEF Refuse, AgentsRest, agentVars
<1>5. ASSUME NEW d \in Clients, RunAgent(d)
      PROVE  AgentMoves(d)
  <2>1. Outcome(d)
    BY <1>5, AgentSteps DEF RunAgent, IInv
  <2>2. QED
    BY <1>5, <2>1 DEF RunAgent, AgentMoves, Item, Runs, Outcome
<1>6. ASSUME NEW d \in Clients, AgentReturns(d)
      PROVE  AgentsRest
  <2>1. UNCHANGED <<scenario, world, request, graph, memory>> /\ holder' = d
    BY <1>6 DEF AgentReturns, agentVars
  <2>2. \A c \in Clients : holder = c => c = d
    BY <1>1, <1>6 DEF AgentReturns, Item
  <2>3. QED
    BY <2>1, <2>2 DEF AgentsRest
<1>7. ASSUME NEW d \in Clients, Relay(d)
      PROVE  AgentsRest
  <2>1. UNCHANGED <<scenario, world, request, graph, memory>> /\ outbox[d] # <<>>
    BY <1>7 DEF Relay
  <2>2. \A c \in Clients : holder = c => c = d
    BY <1>1, <1>7 DEF Relay, Item
  <2>3. QED
    BY <2>1, <2>2 DEF AgentsRest
<1>8. ASSUME NEW d \in Clients, Send(d) \/ CallRuntime(d) \/ LogBenchmark(d) \/ Finish(d)
      PROVE  AgentsRest
  <2>1. UNCHANGED <<scenario, world, request, graph, memory>> /\ Runs(d)
    BY <1>8 DEF Send, CallRuntime, LogBenchmark, Finish, agentVars, Item
  <2>2. job[d].todo # <<>> => Current(d).type # "agent"
    BY <1>8 DEF Send, CallRuntime, LogBenchmark, Finish, Item, Types
  <2>3. \A c \in Clients : holder = c => c = d
    BY <1>1, <2>1
  <2>4. ~(graph[d].at \in Working /\ outbox[d] = <<>>)
    BY <1>2, <2>2
  <2>5. QED
    BY <2>1, <2>3, <2>4 DEF AgentsRest
<1>9. ASSUME NEW d \in Clients, Disconnect(d)
      PROVE  AgentCloses(d)
  BY <1>9 DEF Disconnect, AgentCloses
<1>10. CASE UNCHANGED vars
  BY <1>10 DEF vars, AgentsRest
<1>11. QED
  BY <1>3, <1>4, <1>5, <1>6, <1>7, <1>8, <1>9, <1>10 DEF Next, Serve, Over

-----------------------------------------------------------------------------
(* The steps of the custom agent. *)

\* A conversation of questions, each followed by its own answer.
Paired(s) ==
  /\ \E S : s \in Seq(S)
  /\ Len(s) % 2 = 0
  /\ \A i \in DOMAIN s : i % 2 = 1 => s[i][2] = "user" /\ s[i + 1] = <<s[i][1], "assistant">>

LEMMA HistoryAppended ==
  ASSUME NEW h, Paired(h), NEW c
  PROVE  Paired(h \o << <<c, "user">>, <<c, "assistant">> >>)
<1>0. PICK S : h \in Seq(S)
  BY DEF Paired
<1>10. /\ Len(h) % 2 = 0
       /\ \A i \in DOMAIN h : i % 2 = 1 => h[i][2] = "user" /\ h[i + 1] = <<h[i][1], "assistant">>
  BY DEF Paired
<1> DEFINE q == <<c, "user">>
           a == <<c, "assistant">>
           two == <<q, a>>
           l == h \o two
           T == S \cup {q, a}
<1>1. q[1] = c /\ q[2] = "user" /\ a = <<q[1], "assistant">>
  OBVIOUS
<1> HIDE DEF q, a
<1>2. h \in Seq(T) /\ two \in Seq(T) /\ Len(two) = 2 /\ two[1] = q /\ two[2] = a
  BY <1>0
<1> HIDE DEF two, T
<1>3. /\ l \in Seq(T) /\ Len(l) = Len(h) + 2 /\ Len(h) \in Nat
      /\ \A i \in 1..Len(l) : l[i] = IF i <= Len(h) THEN h[i] ELSE two[i - Len(h)]
  <2>1. l \in Seq(T) /\ Len(l) = Len(h) + Len(two)
    BY <1>2, ConcatProperties
  <2>2. \A i \in 1..Len(h) + Len(two) : l[i] = IF i <= Len(h) THEN h[i] ELSE two[i - Len(h)]
    BY <1>2, ConcatProperties
  <2>3. Len(h) \in Nat
    BY <1>0
  <2>4. QED
    BY <1>2, <2>1, <2>2, <2>3
<1>4. DOMAIN l = 1..Len(h) + 2 /\ DOMAIN h = 1..Len(h)
  BY <1>0, <1>3
<1> HIDE DEF l
<1>5. Len(l) % 2 = 0
  BY <1>10, <1>3
<1>6. l[Len(h) + 1] = q /\ l[Len(h) + 2] = a /\ \A i \in 1..Len(h) : l[i] = h[i]
  <2>1. (Len(h) + 1) - Len(h) = 1 /\ (Len(h) + 2) - Len(h) = 2
    BY <1>3
  <2>2. Len(h) + 1 \in 1..Len(l) /\ ~(Len(h) + 1 <= Len(h))
    BY <1>3
  <2>3. Len(h) + 2 \in 1..Len(l) /\ ~(Len(h) + 2 <= Len(h))
    BY <1>3
  <2>4. l[Len(h) + 1] = q
    BY <1>2, <1>3, <2>1, <2>2
  <2>5. l[Len(h) + 2] = a
    BY <1>2, <1>3, <2>1, <2>3
  <2>6. \A i \in 1..Len(h) : i \in 1..Len(l) /\ i <= Len(h)
    BY <1>3
  <2>7. \A i \in 1..Len(h) : l[i] = h[i]
    BY <1>3, <2>6
  <2>8. QED
    BY <2>4, <2>5, <2>7
<1>7. ASSUME NEW i \in DOMAIN l, i % 2 = 1
      PROVE  l[i][2] = "user" /\ l[i + 1] = <<l[i][1], "assistant">>
  <2>1. CASE i < Len(h)
    <3>1. i \in DOMAIN h /\ i + 1 \in 1..Len(h)
      BY <1>3, <1>4, <2>1
    <3>2. l[i] = h[i] /\ l[i + 1] = h[i + 1]
      BY <1>4, <1>6, <3>1
    <3>3. h[i][2] = "user" /\ h[i + 1] = <<h[i][1], "assistant">>
      BY <1>10, <1>7, <3>1
    <3>4. QED
      BY <3>2, <3>3
  <2>2. CASE i = Len(h) + 1
    <3>1. i + 1 = Len(h) + 2
      BY <1>3, <2>2
    <3>2. l[i] = q
      BY <1>6, <2>2
    <3>3. l[i + 1] = a
      BY <1>6, <3>1
    <3>4. l[i][2] = q[2] /\ l[i][1] = q[1]
      BY <3>2
    <3>5. l[i + 1] = <<l[i][1], "assistant">>
      BY <1>1, <3>3, <3>4, Zenon
    <3>6. QED
      BY <1>1, <3>4, <3>5
  <2>3. i # Len(h) /\ i # Len(l)
    BY <1>10, <1>5, <1>7
  <2>4. i \in 1..Len(h) + 2 /\ i # Len(h) + 2
    BY <1>3, <1>4, <2>3
  <2>5. i < Len(h) \/ i = Len(h) + 1
    BY <1>3, <2>3, <2>4
  <2>6. QED
    BY <2>1, <2>2, <2>5
<1>8. Paired(l)
  BY <1>3, <1>5, <1>7 DEF Paired
<1>9. QED
  BY <1>8 DEF l, two, q, a

\* What a step of the custom agent does to its request and to the memory.
CustomOutcome(c) ==
  /\ \A d \in Clients \ {c} : graph'[d] = graph[d]
  /\ CustomState(c)'
  /\ MemoryInv'

LEMMA CustomWent ==
  ASSUME MemoryInv, NEW c \in Clients, NEW g, NEW usage, DOMAIN graph = Clients,
         graph' = [graph EXCEPT ![c] = g], holder' = c,
         DOMAIN memory' = DOMAIN memory, memory'.token_usage = usage,
         memory'.conversation_history = memory.conversation_history,
         DOMAIN g = CustomFields, \E S : g.observations \in Seq(S),
         g.at \in {"generate_final_answer", "answered"} => g.observations # <<>>,
         (c \notin Streams /\ g.at \in Counting) => usage = g.own,
         (c \notin Streams /\ g.at \in {"answered", "invalid"}) => g.reported = g.own
  PROVE  CustomOutcome(c)
<1>1. graph'[c] = g /\ \A d \in Clients \ {c} : graph'[d] = graph[d]
  OBVIOUS
<1>2. MemoryInv'
  BY DEF MemoryInv, HistoryIsPaired, React!HistoryIsPaired, React!initial_memory
<1>3. CustomState(c)'
  BY <1>1 DEF CustomState
<1>4. QED
  BY <1>1, <1>2, <1>3 DEF CustomOutcome

LEMMA CustomAnswered ==
  ASSUME MemoryInv, NEW c \in Clients, NEW asked, NEW usage, DOMAIN graph = Clients,
         React!Answers(c, asked, "answer", usage), holder' = c,
         DOMAIN asked = CustomFields, \E S : asked.observations \in Seq(S),
         asked.observations # <<>>, c \notin Streams => usage = asked.own
  PROVE  CustomOutcome(c)
<1> DEFINE g == [asked EXCEPT !.at = "answered", !.answer = "answer", !.reported = usage]
           h == memory.conversation_history
           l == h \o <<<<c, "user">>, <<c, "assistant">>>>
<1>1. graph' = [graph EXCEPT ![c] = g]
      /\ memory' = [memory EXCEPT !.token_usage = usage, !.conversation_history = l]
  BY DEF React!Answers
<1>2. /\ DOMAIN g = DOMAIN asked /\ g.at = "answered" /\ g.reported = usage /\ g.own = asked.own
      /\ g.observations = asked.observations
  BY DEF CustomFields, React!initial_state
<1> HIDE DEF g
<1>3. graph'[c] = g /\ \A d \in Clients \ {c} : graph'[d] = graph[d]
  BY <1>1
<1>4. CustomState(c)'
  BY <1>2, <1>3 DEF CustomState, Counting
<1>5. Paired(h)
  BY DEF MemoryInv, HistoryIsPaired, React!HistoryIsPaired, Paired
<1>7. Paired(l)
  <2> HIDE DEF h
  <2>1. QED
    BY <1>5, HistoryAppended
<1> HIDE DEF l, h
<1>8. memory'.conversation_history = l /\ DOMAIN memory' = DOMAIN memory
  BY <1>1 DEF MemoryInv, React!initial_memory
<1>9. MemoryInv'
  BY <1>7, <1>8 DEF MemoryInv, HistoryIsPaired, React!HistoryIsPaired, Paired
<1>10. QED
  BY <1>3, <1>4, <1>9 DEF CustomOutcome

LEMMA ObservationsGrow ==
  ASSUME NEW s, \E S : s \in Seq(S), NEW e
  PROVE  Append(s, e) # <<>> /\ \E S : Append(s, e) \in Seq(S)
<1>1. PICK S : s \in Seq(S)
  OBVIOUS
<1>2. s \in Seq(S \cup {e})
  BY <1>1
<1>3. Append(s, e) \in Seq(S \cup {e}) /\ Len(Append(s, e)) = Len(s) + 1 /\ Len(s) \in Nat
  BY <1>2
<1>4. Len(Append(s, e)) # 0
  BY <1>3
<1>5. Append(s, e) # <<>>
  BY <1>3, <1>4, EmptySeq
<1>6. QED
  BY <1>3, <1>5

\* The evidence a final answer is made from is there.
LEMMA EvidenceIsCollected ==
  ASSUME NEW g, DOMAIN g = CustomFields, \E S : g.observations \in Seq(S)
  PROVE  LET k == React!Collected(g)
         IN /\ DOMAIN k = CustomFields /\ k.own = g.own /\ k.turn = g.turn
            /\ k.observations # <<>> /\ \E S : k.observations \in Seq(S)
<1>1. CASE g.observations = <<>>
  <2> DEFINE o == <<React!required(g.target)>>
  <2>1. o # <<>> /\ o \in Seq({React!required(g.target)})
    OBVIOUS
  <2>2. React!Collected(g) = [g EXCEPT !.observations = o]
    BY <1>1 DEF React!Collected
  <2> HIDE DEF o
  <2>3. QED
    BY <2>1, <2>2 DEF CustomFields, React!initial_state
<1>2. CASE g.observations # <<>>
  BY <1>2 DEF React!Collected
<1>3. QED
  BY <1>1, <1>2

LEMMA TurnKeeps ==
  ASSUME NEW g, DOMAIN g = CustomFields
  PROVE  LET k == React!Turn(g)
         IN /\ DOMAIN k = CustomFields /\ k.own = g.own /\ k.observations = g.observations
            /\ k.at \in {"choose_next_step", "generate_final_answer"}
BY DEF React!Turn, CustomFields, React!initial_state

LEMMA CustomRaised ==
  ASSUME MemoryInv, NEW c \in Clients, DOMAIN graph = Clients, CustomState(c), React!Raises(c),
         memory' \in {memory, React!Reset, React!Counted}, holder' = c
  PROVE  CustomOutcome(c)
<1> DEFINE g == [graph[c] EXCEPT !.at = "raised"]
<1>1. graph' = [graph EXCEPT ![c] = g]
  BY DEF React!Raises
<1>2. DOMAIN g = CustomFields /\ g.at = "raised" /\ g.observations = graph[c].observations
  BY DEF CustomState, CustomFields, React!initial_state
<1>3. \E S : g.observations \in Seq(S)
  BY <1>2 DEF CustomState
<1>4. /\ DOMAIN memory' = DOMAIN memory
      /\ memory'.conversation_history = memory.conversation_history
  BY DEF MemoryInv, React!initial_memory, React!Reset, React!Counted
<1> HIDE DEF g
<1>5. QED
  BY <1>1, <1>2, <1>3, <1>4, CustomWent DEF Counting

LEMMA CustomExtracts ==
  ASSUME MemoryInv, NEW c \in Clients, DOMAIN graph = Clients, CustomState(c), holder' = c,
         React!ExtractTarget(c)
  PROVE  CustomOutcome(c)
<1> DEFINE last == memory.last_target
           refers == last # "none" /\ request[c].refers
           target == CASE refers -> last
                       [] ~refers /\ world.target \in {"device", "SYSTEM"} -> world.target
                       [] OTHER -> IF last = "none" THEN "SYSTEM" ELSE last
           own == IF refers THEN 0 ELSE 1
           g == [graph[c] EXCEPT !.at = "choose_next_step", !.target = target, !.own = own]
<1>1. \/ React!Raises(c) /\ memory' = React!Reset
      \/ /\ graph' = [graph EXCEPT ![c].at = "choose_next_step", ![c].target = target,
                                   ![c].own = own]
         /\ memory' = [React!Reset EXCEPT !.token_usage = IF refers THEN @ ELSE @ + 1,
                         !.last_target = IF target = "SYSTEM" THEN @ ELSE target]
  BY Zenon DEF React!ExtractTarget
<1> HIDE DEF target
<1>2. CASE React!Raises(c) /\ memory' = React!Reset
  BY <1>2, CustomRaised
<1>3. CASE /\ graph' = [graph EXCEPT ![c].at = "choose_next_step", ![c].target = target,
                                     ![c].own = own]
           /\ memory' = [React!Reset EXCEPT !.token_usage = IF refers THEN @ ELSE @ + 1,
                           !.last_target = IF target = "SYSTEM" THEN @ ELSE target]
  <2>1. /\ DOMAIN memory' = DOMAIN memory
        /\ memory'.conversation_history = memory.conversation_history
        /\ memory'.token_usage = own
    <3>1. /\ DOMAIN React!Reset = DOMAIN React!initial_memory /\ React!Reset.token_usage = 0
          /\ React!Reset.conversation_history = memory.conversation_history
      BY DEF MemoryInv, React!initial_memory, React!Reset
    <3> HIDE DEF refers
    <3>2. QED
      BY <1>3, <3>1 DEF MemoryInv, React!initial_memory
  <2> HIDE DEF own, refers
  <2>2. graph' = [graph EXCEPT ![c] = g]
    BY <1>3
  <2>3. /\ DOMAIN g = CustomFields /\ g.at = "choose_next_step" /\ g.own = own
        /\ g.observations = graph[c].observations
    BY DEF CustomState, CustomFields, React!initial_state
  <2>4. \E S : g.observations \in Seq(S)
    BY <2>3 DEF CustomState
  <2> HIDE DEF g
  <2>5. QED
    BY <2>1, <2>2, <2>3, <2>4, CustomWent DEF Counting
<1>4. QED
  BY <1>1, <1>2, <1>3

LEMMA CustomChooses ==
  ASSUME MemoryInv, NEW c \in Clients, DOMAIN graph = Clients, CustomState(c), holder' = c,
         React!ChooseNextStep(c)
  PROVE  CustomOutcome(c)
<1> DEFINE asked == [graph[c] EXCEPT !.own = @ + 1]
           usage == React!Counted.token_usage
           next == React!Turn(React!Collected(asked))
           gives == [React!Collected(asked) EXCEPT !.at = "generate_final_answer"]
           acts == [asked EXCEPT !.at = "execute_tool"]
<1>1. \/ React!Raises(c) /\ memory' \in {memory, React!Counted}
      \/ asked.observations # <<>> /\ React!Answers(c, asked, "answer", usage)
      \/ graph' \in {[graph EXCEPT ![c] = next], [graph EXCEPT ![c] = gives],
                     [graph EXCEPT ![c] = acts]} /\ memory' = React!Counted
  BY DEF React!ChooseNextStep
<1>2. /\ DOMAIN asked = CustomFields /\ asked.observations = graph[c].observations
      /\ asked.own = graph[c].own + 1
  BY DEF CustomState, CustomFields, React!initial_state
<1>3. \E S : asked.observations \in Seq(S)
  BY <1>2 DEF CustomState
<1>4. c \notin Streams => usage = asked.own
  <2>1. usage = memory.token_usage + 1
    BY DEF React!Counted, MemoryInv, React!initial_memory
  <2>2. c \notin Streams => memory.token_usage = graph[c].own
    BY DEF React!ChooseNextStep, React!Enters, CustomState, Counting
  <2>3. QED
    BY <1>2, <2>1, <2>2
<1>5. /\ DOMAIN React!Counted = DOMAIN memory
      /\ React!Counted.conversation_history = memory.conversation_history
  BY DEF React!Counted, MemoryInv, React!initial_memory
<1>6. /\ DOMAIN React!Collected(asked) = CustomFields /\ React!Collected(asked).own = asked.own
      /\ React!Collected(asked).observations # <<>>
      /\ \E S : React!Collected(asked).observations \in Seq(S)
  <2> HIDE DEF asked
  <2>1. QED
    BY <1>2, <1>3, EvidenceIsCollected
<1>7. /\ DOMAIN acts = CustomFields /\ acts.at = "execute_tool" /\ acts.own = asked.own
      /\ acts.observations = asked.observations
  <2> HIDE DEF asked
  <2>1. QED
    BY <1>2 DEF CustomFields, React!initial_state
<1> HIDE DEF asked, usage, acts
<1>8. /\ DOMAIN next = CustomFields /\ next.own = asked.own
      /\ next.observations = React!Collected(asked).observations
      /\ next.at \in {"choose_next_step", "generate_final_answer"}
  BY <1>6, TurnKeeps
<1>9. /\ DOMAIN gives = CustomFields /\ gives.own = asked.own
      /\ gives.observations = React!Collected(asked).observations
      /\ gives.at = "generate_final_answer"
  BY <1>6 DEF CustomFields, React!initial_state
<1> HIDE DEF next, gives
<1>10. CASE React!Raises(c) /\ memory' \in {memory, React!Counted}
  BY <1>10, CustomRaised
<1>11. CASE asked.observations # <<>> /\ React!Answers(c, asked, "answer", usage)
  BY <1>2, <1>3, <1>4, <1>11, CustomAnswered
<1>12. ASSUME NEW g, graph' = [graph EXCEPT ![c] = g], memory' = React!Counted,
              DOMAIN g = CustomFields, g.own = asked.own, \E S : g.observations \in Seq(S),
              g.at \in Counting, g.at = "generate_final_answer" => g.observations # <<>>
       PROVE  CustomOutcome(c)
  <2>1. memory'.token_usage = usage
    BY <1>12 DEF usage
  <2>2. g.at \notin {"answered", "invalid"}
    BY <1>12 DEF Counting
  <2>3. QED
    BY <1>4, <1>5, <1>12, <2>1, <2>2, CustomWent
<1>13. CASE graph' = [graph EXCEPT ![c] = next] /\ memory' = React!Counted
  BY <1>6, <1>8, <1>12, <1>13 DEF Counting
<1>14. CASE graph' = [graph EXCEPT ![c] = gives] /\ memory' = React!Counted
  BY <1>6, <1>9, <1>12, <1>14 DEF Counting
<1>15. CASE graph' = [graph EXCEPT ![c] = acts] /\ memory' = React!Counted
  BY <1>3, <1>7, <1>12, <1>15 DEF Counting
<1>16. QED
  BY <1>1, <1>10, <1>11, <1>13, <1>14, <1>15

LEMMA CustomExecutes ==
  ASSUME MemoryInv, NEW c \in Clients, DOMAIN graph = Clients, CustomState(c), holder' = c,
         React!ExecuteTool(c)
  PROVE  CustomOutcome(c)
<1> DEFINE action == world.replies[graph[c].turn]
           seen == [graph[c] EXCEPT !.observations = Append(@, action)]
           bad == [graph[c] EXCEPT !.at = "invalid", !.answer = "invalid_tool",
                                   !.reported = memory.token_usage]
           gives == [seen EXCEPT !.at = "generate_final_answer"]
           next == React!Turn(seen)
           usage == memory.token_usage
<1>1. graph' \in {[graph EXCEPT ![c] = bad], [graph EXCEPT ![c] = gives], [graph EXCEPT ![c] = next]}
  BY DEF React!ExecuteTool
<1>2. /\ DOMAIN memory' = DOMAIN memory /\ memory'.token_usage = usage
      /\ memory'.conversation_history = memory.conversation_history
  BY DEF React!ExecuteTool
<1>3. c \notin Streams => usage = graph[c].own
  BY DEF React!ExecuteTool, React!Enters, CustomState, Counting
<1>4. /\ DOMAIN seen = CustomFields /\ seen.own = graph[c].own
      /\ seen.observations = Append(graph[c].observations, action)
  BY DEF CustomState, CustomFields, React!initial_state
<1>5. /\ DOMAIN bad = CustomFields /\ bad.own = graph[c].own /\ bad.reported = usage
      /\ bad.at = "invalid" /\ bad.observations = graph[c].observations
  BY DEF CustomState, CustomFields, React!initial_state
<1>6. \E S : graph[c].observations \in Seq(S)
  BY DEF CustomState
<1> HIDE DEF action, bad, usage
<1>7. seen.observations # <<>> /\ \E S : seen.observations \in Seq(S)
  BY <1>4, <1>6, ObservationsGrow
<1> HIDE DEF seen
<1>8. /\ DOMAIN next = CustomFields /\ next.own = graph[c].own
      /\ next.observations = seen.observations
      /\ next.at \in {"choose_next_step", "generate_final_answer"}
  BY <1>4, TurnKeeps
<1>9. /\ DOMAIN gives = CustomFields /\ gives.own = graph[c].own
      /\ gives.observations = seen.observations /\ gives.at = "generate_final_answer"
  BY <1>4 DEF CustomFields, React!initial_state
<1> HIDE DEF next, gives
<1>10. CASE graph' = [graph EXCEPT ![c] = bad]
  BY <1>2, <1>3, <1>5, <1>6, <1>10, CustomWent DEF Counting
<1>11. CASE graph' = [graph EXCEPT ![c] = gives]
  BY <1>2, <1>3, <1>7, <1>9, <1>11, CustomWent
<1>12. CASE graph' = [graph EXCEPT ![c] = next]
  BY <1>2, <1>3, <1>7, <1>8, <1>12, CustomWent
<1>13. QED
  BY <1>1, <1>10, <1>11, <1>12

LEMMA CustomConcludes ==
  ASSUME MemoryInv, NEW c \in Clients, DOMAIN graph = Clients, CustomState(c), holder' = c,
         React!GenerateFinalAnswer(c)
  PROVE  CustomOutcome(c)
<1> DEFINE asked == [graph[c] EXCEPT !.own = @ + 1]
           usage == React!Counted.token_usage
<1>1. \/ React!Raises(c) /\ memory' = memory
      \/ React!Answers(c, asked, "answer", usage)
  BY DEF React!GenerateFinalAnswer
<1>2. /\ DOMAIN asked = CustomFields /\ asked.observations = graph[c].observations
      /\ asked.own = graph[c].own + 1
  BY DEF CustomState, CustomFields, React!initial_state
<1>3. asked.observations # <<>> /\ \E S : asked.observations \in Seq(S)
  <2> HIDE DEF asked
  <2>1. QED
    BY <1>2 DEF CustomState, React!GenerateFinalAnswer, React!Enters
<1>4. c \notin Streams => usage = asked.own
  <2>1. usage = memory.token_usage + 1
    BY DEF React!Counted, MemoryInv, React!initial_memory
  <2>2. c \notin Streams => memory.token_usage = graph[c].own
    BY DEF React!GenerateFinalAnswer, React!Enters, CustomState, Counting
  <2>3. QED
    BY <1>2, <2>1, <2>2
<1> HIDE DEF asked, usage
<1>5. QED
  BY <1>1, <1>2, <1>3, <1>4, CustomRaised, CustomAnswered

LEMMA CustomMoves ==
  ASSUME MemoryInv, NEW c \in Clients, DOMAIN graph = Clients, CustomState(c), holder' = c,
         React!Step(c)
  PROVE  CustomOutcome(c)
BY CustomExtracts, CustomChooses, CustomExecutes, CustomConcludes DEF React!Step

\* A request that waits while another is worked on is not counting.
LEMMA CustomWaits ==
  ASSUME NEW c \in Clients, CustomState(c), graph'[c] = graph[c],
         c \notin Streams => graph[c].at \notin Counting
  PROVE  CustomState(c)'
BY DEF CustomState

LEMMA CustomKept ==
  ASSUME AInv, [Next]_vars
  PROVE  MemoryInv' /\ CustomInv'
<1>1. Typed /\ MemoryInv /\ DOMAIN graph = Clients
  BY DEF AInv, IInv, Typed
<1>2. AgentsRest \/ \E d \in Clients : AgentStarts(d) \/ AgentMoves(d) \/ AgentCloses(d)
  BY Moves DEF AInv
<1>3. Counting \subseteq Working /\ Nobody \notin Clients
  BY NobodyAssumption DEF Counting, Working
<1>4. scenario' = scenario
  BY <1>2 DEF AgentsRest, AgentStarts, AgentMoves, AgentCloses
<1>5. CASE mode # "ioa_v2_custom"
  <2>1. mode' # "ioa_v2_custom"
    BY <1>4, <1>5 DEF mode
  <2>2. memory' = memory
    BY <1>2, <1>5 DEF AgentsRest, AgentStarts, AgentMoves, AgentCloses, StartAgent, AgentStep, mode
  <2>3. QED
    BY <1>1, <2>1, <2>2
       DEF CustomInv, MemoryInv, HistoryIsPaired, React!HistoryIsPaired, React!initial_memory
<1>6. CASE mode = "ioa_v2_custom"
  <2>1. \A c \in Clients : CustomState(c)
    BY <1>6 DEF AInv, CustomInv
  <2>2. \A c \in Clients : (c \notin Streams /\ graph[c].at \in Counting) => holder = c /\ outbox[c] = <<>>
    <3>1. \A c \in Clients : c \notin Streams => outbox[c] = <<>>
      BY DEF AInv, IInv, Sound, AtWork, AtRest
    <3>2. QED
      BY <2>1, <3>1 DEF CustomState
  <2>3. CASE AgentsRest
    <3>1. MemoryInv'
      BY <1>1, <2>3 DEF AgentsRest, MemoryInv, HistoryIsPaired, React!HistoryIsPaired, React!initial_memory
    <3>2. ASSUME NEW c \in Clients
          PROVE  CustomState(c)'
      <4>1. (c \notin Streams /\ graph[c].at \in Counting) => holder' = c
        BY <1>3, <2>2, <2>3 DEF AgentsRest
      <4>2. QED
        BY <2>1, <2>3, <4>1 DEF AgentsRest, CustomState
    <3>3. QED
      BY <3>1, <3>2 DEF CustomInv
  <2>4. ASSUME NEW d \in Clients, AgentStarts(d)
        PROVE  MemoryInv' /\ CustomInv'
    <3>1. graph' = [graph EXCEPT ![d].at = "extract_target"] /\ memory' = memory /\ holder = Nobody
      BY <1>6, <2>4 DEF AgentStarts, StartAgent, React!Start
    <3>2. MemoryInv'
      BY <1>1, <3>1 DEF MemoryInv, HistoryIsPaired, React!HistoryIsPaired, React!initial_memory
    <3>3. CustomState(d)'
      <4>1. /\ DOMAIN graph'[d] = CustomFields /\ graph'[d].at = "extract_target"
            /\ graph'[d].observations = graph[d].observations
        BY <1>1, <2>1, <3>1 DEF CustomState, CustomFields, React!initial_state
      <4>2. QED
        BY <2>1, <4>1 DEF CustomState, Counting
    <3>4. ASSUME NEW c \in Clients \ {d}
          PROVE  CustomState(c)'
      BY <1>1, <1>3, <2>1, <2>2, <3>1, CustomWaits
    <3>5. QED
      BY <3>2, <3>3, <3>4 DEF CustomInv
  <2>5. ASSUME NEW d \in Clients, AgentMoves(d)
        PROVE  MemoryInv' /\ CustomInv'
    <3>1. React!Step(d) /\ holder \in {d, Nobody} /\ holder' = d
      BY <1>6, <2>5 DEF AgentMoves, AgentStep
    <3>2. CustomOutcome(d)
      BY <1>1, <2>1, <3>1, CustomMoves
    <3>3. ASSUME NEW c \in Clients \ {d}
          PROVE  CustomState(c)'
      BY <1>3, <2>1, <2>2, <3>1, <3>2, CustomWaits DEF CustomOutcome
    <3>4. QED
      BY <3>2, <3>3 DEF CustomOutcome, CustomInv
  <2>6. ASSUME NEW d \in Clients, AgentCloses(d)
        PROVE  MemoryInv' /\ CustomInv'
    <3> DEFINE at == IF graph[d].at \in {"answered", "denied", "failed", "invalid", "off"}
                     THEN graph[d].at ELSE "closed"
    <3>1. /\ graph' = [graph EXCEPT ![d].at = at]
          /\ memory' = memory /\ holder' = holder /\ d \in Streams
      BY <2>6 DEF AgentCloses
    <3>2. MemoryInv'
      BY <1>1, <3>1 DEF MemoryInv, HistoryIsPaired, React!HistoryIsPaired, React!initial_memory
    <3>3. CustomState(d)'
      <4>1. at = graph[d].at \/ at = "closed"
        OBVIOUS
      <4> HIDE DEF at
      <4>2. /\ DOMAIN graph'[d] = CustomFields /\ graph'[d].at = at
            /\ graph'[d].observations = graph[d].observations
        BY <1>1, <2>1, <3>1 DEF CustomState, CustomFields, React!initial_state
      <4>3. QED
        BY <2>1, <3>1, <4>1, <4>2 DEF CustomState
    <3>4. ASSUME NEW c \in Clients \ {d}
          PROVE  CustomState(c)'
      BY <1>1, <2>1, <3>1 DEF CustomState
    <3>5. QED
      BY <3>2, <3>3, <3>4 DEF CustomInv
  <2>7. QED
    BY <1>2, <2>3, <2>4, <2>5, <2>6
<1>7. QED
  BY <1>5, <1>6

-----------------------------------------------------------------------------
(* The decisions of the LangGraph agent. *)

LEMMA FirstIn ==
  ASSUME NEW S, S \subseteq 1..7, S # {}
  PROVE  Policy!First(S) \in S /\ \A j \in S : Policy!First(S) <= j
<1>1. \E i \in S : \A j \in S : i <= j
  <2>1. CASE 1 \in S
    BY <2>1
  <2>2. CASE 1 \notin S /\ 2 \in S
    BY <2>2
  <2>3. CASE 1 \notin S /\ 2 \notin S /\ 3 \in S
    BY <2>3
  <2>4. CASE S \cap 1..3 = {} /\ 4 \in S
    BY <2>4
  <2>5. CASE S \cap 1..4 = {} /\ 5 \in S
    BY <2>5
  <2>6. CASE S \cap 1..5 = {} /\ 6 \in S
    BY <2>6
  <2>7. CASE S \cap 1..6 = {}
    <3>1. PICK m \in S : TRUE
      OBVIOUS
    <3>2. \A j \in S : j = 7
      BY <2>7
    <3>3. \A j \in S : m <= j
      BY <3>2
    <3>4. QED
      BY <3>3
  <2>8. QED
    BY <2>1, <2>2, <2>3, <2>4, <2>5, <2>6, <2>7
<1>2. QED
  BY <1>1 DEF Policy!First

LEMMA AskedIs ==
  ASSUME IInv, mode = "ioa_v2_langgraph"
  PROVE  /\ Asked \in Policy!Request /\ Asked.source \in {"simulator", "company"}
         /\ world.tool \in {"evidence", "none", "fails", "lost"}
<1>1. scenario \in Scenarios /\ world = scenario.world
  BY DEF IInv, Typed
<1>2. scenario.question \in Policy!Request /\ world.tool \in {"evidence", "none", "fails", "lost"}
  BY <1>1, ScenariosAssumption DEF mode
<1>3. effective_data_source \in {"simulator", "company"}
  BY DEF effective_data_source
<1> DEFINE q == scenario.question
           s == effective_data_source
<1>4. Asked = [q EXCEPT !.source = s]
  BY DEF Asked
<1>5. q \in Policy!Request /\ s \in {"simulator", "company"}
  BY <1>2, <1>3
<1> HIDE DEF q, s
<1>6. [q EXCEPT !.source = s] \in Policy!Request /\ [q EXCEPT !.source = s].source = s
  BY <1>5 DEF Policy!Request
<1>7. QED
  BY <1>2, <1>4, <1>5, <1>6

LEMMA Registry ==
  LET T == Policy!TOOL_REGISTRY
  IN /\ DOMAIN T = {"get_device_history", "get_device_status", "get_fleet_status",
                    "get_company_device", "get_company_disconnected_devices",
                    "get_company_fleet_summary", "get_company_inventory",
                    "get_company_provisional_alerts", "get_company_rule_readiness",
                    "get_company_telemetry_coverage", "scan_company_threshold"}
     /\ T["get_device_history"] = Policy!ToolSpec("simulator", "simulator_device_history", "device")
     /\ T["get_device_status"] = Policy!ToolSpec("simulator", "simulator_device_status", "device")
     /\ T["get_fleet_status"] = Policy!ToolSpec("simulator", "simulator_fleet_status", "none")
     /\ T["get_company_device"]
          = Policy!ToolSpec("company", "company_device_inspection", "company_device")
     /\ T["get_company_disconnected_devices"]
          = Policy!ToolSpec("company", "company_disconnected_devices", "none")
     /\ T["get_company_fleet_summary"]
          = Policy!ToolSpec("company", "company_fleet_summary", "none")
     /\ T["get_company_inventory"] = Policy!ToolSpec("company", "company_inventory", "none")
     /\ T["get_company_provisional_alerts"]
          = Policy!ToolSpec("company", "company_provisional_alerts", "none")
     /\ T["get_company_rule_readiness"]
          = Policy!ToolSpec("company", "company_rule_readiness", "none")
     /\ T["get_company_telemetry_coverage"]
          = Policy!ToolSpec("company", "company_telemetry_coverage", "none")
     /\ T["scan_company_threshold"]
          = Policy!ToolSpec("company", "company_threshold_scan", "none")
BY DEF Policy!TOOL_REGISTRY

LEMMA SpecFields ==
  ASSUME NEW s, NEW i, NEW n
  PROVE  Policy!ToolSpec(s, i, n).source = s /\ Policy!ToolSpec(s, i, n).intent = i
BY DEF Policy!ToolSpec

\* The registry has the tool of every decision, for its source and its intent.
RegisteredFor(d, r) ==
  /\ d.tool \in DOMAIN Policy!TOOL_REGISTRY
  /\ Policy!TOOL_REGISTRY[d.tool].source = r.source
  /\ Policy!TOOL_REGISTRY[d.tool].intent = d.intent

LEMMA DecisionIsRegistered ==
  ASSUME NEW r, r \in Policy!Request, r.source \in {"simulator", "company"}
  PROVE  RegisteredFor(Policy!classify_intent(r), r)
<1> DEFINE d == Policy!classify_intent(r)
           fires == {i \in DOMAIN Policy!CompanyRules : Policy!CompanyRules[i][1] \cap r.words # {}}
           k == Policy!First(fires)
<1>1. ASSUME r.source = "company"
      PROVE  RegisteredFor(d, r)
  <2>1. ASSUME fires = {}
        PROVE  RegisteredFor(d, r)
    <3>1. d.tool = "get_company_fleet_summary" /\ d.intent = "company_fleet_summary"
      BY <1>1, <2>1 DEF Policy!classify_intent
    <3> HIDE DEF d
    <3>2. QED
      BY <1>1, <3>1, Registry, SpecFields DEF RegisteredFor
  <2>2. ASSUME fires # {}
        PROVE  RegisteredFor(d, r)
    <3>1. d.tool = Policy!CompanyRules[k][3] /\ d.intent = Policy!CompanyRules[k][2]
      BY <1>1, <2>2 DEF Policy!classify_intent
    <3>2. DOMAIN Policy!CompanyRules = 1..7
      BY DEF Policy!CompanyRules
    <3>3. k \in 1..7
      <4>1. fires \subseteq 1..7
        BY <3>2
      <4> HIDE DEF fires
      <4>2. QED
        BY <2>2, <4>1, FirstIn
    <3> HIDE DEF d, k
    <3>4. \/ d.tool = "scan_company_threshold" /\ d.intent = "company_threshold_scan"
          \/ d.tool = "get_company_provisional_alerts" /\ d.intent = "company_provisional_alerts"
          \/ d.tool = "get_company_telemetry_coverage" /\ d.intent = "company_telemetry_coverage"
          \/ d.tool = "get_company_rule_readiness" /\ d.intent = "company_rule_readiness"
          \/ d.tool = "get_company_disconnected_devices" /\ d.intent = "company_disconnected_devices"
          \/ d.tool = "get_company_device" /\ d.intent = "company_device_inspection"
          \/ d.tool = "get_company_inventory" /\ d.intent = "company_inventory"
      <4>1. k \in {1, 2, 3, 4, 5, 6, 7}
        BY <3>3
      <4>2. QED
        BY <3>1, <4>1 DEF Policy!CompanyRules
    <3>5. QED
      BY <1>1, <3>4, Registry, SpecFields DEF RegisteredFor
  <2>3. QED
    BY <2>1, <2>2
<1>2. ASSUME r.source = "simulator"
      PROVE  RegisteredFor(d, r)
  <2>1. \/ d.tool = "get_device_history" /\ d.intent = "simulator_device_history"
        \/ d.tool = "get_device_status" /\ d.intent = "simulator_device_status"
        \/ d.tool = "get_fleet_status" /\ d.intent = "simulator_fleet_status"
    BY <1>2 DEF Policy!classify_intent
  <2> HIDE DEF d
  <2>2. QED
    BY <1>2, <2>1, Registry, SpecFields DEF RegisteredFor
<1>3. QED
  BY <1>1, <1>2

\* What a verdict leaves alone, and the reason it gives.
Judged(v, g, reason) ==
  /\ DOMAIN v = PolicyFields /\ v.reason = reason
  /\ v.intent = g.intent /\ v.tool = g.tool /\ v.evidence = g.evidence
  /\ v.executions = g.executions /\ v.reads = g.reads /\ v.prompts = g.prompts
  /\ v.answer = g.answer

\* A verdict is the first of the checks that fails, or that none does.
LEMMA VerdictIs ==
  ASSUME NEW g, DOMAIN g = PolicyFields, NEW ok, NEW checks, NEW n \in 1..7, DOMAIN checks = 1..n,
         NEW v, v = Policy!Verdict(g, ok, checks)
  PROVE  \/ /\ \A i \in 1..n : ~checks[i][1]
            /\ v.allowed /\ Judged(v, g, ok)
         \/ \E k \in 1..n :
              /\ checks[k][1] /\ \A j \in 1..n : j < k => ~checks[j][1]
              /\ ~v.allowed /\ Judged(v, g, checks[k][2])
<1> DEFINE F == Policy!Failing(checks)
           k == Policy!First(F)
<1>1. F \subseteq 1..7 /\ \A i : i \in F <=> i \in 1..n /\ checks[i][1]
  BY DEF Policy!Failing
<1> HIDE DEF F
<1>2. CASE F = {}
  <2>1. v = [g EXCEPT !.allowed = TRUE, !.reason = ok]
    BY <1>2 DEF Policy!Verdict, F
  <2>2. v.allowed /\ Judged(v, g, ok)
    BY <2>1 DEF Judged, PolicyFields, Policy!initial_state
  <2>3. QED
    BY <1>1, <1>2, <2>2
<1>3. CASE F # {}
  <2>1. k \in F /\ \A j \in F : k <= j
    BY <1>1, <1>3, FirstIn
  <2>2. v = [g EXCEPT !.allowed = FALSE, !.reason = checks[k][2]]
    BY <1>3 DEF Policy!Verdict, F
  <2> HIDE DEF k
  <2>3. k \in 1..n /\ checks[k][1] /\ \A j \in 1..n : j < k => ~checks[j][1]
    BY <1>1, <2>1
  <2>4. ~v.allowed /\ Judged(v, g, checks[k][2])
    BY <2>2 DEF Judged, PolicyFields, Policy!initial_state
  <2>5. QED
    BY <2>3, <2>4
<1>4. QED
  BY <1>2, <1>3

-----------------------------------------------------------------------------
(* The nodes of the LangGraph agent. *)

\* A record that differs from another only in where it is and in its steps.
Carries(g, result) ==
  /\ DOMAIN g = PolicyFields
  /\ g.allowed = result.allowed /\ g.reason = result.reason /\ g.intent = result.intent
  /\ g.tool = result.tool /\ g.evidence = result.evidence /\ g.executions = result.executions
  /\ g.reads = result.reads /\ g.prompts = result.prompts /\ g.answer = result.answer

\* The node is done, with this result.
LeftWith(c, node, result) ==
  /\ Carries(graph'[c], result)
  /\ graph'[c].at = Policy!Route(c, node, result.allowed)
  /\ request' = request
  /\ \A d \in Clients \ {c} : graph'[d] = graph[d]

LEMMA PolicyLeft ==
  ASSUME NEW c \in Clients, DOMAIN graph = Clients, NEW node, NEW result,
         DOMAIN result = PolicyFields, Policy!Leaves(c, node, result)
  PROVE  LeftWith(c, node, result)
<1> DEFINE at == Policy!Route(c, node, result.allowed)
           g == [result EXCEPT !.steps = Append(@, node), !.at = at]
<1>1. graph' = [graph EXCEPT ![c] = g] /\ request' = request
  BY DEF Policy!Leaves
<1> HIDE DEF at
<1>2. Carries(g, result) /\ g.at = at
  BY DEF Carries, PolicyFields, Policy!initial_state
<1> HIDE DEF g
<1>3. graph'[c] = g /\ \A d \in Clients \ {c} : graph'[d] = graph[d]
  BY <1>1
<1>4. QED
  BY <1>1, <1>2, <1>3 DEF LeftWith, at

\* The agent has raised, with this record.
RaisedWith(c, g) ==
  /\ Carries(graph'[c], g)
  /\ graph'[c].at = "raised"
  /\ request' = request
  /\ \A d \in Clients \ {c} : graph'[d] = graph[d]

LEMMA PolicyRaised ==
  ASSUME NEW c \in Clients, DOMAIN graph = Clients, NEW g,
         DOMAIN g = PolicyFields, Policy!Raises(c, g)
  PROVE  RaisedWith(c, g)
<1> DEFINE r == [g EXCEPT !.at = "raised"]
<1>1. graph' = [graph EXCEPT ![c] = r] /\ request' = request
  BY DEF Policy!Raises
<1>2. Carries(r, g) /\ r.at = "raised"
  BY DEF Carries, PolicyFields, Policy!initial_state
<1> HIDE DEF r
<1>3. graph'[c] = r /\ \A d \in Clients \ {c} : graph'[d] = graph[d]
  BY <1>1
<1>4. QED
  BY <1>1, <1>2, <1>3 DEF RaisedWith

\* Where a node leads.  Only run_tool counts and reads.
Edge(c) ==
  LET at == graph[c].at
      next == graph'[c].at
  IN \/ /\ graph'[c].executions = graph[c].executions /\ graph'[c].reads = graph[c].reads
        /\ \/ at = "off" /\ next = "validate_request"
           \/ at = "validate_request" /\ next \in {"select_tool", "deny_request"}
           \/ at = "select_tool" /\ next = "authorize_tool"
           \/ at = "authorize_tool" /\ next \in {"run_tool", "deny_request"}
           \/ at = "validate_evidence" /\ next \in {"generate_answer", "deny_request"}
           \/ at = "generate_answer" /\ next = "await_model"
           \/ at \in {"generate_answer", "await_model"} /\ next \in {"answered", "raised"}
           \/ at = "deny_request" /\ next = "denied"
           \/ at \notin {"off", "answered", "denied"} /\ next = "closed"
           \/ at = next
     \/ at = "run_tool" /\ next \in {"validate_evidence", "raised"}

NodeInv(c) == /\ PolicyAt(graph'[c], request'[c])
              /\ graph[c].at # "off" => request'[c] = request[c]
              /\ \A d \in Clients \ {c} : graph'[d] = graph[d] /\ request'[d] = request[d]

NodeOf(c) == NodeInv(c) /\ Edge(c)

LEMMA RequestValidated ==
  ASSUME IInv, mode = "ioa_v2_langgraph", NEW c \in Clients, PolicyAt(graph[c], request[c]),
         Policy!ValidateRequest(c)
  PROVE  NodeOf(c)
<1> DEFINE g == graph[c]
           r == request[c]
           checks == <<<<r.size = "blank", "empty_request">>,
                       <<r.size = "long", "request_too_large">>,
                       <<r.source \notin {"simulator", "company"}, "invalid_data_source">>>>
           v == Policy!Verdict(g, "request_validated", checks)
<1>1. g.at = "validate_request" /\ Policy!Leaves(c, "validate_request", v)
  BY DEF Policy!ValidateRequest, Policy!Enters
<1>2. /\ r = Asked /\ DOMAIN g = PolicyFields /\ DOMAIN graph = Clients /\ g.executions \in {0, 1}
      /\ Unread(g) /\ g.prompts = 0 /\ g.answer = "none"
  BY <1>1 DEF PolicyAt, AtNode, IInv, Typed
<1>3. r.size \in {"blank", "fits", "long"} /\ r.source \in {"simulator", "company"}
  BY <1>2, AskedIs DEF Policy!Request
<1>4. /\ DOMAIN checks = 1..3
      /\ checks[1][1] => r.size = "blank"
      /\ checks[2][1] => r.size = "long"
      /\ ~checks[3][1]
      /\ r.size # "fits" => checks[1][1] \/ checks[2][1]
      /\ checks[1][2] = "empty_request" /\ checks[2][2] = "request_too_large"
  <2>1. DOMAIN checks = 1..3
    OBVIOUS
  <2>2. checks[1][1] = (r.size = "blank") /\ checks[2][1] = (r.size = "long")
    OBVIOUS
  <2>3. checks[3][1] = (r.source \notin {"simulator", "company"})
    OBVIOUS
  <2>4. checks[1][2] = "empty_request" /\ checks[2][2] = "request_too_large"
    OBVIOUS
  <2> HIDE DEF checks
  <2>5. QED
    BY <1>3, <2>1, <2>2, <2>3, <2>4
<1> HIDE DEF checks
<1>5. \/ /\ \A i \in 1..3 : ~checks[i][1]
         /\ v.allowed /\ Judged(v, g, "request_validated")
      \/ \E k \in 1..3 : checks[k][1] /\ ~v.allowed /\ Judged(v, g, checks[k][2])
  <2> HIDE DEF g
  <2>1. QED
    BY <1>2, <1>4, VerdictIs
<1> HIDE DEF v
<1>6. \/ r.size = "fits" /\ v.allowed /\ Judged(v, g, "request_validated")
      \/ r.size = "blank" /\ ~v.allowed /\ Judged(v, g, "empty_request")
      \/ r.size = "long" /\ ~v.allowed /\ Judged(v, g, "request_too_large")
  <2>1. CASE (\A i \in 1..3 : ~checks[i][1]) /\ v.allowed /\ Judged(v, g, "request_validated")
    BY <1>3, <1>4, <2>1
  <2>2. ASSUME NEW k \in 1..3, checks[k][1], ~v.allowed, Judged(v, g, checks[k][2])
        PROVE  \/ r.size = "blank" /\ ~v.allowed /\ Judged(v, g, "empty_request")
               \/ r.size = "long" /\ ~v.allowed /\ Judged(v, g, "request_too_large")
    <3>1. k = 1 \/ k = 2
      BY <1>4, <2>2
    <3>2. QED
      BY <1>4, <2>2, <3>1
  <2>3. QED
    BY <1>5, <2>1, <2>2
<1>7. DOMAIN v = PolicyFields
  BY <1>6 DEF Judged
<1>8. LeftWith(c, "validate_request", v)
  BY <1>1, <1>2, <1>7, PolicyLeft
<1>9. CASE r.size = "fits" /\ v.allowed /\ Judged(v, g, "request_validated")
  <2>1. graph'[c].at = "select_tool"
    BY <1>8, <1>9 DEF LeftWith, Judged, Policy!Route, Policy!After
  <2>2. Accepted
    BY <1>2, <1>9 DEF Accepted
  <2>3. QED
    <3>1. NodeInv(c)
      BY <1>2, <1>8, <1>9, <2>1, <2>2
         DEF NodeInv, PolicyAt, PolicyNodes, AtNode, LeftWith, Carries, Judged, Unread, Reasons
    <3>2. Edge(c)
      BY <1>1, <1>2, <1>8, <1>9, <2>1, <2>2 DEF Edge, LeftWith, Carries, Judged
    <3>3. QED
      BY <3>1, <3>2 DEF NodeOf
<1>10. ASSUME NEW reason, ~v.allowed, Judged(v, g, reason), ~Accepted,
              reason = IF Asked.size = "blank" THEN "empty_request" ELSE "request_too_large"
       PROVE  NodeOf(c)
  <2>1. graph'[c].at = "deny_request"
    BY <1>8, <1>10 DEF LeftWith, Judged, Policy!Route, Policy!Conditional
  <2>2. Denial(graph'[c])
    BY <1>2, <1>8, <1>10 DEF LeftWith, Carries, Judged, Denial, Unread
  <2>3. QED
    <3>1. NodeInv(c)
      BY <1>2, <1>8, <1>10, <2>1, <2>2
         DEF NodeInv, PolicyAt, PolicyNodes, AtNode, LeftWith, Carries, Judged, Unread, Reasons
    <3>2. Edge(c)
      BY <1>1, <1>2, <1>8, <1>10, <2>1, <2>2 DEF Edge, LeftWith, Carries, Judged
    <3>3. QED
      BY <3>1, <3>2 DEF NodeOf
<1>11. QED
  BY <1>2, <1>6, <1>9, <1>10 DEF Accepted

LEMMA ToolSelected ==
  ASSUME IInv, mode = "ioa_v2_langgraph", NEW c \in Clients, PolicyAt(graph[c], request[c]),
         Policy!SelectTool(c)
  PROVE  NodeOf(c)
<1> DEFINE g == graph[c]
           v == [g EXCEPT !.intent = Decision.intent, !.tool = Decision.tool]
<1>1. g.at = "select_tool"
  BY DEF Policy!SelectTool, Policy!Enters
<1>2. /\ request[c] = Asked /\ DOMAIN g = PolicyFields /\ DOMAIN graph = Clients
      /\ Unread(g) /\ g.prompts = 0 /\ g.answer = "none" /\ g.allowed /\ Accepted
      /\ g.reason = "request_validated"
  BY <1>1 DEF PolicyAt, AtNode, IInv, Typed
<1>3. Policy!Leaves(c, "select_tool", v)
  BY <1>2 DEF Policy!SelectTool, Decision
<1>4. v.allowed /\ Selected(v)
  BY <1>2 DEF Selected, PolicyFields, Policy!initial_state
<1>5. /\ v.executions = g.executions /\ v.reads = g.reads /\ v.evidence = g.evidence
      /\ v.prompts = g.prompts /\ v.answer = g.answer /\ v.reason = g.reason
      /\ DOMAIN v = PolicyFields
  BY <1>2 DEF PolicyFields, Policy!initial_state
<1> HIDE DEF v
<1>6. LeftWith(c, "select_tool", v)
  BY <1>2, <1>3, <1>5, PolicyLeft
<1>7. graph'[c].at = "authorize_tool"
  BY <1>4, <1>6 DEF LeftWith, Policy!Route, Policy!After
<1>8. Selected(graph'[c])
  BY <1>4, <1>6 DEF LeftWith, Carries, Selected
<1>9. QED
  <2>1. NodeInv(c)
    BY <1>2, <1>4, <1>5, <1>6, <1>7, <1>8
       DEF NodeInv, PolicyAt, PolicyNodes, AtNode, LeftWith, Carries, Unread, Reasons
  <2>2. Edge(c)
    BY <1>1, <1>2, <1>4, <1>5, <1>6, <1>7, <1>8 DEF Edge, LeftWith, Carries
  <2>3. QED
    BY <2>1, <2>2 DEF NodeOf

LEMMA ToolAuthorized ==
  ASSUME IInv, mode = "ioa_v2_langgraph", NEW c \in Clients, PolicyAt(graph[c], request[c]),
         Policy!AuthorizeTool(c)
  PROVE  NodeOf(c)
<1> DEFINE g == graph[c]
           r == request[c]
           unknown == g.tool \notin DOMAIN Policy!TOOL_REGISTRY
           spec == Policy!TOOL_REGISTRY[g.tool]
           checks == <<<<unknown, "unknown_tool">>,
                       <<~unknown /\ spec.source # r.source, "tool_source_mismatch">>,
                       <<~unknown /\ spec.intent # g.intent, "intent_tool_mismatch">>,
                       <<g.executions >= Policy!max_tool_executions, "tool_execution_budget_exhausted">>,
                       <<~unknown /\ spec.needs = "device" /\ ~Policy!extract_device_id(r),
                         "missing_device_identifier">>>>
           v == Policy!Verdict(g, "tool_authorized", checks)
<1>1. g.at = "authorize_tool" /\ Policy!Leaves(c, "authorize_tool", v)
  BY DEF Policy!AuthorizeTool, Policy!Enters
<1>2. /\ r = Asked /\ DOMAIN g = PolicyFields /\ DOMAIN graph = Clients
      /\ Unread(g) /\ g.prompts = 0 /\ g.answer = "none" /\ Accepted /\ Selected(g)
  BY <1>1 DEF PolicyAt, AtNode, IInv, Typed
<1>3. RegisteredFor(Decision, r) /\ spec = Registered /\ g.tool = Decision.tool
      /\ g.intent = Decision.intent
  BY <1>2, AskedIs, DecisionIsRegistered DEF Decision, Registered, Selected
<1>4. /\ ~unknown /\ spec.source = r.source /\ spec.intent = g.intent
      /\ ~(g.executions >= Policy!max_tool_executions)
      /\ (spec.needs = "device" /\ ~Policy!extract_device_id(r)) <=> ~Authorized
  <2>1. ~unknown /\ spec.source = r.source /\ spec.intent = g.intent
    BY <1>3 DEF RegisteredFor
  <2>2. ~(g.executions >= Policy!max_tool_executions)
    BY <1>2 DEF Unread, Policy!max_tool_executions
  <2>3. (spec.needs = "device" /\ ~Policy!extract_device_id(r)) <=> ~Authorized
    BY <1>2, <1>3 DEF Authorized, Policy!extract_device_id
  <2>4. QED
    BY <2>1, <2>2, <2>3
<1> HIDE DEF unknown, spec
<1>5. /\ DOMAIN checks = 1..5
      /\ ~checks[1][1] /\ ~checks[2][1] /\ ~checks[3][1] /\ ~checks[4][1]
      /\ checks[5][1] <=> ~Authorized
      /\ checks[5][2] = "missing_device_identifier"
  <2>1. DOMAIN checks = 1..5
    OBVIOUS
  <2>2. checks[1][1] = unknown /\ checks[2][1] = (~unknown /\ spec.source # r.source)
    OBVIOUS
  <2>3. /\ checks[3][1] = (~unknown /\ spec.intent # g.intent)
        /\ checks[4][1] = (g.executions >= Policy!max_tool_executions)
    OBVIOUS
  <2>4. checks[5][1] = (~unknown /\ spec.needs = "device" /\ ~Policy!extract_device_id(r))
    OBVIOUS
  <2>5. checks[5][2] = "missing_device_identifier"
    OBVIOUS
  <2> HIDE DEF checks
  <2>6. QED
    BY <1>4, <2>1, <2>2, <2>3, <2>4, <2>5
<1> HIDE DEF checks
<1>6. \/ /\ \A i \in 1..5 : ~checks[i][1]
         /\ v.allowed /\ Judged(v, g, "tool_authorized")
      \/ \E k \in 1..5 : checks[k][1] /\ ~v.allowed /\ Judged(v, g, checks[k][2])
  <2> HIDE DEF g
  <2>1. QED
    BY <1>2, <1>5, VerdictIs
<1> HIDE DEF v
<1>7. \/ Authorized /\ v.allowed /\ Judged(v, g, "tool_authorized")
      \/ ~Authorized /\ ~v.allowed /\ Judged(v, g, "missing_device_identifier")
  <2>1. CASE (\A i \in 1..5 : ~checks[i][1]) /\ v.allowed /\ Judged(v, g, "tool_authorized")
    BY <1>5, <2>1
  <2>2. ASSUME NEW k \in 1..5, checks[k][1], ~v.allowed, Judged(v, g, checks[k][2])
        PROVE  ~Authorized /\ ~v.allowed /\ Judged(v, g, "missing_device_identifier")
    <3>1. k = 5
      BY <1>5, <2>2
    <3>2. QED
      BY <1>5, <2>2, <3>1
  <2>3. QED
    BY <1>6, <2>1, <2>2
<1>8. DOMAIN v = PolicyFields
  BY <1>7 DEF Judged
<1>9. LeftWith(c, "authorize_tool", v)
  BY <1>1, <1>2, <1>8, PolicyLeft
<1>10. CASE Authorized /\ v.allowed /\ Judged(v, g, "tool_authorized")
  <2>1. graph'[c].at = "run_tool"
    BY <1>9, <1>10 DEF LeftWith, Policy!Route, Policy!After
  <2>2. Selected(graph'[c])
    BY <1>2, <1>9, <1>10 DEF LeftWith, Carries, Selected, Judged
  <2>3. QED
    <3>1. NodeInv(c)
      BY <1>2, <1>9, <1>10, <2>1, <2>2
         DEF NodeInv, PolicyAt, PolicyNodes, AtNode, LeftWith, Carries, Judged, Unread, Reasons
    <3>2. Edge(c)
      BY <1>1, <1>2, <1>9, <1>10, <2>1, <2>2 DEF Edge, LeftWith, Carries, Judged
    <3>3. QED
      BY <3>1, <3>2 DEF NodeOf
<1>11. CASE ~Authorized /\ ~v.allowed /\ Judged(v, g, "missing_device_identifier")
  <2>1. graph'[c].at = "deny_request"
    BY <1>9, <1>11 DEF LeftWith, Policy!Route, Policy!Conditional
  <2>2. Denial(graph'[c])
    BY <1>2, <1>9, <1>11 DEF LeftWith, Carries, Judged, Denial, Unread
  <2>3. QED
    <3>1. NodeInv(c)
      BY <1>2, <1>9, <1>11, <2>1, <2>2
         DEF NodeInv, PolicyAt, PolicyNodes, AtNode, LeftWith, Carries, Judged, Unread, Reasons
    <3>2. Edge(c)
      BY <1>1, <1>2, <1>9, <1>11, <2>1, <2>2 DEF Edge, LeftWith, Carries, Judged
    <3>3. QED
      BY <3>1, <3>2 DEF NodeOf
<1>12. QED
  BY <1>7, <1>10, <1>11

LEMMA ToolRun ==
  ASSUME IInv, mode = "ioa_v2_langgraph", NEW c \in Clients, PolicyAt(graph[c], request[c]),
         Policy!RunTool(c)
  PROVE  NodeOf(c)
<1> DEFINE g == graph[c]
           reads == g.reads \cup Policy!ToolReads(c)
           count == g.executions + 1
           read == [g EXCEPT !.reads = reads, !.executions = count]
           found == Policy!ToolOutput(c)
           seen == [read EXCEPT !.evidence = found]
<1>1. g.at = "run_tool"
  BY DEF Policy!RunTool, Policy!Enters
<1>2. /\ request[c] = Asked /\ DOMAIN g = PolicyFields /\ DOMAIN graph = Clients
      /\ Unread(g) /\ g.prompts = 0 /\ g.answer = "none" /\ g.allowed /\ Accepted /\ Authorized
      /\ g.reason = "tool_authorized" /\ Selected(g)
  BY <1>1 DEF PolicyAt, AtNode, IInv, Typed
<1>3. RegisteredFor(Decision, request[c]) /\ g.tool = Decision.tool
  BY <1>2, AskedIs, DecisionIsRegistered DEF Decision, Selected
<1>4. Policy!TOOL_REGISTRY[g.tool].source = Asked.source
  BY <1>2, <1>3 DEF RegisteredFor
<1>5. Policy!Calls(c) <=> CallsTool
  BY <1>2, <1>3 DEF Policy!Calls, CallsTool
<1>6. \/ ToolFails /\ Policy!Raises(c, read)
      \/ ~ToolFails /\ Policy!Leaves(c, "run_tool", seen)
  <2>1. Policy!ToolRaises(c) <=> ToolFails
    BY <1>3, <1>5 DEF Policy!ToolRaises, Policy!ReadFails, ToolFails
  <2>2. g.allowed /\ Policy!TOOL_REGISTRY[g.tool].source = request[c].source
    BY <1>2, <1>4
  <2>3. QED
    BY <2>1, <2>2 DEF Policy!RunTool
<1>7. reads = ReadsOfTool /\ count = 1 /\ found = Evidence
  <2>1. Policy!ToolReads(c) = ReadsOfTool
    BY <1>3, <1>4, <1>5 DEF Policy!ToolReads, Policy!ReadFails, ReadsOfTool, StoodIn
  <2>2. found = Evidence
    BY <1>3, <1>5 DEF Policy!ToolOutput, Policy!ReadFails, Evidence
  <2>3. QED
    BY <1>2, <2>1, <2>2 DEF Unread
<1> HIDE DEF reads, count, found
<1>8. /\ DOMAIN read = PolicyFields /\ read.reads = reads /\ read.executions = count
      /\ read.prompts = g.prompts /\ read.answer = g.answer /\ read.reason = g.reason
      /\ read.allowed = g.allowed
  BY <1>2 DEF PolicyFields, Policy!initial_state
<1> HIDE DEF read
<1>9. /\ DOMAIN seen = PolicyFields /\ seen.reads = reads /\ seen.executions = count
      /\ seen.prompts = g.prompts /\ seen.answer = g.answer /\ seen.reason = g.reason
      /\ seen.allowed = g.allowed /\ seen.evidence = found
  BY <1>8 DEF PolicyFields, Policy!initial_state
<1> HIDE DEF seen
<1>10. CASE ToolFails /\ Policy!Raises(c, read)
  <2>1. RaisedWith(c, read)
    BY <1>2, <1>8, <1>10, PolicyRaised
  <2>2. QED
    <3>1. NodeInv(c)
      BY <1>2, <1>7, <1>8, <1>10, <2>1
         DEF NodeInv, PolicyAt, PolicyNodes, AtNode, RaisedWith, Carries, Reasons
    <3>2. Edge(c)
      BY <1>1, <1>2, <1>7, <1>8, <1>10, <2>1 DEF Edge, RaisedWith, Carries
    <3>3. QED
      BY <3>1, <3>2 DEF NodeOf
<1>11. CASE ~ToolFails /\ Policy!Leaves(c, "run_tool", seen)
  <2>1. LeftWith(c, "run_tool", seen)
    BY <1>2, <1>9, <1>11, PolicyLeft
  <2>2. graph'[c].at = "validate_evidence"
    BY <1>2, <1>9, <2>1 DEF LeftWith, Policy!Route, Policy!After
  <2>3. Read(graph'[c])
    BY <1>7, <1>9, <2>1 DEF LeftWith, Carries, Read
  <2>4. QED
    <3>1. NodeInv(c)
      BY <1>2, <1>7, <1>9, <1>11, <2>1, <2>2, <2>3
         DEF NodeInv, PolicyAt, PolicyNodes, AtNode, LeftWith, Carries, Reasons
    <3>2. Edge(c)
      BY <1>1, <1>2, <1>7, <1>9, <1>11, <2>1, <2>2, <2>3 DEF Edge, LeftWith, Carries
    <3>3. QED
      BY <3>1, <3>2 DEF NodeOf
<1>12. QED
  BY <1>6, <1>10, <1>11

LEMMA EvidenceValidated ==
  ASSUME IInv, mode = "ioa_v2_langgraph", NEW c \in Clients, PolicyAt(graph[c], request[c]),
         Policy!ValidateEvidence(c)
  PROVE  NodeOf(c)
<1> DEFINE g == graph[c]
           checks == <<<<g.evidence = "none", "missing_tool_evidence">>>>
           v == Policy!Verdict(g, "evidence_validated", checks)
<1>1. g.at = "validate_evidence" /\ Policy!Leaves(c, "validate_evidence", v)
  BY DEF Policy!ValidateEvidence, Policy!Enters
<1>2. /\ request[c] = Asked /\ DOMAIN g = PolicyFields /\ DOMAIN graph = Clients
      /\ Read(g) /\ g.prompts = 0 /\ g.answer = "none" /\ Accepted /\ Authorized
      /\ ~ToolFails
  BY <1>1 DEF PolicyAt, AtNode, IInv, Typed
<1>3. DOMAIN checks = 1..1 /\ (checks[1][1] <=> Evidence = "none")
      /\ checks[1][2] = "missing_tool_evidence"
  <2>1. DOMAIN checks = 1..1 /\ checks[1][1] = (g.evidence = "none")
        /\ checks[1][2] = "missing_tool_evidence"
    OBVIOUS
  <2>2. g.evidence = Evidence
    BY <1>2 DEF Read
  <2> HIDE DEF checks
  <2>3. QED
    BY <2>1, <2>2
<1> HIDE DEF checks
<1>4. \/ /\ \A i \in 1..1 : ~checks[i][1]
         /\ v.allowed /\ Judged(v, g, "evidence_validated")
      \/ \E k \in 1..1 : checks[k][1] /\ ~v.allowed /\ Judged(v, g, checks[k][2])
  <2> HIDE DEF g
  <2>1. QED
    BY <1>2, <1>3, VerdictIs
<1> HIDE DEF v
<1>5. \/ Evidence # "none" /\ v.allowed /\ Judged(v, g, "evidence_validated")
      \/ Evidence = "none" /\ ~v.allowed /\ Judged(v, g, "missing_tool_evidence")
  <2>1. \A k \in 1..1 : k = 1
    OBVIOUS
  <2>2. QED
    BY <1>3, <1>4, <2>1
<1>6. DOMAIN v = PolicyFields
  BY <1>5 DEF Judged
<1>7. LeftWith(c, "validate_evidence", v)
  BY <1>1, <1>2, <1>6, PolicyLeft
<1>8. CASE Evidence # "none" /\ v.allowed /\ Judged(v, g, "evidence_validated")
  <2>1. graph'[c].at = "generate_answer"
    BY <1>7, <1>8 DEF LeftWith, Policy!Route, Policy!After
  <2>2. Read(graph'[c])
    BY <1>2, <1>7, <1>8 DEF LeftWith, Carries, Read, Judged
  <2>3. QED
    <3>1. NodeInv(c)
      BY <1>2, <1>7, <1>8, <2>1, <2>2
         DEF NodeInv, PolicyAt, PolicyNodes, AtNode, LeftWith, Carries, Judged, Reasons
    <3>2. Edge(c)
      BY <1>1, <1>2, <1>7, <1>8, <2>1, <2>2 DEF Edge, LeftWith, Carries, Judged
    <3>3. QED
      BY <3>1, <3>2 DEF NodeOf
<1>9. CASE Evidence = "none" /\ ~v.allowed /\ Judged(v, g, "missing_tool_evidence")
  <2>1. graph'[c].at = "deny_request"
    BY <1>7, <1>9 DEF LeftWith, Policy!Route, Policy!Conditional
  <2>2. Denial(graph'[c])
    BY <1>2, <1>7, <1>9 DEF LeftWith, Carries, Judged, Denial, Read
  <2>3. QED
    <3>1. NodeInv(c)
      BY <1>2, <1>7, <1>9, <2>1, <2>2
         DEF NodeInv, PolicyAt, PolicyNodes, AtNode, LeftWith, Carries, Judged, Reasons
    <3>2. Edge(c)
      BY <1>1, <1>2, <1>7, <1>9, <2>1, <2>2 DEF Edge, LeftWith, Carries, Judged
    <3>3. QED
      BY <3>1, <3>2 DEF NodeOf
<1>10. QED
  BY <1>5, <1>8, <1>9

LEMMA AnswerAnnounced ==
  ASSUME IInv, mode = "ioa_v2_langgraph", NEW c \in Clients, PolicyAt(graph[c], request[c]),
         Policy!AnnounceAnswer(c)
  PROVE  NodeOf(c)
<1> DEFINE g == graph[c]
           v == [g EXCEPT !.at = "await_model"]
<1>1. g.at = "generate_answer" /\ DOMAIN graph = Clients
  BY DEF Policy!AnnounceAnswer, Policy!Enters, IInv, Typed
<1>2. graph' = [graph EXCEPT ![c] = v] /\ request' = request
  BY DEF Policy!AnnounceAnswer
<1>3. Carries(v, g) /\ v.at = "await_model"
  BY DEF PolicyAt, Carries, PolicyFields, Policy!initial_state
<1> HIDE DEF v
<1>4. graph'[c] = v /\ \A d \in Clients \ {c} : graph'[d] = graph[d]
  BY <1>1, <1>2
<1>5. QED
  <2>1. NodeInv(c)
    BY <1>1, <1>2, <1>3, <1>4
       DEF NodeInv, PolicyAt, PolicyNodes, AtNode, Carries, Read
  <2>2. Edge(c)
    BY <1>1, <1>2, <1>3, <1>4 DEF Edge, Carries
  <2>3. QED
    BY <2>1, <2>2 DEF NodeOf

LEMMA AnswerGenerated ==
  ASSUME IInv, mode = "ioa_v2_langgraph", NEW c \in Clients, PolicyAt(graph[c], request[c]),
         Policy!GenerateAnswer(c)
  PROVE  NodeOf(c)
<1> DEFINE g == graph[c]
           count == g.prompts + 1
           asked == [g EXCEPT !.prompts = count]
           steps == IF c \in Streams THEN g.steps ELSE Append(g.steps, "generate_answer")
           v == [asked EXCEPT !.at = "answered", !.answer = "answer", !.steps = steps]
<1>1. g.at \in {"generate_answer", "await_model"} /\ DOMAIN graph = Clients
  BY DEF Policy!GenerateAnswer, Policy!Enters, IInv, Typed
<1>2. /\ request[c] = Asked /\ DOMAIN g = PolicyFields
      /\ Read(g) /\ g.prompts = 0 /\ g.answer = "none" /\ Accepted /\ Authorized
      /\ g.reason = "evidence_validated" /\ ~ToolFails
      /\ Evidence # "none"
  BY <1>1 DEF PolicyAt, AtNode
<1>3. asked.steps = g.steps
  BY <1>2 DEF PolicyFields, Policy!initial_state
<1>4. \/ world.model = "raises" /\ Policy!Raises(c, asked)
      \/ world.model # "raises" /\ graph' = [graph EXCEPT ![c] = v] /\ request' = request
  BY <1>3 DEF Policy!GenerateAnswer
<1>5. count = 1
  BY <1>2
<1> HIDE DEF count, steps
<1>6. /\ DOMAIN asked = PolicyFields /\ asked.prompts = count /\ asked.reads = g.reads
      /\ asked.executions = g.executions /\ asked.evidence = g.evidence
      /\ asked.answer = g.answer /\ asked.reason = g.reason
  BY <1>2 DEF PolicyFields, Policy!initial_state
<1> HIDE DEF asked
<1>7. /\ DOMAIN v = PolicyFields /\ v.prompts = count /\ v.reads = g.reads
      /\ v.executions = g.executions /\ v.evidence = g.evidence
      /\ v.answer = "answer" /\ v.reason = g.reason /\ v.at = "answered"
  BY <1>6 DEF PolicyFields, Policy!initial_state
<1> HIDE DEF v
<1>8. CASE world.model = "raises" /\ Policy!Raises(c, asked)
  <2>1. RaisedWith(c, asked)
    BY <1>1, <1>6, <1>8, PolicyRaised
  <2>2. Read(graph'[c])
    BY <1>2, <1>6, <2>1 DEF RaisedWith, Carries, Read
  <2>3. QED
    <3>1. NodeInv(c)
      BY <1>2, <1>5, <1>6, <1>8, <2>1, <2>2
         DEF NodeInv, PolicyAt, PolicyNodes, AtNode, RaisedWith, Carries, Reasons, Read
    <3>2. Edge(c)
      BY <1>1, <1>2, <1>5, <1>6, <1>8, <2>1, <2>2 DEF Edge, RaisedWith, Carries
    <3>3. QED
      BY <3>1, <3>2 DEF NodeOf
<1>9. CASE world.model # "raises" /\ graph' = [graph EXCEPT ![c] = v] /\ request' = request
  <2>1. graph'[c] = v /\ \A d \in Clients \ {c} : graph'[d] = graph[d]
    BY <1>1, <1>9
  <2>2. Read(graph'[c])
    BY <1>2, <1>7, <2>1 DEF Read
  <2>3. QED
    <3>1. NodeInv(c)
      BY <1>2, <1>5, <1>7, <1>9, <2>1, <2>2
         DEF NodeInv, PolicyAt, PolicyNodes, AtNode, Reasons, Read
    <3>2. Edge(c)
      BY <1>1, <1>2, <1>5, <1>7, <1>9, <2>1, <2>2 DEF Edge
    <3>3. QED
      BY <3>1, <3>2 DEF NodeOf
<1>10. QED
  BY <1>4, <1>8, <1>9

LEMMA RequestDenied ==
  ASSUME IInv, mode = "ioa_v2_langgraph", NEW c \in Clients, PolicyAt(graph[c], request[c]),
         Policy!DenyRequest(c)
  PROVE  NodeOf(c)
<1> DEFINE g == graph[c]
           v == [g EXCEPT !.at = "denied", !.answer = g.reason, !.evidence = "error",
                          !.steps = Append(@, "deny_request")]
<1>1. g.at = "deny_request" /\ DOMAIN graph = Clients
  BY DEF Policy!DenyRequest, Policy!Enters, IInv, Typed
<1>2. graph' = [graph EXCEPT ![c] = v] /\ request' = request
  BY <1>1 DEF Policy!DenyRequest
<1>3. /\ DOMAIN v = PolicyFields /\ v.at = "denied" /\ v.answer = g.reason /\ v.reason = g.reason
      /\ v.prompts = g.prompts /\ v.executions = g.executions /\ v.reads = g.reads
  BY DEF PolicyAt, PolicyFields, Policy!initial_state
<1> HIDE DEF v
<1>4. graph'[c] = v /\ \A d \in Clients \ {c} : graph'[d] = graph[d]
  BY <1>1, <1>2
<1>5. Denial(g) /\ g.prompts = 0
  BY <1>1 DEF PolicyAt, AtNode
<1>6. Denial(v)
  BY <1>3, <1>5 DEF Denial
<1>7. QED
  <2>1. NodeInv(c)
    BY <1>1, <1>2, <1>3, <1>4, <1>5, <1>6
       DEF NodeInv, PolicyAt, PolicyNodes, AtNode
  <2>2. Edge(c)
    BY <1>1, <1>2, <1>3, <1>4, <1>5, <1>6 DEF Edge
  <2>3. QED
    BY <2>1, <2>2 DEF NodeOf

LEMMA PolicyMoves ==
  ASSUME IInv, mode = "ioa_v2_langgraph", NEW c \in Clients, PolicyAt(graph[c], request[c]),
         Policy!Step(c)
  PROVE  NodeOf(c)
BY RequestValidated, ToolSelected, ToolAuthorized, ToolRun, EvidenceValidated, AnswerAnnounced,
   AnswerGenerated, RequestDenied DEF Policy!Step

LEMMA SamePolicy ==
  ASSUME scenario' = scenario, world' = world, NEW c
  PROVE  PolicyState(c)' <=> PolicyAt(graph'[c], request'[c])
<1>1. Asked' = Asked
  BY DEF Asked, effective_data_source, active_source, mode
<1>2. Decision' = Decision
  BY <1>1 DEF Decision, Policy!classify_intent
<1>3. Registered' = Registered
  BY <1>2 DEF Registered
<1>4. (Accepted' <=> Accepted) /\ (Authorized' <=> Authorized) /\ (CallsTool' <=> CallsTool)
  BY <1>1, <1>2, <1>3 DEF Accepted, Authorized, CallsTool
<1>5. (ToolFails' <=> ToolFails) /\ (StoodIn' <=> StoodIn)
  BY <1>2, <1>4 DEF ToolFails, StoodIn, Policy!FallsBack
<1>6. Evidence' = Evidence /\ ReadsOfTool' = ReadsOfTool
  BY <1>1, <1>2, <1>4, <1>5 DEF Evidence, ReadsOfTool
<1>7. QED
  BY <1>1, <1>2, <1>4, <1>5, <1>6
     DEF PolicyState, PolicyAt, AtNode, Denial, Unread, Read, Selected

\* A request that is let in, and one whose stream is closed.
LEMMA PolicyStarts ==
  ASSUME NEW c \in Clients, DOMAIN graph = Clients, PolicyAt(graph[c], request[c]),
         DOMAIN request = Clients, Policy!Start(c, Asked)
  PROVE  NodeOf(c)
<1> DEFINE g == graph[c]
           v == [g EXCEPT !.at = "validate_request"]
<1>1. graph' = [graph EXCEPT ![c] = v] /\ request' = [request EXCEPT ![c] = Asked] /\ g.at = "off"
  BY DEF Policy!Start
<1>2. Carries(v, g) /\ v.at = "validate_request"
  BY DEF PolicyAt, Carries, PolicyFields, Policy!initial_state
<1> HIDE DEF v
<1>3. graph'[c] = v /\ request'[c] = Asked
      /\ \A d \in Clients \ {c} : graph'[d] = graph[d] /\ request'[d] = request[d]
  BY <1>1
<1>4. QED
  <2>1. NodeInv(c)
    BY <1>1, <1>2, <1>3
       DEF NodeInv, PolicyAt, PolicyNodes, AtNode, Carries, Unread
  <2>2. Edge(c)
    BY <1>1, <1>2, <1>3 DEF Edge, Carries
  <2>3. QED
    BY <2>1, <2>2 DEF NodeOf

LEMMA PolicyCloses ==
  ASSUME NEW c \in Clients, DOMAIN graph = Clients, PolicyAt(graph[c], request[c]), AgentCloses(c)
  PROVE  NodeOf(c)
<1> DEFINE g == graph[c]
           at == IF g.at \in {"answered", "denied", "failed", "invalid", "off"} THEN g.at
                 ELSE "closed"
           v == [g EXCEPT !.at = at]
<1>1. graph' = [graph EXCEPT ![c] = v] /\ request' = request
  BY DEF AgentCloses
<1>2. at = g.at \/ (at = "closed" /\ g.at \notin {"answered", "denied", "off"})
  OBVIOUS
<1> HIDE DEF at
<1>3. Carries(v, g) /\ v.at = at
  BY DEF PolicyAt, Carries, PolicyFields, Policy!initial_state
<1> HIDE DEF v
<1>4. graph'[c] = v /\ \A d \in Clients \ {c} : graph'[d] = graph[d]
  BY <1>1
<1>5. CASE at = g.at
  <2>1. NodeInv(c)
    BY <1>1, <1>3, <1>4, <1>5
       DEF NodeInv, PolicyAt, PolicyNodes, AtNode, Carries, Unread, Read, Selected, Denial
  <2>2. Edge(c)
    BY <1>1, <1>3, <1>4, <1>5 DEF Edge, Carries
  <2>3. QED
    BY <2>1, <2>2 DEF NodeOf
<1>6. CASE at = "closed" /\ g.at \notin {"answered", "denied", "off"}
  <2>1. g.prompts = 0 \/ (g.prompts = 1 /\ Read(g) /\ Evidence # "none")
    BY <1>6 DEF PolicyAt, PolicyNodes, AtNode
  <2>2. QED
    <3>1. NodeInv(c)
      BY <1>1, <1>3, <1>4, <1>6, <2>1
         DEF NodeInv, PolicyAt, PolicyNodes, AtNode, Carries, Read
    <3>2. Edge(c)
      BY <1>1, <1>3, <1>4, <1>6, <2>1 DEF Edge, Carries
    <3>3. QED
      BY <3>1, <3>2 DEF NodeOf
<1>7. QED
  BY <1>2, <1>5, <1>6

LEMMA RequestsStay ==
  ASSUME AInv, [Next]_vars
  PROVE  DOMAIN request' = Clients
<1>1. DOMAIN request = Clients
  BY DEF AInv, PolicyInv
<1>2. AgentsRest \/ \E d \in Clients : AgentStarts(d) \/ AgentMoves(d) \/ AgentCloses(d)
  BY Moves DEF AInv
<1>3. ASSUME NEW d \in Clients, AgentStarts(d)
      PROVE  DOMAIN request' = Clients
  BY <1>1, <1>3 DEF AgentStarts, StartAgent, Policy!Start, Ops!Start, React!Start, agentVars
<1>4. ASSUME NEW d \in Clients, AgentMoves(d)
      PROVE  request' = request
  <2>1. CASE Policy!Step(d)
    BY <2>1 DEF Policy!Step, Policy!ValidateRequest, Policy!SelectTool, Policy!AuthorizeTool,
         Policy!RunTool, Policy!ValidateEvidence, Policy!AnnounceAnswer, Policy!GenerateAnswer,
         Policy!DenyRequest, Policy!Leaves, Policy!Raises
  <2>2. CASE Ops!Step(d)
    BY <2>2 DEF Ops!Step, Ops!ValidateRequest, Ops!SelectWorkflow, Ops!AuthorizeWorkflow,
         Ops!ExecuteWorkflow, Ops!FinishWorkflows, Ops!ApplyKpiRules, Ops!GenerateAnswer, Ops!DenyRequest,
         Ops!Leaves, Ops!Raises
  <2>3. CASE React!Step(d)
    BY <2>3 DEF React!Step, React!ExtractTarget, React!ChooseNextStep, React!ExecuteTool,
         React!GenerateFinalAnswer
  <2>4. QED
    BY <1>4, <2>1, <2>2, <2>3 DEF AgentMoves, AgentStep
<1>5. QED
  BY <1>1, <1>2, <1>3, <1>4 DEF AgentsRest, AgentCloses

\* No step changes what the requests are given.
LEMMA SetupStays ==
  ASSUME IInv, [Next]_vars
  PROVE  scenario' = scenario /\ world' = world
<1>1. ASSUME NEW d \in Clients, AgentStarts(d)
      PROVE  world' = world
  BY <1>1 DEF AgentStarts, StartAgent, Policy!Start, Ops!Start, React!Start, agentVars
<1>2. QED
  BY <1>1, Moves DEF AgentsRest, AgentStarts, AgentMoves, AgentCloses

\* A step leaves every request of the LangGraph agent alone, or takes one along an edge.
LEMMA PolicyGoes ==
  ASSUME AInv, [Next]_vars, mode = "ioa_v2_langgraph"
  PROVE  AgentsRest \/ \E d \in Clients : NodeOf(d)
<1>1. IInv /\ DOMAIN graph = Clients /\ DOMAIN request = Clients
  BY DEF AInv, IInv, Typed, PolicyInv
<1>2. \A c \in Clients : PolicyAt(graph[c], request[c])
  BY DEF AInv, PolicyInv, PolicyState
<1>3. ASSUME NEW d \in Clients, AgentStarts(d)
      PROVE  NodeOf(d)
  <2>1. Policy!Start(d, Asked)
    BY <1>3 DEF AgentStarts, StartAgent, Asked
  <2>2. QED
    BY <1>1, <1>2, <2>1, PolicyStarts
<1>4. ASSUME NEW d \in Clients, AgentMoves(d)
      PROVE  NodeOf(d)
  BY <1>1, <1>2, <1>4, PolicyMoves DEF AgentMoves, AgentStep
<1>5. ASSUME NEW d \in Clients, AgentCloses(d)
      PROVE  NodeOf(d)
  BY <1>1, <1>2, <1>5, PolicyCloses
<1>6. QED
  BY <1>1, <1>3, <1>4, <1>5, Moves

LEMMA PolicyKept ==
  ASSUME AInv, [Next]_vars
  PROVE  PolicyInv'
<1>1. scenario' = scenario /\ world' = world
  BY SetupStays DEF AInv
<1>2. DOMAIN request' = Clients
  BY RequestsStay
<1>3. CASE mode # "ioa_v2_langgraph"
  BY <1>1, <1>2, <1>3 DEF PolicyInv, mode
<1>4. CASE mode = "ioa_v2_langgraph"
  <2>1. \A c \in Clients : PolicyAt(graph[c], request[c])
    BY <1>4 DEF AInv, PolicyInv, PolicyState
  <2>2. SUFFICES \A c \in Clients : PolicyAt(graph'[c], request'[c])
    BY <1>1, <1>2, SamePolicy DEF PolicyInv
  <2>3. CASE AgentsRest
    BY <2>1, <2>3 DEF AgentsRest
  <2>4. ASSUME NEW d \in Clients, NodeOf(d), NEW c \in Clients
        PROVE  PolicyAt(graph'[c], request'[c])
    <3>1. CASE c = d
      BY <2>4, <3>1 DEF NodeOf, NodeInv
    <3>2. CASE c # d
      <4>1. graph'[c] = graph[c] /\ request'[c] = request[c]
        BY <2>4, <3>2 DEF NodeOf, NodeInv
      <4>2. QED
        BY <2>1, <4>1
    <3>3. QED
      BY <3>1, <3>2
  <2>5. QED
    BY <1>4, <2>3, <2>4, PolicyGoes
<1>5. QED
  BY <1>3, <1>4

-----------------------------------------------------------------------------
(* The theorems. *)

LEMMA PolicyBegins ==
  LET g == Policy!initial_state
  IN /\ DOMAIN g = PolicyFields /\ g.at = "off" /\ g.reason = "" /\ g.prompts = 0
     /\ g.answer = "none" /\ g.allowed /\ g.executions = 0 /\ g.reads = {}
     /\ g.evidence = "none"
BY DEF PolicyFields, Policy!initial_state

LEMMA AgentsInitially == Init => MemoryInv /\ CustomInv /\ PolicyInv
<1> SUFFICES ASSUME Init
             PROVE  MemoryInv /\ CustomInv /\ PolicyInv
  OBVIOUS
<1>1. Len(<<>>) = 0 /\ <<>> \in Seq({})
  OBVIOUS
<1>2. MemoryInv
  <2>1. memory.conversation_history = <<>> /\ DOMAIN memory = DOMAIN React!initial_memory
    BY DEF Init, React!initial_memory
  <2>2. QED
    BY <1>1, <2>1 DEF MemoryInv, HistoryIsPaired, React!HistoryIsPaired
<1>3. CustomInv
  <2> SUFFICES ASSUME mode = "ioa_v2_custom", NEW c \in Clients
               PROVE  CustomState(c)
    BY DEF CustomInv
  <2>1. graph[c] = React!initial_state
    BY DEF Init
  <2>2. graph[c].at = "off" /\ graph[c].observations = <<>> /\ DOMAIN graph[c] = CustomFields
    BY <2>1 DEF React!initial_state, CustomFields
  <2>3. QED
    BY <1>1, <2>2 DEF CustomState, Counting
<1>4. PolicyInv
  <2>1. DOMAIN request = Clients
    BY DEF Init
  <2>2. ASSUME mode = "ioa_v2_langgraph", NEW c \in Clients
        PROVE  PolicyState(c)
    <3>1. graph[c] = Policy!initial_state
      BY <2>2 DEF Init
    <3> DEFINE g == graph[c]
    <3>2. /\ DOMAIN g = PolicyFields /\ g.at = "off" /\ g.reason = "" /\ g.prompts = 0
          /\ g.answer = "none" /\ g.allowed /\ g.executions = 0 /\ g.reads = {}
          /\ g.evidence = "none"
      BY <3>1, PolicyBegins
    <3> HIDE DEF g
    <3>3. AtNode(g)
      BY <3>2 DEF AtNode, Unread
    <3>4. PolicyAt(g, request[c])
      BY <3>2, <3>3 DEF PolicyAt, PolicyNodes, Reasons
    <3>5. QED
      BY <3>4 DEF PolicyState, g
  <2>3. QED
    BY <2>1, <2>2 DEF PolicyInv
<1>5. QED
  BY <1>2, <1>3, <1>4

LEMMA AgentsNext == AInv /\ IInv' /\ [Next]_vars => AInv'
BY CustomKept, PolicyKept DEF AInv

\* The agents' invariant holds in every reachable state.
THEOREM AgentsInvariant == Spec => []AInv
<1>1. Init /\ IInv => AInv
  BY AgentsInitially DEF AInv
<1>2. QED
  BY <1>1, AgentsNext, Invariant, PTL DEF Spec

\* The conversation that all requests of the custom agent share stays one of
\* questions followed by their own answers.
THEOREM HistoryPaired == Spec => []HistoryIsPaired
<1>1. AInv => HistoryIsPaired
  BY DEF AInv, MemoryInv
<1>2. QED
  BY <1>1, AgentsInvariant, PTL

\* A reply of /api/diagnose reports the tokens of its own calls, although suspended
\* streams count in the same field.
THEOREM OwnUsage == Spec => []RunReportsItsOwnUsage
<1>1. AInv => RunReportsItsOwnUsage
  BY DEF AInv, CustomInv, CustomState, RunReportsItsOwnUsage, React!RunReportsItsOwnUsage
<1>2. QED
  BY <1>1, AgentsInvariant, PTL

\* No classified request is refused for its tool: the registry has every tool the
\* classifier names, for the source and the intent of the request.
THEOREM ClassifierAgrees == Spec => []ClassifierMatchesRegistry
<1>1. AInv => ClassifierMatchesRegistry
  BY DEF AInv, PolicyInv, PolicyState, PolicyAt, Reasons, ClassifierMatchesRegistry,
       Policy!ClassifierMatchesRegistry
<1>2. QED
  BY <1>1, AgentsInvariant, PTL

\* The model of the LangGraph agent is prompted once and with evidence only, and the
\* custom agent answers with an observation.
THEOREM EvidenceFirst == Spec => []AnsweredWithEvidence
<1>1. ASSUME AInv, mode = "ioa_v2_langgraph"
      PROVE  Policy!PromptedWithEvidence
  <2>1. ASSUME NEW c \in Clients
        PROVE  /\ graph[c].prompts <= 1
               /\ graph[c].prompts = 1 => /\ graph[c].executions = 1
                                         /\ graph[c].evidence # "none"
                                         /\ graph[c].at \notin {"deny_request", "denied"}
    <3>1. PolicyAt(graph[c], request[c])
      BY <1>1 DEF AInv, PolicyInv, PolicyState
    <3>2. \/ graph[c].prompts = 0
          \/ /\ graph[c].prompts = 1 /\ Read(graph[c]) /\ Evidence # "none"
             /\ graph[c].at \in {"answered", "raised", "closed"}
      BY <3>1 DEF PolicyAt, PolicyNodes, AtNode
    <3>3. QED
      BY <3>2 DEF Read
  <2>2. QED
    BY <2>1 DEF Policy!PromptedWithEvidence
<1>2. ASSUME AInv, mode = "ioa_v2_custom"
      PROVE  React!AnswersHaveEvidence
  BY <1>2 DEF AInv, CustomInv, CustomState, React!AnswersHaveEvidence
<1>3. AInv => AnsweredWithEvidence
  BY <1>1, <1>2 DEF AnsweredWithEvidence
<1>4. QED
  BY <1>3, AgentsInvariant, PTL

\* run and run_stream of the LangGraph agent come to the same answer or refusal from
\* the same reads, the part of GraphsAgree that is about it.
LEMMA PolicyDriversAgree == AInv /\ mode = "ioa_v2_langgraph" => Policy!RunAndStreamAgree
<1> SUFFICES ASSUME AInv, mode = "ioa_v2_langgraph", NEW c \in Clients, NEW d \in Clients,
                    {graph[c].at, graph[d].at} \subseteq {"answered", "denied", "raised"}
             PROVE  /\ graph[c].answer = graph[d].answer /\ graph[c].reads = graph[d].reads
                    /\ graph[c].prompts = graph[d].prompts
  BY DEF Policy!RunAndStreamAgree
<1> DEFINE Tells(g) ==
      \/ /\ g.answer = "answer" /\ g.reads = ReadsOfTool /\ g.prompts = 1
         /\ Accepted /\ Authorized /\ Evidence # "none" /\ world.model # "raises"
         /\ ~ToolFails
      \/ /\ g.answer = "none" /\ g.reads = ReadsOfTool /\ g.prompts = 1
         /\ Accepted /\ Authorized /\ Evidence # "none" /\ world.model = "raises"
         /\ ~ToolFails
      \/ /\ g.answer = "none" /\ g.reads = ReadsOfTool /\ g.prompts = 0
         /\ Accepted /\ Authorized /\ ToolFails /\ Evidence # "none"
      \/ Denial(g) /\ g.answer = g.reason /\ g.prompts = 0
<1>1. \A e \in Clients : graph[e].at \in {"answered", "denied", "raised"} => Tells(graph[e])
  <2> TAKE e \in Clients
  <2>1. PolicyAt(graph[e], request[e])
    BY DEF AInv, PolicyInv, PolicyState
  <2>2. ToolFails => Evidence # "none"
    BY DEF Evidence, ToolFails
  <2> DEFINE g == graph[e]
  <2>3. AtNode(g)
    BY <2>1 DEF PolicyAt
  <2> HIDE DEF g
  <2>4. g.at = "answered" => Tells(g)
    BY <2>3 DEF AtNode, Read
  <2>5. g.at = "denied" => Tells(g)
    BY <2>3 DEF AtNode
  <2>6. g.at = "raised" => Tells(g)
    BY <2>2, <2>3 DEF AtNode, Read
  <2>7. QED
    BY <2>4, <2>5, <2>6 DEF g
<1>2. Tells(graph[c]) /\ Tells(graph[d])
  BY <1>1
<1>3. QED
  BY <1>2 DEF Denial

-----------------------------------------------------------------------------
(* The LangGraph agent is governed: what it does for a request is what         *)
(* GovernedWorkflow allows, under the mapping of PolicyGraph.                  *)

View == Only("ioa_v2_langgraph", Policy!initial_state)

viewPhase == [c \in Clients |-> PolicyView!Phase(View[c])]
viewGranted == [c \in Clients |-> IF View[c].at = "off" THEN {} ELSE {request[c].source}]
viewTouched == [c \in Clients |-> View[c].reads]
viewCount == [c \in Clients |-> View[c].executions]
viewDown == IF PolicyView!ReadFails THEN {"company"} ELSE {}

\* What stands in for the sources of G: the simulator, for a company database that is down.
ViewStandIns(G) == IF PolicyView!ReadFails /\ "company" \in G THEN {"simulator"} ELSE {}

LEMMA StandInsAre ==
  ASSUME NEW G
  PROVE  PolicyView!Governed!StandIns(G) = ViewStandIns(G)
BY DEF PolicyView!Governed!StandIns, ViewStandIns

\* A step of one request, seen through the mapping.
LEMMA ViewMoves ==
  ASSUME mode = "ioa_v2_langgraph", mode' = mode, NEW d \in Clients,
         \A c \in Clients \ {d} : graph'[c] = graph[c] /\ request'[c] = request[c]
  PROVE  /\ viewPhase' = [viewPhase EXCEPT ![d] = PolicyView!Phase(graph'[d])]
         /\ viewGranted' = [viewGranted EXCEPT ![d] =
                              IF graph'[d].at = "off" THEN {} ELSE {request'[d].source}]
         /\ viewTouched' = [viewTouched EXCEPT ![d] = graph'[d].reads]
         /\ viewCount' = [viewCount EXCEPT ![d] = graph'[d].executions]
         /\ viewPhase[d] = PolicyView!Phase(graph[d])
         /\ viewGranted[d] = IF graph[d].at = "off" THEN {} ELSE {request[d].source}
         /\ viewTouched[d] = graph[d].reads /\ viewCount[d] = graph[d].executions
<1>1. View = graph /\ View' = graph'
  BY DEF View, Only
<1>2. \A c \in Clients : PolicyView!Phase(View[c])' = PolicyView!Phase(graph'[c])
  BY <1>1 DEF PolicyView!Phase
<1>3. viewPhase' = [viewPhase EXCEPT ![d] = PolicyView!Phase(graph'[d])]
      /\ viewPhase[d] = PolicyView!Phase(graph[d])
  BY <1>1, <1>2 DEF viewPhase
<1>4. viewGranted' = [viewGranted EXCEPT ![d] =
                        IF graph'[d].at = "off" THEN {} ELSE {request'[d].source}]
      /\ viewGranted[d] = IF graph[d].at = "off" THEN {} ELSE {request[d].source}
  BY <1>1 DEF viewGranted
<1>5. /\ viewTouched' = [viewTouched EXCEPT ![d] = graph'[d].reads]
      /\ viewTouched[d] = graph[d].reads
  BY <1>1 DEF viewTouched
<1>6. /\ viewCount' = [viewCount EXCEPT ![d] = graph'[d].executions]
      /\ viewCount[d] = graph[d].executions
  BY <1>1 DEF viewCount
<1>7. QED
  BY <1>3, <1>4, <1>5, <1>6

LEMMA ViewStays ==
  ASSUME viewPhase' = viewPhase, viewGranted' = viewGranted, viewTouched' = viewTouched,
         viewCount' = viewCount, viewDown' = viewDown
  PROVE  UNCHANGED PolicyView!Governed!vars
BY DEF PolicyView!Governed!vars, viewPhase, viewGranted, viewTouched, viewCount, viewDown, View

\* What one request does in the governed workflow: p and q are its phases, R and S
\* what it may read, T and U what it has read, m and n its executions.
GovernedAsk(p, q, R, S, T, U, m, n) ==
  /\ p = "idle" /\ q = "asked" /\ S \in SUBSET {"simulator", "company", "other"}
  /\ T = U /\ m = n
GovernedExecute(p, q, R, S, T, U, m, n) ==
  /\ p = "approved" /\ q \in {"approved", "failed"} /\ R = S
  /\ m = 0 /\ n = 1 /\ T = {}
  /\ \E G \in SUBSET R : \E F \in SUBSET ViewStandIns(G) : U = G \cup F
GovernedPhase(p, q, m) ==
  \/ p = "asked" /\ q = "approved"
  \/ p = "approved" /\ m > 0 /\ q = "collected"
  \/ p = "collected" /\ q = "answered"
  \/ (p = "asked" \/ (p = "approved" /\ m > 0)) /\ q = "refused"
  \/ p \in {"asked", "approved", "collected"} /\ q = "failed"
  \/ p = q
GovernedMove(p, q, R, S, T, U, m, n) ==
  \/ GovernedAsk(p, q, R, S, T, U, m, n)
  \/ GovernedExecute(p, q, R, S, T, U, m, n)
  \/ GovernedPhase(p, q, m) /\ R = S /\ T = U /\ m = n

LEMMA EdgesAreGoverned ==
  ASSUME IInv, mode = "ioa_v2_langgraph", NEW d \in Clients, NodeOf(d),
         PolicyAt(graph[d], request[d])
  PROVE  LET g == graph[d]
             h == graph'[d]
         IN GovernedMove(PolicyView!Phase(g), PolicyView!Phase(h),
                         IF g.at = "off" THEN {} ELSE {request[d].source},
                         IF h.at = "off" THEN {} ELSE {request'[d].source},
                         g.reads, h.reads, g.executions, h.executions)
<1> DEFINE g == graph[d]
           h == graph'[d]
           p == PolicyView!Phase(g)
           q == PolicyView!Phase(h)
           R == IF g.at = "off" THEN {} ELSE {request[d].source}
           S == IF h.at = "off" THEN {} ELSE {request'[d].source}
<1>1. PolicyAt(g, request[d]) /\ PolicyAt(h, request'[d]) /\ Edge(d)
  BY DEF NodeOf, NodeInv
<1>2. Asked.source \in {"simulator", "company"}
  BY AskedIs
<1>3. g.at # "off" => R = {Asked.source}
  BY <1>1 DEF PolicyAt
<1>4. h.at # "off" => S = {Asked.source}
  BY <1>1 DEF PolicyAt
<1>5. g.at = "off" => R = {}
  OBVIOUS
<1>6. h.at = "off" => S = {}
  OBVIOUS
<1>7. CASE g.at = "run_tool" /\ h.at \in {"validate_evidence", "raised"}
  <2>1. g.executions = 0 /\ g.reads = {}
    BY <1>1, <1>7 DEF PolicyAt, AtNode, Unread
  <2>2. h.executions = 1 /\ h.reads = ReadsOfTool
    BY <1>1, <1>7 DEF PolicyAt, AtNode, Read
  <2>3. \E G \in SUBSET R : \E F \in SUBSET ViewStandIns(G) : h.reads = G \cup F
    <3>1. R = {Asked.source}
      BY <1>3, <1>7
    <3>2. StoodIn => PolicyView!ReadFails /\ "company" \in R
      BY <3>1, AskedIs, DecisionIsRegistered
         DEF StoodIn, Policy!FallsBack, RegisteredFor, Decision, PolicyView!ReadFails
    <3> HIDE DEF R
    <3> DEFINE G == IF CallsTool THEN R ELSE {}
               F == IF CallsTool /\ StoodIn THEN {"simulator"} ELSE {}
    <3>3. G \in SUBSET R /\ F \in SUBSET ViewStandIns(G)
      BY <3>2 DEF ViewStandIns
    <3>4. h.reads = G \cup F
      BY <2>2, <3>1 DEF ReadsOfTool
    <3> HIDE DEF G, F
    <3>5. QED
      BY <3>3, <3>4
  <2>4. p = "approved" /\ q \in {"approved", "failed"} /\ R = S
    BY <1>3, <1>4, <1>7 DEF PolicyView!Phase
  <2> HIDE DEF R, S, p, q
  <2>5. GovernedExecute(p, q, R, S, g.reads, h.reads, g.executions, h.executions)
    BY <2>1, <2>2, <2>3, <2>4 DEF GovernedExecute
  <2>6. GovernedMove(p, q, R, S, g.reads, h.reads, g.executions, h.executions)
    BY <2>5 DEF GovernedMove
  <2>7. QED
    BY <2>6 DEF R, S, p, q
<1>8. CASE g.at = "off" /\ h.at = "validate_request" /\ h.reads = g.reads /\ h.executions = g.executions
  <2>1. p = "idle" /\ q = "asked"
    BY <1>8 DEF PolicyView!Phase
  <2>2. S \in SUBSET {"simulator", "company", "other"}
    BY <1>2, <1>4, <1>8
  <2> HIDE DEF R, S, p, q
  <2>3. GovernedMove(p, q, R, S, g.reads, h.reads, g.executions, h.executions)
    BY <1>8, <2>1, <2>2 DEF GovernedAsk, GovernedMove
  <2>4. QED
    BY <2>3 DEF R, S, p, q
<1>9. CASE /\ ~(g.at = "run_tool" /\ h.at \in {"validate_evidence", "raised"})
           /\ ~(g.at = "off" /\ h.at = "validate_request")
  <2>1. h.executions = g.executions /\ h.reads = g.reads
    BY <1>1, <1>9 DEF Edge
  <2>2. R = S
    BY <1>1, <1>3, <1>4, <1>9 DEF Edge
  <2>3. /\ g.at \in {"validate_request", "authorize_tool"} => g.executions = 0
        /\ g.at = "validate_evidence" => g.executions = 1
        /\ g.at = "deny_request" => g.executions \in {0, 1}
    BY <1>1 DEF PolicyAt, AtNode, Unread, Read
  <2>4. GovernedPhase(p, q, g.executions)
    <3>1. CASE g.at = h.at
      BY <2>1, <3>1 DEF GovernedPhase, PolicyView!Phase
    <3>2. CASE g.at = "validate_request" /\ h.at \in {"select_tool", "deny_request"}
      BY <2>1, <2>3, <3>2 DEF GovernedPhase, PolicyView!Phase
    <3>3. CASE g.at = "select_tool" /\ h.at = "authorize_tool"
      BY <3>3 DEF GovernedPhase, PolicyView!Phase
    <3>4. CASE g.at = "authorize_tool" /\ h.at \in {"run_tool", "deny_request"}
      BY <2>1, <2>3, <3>4 DEF GovernedPhase, PolicyView!Phase
    <3>5. CASE g.at = "validate_evidence" /\ h.at \in {"generate_answer", "deny_request"}
      <4>1. g.executions = 1 /\ h.executions = 1 /\ g.executions > 0
        BY <2>1, <2>3, <3>5
      <4>2. p = "approved"
        BY <3>5 DEF PolicyView!Phase
      <4>3. h.at = "generate_answer" => q = "collected"
        BY DEF PolicyView!Phase
      <4>4. h.at = "deny_request" => q = "approved"
        BY <4>1 DEF PolicyView!Phase
      <4> HIDE DEF p, q
      <4>5. QED
        BY <3>5, <4>1, <4>2, <4>3, <4>4 DEF GovernedPhase
    <3>6. CASE g.at = "generate_answer" /\ h.at = "await_model"
      BY <3>6 DEF GovernedPhase, PolicyView!Phase
    <3>7. CASE g.at \in {"generate_answer", "await_model"} /\ h.at \in {"answered", "raised"}
      BY <3>7 DEF GovernedPhase, PolicyView!Phase
    <3>8. CASE g.at = "deny_request" /\ h.at = "denied"
      BY <2>3, <3>8 DEF GovernedPhase, PolicyView!Phase
    <3>9. CASE g.at \notin {"off", "answered", "denied"} /\ h.at = "closed"
      BY <1>1, <3>9 DEF GovernedPhase, PolicyView!Phase, PolicyAt, PolicyNodes
    <3>10. QED
      BY <1>1, <1>9, <3>1, <3>2, <3>3, <3>4, <3>5, <3>6, <3>7, <3>8, <3>9 DEF Edge
  <2> HIDE DEF R, S, p, q
  <2>5. GovernedMove(p, q, R, S, g.reads, h.reads, g.executions, h.executions)
    BY <2>1, <2>2, <2>4 DEF GovernedMove
  <2>6. QED
    BY <2>5 DEF R, S, p, q
<1>10. QED
  BY <1>1, <1>7, <1>8, <1>9 DEF Edge

\* A governed move of one request is a step of GovernedWorkflow, or none.
LEMMA MovesAreGoverned ==
  ASSUME NEW d \in Clients, NEW q, NEW S, NEW U, NEW n,
         viewPhase' = [viewPhase EXCEPT ![d] = q], viewGranted' = [viewGranted EXCEPT ![d] = S],
         viewTouched' = [viewTouched EXCEPT ![d] = U], viewCount' = [viewCount EXCEPT ![d] = n],
         viewDown' = viewDown,
         GovernedMove(viewPhase[d], q, viewGranted[d], S, viewTouched[d], U, viewCount[d], n)
  PROVE  [PolicyView!Governed!Next]_PolicyView!Governed!vars
<1> DEFINE p == viewPhase[d]
<1>1. /\ viewPhase = [c \in Clients |-> viewPhase[c]]
      /\ viewGranted = [c \in Clients |-> viewGranted[c]]
      /\ viewTouched = [c \in Clients |-> viewTouched[c]]
      /\ viewCount = [c \in Clients |-> viewCount[c]]
  BY DEF viewPhase, viewGranted, viewTouched, viewCount
<1>2. CASE GovernedAsk(p, q, viewGranted[d], S, viewTouched[d], U, viewCount[d], n)
  <2>1. viewTouched' = viewTouched /\ viewCount' = viewCount /\ viewPhase[d] = "idle"
        /\ viewPhase' = [viewPhase EXCEPT ![d] = "asked"]
        /\ \E G \in SUBSET {"simulator", "company", "other"} :
             viewGranted' = [viewGranted EXCEPT ![d] = G]
    BY <1>1, <1>2 DEF GovernedAsk
  <2>2. PolicyView!Governed!Ask(d)
    BY <2>1 DEF PolicyView!Governed!Ask, PolicyView!Governed!Becomes, viewPhase, viewGranted,
         viewTouched, viewCount, viewDown, View
  <2>3. QED
    BY <2>2 DEF PolicyView!Governed!Next
<1>3. CASE GovernedExecute(p, q, viewGranted[d], S, viewTouched[d], U, viewCount[d], n)
  <2>1. /\ viewPhase[d] = "approved" /\ viewGranted' = viewGranted
        /\ viewPhase' = viewPhase \/ viewPhase' = [viewPhase EXCEPT ![d] = "failed"]
    BY <1>1, <1>3 DEF GovernedExecute
  <2>2. /\ viewCount' = [viewCount EXCEPT ![d] = viewCount[d] + 1]
        /\ 1 \in 0 .. PolicyView!max_tool_executions - viewCount[d]
    BY <1>3 DEF GovernedExecute, PolicyView!max_tool_executions
  <2>3. PolicyView!Governed!Execute(d)
    <3>1. \E k \in 0 .. PolicyView!max_tool_executions - viewCount[d], R \in SUBSET viewGranted[d] :
            \E F \in SUBSET PolicyView!Governed!StandIns(R) :
              /\ k = 0 => R = {}
              /\ viewCount' = [viewCount EXCEPT ![d] = @ + k]
              /\ viewTouched' = [viewTouched EXCEPT ![d] = @ \cup R \cup F]
      <4>1. PICK G \in SUBSET viewGranted[d] : \E F \in SUBSET ViewStandIns(G) : U = G \cup F
        BY <1>3 DEF GovernedExecute
      <4>2. PICK F \in SUBSET ViewStandIns(G) : U = G \cup F
        BY <4>1
      <4>3. /\ 1 = 0 => G = {}
            /\ viewCount' = [viewCount EXCEPT ![d] = @ + 1]
            /\ viewTouched' = [viewTouched EXCEPT ![d] = @ \cup G \cup F]
        <5>1. viewTouched[d] = {}
          BY <1>3 DEF GovernedExecute
        <5>2. viewTouched[d] \cup G \cup F = U
          BY <4>2, <5>1
        <5>3. viewTouched' = [viewTouched EXCEPT ![d] = viewTouched[d] \cup G \cup F]
          BY <5>2, Zenon
        <5>4. 1 # 0
          OBVIOUS
        <5>5. QED
          BY <2>2, <5>3, <5>4, Zenon
      <4>4. F \in SUBSET PolicyView!Governed!StandIns(G)
        BY <4>2, StandInsAre
      <4>5. QED
        BY <2>2, <4>1, <4>3, <4>4, Zenon
    <3>2. viewPhase[d] = "approved" /\ viewGranted' = viewGranted
      BY <2>1
    <3>3. viewPhase' = viewPhase \/ viewPhase' = [viewPhase EXCEPT ![d] = "failed"]
      BY <2>1
    <3>4. QED
      BY <3>1, <3>2, <3>3, Zenon
         DEF PolicyView!Governed!Execute, PolicyView!Governed!Becomes, viewPhase,
             viewGranted, viewTouched, viewCount, viewDown, View
  <2>4. QED
    BY <2>3 DEF PolicyView!Governed!Next
<1>4. CASE /\ GovernedPhase(p, q, viewCount[d]) /\ viewGranted[d] = S /\ viewTouched[d] = U
           /\ viewCount[d] = n
  <2>1. viewGranted' = viewGranted /\ viewTouched' = viewTouched /\ viewCount' = viewCount
    BY <1>1, <1>4
  <2>2. CASE p = q
    <3>1. viewPhase' = viewPhase
      BY <1>1, <2>2
    <3>2. QED
      BY <2>1, <3>1, ViewStays
  <2>3. CASE p = "asked" /\ q = "approved"
    <3>1. PolicyView!Governed!Approve(d)
      BY <2>1, <2>3 DEF PolicyView!Governed!Approve, PolicyView!Governed!Becomes, viewPhase,
           viewGranted, viewTouched, viewCount, viewDown, View
    <3>2. QED
      BY <3>1 DEF PolicyView!Governed!Next
  <2>4. CASE p = "approved" /\ viewCount[d] > 0 /\ q = "collected"
    <3>1. PolicyView!Governed!Collect(d)
      BY <2>1, <2>4 DEF PolicyView!Governed!Collect, PolicyView!Governed!Becomes, viewPhase,
           viewGranted, viewTouched, viewCount, viewDown, View
    <3>2. QED
      BY <3>1 DEF PolicyView!Governed!Next
  <2>5. CASE p = "collected" /\ q = "answered"
    <3>1. PolicyView!Governed!Answer(d)
      BY <2>1, <2>5 DEF PolicyView!Governed!Answer, PolicyView!Governed!Becomes, viewPhase,
           viewGranted, viewTouched, viewCount, viewDown, View
    <3>2. QED
      BY <3>1 DEF PolicyView!Governed!Next
  <2>6. CASE (p = "asked" \/ (p = "approved" /\ viewCount[d] > 0)) /\ q = "refused"
    <3>1. PolicyView!Governed!Refuse(d)
      BY <2>1, <2>6 DEF PolicyView!Governed!Refuse, PolicyView!Governed!Becomes, viewPhase,
           viewGranted, viewTouched, viewCount, viewDown, View
    <3>2. QED
      BY <3>1 DEF PolicyView!Governed!Next
  <2>7. CASE p \in {"asked", "approved", "collected"} /\ q = "failed"
    <3>1. PolicyView!Governed!Fail(d)
      BY <2>1, <2>7 DEF PolicyView!Governed!Fail, PolicyView!Governed!Becomes, viewPhase,
           viewGranted, viewTouched, viewCount, viewDown, View
    <3>2. QED
      BY <3>1 DEF PolicyView!Governed!Next
  <2>8. QED
    BY <1>4, <2>2, <2>3, <2>4, <2>5, <2>6, <2>7 DEF GovernedPhase
<1>5. QED
  BY <1>2, <1>3, <1>4 DEF GovernedMove

LEMMA GovernedInit == Init => PolicyView!Governed!Init
<1> SUFFICES ASSUME Init
             PROVE  PolicyView!Governed!Init
  OBVIOUS
<1>1. \A c \in Clients : View[c] = Policy!initial_state
  <2>1. CASE mode = "ioa_v2_langgraph"
    BY <2>1 DEF Init, View, Only
  <2>2. CASE mode # "ioa_v2_langgraph"
    BY <2>2 DEF View, Only
  <2>3. QED
    BY <2>1, <2>2
<1>2. \A c \in Clients : /\ View[c].at = "off" /\ View[c].reads = {}
                         /\ View[c].executions = 0
  BY <1>1, PolicyBegins
<1>3. \A c \in Clients : PolicyView!Phase(View[c]) = "idle"
  BY <1>2 DEF PolicyView!Phase
<1>4. QED
  BY <1>2, <1>3 DEF PolicyView!Governed!Init, View

LEMMA GovernedNext ==
  AInv /\ [Next]_vars => [PolicyView!Governed!Next]_PolicyView!Governed!vars
<1> SUFFICES ASSUME AInv, [Next]_vars
             PROVE  [PolicyView!Governed!Next]_PolicyView!Governed!vars
  OBVIOUS
<1>1. scenario' = scenario /\ mode' = mode /\ viewDown' = viewDown
  BY SetupStays DEF AInv, mode, viewDown, PolicyView!ReadFails
<1>2. CASE mode # "ioa_v2_langgraph"
  <2>1. View = [c \in Clients |-> Policy!initial_state] /\ View' = View
    BY <1>1, <1>2 DEF View, Only
  <2>2. \A c \in Clients : View[c].at = "off"
    BY <2>1, PolicyBegins
  <2>3. viewGranted' = viewGranted
    BY <2>1, <2>2 DEF viewGranted
  <2>4. viewPhase' = viewPhase /\ viewTouched' = viewTouched /\ viewCount' = viewCount
    <3>1. \A c \in Clients : PolicyView!Phase(View[c])' = PolicyView!Phase(View[c])
      BY <2>1 DEF PolicyView!Phase
    <3>2. QED
      BY <2>1, <3>1 DEF viewPhase, viewTouched, viewCount
  <2>5. QED
    BY <1>1, <2>3, <2>4, ViewStays
<1>3. CASE mode = "ioa_v2_langgraph" /\ AgentsRest
  <2>1. View' = View /\ request' = request
    BY <1>1, <1>3 DEF View, Only, AgentsRest
  <2>2. \A c \in Clients : PolicyView!Phase(View[c])' = PolicyView!Phase(View[c])
    BY <2>1 DEF PolicyView!Phase
  <2>3. viewPhase' = viewPhase /\ viewGranted' = viewGranted
        /\ viewTouched' = viewTouched /\ viewCount' = viewCount
    BY <2>1, <2>2 DEF viewPhase, viewGranted, viewTouched, viewCount
  <2>4. QED
    BY <1>1, <2>3, ViewStays
<1>4. ASSUME mode = "ioa_v2_langgraph", NEW d \in Clients, NodeOf(d)
      PROVE  [PolicyView!Governed!Next]_PolicyView!Governed!vars
  <2> DEFINE q == PolicyView!Phase(graph'[d])
             S == IF graph'[d].at = "off" THEN {} ELSE {request'[d].source}
             U == graph'[d].reads
             n == graph'[d].executions
  <2>1. \A c \in Clients \ {d} : graph'[c] = graph[c] /\ request'[c] = request[c]
    BY <1>4 DEF NodeOf, NodeInv
  <2>2. PolicyAt(graph[d], request[d]) /\ IInv
    BY <1>4 DEF AInv, PolicyInv, PolicyState
  <2>3. /\ viewPhase' = [viewPhase EXCEPT ![d] = q] /\ viewGranted' = [viewGranted EXCEPT ![d] = S]
        /\ viewTouched' = [viewTouched EXCEPT ![d] = U] /\ viewCount' = [viewCount EXCEPT ![d] = n]
        /\ viewPhase[d] = PolicyView!Phase(graph[d])
        /\ viewGranted[d] = IF graph[d].at = "off" THEN {} ELSE {request[d].source}
        /\ viewTouched[d] = graph[d].reads /\ viewCount[d] = graph[d].executions
    BY <1>1, <1>4, <2>1, ViewMoves
  <2>4. GovernedMove(PolicyView!Phase(graph[d]), q,
                     IF graph[d].at = "off" THEN {} ELSE {request[d].source}, S,
                     graph[d].reads, U, graph[d].executions, n)
    BY <1>4, <2>2, EdgesAreGoverned
  <2> HIDE DEF q, S, U, n
  <2>5. GovernedMove(viewPhase[d], q, viewGranted[d], S, viewTouched[d], U, viewCount[d], n)
    BY <2>3, <2>4
  <2>6. QED
    BY <1>1, <2>3, <2>5, MovesAreGoverned
<1>5. QED
  BY <1>2, <1>3, <1>4, PolicyGoes

\* Every request of the LangGraph agent, driven by run or by run_stream, stays inside
\* the governed workflow: it reads after its approval, what it was granted and within
\* its budget, and answers after it read.  The part of AgentsAreGoverned about it.
THEOREM PolicyIsGoverned == Spec => PolicyView!ImplementsGoverned
<1>1. Init => PolicyView!Governed!Init
  BY GovernedInit
<1>2. AInv /\ [Next]_vars => [PolicyView!Governed!Next]_PolicyView!Governed!vars
  BY GovernedNext
<1>3. QED
  BY <1>1, <1>2, AgentsInvariant, PTL
     DEF Spec, PolicyView!ImplementsGoverned, PolicyView!Governed!Spec

-----------------------------------------------------------------------------
(* The Ops Graph: what Kept returns. *)

LEMMA SameCardinality == \A S : Ops!Cardinality(S) = Cardinality(S)
BY Zenon DEF Ops!Cardinality, Cardinality

LEMMA RankIs ==
  ASSUME NEW I \in SUBSET Nat, IsFiniteSet(I), NEW i \in I
  PROVE  /\ Ops!Rank(I, i) \in 1 .. Cardinality(I)
         /\ \A j \in I : i < j => Ops!Rank(I, i) < Ops!Rank(I, j)
<1> DEFINE Upto(j) == {k \in I : k <= j}
<1>1. \A j \in I : IsFiniteSet(Upto(j)) /\ Cardinality(Upto(j)) <= Cardinality(I)
                   /\ Cardinality(Upto(j)) \in Nat
  BY FS_Subset, FS_CardinalityType
<1>2. Cardinality(I) \in Nat
  BY FS_CardinalityType
<1>3. Cardinality(Upto(i)) # 0
  <2>1. i \in Upto(i)
    OBVIOUS
  <2>2. QED
    BY <1>1, <2>1, FS_EmptySet
<1>4. ASSUME NEW j \in I, i < j
      PROVE  Cardinality(Upto(i)) < Cardinality(Upto(j))
  <2>1. i \in Nat /\ j \in Nat /\ \A k \in I : k \in Nat
    OBVIOUS
  <2>2. \A k \in I : k <= i => k <= j
    BY <1>4, <2>1
  <2>3. j <= j /\ ~(j <= i)
    BY <1>4, <2>1
  <2>5. Upto(i) \in SUBSET Upto(j) /\ j \in Upto(j) /\ j \notin Upto(i)
    BY <2>2, <2>3
  <2>6. Upto(i) # Upto(j)
    BY <2>5
  <2> HIDE DEF Upto
  <2>7. /\ Cardinality(Upto(i)) <= Cardinality(Upto(j))
        /\ Cardinality(Upto(j)) = Cardinality(Upto(i)) => Upto(j) = Upto(i)
    BY <1>1, <1>4, <2>5, FS_Subset
  <2>4. QED
    BY <1>1, <1>4, <2>6, <2>7
<1>5. \A j : Ops!Rank(I, j) = Cardinality(Upto(j))
  BY SameCardinality, Zenon DEF Ops!Rank
<1> HIDE DEF Upto
<1>6. QED
  BY <1>1, <1>2, <1>3, <1>4, <1>5

LEMMA RankReaches ==
  ASSUME NEW I \in SUBSET Nat, IsFiniteSet(I), NEW k \in 1 .. Cardinality(I)
  PROVE  \E i \in I : Ops!Rank(I, i) = k
<1> DEFINE f == [i \in I |-> Ops!Rank(I, i)]
           n == Cardinality(I)
<1>1. n \in Nat
  BY FS_CardinalityType
<1>2. f \in Injection(I, 1 .. n)
  <2>1. f \in [I -> 1 .. n]
    BY RankIs
  <2>2. ASSUME NEW i \in I, NEW j \in I, f[i] = f[j]
        PROVE  i = j
    <3>1. Ops!Rank(I, i) = Ops!Rank(I, j)
      BY <2>2
    <3>2. Ops!Rank(I, i) \in 1 .. n /\ Ops!Rank(I, j) \in 1 .. n
      BY RankIs
    <3>3. ~(i < j) /\ ~(j < i)
      BY <1>1, <3>1, <3>2, RankIs
    <3>4. QED
      BY <3>3
  <2>3. QED
    BY <2>1, <2>2 DEF Injection, IsInjective
<1>3. IsFiniteSet(1 .. n) /\ Cardinality(1 .. n) = n
  BY <1>1, FS_Interval
<1> HIDE DEF f, n
<1>4. f \in Surjection(I, 1 .. n)
  BY <1>2, <1>3, FS_Injection DEF n
<1>5. \E i \in I : f[i] = k
  BY <1>4 DEF Surjection, n
<1>6. QED
  BY <1>5 DEF f

\* The k-th item of Kept stands at the position of rank k.
LEMMA KeptIs ==
  ASSUME NEW S, NEW s \in Seq(S), NEW I \in SUBSET DOMAIN s
  PROVE  /\ Cardinality(I) \in 0 .. Len(s)
         /\ Ops!Kept(s, I) \in Seq(S) /\ Len(Ops!Kept(s, I)) = Cardinality(I)
         /\ \A k \in 1 .. Cardinality(I) : \E i \in I : Ops!Kept(s, I)[k] = s[i] /\ Ops!Rank(I, i) = k
         /\ \A i \in I : \E k \in 1 .. Cardinality(I) : Ops!Kept(s, I)[k] = s[i] /\ Ops!Rank(I, i) = k
<1> DEFINE n == Cardinality(I)
           at(k) == CHOOSE i \in I : Ops!Rank(I, i) = k
<1>1. IsFiniteSet(DOMAIN s) /\ Cardinality(DOMAIN s) = Len(s) /\ DOMAIN s = 1 .. Len(s)
      /\ Len(s) \in Nat
  <2>1. DOMAIN s = 1 .. Len(s) /\ Len(s) \in Nat /\ 1 \in Int /\ Len(s) \in Int
    OBVIOUS
  <2>2. IsFiniteSet(1 .. Len(s)) /\ Cardinality(1 .. Len(s)) = IF 1 > Len(s) THEN 0 ELSE Len(s) - 1 + 1
    BY <2>1, FS_Interval
  <2>3. QED
    BY <2>1, <2>2
<1>2. IsFiniteSet(I) /\ n \in Nat /\ n <= Len(s) /\ I \in SUBSET Nat
  BY <1>1, FS_Subset, FS_CardinalityType
<1>3. \A k \in 1 .. n : at(k) \in I /\ Ops!Rank(I, at(k)) = k
  BY <1>2, RankReaches
<1>4. Ops!Kept(s, I) = [k \in 1 .. n |-> s[at(k)]]
  BY SameCardinality, Zenon DEF Ops!Kept
<1> HIDE DEF n, at
<1>5. Ops!Kept(s, I) \in Seq(S) /\ Len(Ops!Kept(s, I)) = n
  <2>1. [k \in 1 .. n |-> s[at(k)]] \in [1 .. n -> S]
    BY <1>1, <1>3
  <2>2. QED
    BY <1>2, <1>4, <2>1
<1>6. ASSUME NEW i \in I
      PROVE  \E k \in 1 .. n : Ops!Kept(s, I)[k] = s[i] /\ Ops!Rank(I, i) = k
  <2> DEFINE k == Ops!Rank(I, i)
  <2>1. k \in 1 .. n
    BY <1>2, RankIs DEF n
  <2>2. at(k) = i
    <3>1. at(k) \in I /\ Ops!Rank(I, at(k)) = k
      BY <1>3, <2>1
    <3>2. ~(i < at(k)) /\ ~(at(k) < i)
      BY <1>2, <2>1, <3>1, RankIs DEF n
    <3>3. QED
      BY <1>2, <3>1, <3>2
  <2>3. QED
    BY <1>4, <2>1, <2>2
<1>7. \A k \in 1 .. n : \E i \in I : Ops!Kept(s, I)[k] = s[i] /\ Ops!Rank(I, i) = k
  BY <1>3, <1>4
<1>8. QED
  BY <1>2, <1>5, <1>6, <1>7 DEF n

-----------------------------------------------------------------------------
(* The rules name tools of the catalogues, with parameters that are allowed.   *)

Fits(tool, params) == tool \in Ops!Tools /\ params \subseteq Ops!allowed_params(tool)

LEMMA CompanyParams ==
  /\ \A t \in {"get_company_disconnected_devices", "get_company_provisional_alerts",
               "get_company_fleet_summary", "get_company_inventory",
               "get_company_telemetry_coverage", "get_company_rule_readiness"} : Fits(t, {})
  /\ Fits("get_company_device_drilldown", {"device_id"})
  /\ Fits("get_company_onem2m_device_resources", {"device_id"})
  /\ Fits("query_company_onem2m_collection", {"device_id", "collection"})
  /\ Fits("query_device_online_status", {"device_id"})
  /\ Fits("query_onem2m_cin_records", {"device_id", "cin_type"})
  /\ Fits("get_company_onem2m_command_flow", {"device_id"})
  /\ Fits("get_company_onem2m_telemetry_flow", {"device_id"})
  /\ Fits("scan_company_threshold", {"threshold"})
BY DEF Fits, Ops!Tools, Ops!CompanyTools, Ops!allowed_params, Ops!COMPANY_DB_TOOLS,
       Ops!Onem2mParams

GrafanaNames ==
  {"grafana_platform_service_health", "grafana_queue_backlog", "grafana_queue_trend",
   "query_rabbitmq_queue_detail", "grafana_throughput", "grafana_http_health",
   "grafana_java_errors", "grafana_trace_metrics", "grafana_logs", "grafana_emqx_health",
   "grafana_emqx_dropped_trend", "grafana_emqx_connection_trend", "query_emqx_connection_count",
   "grafana_k8s_health", "grafana_k8s_resources", "grafana_redis_health",
   "grafana_mongodb_health", "grafana_mysql_health", "grafana_linux_health"}

LEMMA GrafanaParams ==
  /\ \A t \in GrafanaNames : Fits(t, {})
  /\ Fits("grafana_queue_backlog", {"namespace", "topk", "threshold"})
  /\ Fits("grafana_queue_trend", {"queue"})
  /\ Fits("query_rabbitmq_queue_detail", {"queue_name"})
  /\ Fits("grafana_throughput", {"queue"})
  /\ Fits("grafana_logs", {"service", "level", "hours_back", "limit", "contains"})
  /\ Fits("grafana_k8s_resources", {"namespace", "service"})
<1>1. GrafanaNames \cap Ops!CompanyTools = {} /\ DOMAIN Ops!GRAFANA_TOOLS = GrafanaNames
  BY DEF GrafanaNames, Ops!CompanyTools, Ops!COMPANY_DB_TOOLS, Ops!GRAFANA_TOOLS
<1>2. \A t \in GrafanaNames : t \in Ops!Tools /\ Ops!allowed_params(t) = Ops!GRAFANA_TOOLS[t]
  BY <1>1 DEF Ops!Tools, Ops!allowed_params
<1>3. /\ Ops!GRAFANA_TOOLS["grafana_queue_backlog"] = {"namespace", "topk", "threshold"}
      /\ "queue" \in Ops!GRAFANA_TOOLS["grafana_queue_trend"]
      /\ "queue_name" \in Ops!GRAFANA_TOOLS["query_rabbitmq_queue_detail"]
      /\ "queue" \in Ops!GRAFANA_TOOLS["grafana_throughput"]
      /\ Ops!GRAFANA_TOOLS["grafana_logs"] = {"service", "level", "hours_back", "limit", "contains"}
      /\ {"namespace", "service"} \subseteq Ops!GRAFANA_TOOLS["grafana_k8s_resources"]
  BY DEF Ops!GRAFANA_TOOLS
<1>4. QED
  BY <1>2, <1>3 DEF Fits, GrafanaNames

RuleFits(r) == Fits(r.tool, r.params)
RulesFit(s) == \E R : s \in Seq(R) /\ \A r \in R : RuleFits(r)

LEMMA RuleIs ==
  ASSUME NEW when, NEW tool, NEW params, NEW most, Fits(tool, most), params \subseteq most
  PROVE  RuleFits(Ops!Rule(when, tool, params))
<1>1. Ops!Rule(when, tool, params).tool = tool /\ Ops!Rule(when, tool, params).params = params
  BY DEF Ops!Rule
<1>2. QED
  BY <1>1 DEF RuleFits, Fits

LEMMA RulesJoin ==
  ASSUME NEW s, NEW t, RulesFit(s), RulesFit(t)
  PROVE  RulesFit(s \o t) /\ Len(s) \in Nat
<1>1. PICK R : s \in Seq(R) /\ \A r \in R : RuleFits(r)
  BY DEF RulesFit
<1>2. PICK T : t \in Seq(T) /\ \A r \in T : RuleFits(r)
  BY DEF RulesFit
<1>3. s \in Seq(R \cup T) /\ t \in Seq(R \cup T)
  BY <1>1, <1>2
<1>4. s \o t \in Seq(R \cup T)
  BY <1>3
<1>5. QED
  BY <1>1, <1>2, <1>4 DEF RulesFit

LEMMA RulesIn ==
  ASSUME NEW R, NEW s \in Seq(R), \A r \in R : RuleFits(r)
  PROVE  RulesFit(s)
BY DEF RulesFit

LEMMA OneRule ==
  ASSUME NEW a, RuleFits(a)
  PROVE  RulesFit(<<a>>)
<1> DEFINE s == <<a>>
           R == {a}
<1>1. s \in Seq(R) /\ \A r \in R : RuleFits(r)
  OBVIOUS
<1> HIDE DEF s, R
<1>2. RulesFit(s)
  BY <1>1, RulesIn
<1>3. QED
  BY <1>2 DEF s

LEMMA TwoRules ==
  ASSUME NEW a, NEW b, RuleFits(a), RuleFits(b)
  PROVE  RulesFit(<<a, b>>)
<1> DEFINE s == <<a, b>>
           R == {a, b}
<1>1. s \in Seq(R) /\ \A r \in R : RuleFits(r)
  OBVIOUS
<1> HIDE DEF s, R
<1>2. RulesFit(s)
  BY <1>1, RulesIn
<1>3. QED
  BY <1>2 DEF s

LEMMA ThreeRules ==
  ASSUME NEW a, NEW b, NEW c, RuleFits(a), RuleFits(b), RuleFits(c)
  PROVE  RulesFit(<<a, b, c>>)
<1> DEFINE s == <<a, b, c>>
           R == {a, b, c}
<1>1. s \in Seq(R) /\ \A r \in R : RuleFits(r)
  OBVIOUS
<1> HIDE DEF s, R
<1>2. RulesFit(s)
  BY <1>1, RulesIn
<1>3. QED
  BY <1>2 DEF s

LEMMA FiveRules ==
  ASSUME NEW a, NEW b, NEW c, NEW d, NEW e,
         RuleFits(a), RuleFits(b), RuleFits(c), RuleFits(d), RuleFits(e)
  PROVE  RulesFit(<<a, b, c, d, e>>)
<1> DEFINE s == <<a, b, c, d, e>>
           R == {a, b, c, d, e}
<1>1. s \in Seq(R) /\ \A r \in R : RuleFits(r)
  OBVIOUS
<1> HIDE DEF s, R
<1>2. RulesFit(s)
  BY <1>1, RulesIn
<1>3. QED
  BY <1>2 DEF s

LEMMA SixRules ==
  ASSUME NEW a, NEW b, NEW c, NEW d, NEW e, NEW f,
         RuleFits(a), RuleFits(b), RuleFits(c), RuleFits(d), RuleFits(e), RuleFits(f)
  PROVE  RulesFit(<<a, b, c, d, e, f>>)
<1> DEFINE s == <<a, b, c, d, e, f>>
           R == {a, b, c, d, e, f}
<1>1. s \in Seq(R) /\ \A r \in R : RuleFits(r)
  OBVIOUS
<1> HIDE DEF s, R
<1>2. RulesFit(s)
  BY <1>1, RulesIn
<1>3. QED
  BY <1>2 DEF s

LEMMA EightRules ==
  ASSUME NEW a, NEW b, NEW c, NEW d, NEW e, NEW f, NEW g, NEW h,
         RuleFits(a), RuleFits(b), RuleFits(c), RuleFits(d), RuleFits(e), RuleFits(f),
         RuleFits(g), RuleFits(h)
  PROVE  RulesFit(<<a, b, c, d, e, f, g, h>>)
<1> DEFINE s == <<a, b, c, d, e, f, g, h>>
           R == {a, b, c, d, e, f, g, h}
<1>1. s \in Seq(R) /\ \A r \in R : RuleFits(r)
  OBVIOUS
<1> HIDE DEF s, R
<1>2. RulesFit(s)
  BY <1>1, RulesIn
<1>3. QED
  BY <1>2 DEF s

LEMMA TenRules ==
  ASSUME NEW a, NEW b, NEW c, NEW d, NEW e, NEW f, NEW g, NEW h, NEW i, NEW j,
         RuleFits(a), RuleFits(b), RuleFits(c), RuleFits(d), RuleFits(e), RuleFits(f),
         RuleFits(g), RuleFits(h), RuleFits(i), RuleFits(j)
  PROVE  RulesFit(<<a, b, c, d, e, f, g, h, i, j>>)
<1> DEFINE s == <<a, b, c, d, e, f, g, h, i, j>>
           R == {a, b, c, d, e, f, g, h, i, j}
<1>1. s \in Seq(R) /\ \A r \in R : RuleFits(r)
  OBVIOUS
<1> HIDE DEF s, R
<1>2. RulesFit(s)
  BY <1>1, RulesIn
<1>3. QED
  BY <1>2 DEF s

LEMMA QueueFit == \A p : RulesFit(Ops!QueueRules(p))
<1> SUFFICES ASSUME NEW p
             PROVE  RulesFit(Ops!QueueRules(p))
  OBVIOUS
<1> DEFINE r(i) == Ops!QueueRules(p)[i]
<1>1. {"contains"} \cup Ops!If("warning" \in p, {"level"})
        \subseteq {"service", "level", "hours_back", "limit", "contains"}
  BY DEF Ops!If
<1>2. RuleFits(r(1)) /\ RuleFits(r(2)) /\ RuleFits(r(3))
  BY <1>1, GrafanaParams, RuleIs DEF Ops!QueueRules
<1>3. Ops!QueueRules(p) = <<r(1), r(2), r(3)>>
  BY DEF Ops!QueueRules
<1> HIDE DEF r
<1>4. QED
  BY <1>2, <1>3, ThreeRules

LEMMA FlowFit == \A p : RulesFit(Ops!FlowRules(p))
<1> SUFFICES ASSUME NEW p
             PROVE  RulesFit(Ops!FlowRules(p))
  OBVIOUS
<1> DEFINE r(i) == Ops!FlowRules(p)[i]
<1>1. Ops!with_onem2m_identifiers(p) \subseteq {"device_id"}
  BY DEF Ops!with_onem2m_identifiers, Ops!If
<1>2. RuleFits(r(1)) /\ RuleFits(r(2)) /\ RuleFits(r(3))
  BY <1>1, CompanyParams, RuleIs DEF Ops!FlowRules
<1>3. RuleFits(r(4)) /\ RuleFits(r(5))
  BY <1>1, CompanyParams, RuleIs DEF Ops!FlowRules
<1>4. Ops!FlowRules(p) = <<r(1), r(2), r(3), r(4), r(5)>>
  BY DEF Ops!FlowRules
<1> HIDE DEF r
<1>5. QED
  BY <1>2, <1>3, <1>4, FiveRules

LEMMA Onem2mFit == \A p : RulesFit(Ops!Onem2mRules(p))
<1> SUFFICES ASSUME NEW p
             PROVE  RulesFit(Ops!Onem2mRules(p))
  OBVIOUS
<1> DEFINE r(i) == Ops!Onem2mRules(p)[i]
<1>1. Ops!with_onem2m_identifiers(p) \subseteq {"device_id"}
  BY DEF Ops!with_onem2m_identifiers, Ops!If
<1>2. {"device_id"} \cup Ops!If(Ops!cin_type(p), {"cin_type"}) \subseteq {"device_id", "cin_type"}
  BY DEF Ops!If
<1>3. RuleFits(r(1)) /\ RuleFits(r(2))
  BY <1>1, <1>2, CompanyParams, RuleIs DEF Ops!Onem2mRules
<1>4. RuleFits(r(3)) /\ RuleFits(r(4))
  BY <1>1, <1>2, CompanyParams, RuleIs DEF Ops!Onem2mRules
<1>5. RuleFits(r(5)) /\ RuleFits(r(6))
  BY <1>1, <1>2, CompanyParams, RuleIs DEF Ops!Onem2mRules
<1>6. Ops!Onem2mRules(p) = <<r(1), r(2), r(3), r(4), r(5), r(6)>>
  BY DEF Ops!Onem2mRules
<1> HIDE DEF r
<1>7. QED
  BY <1>3, <1>4, <1>5, <1>6, SixRules

LEMMA CompanyFit == \A p : RulesFit(Ops!CompanyRules(p))
<1> SUFFICES ASSUME NEW p
             PROVE  RulesFit(Ops!CompanyRules(p))
  OBVIOUS
<1> DEFINE r(i) == Ops!CompanyRules(p)[i]
<1>1. \A c, n : Ops!If(c, n) \subseteq n
  BY DEF Ops!If
<1>2. RuleFits(r(1)) /\ RuleFits(r(2))
  BY <1>1, CompanyParams, RuleIs DEF Ops!CompanyRules
<1>3. RuleFits(r(3)) /\ RuleFits(r(4))
  BY <1>1, CompanyParams, RuleIs DEF Ops!CompanyRules
<1>4. RuleFits(r(5)) /\ RuleFits(r(6))
  BY <1>1, CompanyParams, RuleIs DEF Ops!CompanyRules
<1>5. RuleFits(r(7)) /\ RuleFits(r(8))
  BY <1>1, CompanyParams, RuleIs DEF Ops!CompanyRules
<1>6. Ops!CompanyRules(p) = <<r(1), r(2), r(3), r(4), r(5), r(6), r(7), r(8)>>
  BY DEF Ops!CompanyRules
<1> HIDE DEF r
<1>7. QED
  BY <1>2, <1>3, <1>4, <1>5, <1>6, EightRules

LEMMA BrokerFit == \A p : RulesFit(Ops!BrokerRules(p))
<1> SUFFICES ASSUME NEW p
             PROVE  RulesFit(Ops!BrokerRules(p))
  OBVIOUS
<1> DEFINE r(i) == Ops!BrokerRules(p)[i]
<1>1. RuleFits(r(1)) /\ RuleFits(r(2))
  BY GrafanaParams, RuleIs DEF Ops!BrokerRules, GrafanaNames
<1>2. Ops!BrokerRules(p) = <<r(1), r(2)>>
  BY DEF Ops!BrokerRules
<1> HIDE DEF r
<1>3. QED
  BY <1>1, <1>2, TwoRules

LEMMA ScrapeFit == \A p : RulesFit(Ops!ScrapeRules(p))
<1> SUFFICES ASSUME NEW p
             PROVE  RulesFit(Ops!ScrapeRules(p))
  OBVIOUS
<1> DEFINE r(i) == Ops!ScrapeRules(p)[i]
<1>1. {"namespace"} \cup Ops!If(Ops!service_param(p), {"service"}) \subseteq {"namespace", "service"}
  BY DEF Ops!If
<1>2. RuleFits(r(1)) /\ RuleFits(r(2))
  BY <1>1, GrafanaParams, RuleIs DEF Ops!ScrapeRules
<1>3. Ops!ScrapeRules(p) = <<r(1), r(2)>>
  BY DEF Ops!ScrapeRules
<1> HIDE DEF r
<1>4. QED
  BY <1>2, <1>3, TwoRules

LEMMA TrendFit == \A p : RulesFit(Ops!TrendRules(p))
<1> SUFFICES ASSUME NEW p
             PROVE  RulesFit(Ops!TrendRules(p))
  OBVIOUS
<1> DEFINE r(i) == Ops!TrendRules(p)[i]
<1>1. {"namespace"} \cup Ops!If(Ops!service_param(p), {"service"}) \subseteq {"namespace", "service"}
  BY DEF Ops!If
<1>2. Ops!If(Ops!queue_name(p), {"queue"}) \subseteq {"queue"}
  BY DEF Ops!If
<1>3. RuleFits(r(1))
  BY <1>1, <1>2, GrafanaParams, RuleIs DEF Ops!TrendRules, GrafanaNames
<1>4. RuleFits(r(2))
  BY <1>1, <1>2, GrafanaParams, RuleIs DEF Ops!TrendRules, GrafanaNames
<1>5. RuleFits(r(3))
  BY <1>1, <1>2, GrafanaParams, RuleIs DEF Ops!TrendRules, GrafanaNames
<1>6. RuleFits(r(4))
  BY <1>1, <1>2, GrafanaParams, RuleIs DEF Ops!TrendRules, GrafanaNames
<1>7. RuleFits(r(5))
  BY <1>1, <1>2, GrafanaParams, RuleIs DEF Ops!TrendRules, GrafanaNames
<1>8. Ops!TrendRules(p) = <<r(1), r(2), r(3), r(4), r(5)>>
  BY DEF Ops!TrendRules
<1> HIDE DEF r
<1>9. QED
  BY <1>3, <1>4, <1>5, <1>6, <1>7, <1>8, FiveRules

LEMMA HealthFit == \A p : RulesFit(Ops!HealthRules(p))
<1> SUFFICES ASSUME NEW p
             PROVE  RulesFit(Ops!HealthRules(p))
  OBVIOUS
<1> DEFINE r(i) == Ops!HealthRules(p)[i]
<1>1. RuleFits(r(1)) /\ RuleFits(r(2))
  BY GrafanaParams, RuleIs DEF Ops!HealthRules, GrafanaNames
<1>2. RuleFits(r(3)) /\ RuleFits(r(4))
  BY GrafanaParams, RuleIs DEF Ops!HealthRules, GrafanaNames
<1>3. RuleFits(r(5)) /\ RuleFits(r(6))
  BY GrafanaParams, RuleIs DEF Ops!HealthRules, GrafanaNames
<1>4. RuleFits(r(7)) /\ RuleFits(r(8))
  BY GrafanaParams, RuleIs DEF Ops!HealthRules, GrafanaNames
<1>5. RuleFits(r(9)) /\ RuleFits(r(10))
  BY GrafanaParams, RuleIs DEF Ops!HealthRules, GrafanaNames
<1>6. Ops!HealthRules(p) = <<r(1), r(2), r(3), r(4), r(5), r(6), r(7), r(8), r(9), r(10)>>
  BY DEF Ops!HealthRules
<1> HIDE DEF r
<1>7. QED
  BY <1>1, <1>2, <1>3, <1>4, <1>5, <1>6, TenRules

LEMMA LogsFit == \A p : RulesFit(<<Ops!AeCandidateRule(p), Ops!CinLogRule(p)>>)
                         /\ RulesFit(<<Ops!LogRule(p)>>) /\ RulesFit(<<Ops!LateLogRule(p)>>)
<1> SUFFICES ASSUME NEW p
             PROVE  RulesFit(<<Ops!AeCandidateRule(p), Ops!CinLogRule(p)>>)
                    /\ RulesFit(<<Ops!LogRule(p)>>) /\ RulesFit(<<Ops!LateLogRule(p)>>)
  OBVIOUS
<1> DEFINE most == {"service", "level", "hours_back", "limit", "contains"}
<1>1. \A c, n : Ops!If(c, n) \subseteq n
  BY DEF Ops!If
<1>2. \A severe : Ops!LogParams(p, severe) \subseteq most
  BY DEF Ops!LogParams, Ops!If
<1>3. RuleFits(Ops!AeCandidateRule(p)) /\ RuleFits(Ops!CinLogRule(p))
  BY <1>1, GrafanaParams, RuleIs DEF Ops!AeCandidateRule, Ops!CinLogRule
<1>4. RuleFits(Ops!LogRule(p)) /\ RuleFits(Ops!LateLogRule(p))
  BY <1>2, GrafanaParams, RuleIs DEF Ops!LogRule, Ops!LateLogRule
<1>5. QED
  BY <1>3, <1>4, OneRule, TwoRules

\* The first of a set of positions.
LEMMA LeastIn ==
  ASSUME NEW n \in Nat, NEW I \in SUBSET (1 .. n), I # {}
  PROVE  \E i \in I : \A j \in I : i <= j
<1>1. IsFiniteSet(1 .. n) /\ I \in SUBSET Nat
  BY FS_Interval
<1>2. IsFiniteSet(I) /\ Cardinality(I) \in Nat /\ Cardinality(I) # 0
  BY <1>1, FS_Subset, FS_CardinalityType, FS_EmptySet
<1>3. 1 \in 1 .. Cardinality(I)
  BY <1>2
<1>4. PICK i \in I : Ops!Rank(I, i) = 1
  BY <1>1, <1>2, <1>3, RankReaches
<1>5. ASSUME NEW j \in I
      PROVE  i <= j
  <2>1. Ops!Rank(I, j) \in 1 .. Cardinality(I) /\ (j < i => Ops!Rank(I, j) < Ops!Rank(I, i))
    BY <1>1, <1>2, RankIs
  <2>2. ~(j < i)
    BY <1>2, <1>4, <2>1
  <2>3. QED
    BY <1>1, <2>2
<1>6. QED
  BY <1>5

\* The classifier finds a tool for every prompt, and only parameters it allows.
LEMMA ClassifierFits == \A p : RuleFits(Ops!classify_tool(p))
<1> SUFFICES ASSUME NEW p
             PROVE  RuleFits(Ops!classify_tool(p))
  OBVIOUS
<1> DEFINE some == Ops!QueueRules(p) \o <<Ops!AeCandidateRule(p), Ops!CinLogRule(p)>>
                     \o Ops!FlowRules(p) \o Ops!Onem2mRules(p) \o Ops!CompanyRules(p)
                     \o Ops!BrokerRules(p) \o Ops!ScrapeRules(p) \o <<Ops!LogRule(p)>>
                     \o Ops!TrendRules(p) \o <<Ops!LateLogRule(p)>>
           last == Ops!HealthRules(p)
           rules == some \o last
           holding == {i \in DOMAIN rules : rules[i].when}
           first == CHOOSE i \in holding : \A j \in holding : i <= j
<1>1. RulesFit(some)
  BY QueueFit, LogsFit, FlowFit, Onem2mFit, CompanyFit, BrokerFit, ScrapeFit, TrendFit, RulesJoin
<1>2. RulesFit(last) /\ Len(last) = 10 /\ last[10].when
  BY HealthFit DEF Ops!HealthRules, Ops!Rule
<1>3. Ops!classify_tool(p) = rules[first]
  BY Zenon DEF Ops!classify_tool
<1> HIDE DEF some, last
<1>4. PICK R : some \in Seq(R) /\ last \in Seq(R) /\ \A r \in R : RuleFits(r)
  <2>1. PICK R : some \in Seq(R) /\ \A r \in R : RuleFits(r)
    BY <1>1 DEF RulesFit
  <2>2. PICK T : last \in Seq(T) /\ \A r \in T : RuleFits(r)
    BY <1>2 DEF RulesFit
  <2>3. some \in Seq(R \cup T) /\ last \in Seq(R \cup T)
    BY <2>1, <2>2
  <2>4. \A r \in R \cup T : RuleFits(r)
    BY <2>1, <2>2
  <2>5. QED
    BY <2>3, <2>4
<1>5. rules \in Seq(R) /\ Len(rules) = Len(some) + 10 /\ rules[Len(some) + 10] = last[10]
      /\ Len(some) \in Nat
  <2>1. rules \in Seq(R) /\ Len(rules) = Len(some) + Len(last) /\ Len(some) \in Nat
    BY <1>4
  <2>2. \A i \in 1 .. Len(last) : rules[Len(some) + i] = last[i]
    BY <1>4
  <2>3. QED
    BY <1>2, <2>1, <2>2
<1> HIDE DEF rules
<1>6. Len(rules) \in Nat /\ holding \in SUBSET (1 .. Len(rules))
  BY <1>5
<1>7. Len(some) + 10 \in holding
  BY <1>2, <1>5
<1> HIDE DEF holding
<1>8. \E i \in holding : \A j \in holding : i <= j
  BY <1>6, <1>7, LeastIn
<1>9. first \in 1 .. Len(rules)
  BY <1>6, <1>8
<1> HIDE DEF first
<1>10. rules[first] \in R
  BY <1>5, <1>9
<1>11. QED
  BY <1>3, <1>4, <1>10

-----------------------------------------------------------------------------
(* Plans: what the corrections make of a list of workflows.                    *)

FineFlows == {f \in [tool : Ops!Tools,
                     params : SUBSET UNION {Ops!allowed_params(t) : t \in Ops!Tools}] :
                f.params \subseteq Ops!allowed_params(f.tool)}

LEMMA FlowIs ==
  ASSUME NEW tool, NEW params, Fits(tool, params)
  PROVE  /\ Ops!Flow(tool, params) \in FineFlows
         /\ Ops!Flow(tool, params).tool = tool /\ Ops!Flow(tool, params).params = params
BY DEF FineFlows, Fits, Ops!Flow

LEMMA FineFits == \A f \in FineFlows : Fits(f.tool, f.params)
BY DEF FineFlows, Fits

LEMMA BoundedIs ==
  ASSUME NEW S, NEW s \in Seq(S)
  PROVE  /\ Ops!Bounded(s) \in Seq(S) /\ Len(Ops!Bounded(s)) \in 0 .. 5
         /\ Len(Ops!Bounded(s)) = IF Len(s) < 5 THEN Len(s) ELSE 5
         /\ \A i \in 1 .. Len(Ops!Bounded(s)) : Ops!Bounded(s)[i] = s[i]
<1> DEFINE n == IF Len(s) < 5 THEN Len(s) ELSE 5
<1>1. n \in 0 .. Len(s) /\ n <= 5 /\ Len(s) \in Nat /\ DOMAIN s = 1 .. Len(s)
  OBVIOUS
<1>2. Ops!Bounded(s) = SubSeq(s, 1, n)
  BY DEF Ops!Bounded, Ops!MAX_WORKFLOW_EXECUTIONS
<1> HIDE DEF n
<1>3. SubSeq(s, 1, n) \in Seq(S) /\ Len(SubSeq(s, 1, n)) = n
      /\ \A i \in 1 .. n : SubSeq(s, 1, n)[i] = s[i]
  BY <1>1
<1>4. QED
  BY <1>1, <1>2, <1>3 DEF n

LEMMA KeptFirst ==
  ASSUME NEW S, NEW s \in Seq(S), NEW I \in SUBSET DOMAIN s, 1 \in I
  PROVE  Len(Ops!Kept(s, I)) > 0 /\ Ops!Kept(s, I)[1] = s[1]
<1>1. IsFiniteSet(I) /\ I \in SUBSET Nat
  <2>1. DOMAIN s = 1 .. Len(s) /\ Len(s) \in Nat
    OBVIOUS
  <2>2. IsFiniteSet(1 .. Len(s))
    BY <2>1, FS_Interval
  <2>3. QED
    BY <2>1, <2>2, FS_Subset
<1>2. Cardinality(I) \in Nat /\ Len(Ops!Kept(s, I)) = Cardinality(I)
  BY KeptIs
<1>3. PICK k \in 1 .. Cardinality(I) : Ops!Kept(s, I)[k] = s[1] /\ Ops!Rank(I, 1) = k
  BY KeptIs
<1>4. 1 \in 1 .. Cardinality(I)
  BY <1>2, <1>3
<1>5. PICK i \in I : Ops!Rank(I, i) = 1
  BY <1>4, KeptIs
<1>6. ~(1 < i)
  BY <1>1, <1>2, <1>3, <1>5, RankIs
<1>7. i = 1
  <2>1. DOMAIN s = 1 .. Len(s) /\ Len(s) \in Nat
    OBVIOUS
  <2>2. QED
    BY <1>6, <2>1
<1>8. QED
  BY <1>2, <1>3, <1>4, <1>5, <1>7

LEMMA WithoutIs ==
  ASSUME NEW S, NEW s \in Seq(S), NEW T
  PROVE  /\ Ops!Without(s, T) \in Seq(S) /\ Len(Ops!Without(s, T)) <= Len(s)
         /\ (Len(s) > 0 /\ s[1].tool \notin T) =>
              Len(Ops!Without(s, T)) > 0 /\ Ops!Without(s, T)[1] = s[1]
<1> DEFINE I == {i \in DOMAIN s : s[i].tool \notin T}
<1>1. I \in SUBSET DOMAIN s
  OBVIOUS
<1>2. (Len(s) > 0 /\ s[1].tool \notin T) => 1 \in I
  OBVIOUS
<1>3. Ops!Without(s, T) = Ops!Kept(s, I)
  BY Zenon DEF Ops!Without
<1> HIDE DEF I
<1>4. Ops!Kept(s, I) \in Seq(S) /\ Len(Ops!Kept(s, I)) <= Len(s)
  BY <1>1, KeptIs
<1>5. 1 \in I => Len(Ops!Kept(s, I)) > 0 /\ Ops!Kept(s, I)[1] = s[1]
  BY <1>1, KeptFirst
<1>6. QED
  BY <1>2, <1>3, <1>4, <1>5

LEMMA OnlyIs ==
  ASSUME NEW S, NEW s \in Seq(S), NEW T
  PROVE  /\ Ops!Only(s, T) \in Seq(S) /\ Len(Ops!Only(s, T)) <= Len(s)
         /\ \A k \in 1 .. Len(Ops!Only(s, T)) : Ops!Only(s, T)[k].tool \in T
         /\ (\E i \in DOMAIN s : s[i].tool \in T) => Len(Ops!Only(s, T)) > 0
         /\ (Len(s) > 0 /\ s[1].tool \in T) => Ops!Only(s, T)[1] = s[1]
<1> DEFINE I == {i \in DOMAIN s : s[i].tool \in T}
<1>1. I \in SUBSET DOMAIN s /\ \A i \in I : s[i].tool \in T
  OBVIOUS
<1>2. (Len(s) > 0 /\ s[1].tool \in T) => 1 \in I
  OBVIOUS
<1>3. (\E i \in DOMAIN s : s[i].tool \in T) => I # {}
  OBVIOUS
<1>4. Ops!Only(s, T) = Ops!Kept(s, I)
  BY Zenon DEF Ops!Only
<1> HIDE DEF I
<1>5. /\ Cardinality(I) \in 0 .. Len(s)
      /\ Ops!Kept(s, I) \in Seq(S) /\ Len(Ops!Kept(s, I)) = Cardinality(I)
      /\ \A k \in 1 .. Cardinality(I) : \E i \in I : Ops!Kept(s, I)[k] = s[i]
      /\ \A i \in I : \E k \in 1 .. Cardinality(I) : Ops!Kept(s, I)[k] = s[i]
  BY <1>1, KeptIs
<1>6. 1 \in I => Ops!Kept(s, I)[1] = s[1]
  BY <1>1, KeptFirst
<1>7. I # {} => Len(Ops!Kept(s, I)) > 0
  BY <1>5
<1> DEFINE t == Ops!Kept(s, I)
<1>8. Len(t) <= Len(s) /\ \A k \in 1 .. Len(t) : t[k].tool \in T
  BY <1>1, <1>5
<1>9. /\ (\E i \in DOMAIN s : s[i].tool \in T) => Len(t) > 0
      /\ (Len(s) > 0 /\ s[1].tool \in T) => t[1] = s[1]
  BY <1>2, <1>3, <1>6, <1>7
<1>10. t \in Seq(S) /\ Ops!Only(s, T) = t
  BY <1>4, <1>5
<1> HIDE DEF t
<1>11. QED
  BY <1>8, <1>9, <1>10

LEMMA EnrichFits ==
  ASSUME NEW tool, NEW params, NEW p, Fits(tool, params)
  PROVE  Fits(tool, Ops!enrich_workflow_params(tool, params, p))
<1>1. tool \in Ops!Onem2mTools => "device_id" \in Ops!allowed_params(tool)
  BY DEF Ops!Onem2mTools, Ops!Onem2mParams, Ops!allowed_params
<1>2. /\ "collection" \in Ops!allowed_params("query_company_onem2m_collection")
      /\ "cin_type" \in Ops!allowed_params("query_onem2m_cin_records")
      /\ "device_id" \in Ops!allowed_params("get_company_device_drilldown")
  BY CompanyParams DEF Fits
<1>3. Ops!with_onem2m_identifiers(p) \subseteq {"device_id"} /\ \A c, n : Ops!If(c, n) \subseteq n

  BY DEF Ops!If, Ops!with_onem2m_identifiers
<1>4. Ops!enrich_workflow_params(tool, params, p) \subseteq Ops!allowed_params(tool)
  BY <1>1, <1>2, <1>3 DEF Fits, Ops!enrich_workflow_params, Ops!If
<1>5. QED
  BY <1>4 DEF Fits

LEMMA PrimaryIs ==
  ASSUME NEW p
  PROVE  Ops!Primary(p) \in FineFlows /\ Ops!Primary(p).tool = Ops!classify_tool(p).tool
<1> DEFINE rule == Ops!classify_tool(p)
           params == Ops!enrich_workflow_params(rule.tool, rule.params, p)
<1>1. Fits(rule.tool, rule.params)
  BY ClassifierFits DEF RuleFits
<1>2. Fits(rule.tool, params)
  BY <1>1, EnrichFits
<1>3. Ops!Primary(p) = Ops!Flow(rule.tool, params)
  BY DEF Ops!Primary
<1> HIDE DEF params, rule
<1>4. Ops!Primary(p) \in FineFlows /\ Ops!Primary(p).tool = rule.tool
  BY <1>2, <1>3, FlowIs
<1>5. QED
  BY <1>4 DEF rule

PlanIs(plan) == plan \in Seq(FineFlows) /\ Len(plan) <= 5

LEMMA JoinedIs ==
  ASSUME NEW s \in Seq(FineFlows), NEW t \in Seq(FineFlows)
  PROVE  /\ PlanIs(Ops!Bounded(s \o t))
         /\ Len(s) + Len(t) > 0 => Len(Ops!Bounded(s \o t)) > 0
         /\ Len(s) > 0 => Ops!Bounded(s \o t)[1] = s[1]
<1> DEFINE u == s \o t
<1>1. u \in Seq(FineFlows) /\ Len(u) = Len(s) + Len(t) /\ Len(s) \in Nat /\ Len(t) \in Nat
      /\ (Len(s) > 0 => u[1] = s[1])
  OBVIOUS
<1> HIDE DEF u
<1>2. /\ Ops!Bounded(u) \in Seq(FineFlows) /\ Len(Ops!Bounded(u)) \in 0 .. 5
      /\ Len(Ops!Bounded(u)) = IF Len(u) < 5 THEN Len(u) ELSE 5
      /\ \A i \in 1 .. Len(Ops!Bounded(u)) : Ops!Bounded(u)[i] = u[i]
  BY <1>1, BoundedIs
<1>3. Len(u) > 0 => 1 \in 1 .. Len(Ops!Bounded(u))
  BY <1>1, <1>2
<1>4. PlanIs(Ops!Bounded(u)) /\ (Len(u) > 0 => Len(Ops!Bounded(u)) > 0)
      /\ (Len(s) > 0 => Ops!Bounded(u)[1] = s[1])
  BY <1>1, <1>2, <1>3 DEF PlanIs
<1>5. QED
  BY <1>1, <1>4 DEF u

LEMMA LogsAreFine ==
  \A params : params \subseteq {"service", "level", "hours_back", "limit", "contains"} =>
    Ops!Flow("grafana_logs", params) \in FineFlows /\ Ops!Flow("grafana_logs", params).tool = "grafana_logs"
<1> TAKE params
<1> HAVE params \subseteq {"service", "level", "hours_back", "limit", "contains"}
<1>1. Fits("grafana_logs", params)
  BY GrafanaParams DEF Fits
<1>2. QED
  BY <1>1, FlowIs

LEMMA Single == ASSUME NEW S, NEW x \in S
                PROVE  <<x>> \in Seq(S) /\ Len(<<x>>) = 1
OBVIOUS

LEMMA AdapterIs ==
  ASSUME NEW p
  PROVE  Ops!AdapterLogs(p) \in Seq(FineFlows) /\ Len(Ops!AdapterLogs(p)) > 0
<1> DEFINE a == "iot-mqtt-client-adapter"
           b == "notify"
           d == "iot-http-api"
           s == IF "mqtt" \in p THEN <<a>> ELSE <<>>
           t == IF "notify" \in p THEN <<b>> ELSE <<>>
           named == s \o t
           services == IF named = <<>> THEN <<d>> ELSE named
           params == {"level", "hours_back", "limit", "service"}
                       \cup Ops!If(Ops!device_id(p), {"contains"})
           flow == Ops!Flow("grafana_logs", params)
           Names == {a, b, d}
<1>1. Ops!AdapterLogs(p) = [i \in DOMAIN services |-> flow]
  BY Zenon DEF Ops!AdapterLogs
<1>2. flow \in FineFlows
  <2>1. params \subseteq {"service", "level", "hours_back", "limit", "contains"}
    BY DEF Ops!If
  <2>2. QED
    BY <2>1, LogsAreFine
<1> HIDE DEF a, b, d, flow
<1>3. s \in Seq(Names) /\ t \in Seq(Names)
  <2>1. a \in Names /\ b \in Names
    OBVIOUS
  <2> HIDE DEF Names
  <2>2. <<a>> \in Seq(Names) /\ <<b>> \in Seq(Names) /\ <<>> \in Seq(Names)
    BY <2>1, Single
  <2>3. (s = <<a>> \/ s = <<>>) /\ (t = <<b>> \/ t = <<>>)
    OBVIOUS
  <2> HIDE DEF s, t
  <2>4. QED
    BY <2>2, <2>3
<1> HIDE DEF s, t
<1>4. named \in Seq(Names)
  BY <1>3
<1> HIDE DEF named
<1>5. services \in Seq(Names) /\ Len(services) > 0
  <2>1. CASE named = <<>>
    <3>1. services = <<d>> /\ d \in Names
      BY <2>1
    <3> HIDE DEF services, Names
    <3>2. <<d>> \in Seq(Names) /\ Len(<<d>>) = 1
      BY <3>1, Single
    <3>3. QED
      BY <3>1, <3>2
  <2>2. CASE named # <<>>
    <3>1. services = named
      BY <2>2
    <3>2. Len(named) # 0
      BY <1>4, <2>2, EmptySeq
    <3> HIDE DEF services, Names
    <3>3. QED
      BY <1>4, <3>1, <3>2
  <2>3. QED
    BY <2>1, <2>2
<1> HIDE DEF services, Names
<1>6. DOMAIN services = 1 .. Len(services) /\ Len(services) \in Nat
  BY <1>5
<1>7. [i \in 1 .. Len(services) |-> flow] \in Seq(FineFlows)
      /\ Len([i \in 1 .. Len(services) |-> flow]) = Len(services)
  BY <1>2, <1>6
<1>8. QED
  BY <1>1, <1>5, <1>6, <1>7

LEMMA NotOnem2m == "grafana_logs" \notin Ops!Onem2mTools /\ "grafana_k8s_health" \notin Ops!Onem2mTools
BY DEF Ops!Onem2mTools, Ops!CompanyTools, Ops!COMPANY_DB_TOOLS

LEMMA WithAdapterLogs ==
  ASSUME NEW plan, PlanIs(plan), NEW p
  PROVE  LET r == Ops!with_adapter_logs(plan, p)
         IN /\ PlanIs(r)
            /\ Len(plan) > 0 => Len(r) > 0
            /\ (Len(plan) > 0 /\ plan[1].tool \in Ops!Onem2mTools) => r[1] = plan[1]
<1> DEFINE r == Ops!with_adapter_logs(plan, p)
           tools == Ops!Onem2mTools \cup {"grafana_logs"}
           kept == Ops!Only(plan, tools)
           rest == Ops!Without(kept, {"grafana_logs"})
           joined == Ops!Bounded(rest \o Ops!AdapterLogs(p))
           starts == Len(plan) > 0 /\ plan[1].tool \in Ops!Onem2mTools
<1>1. \/ r = plan
      \/ r = kept /\ Ops!ToolsOf(plan) \cap Ops!Onem2mTools # {}
      \/ r = joined
  BY DEF Ops!with_adapter_logs
<1>2. /\ kept \in Seq(FineFlows) /\ Len(kept) <= Len(plan)
      /\ (\E i \in DOMAIN plan : plan[i].tool \in tools) => Len(kept) > 0
      /\ starts => kept[1] = plan[1]
  BY OnlyIs DEF PlanIs
<1>3. starts => Len(kept) > 0
  <2>1. Len(plan) > 0 => 1 \in DOMAIN plan
    BY DEF PlanIs
  <2>2. QED
    BY <1>2, <2>1
<1>4. Ops!ToolsOf(plan) \cap Ops!Onem2mTools # {} => Len(kept) > 0
  BY <1>2 DEF Ops!ToolsOf
<1> HIDE DEF kept
<1>5. /\ rest \in Seq(FineFlows)
      /\ (Len(kept) > 0 /\ kept[1].tool # "grafana_logs") => Len(rest) > 0 /\ rest[1] = kept[1]
  BY <1>2, WithoutIs
<1> HIDE DEF rest
<1>6. /\ PlanIs(joined) /\ Len(joined) > 0
      /\ Len(rest) > 0 => joined[1] = rest[1]
  <2>1. Len(rest) \in Nat /\ Ops!AdapterLogs(p) \in Seq(FineFlows) /\ Len(Ops!AdapterLogs(p)) > 0
        /\ Len(Ops!AdapterLogs(p)) \in Nat
    BY <1>5, AdapterIs
  <2>2. QED
    BY <1>5, <2>1, JoinedIs
<1> HIDE DEF joined
<1>7. starts => joined[1] = plan[1]
  BY <1>2, <1>3, <1>5, <1>6, NotOnem2m
<1>8. PlanIs(kept)
  BY <1>2 DEF PlanIs
<1> HIDE DEF r
<1>9. PlanIs(r) /\ (Len(plan) > 0 => Len(r) > 0) /\ (starts => r[1] = plan[1])
  BY <1>1, <1>2, <1>4, <1>6, <1>7, <1>8
<1>10. QED
  BY <1>9 DEF r

\* The runbook in front of a plan, cut to the budget.
LEMMA InFront ==
  ASSUME NEW first \in FineFlows, NEW s \in Seq(FineFlows)
  PROVE  /\ PlanIs(Ops!Bounded(<<first>> \o s)) /\ Len(Ops!Bounded(<<first>> \o s)) > 0
         /\ Ops!Bounded(<<first>> \o s)[1] = first
<1> DEFINE one == <<first>>
<1>1. one \in Seq(FineFlows) /\ Len(one) = 1 /\ one[1] = first
  OBVIOUS
<1> HIDE DEF one
<1>2. Len(one) + Len(s) > 0 /\ Len(one) > 0
  BY <1>1
<1>3. PlanIs(Ops!Bounded(one \o s)) /\ Len(Ops!Bounded(one \o s)) > 0 /\ Ops!Bounded(one \o s)[1] = first
  BY <1>1, <1>2, JoinedIs
<1>4. QED
  BY <1>3 DEF one

\* The runbook a prompt calls for is put first.
LEMMA RunbookRequired ==
  ASSUME NEW plan, PlanIs(plan), NEW p
  PROVE  LET r == Ops!ensure_runbook_required(plan, p)
         IN /\ PlanIs(r)
            /\ Len(plan) > 0 => Len(r) > 0
            /\ Ops!Primary(p).tool \in Ops!MetricRunbookTools \cup Ops!Onem2mTools =>
                 Len(r) > 0 /\ r[1] = Ops!Primary(p)
<1> DEFINE r == Ops!ensure_runbook_required(plan, p)
           first == Ops!Primary(p)
           s == Ops!Without(plan, Ops!Onem2mTools \cup {first.tool})
           t == Ops!Without(plan, Ops!Onem2mTools)
           a == Ops!Bounded(<<first>> \o s)
           b == Ops!Bounded(<<first>> \o t)
           c == Ops!with_adapter_logs(b, p)
           d == Ops!with_adapter_logs(plan, p)
<1>1. \/ first.tool \in Ops!MetricRunbookTools /\ r = a
      \/ first.tool \in Ops!Onem2mTools /\ r = c
      \/ first.tool \notin Ops!MetricRunbookTools \cup Ops!Onem2mTools /\ r = d
  BY Zenon DEF Ops!ensure_runbook_required
<1>2. first \in FineFlows
  BY PrimaryIs
<1>3. s \in Seq(FineFlows) /\ t \in Seq(FineFlows)
  BY WithoutIs DEF PlanIs
<1> HIDE DEF first, s, t
<1>6. PlanIs(a) /\ Len(a) > 0 /\ a[1] = first
  BY <1>2, <1>3, InFront
<1>7. PlanIs(b) /\ Len(b) > 0 /\ b[1] = first
  BY <1>2, <1>3, InFront
<1> HIDE DEF a, b
<1>8. PlanIs(c) /\ Len(c) > 0 /\ (first.tool \in Ops!Onem2mTools => c[1] = first)
  BY <1>7, WithAdapterLogs
<1>9. PlanIs(d) /\ (Len(plan) > 0 => Len(d) > 0)
  BY WithAdapterLogs
<1> HIDE DEF c, d, r
<1>10. PlanIs(r) /\ (Len(plan) > 0 => Len(r) > 0)
       /\ (first.tool \in Ops!MetricRunbookTools \cup Ops!Onem2mTools => Len(r) > 0 /\ r[1] = first)
  BY <1>1, <1>6, <1>8, <1>9
<1>11. QED
  BY <1>10 DEF r, first

LEMMA Drilldown ==
  ASSUME NEW plan, PlanIs(plan), NEW p
  PROVE  LET r == Ops!ensure_device_drilldown(plan, p)
         IN /\ PlanIs(r)
            /\ Len(plan) > 0 => Len(r) > 0
            /\ Ops!Primary(p).tool # "get_company_device_drilldown" => r = plan
            /\ Ops!Primary(p).tool = "get_company_device_drilldown" =>
                 Len(r) > 0 /\ r[1] = Ops!Primary(p)
<1> DEFINE r == Ops!ensure_device_drilldown(plan, p)
           first == Ops!Primary(p)
           s == Ops!Without(plan, {first.tool})
           a == Ops!Bounded(<<first>> \o s)
<1>1. IF first.tool # "get_company_device_drilldown" THEN r = plan ELSE r = a
  BY Zenon DEF Ops!ensure_device_drilldown
<1>2. first \in FineFlows
  BY PrimaryIs
<1>3. s \in Seq(FineFlows)
  BY WithoutIs DEF PlanIs
<1> HIDE DEF first, s
<1>6. PlanIs(a) /\ Len(a) > 0 /\ a[1] = first
  BY <1>2, <1>3, InFront
<1> HIDE DEF a, r
<1>7. /\ PlanIs(r) /\ (Len(plan) > 0 => Len(r) > 0)
      /\ first.tool # "get_company_device_drilldown" => r = plan
      /\ first.tool = "get_company_device_drilldown" => Len(r) > 0 /\ r[1] = first
  BY <1>1, <1>6
<1>8. QED
  BY <1>7 DEF r, first

LEMMA OverviewIs ==
  ASSUME NEW plan, PlanIs(plan), NEW p
  PROVE  LET r == Ops!ensure_infrastructure_overview(plan, p)
         IN /\ PlanIs(r)
            /\ Len(plan) > 0 => Len(r) > 0
            /\ ~Ops!Overview(p) => r = plan
            /\ Ops!Overview(p) => r[1].tool = "grafana_k8s_health"
<1> DEFINE r == Ops!ensure_infrastructure_overview(plan, p)
           names == Ops!OverviewTools
           at(i) == IF names[i] \in Ops!ToolsOf(plan) THEN Ops!Only(plan, {names[i]})[1]
                    ELSE Ops!Flow(names[i], {})
<1>1. IF ~Ops!Overview(p) THEN r = plan ELSE r = [i \in DOMAIN names |-> at(i)]
  BY Zenon DEF Ops!ensure_infrastructure_overview
<1>2. DOMAIN names = 1 .. 5 /\ names[1] = "grafana_k8s_health"
      /\ \A i \in 1 .. 5 : names[i] \in GrafanaNames
  BY DEF Ops!OverviewTools, GrafanaNames
<1> HIDE DEF names
<1>3. ASSUME NEW i \in 1 .. 5
      PROVE  at(i) \in FineFlows /\ at(i).tool = names[i]
  <2>1. CASE names[i] \in Ops!ToolsOf(plan)
    <3> DEFINE one == Ops!Only(plan, {names[i]})
    <3>1. \E j \in DOMAIN plan : plan[j].tool \in {names[i]}
      BY <2>1 DEF Ops!ToolsOf
    <3>2. /\ one \in Seq(FineFlows) /\ Len(one) > 0
          /\ \A k \in 1 .. Len(one) : one[k].tool \in {names[i]}
      BY <3>1, OnlyIs DEF PlanIs
    <3>3. at(i) = one[1]
      BY <2>1
    <3> HIDE DEF one
    <3>4. 1 \in 1 .. Len(one)
      BY <3>2
    <3>5. one[1] \in FineFlows /\ one[1].tool = names[i]
      BY <3>2, <3>4
    <3>6. QED
      BY <3>3, <3>5
  <2>2. CASE names[i] \notin Ops!ToolsOf(plan)
    <3>1. Fits(names[i], {})
      BY <1>2, GrafanaParams
    <3>2. at(i) = Ops!Flow(names[i], {})
      BY <2>2
    <3>3. QED
      BY <3>1, <3>2, FlowIs
  <2>3. QED
    BY <2>1, <2>2
<1> HIDE DEF at
<1>4. [i \in 1 .. 5 |-> at(i)] \in Seq(FineFlows) /\ Len([i \in 1 .. 5 |-> at(i)]) = 5
      /\ [i \in 1 .. 5 |-> at(i)][1] = at(1)
  BY <1>3
<1>5. at(1).tool = "grafana_k8s_health"
  BY <1>2, <1>3
<1> HIDE DEF r
<1>6. CASE Ops!Overview(p)
  <2> DEFINE five == [i \in 1 .. 5 |-> at(i)]
  <2>0. r = five
    BY <1>1, <1>2, <1>6
  <2>4. five \in Seq(FineFlows) /\ Len(five) = 5 /\ five[1] = at(1)
    BY <1>4
  <2> HIDE DEF five
  <2>1. PlanIs(r) /\ Len(r) = 5 /\ r[1] = at(1)
    BY <2>0, <2>4 DEF PlanIs
  <2>2. QED
    BY <1>5, <1>6, <2>1 DEF r
<1>7. CASE ~Ops!Overview(p)
  BY <1>1, <1>7 DEF r
<1>8. QED
  BY <1>6, <1>7

LEMMA ResourceLogs ==
  ASSUME NEW plan, PlanIs(plan)
  PROVE  LET r == Ops!ensure_k8s_resource_logs(plan)
         IN /\ PlanIs(r)
            /\ Len(plan) > 0 => Len(r) > 0
            /\ (Len(plan) > 0 /\ plan[1].tool # "grafana_logs") => r[1] = plan[1]
<1> DEFINE r == Ops!ensure_k8s_resource_logs(plan)
           s == Ops!Without(plan, {"grafana_logs"})
           logs_flow == Ops!Flow("grafana_logs", {"level", "hours_back", "limit"})
           a == Ops!Bounded(s \o <<logs_flow>>)
<1>1. r = plan \/ r = a
  BY Zenon DEF Ops!ensure_k8s_resource_logs
<1>2. logs_flow \in FineFlows
  BY LogsAreFine
<1>3. /\ s \in Seq(FineFlows)
      /\ (Len(plan) > 0 /\ plan[1].tool # "grafana_logs") => Len(s) > 0 /\ s[1] = plan[1]
  BY WithoutIs DEF PlanIs
<1> HIDE DEF logs_flow, s
<1>4. <<logs_flow>> \in Seq(FineFlows) /\ Len(<<logs_flow>>) = 1
  BY <1>2
<1>5. Len(s) + Len(<<logs_flow>>) > 0
  BY <1>3, <1>4
<1>6. PlanIs(a) /\ Len(a) > 0 /\ (Len(s) > 0 => a[1] = s[1])
  BY <1>3, <1>4, <1>5, JoinedIs
<1> HIDE DEF a, r
<1>7. /\ PlanIs(r) /\ (Len(plan) > 0 => Len(r) > 0)
      /\ (Len(plan) > 0 /\ plan[1].tool # "grafana_logs") => r[1] = plan[1]
  BY <1>1, <1>3, <1>6
<1>8. QED
  BY <1>7 DEF r

LEMMA RunbooksAre ==
  /\ "grafana_logs" \notin Ops!Runbooks
  /\ "get_company_device_drilldown" \notin Ops!MetricRunbookTools \cup Ops!Onem2mTools
  /\ \A t \in Ops!Runbooks : t \in Ops!MetricRunbookTools \cup Ops!Onem2mTools
                             \/ t = "get_company_device_drilldown"
<1>1. "get_company_device_drilldown" \notin Ops!Onem2mTools
  <2>1. Ops!COMPANY_DB_TOOLS["get_company_device_drilldown"] = {"device_id"}
    BY DEF Ops!COMPANY_DB_TOOLS
  <2>2. "ae_id" \in Ops!Onem2mParams /\ "ae_id" # "device_id"
    BY DEF Ops!Onem2mParams
  <2>3. QED
    BY <2>1, <2>2 DEF Ops!Onem2mTools
<1>2. QED
  BY <1>1, NotOnem2m DEF Ops!Runbooks, Ops!MetricRunbookTools

\* The corrections keep a plan within its budget and its tools' parameters, and
\* put the runbook the prompt calls for first.
LEMMA CorrectedIs ==
  ASSUME NEW plan, PlanIs(plan), NEW p
  PROVE  LET r == Ops!Corrected(plan, p)
         IN /\ PlanIs(r)
            /\ Len(plan) > 0 => Len(r) > 0
            /\ Ops!classify_tool(p).tool \in Ops!Runbooks =>
                 \/ r[1].tool = Ops!classify_tool(p).tool
                 \/ Ops!Overview(p) /\ r[1].tool = "grafana_k8s_health"
<1> DEFINE tool == Ops!classify_tool(p).tool
           a == Ops!ensure_runbook_required(plan, p)
           b == Ops!ensure_device_drilldown(a, p)
           c == Ops!ensure_infrastructure_overview(b, p)
           r == Ops!Corrected(plan, p)
<1>1. r = Ops!ensure_k8s_resource_logs(c)
  BY DEF Ops!Corrected
<1>2. Ops!Primary(p).tool = tool
  BY PrimaryIs
<1> HIDE DEF tool
<1>3. /\ PlanIs(a) /\ (Len(plan) > 0 => Len(a) > 0)
      /\ tool \in Ops!MetricRunbookTools \cup Ops!Onem2mTools => Len(a) > 0 /\ a[1].tool = tool
  BY <1>2, RunbookRequired
<1> HIDE DEF a
<1>4. /\ PlanIs(b) /\ (Len(a) > 0 => Len(b) > 0)
      /\ tool # "get_company_device_drilldown" => b = a
      /\ tool = "get_company_device_drilldown" => Len(b) > 0 /\ b[1].tool = tool
  BY <1>2, <1>3, Drilldown
<1>5. tool \in Ops!Runbooks => Len(b) > 0 /\ b[1].tool = tool
  BY <1>3, <1>4, RunbooksAre
<1> HIDE DEF b
<1>6. /\ PlanIs(c) /\ (Len(b) > 0 => Len(c) > 0)
      /\ ~Ops!Overview(p) => c = b
      /\ Ops!Overview(p) => c[1].tool = "grafana_k8s_health"
  BY <1>4, OverviewIs
<1> HIDE DEF c
<1>7. /\ PlanIs(r) /\ (Len(c) > 0 => Len(r) > 0)
      /\ (Len(c) > 0 /\ c[1].tool # "grafana_logs") => r[1] = c[1]
  BY <1>1, <1>6, ResourceLogs
<1> HIDE DEF r
<1>8. tool \in Ops!Runbooks =>
        (r[1].tool = tool \/ (Ops!Overview(p) /\ r[1].tool = "grafana_k8s_health"))
  BY <1>5, <1>6, <1>7, RunbooksAre
<1>9. Len(plan) > 0 => Len(r) > 0
  BY <1>3, <1>4, <1>6, <1>7
<1>10. QED
  BY <1>7, <1>8, <1>9 DEF tool, r

LEMMA AdditionalIs ==
  ASSUME NEW p, NEW primary
  PROVE  Ops!detect_additional_grafana_tools(p, primary) \in Seq(FineFlows)
<1> DEFINE names == Ops!OverviewTools
           shown == [i \in 1 .. 4 |-> <<p, names[i + 1]>>]
           signals == IF Ops!Overview(p) THEN shown ELSE Ops!Signals
           I == {i \in DOMAIN signals : Ops!Has(p, signals[i][1]) /\ signals[i][2] # primary}
           extra == Ops!Kept(signals, I)
           r == Ops!detect_additional_grafana_tools(p, primary)
           Named == {x \in {Ops!Signals[i] : i \in 1 .. 9} \cup {shown[i] : i \in 1 .. 4} :
                       x[2] \in GrafanaNames}
<1>1. r = [i \in DOMAIN extra |-> Ops!Flow(extra[i][2], {})]
  BY Zenon DEF Ops!detect_additional_grafana_tools
<1>2. Ops!Signals \in Seq(Named)
  <2>1. Ops!Signals \in Seq({Ops!Signals[i] : i \in 1 .. 9})
    BY DEF Ops!Signals
  <2>2. \A i \in 1 .. 9 : Ops!Signals[i][2] \in GrafanaNames
    BY DEF Ops!Signals, GrafanaNames
  <2>3. QED
    BY <2>1, <2>2
<1>3. shown \in Seq(Named)
  <2>1. \A i \in 2 .. 5 : names[i] \in GrafanaNames
    BY DEF Ops!OverviewTools, GrafanaNames
  <2> HIDE DEF names
  <2>2. \A i \in 1 .. 4 : shown[i][2] \in GrafanaNames
    BY <2>1
  <2>3. \A i \in 1 .. 4 : shown[i] \in Named
    BY <2>2
  <2> HIDE DEF Named
  <2>4. QED
    BY <2>3
<1> HIDE DEF Named, shown
<1>4. signals \in Seq(Named)
  BY <1>2, <1>3
<1>5. I \in SUBSET DOMAIN signals
  OBVIOUS
<1> HIDE DEF I, signals
<1>6. extra \in Seq(Named)
  BY <1>4, <1>5, KeptIs
<1> HIDE DEF extra
<1>7. \A i \in DOMAIN extra : Ops!Flow(extra[i][2], {}) \in FineFlows
  <2>1. \A x \in Named : x[2] \in GrafanaNames
    BY DEF Named
  <2>2. \A x \in Named : Ops!Flow(x[2], {}) \in FineFlows
    BY <2>1, GrafanaParams, FlowIs
  <2>3. QED
    BY <1>6, <2>2
<1>8. DOMAIN extra = 1 .. Len(extra) /\ Len(extra) \in Nat
  BY <1>6
<1>9. QED
  BY <1>1, <1>7, <1>8

\* What a usable plan is, and that both ways of planning make one.
Planning(plan, p) ==
  /\ PlanIs(plan)
  /\ Ops!classify_tool(p).tool \in Ops!Runbooks =>
       \/ plan[1].tool = Ops!classify_tool(p).tool
       \/ Ops!Overview(p) /\ plan[1].tool = "grafana_k8s_health"

LEMMA DeterministicIs ==
  ASSUME NEW p
  PROVE  Planning(Ops!plan_deterministically(p), p) /\ Len(Ops!plan_deterministically(p)) > 0
<1> DEFINE rule == Ops!classify_tool(p)
           first == Ops!Flow(rule.tool, rule.params)
           s == Ops!detect_additional_grafana_tools(p, rule.tool)
           a == Ops!Bounded(<<first>> \o s)
<1>1. Ops!plan_deterministically(p) = Ops!Corrected(a, p)
  BY Zenon DEF Ops!plan_deterministically
<1>2. Fits(rule.tool, rule.params)
  BY ClassifierFits DEF RuleFits
<1> HIDE DEF rule
<1>3. first \in FineFlows /\ s \in Seq(FineFlows)
  BY <1>2, FlowIs, AdditionalIs
<1> HIDE DEF first, s
<1>4. PlanIs(a) /\ Len(a) > 0
  BY <1>3, InFront
<1> HIDE DEF a
<1>5. QED
  BY <1>1, <1>4, CorrectedIs DEF Planning

LEMMA ProposedFlow ==
  ASSUME NEW item, NEW p, item.tool \in Ops!Tools
  PROVE  Ops!Flow(item.tool, Ops!enrich_workflow_params(item.tool, Ops!filter_tool_params(item), p))
           \in FineFlows
<1>1. Fits(item.tool, Ops!filter_tool_params(item))
  BY DEF Fits, Ops!filter_tool_params
<1>2. Fits(item.tool, Ops!enrich_workflow_params(item.tool, Ops!filter_tool_params(item), p))
  BY <1>1, EnrichFits
<1>3. QED
  BY <1>2, FlowIs

LEMMA NormalizedIs ==
  ASSUME NEW S, NEW proposal \in Seq(S), NEW p
  PROVE  Planning(Ops!normalize_planner_workflows(proposal, p), p)
<1> DEFINE considered == Ops!Bounded(proposal)
           new(i) == \A j \in 1 .. i - 1 :
                       Ops!Usable(considered, p, j) => considered[j].tool # considered[i].tool
           I == {i \in DOMAIN considered : Ops!Usable(considered, p, i) /\ new(i)}
           kept == Ops!Kept(considered, I)
           flow(item) == Ops!Flow(item.tool,
                           Ops!enrich_workflow_params(item.tool, Ops!filter_tool_params(item), p))
           flows == [k \in DOMAIN kept |-> flow(kept[k])]
<1>1. Ops!normalize_planner_workflows(proposal, p) = Ops!Corrected(flows, p)
  BY Zenon DEF Ops!normalize_planner_workflows
<1>2. considered \in Seq(S) /\ Len(considered) \in 0 .. 5
  BY BoundedIs
<1>3. I \in SUBSET DOMAIN considered /\ \A i \in I : considered[i].tool \in Ops!Tools
  BY DEF Ops!Usable
<1> HIDE DEF I, considered
<1>4. /\ kept \in Seq(S) /\ Len(kept) \in 0 .. 5
      /\ \A k \in 1 .. Len(kept) : \E i \in I : kept[k] = considered[i]
  <2>1. /\ Cardinality(I) \in 0 .. Len(considered)
        /\ kept \in Seq(S) /\ Len(kept) = Cardinality(I)
        /\ \A k \in 1 .. Cardinality(I) : \E i \in I : kept[k] = considered[i]
    BY <1>2, <1>3, KeptIs
  <2> HIDE DEF kept, new, flow, flows
  <2>2. Len(kept) \in 0 .. 5
    <3> DEFINE m == Len(considered)
               n == Len(kept)
    <3>1. m \in 0 .. 5 /\ n \in 0 .. m
      BY <1>2, <2>1
    <3> HIDE DEF m, n
    <3>2. n \in 0 .. 5
      BY <3>1
    <3>3. QED
      BY <3>2 DEF n
  <2>3. \A k \in 1 .. Len(kept) : \E i \in I : kept[k] = considered[i]
    BY Zenon, <2>1
  <2>4. QED
    BY <2>1, <2>2, <2>3
<1> HIDE DEF kept
<1>5. DOMAIN kept = 1 .. Len(kept)
  BY <1>4
<1>6. \A k \in 1 .. Len(kept) : kept[k].tool \in Ops!Tools
  BY <1>3, <1>4
<1>7. \A k \in 1 .. Len(kept) : flow(kept[k]) \in FineFlows
  BY <1>6, ProposedFlow
<1> HIDE DEF flow
<1>8. PlanIs(flows)
  BY <1>4, <1>5, <1>7 DEF PlanIs
<1> HIDE DEF flows
<1>9. QED
  BY <1>1, <1>8, CorrectedIs DEF Planning

LEMMA PlansAre ==
  ASSUME NEW S, NEW proposal \in Seq(S), NEW p
  PROVE  Planning(Ops!plan_workflows(proposal, p), p) /\ Len(Ops!plan_workflows(proposal, p)) > 0
<1> DEFINE semantic == Ops!normalize_planner_workflows(proposal, p)
           r == Ops!plan_workflows(proposal, p)
<1>1. r = IF semantic = <<>> THEN Ops!plan_deterministically(p) ELSE semantic
  BY Zenon DEF Ops!plan_workflows
<1>2. Planning(semantic, p)
  BY NormalizedIs
<1> HIDE DEF semantic, r
<1>3. semantic \in Seq(FineFlows)
  BY <1>2 DEF Planning, PlanIs
<1>4. CASE semantic = <<>>
  <2>1. r = Ops!plan_deterministically(p)
    BY <1>1, <1>4
  <2>2. Planning(r, p) /\ Len(r) > 0
    BY <2>1, DeterministicIs
  <2>3. QED
    BY <2>2 DEF r
<1>5. CASE semantic # <<>>
  <2>1. Len(semantic) > 0
    BY <1>3, <1>5, EmptySeq
  <2>2. QED
    BY <1>1, <1>2, <1>5, <2>1 DEF r
<1>6. QED
  BY <1>4, <1>5

-----------------------------------------------------------------------------
(* The Ops Graph (ioa_v3_langgraph_n8n): what a question and the services lead *)
(* to, and what is known at each node of the graph.                            *)

OpsFields == DOMAIN Ops!initial_state

OpsAsked == [scenario.question EXCEPT !.active = active_source, !.selected = scenario.selected]

\* What is planned, and what of it may be executed.
FullPlan == IF world.planner = "proposes" THEN Ops!plan_workflows(world.proposal, OpsAsked.words)
            ELSE Ops!plan_deterministically(OpsAsked.words)
Approved == Ops!authorized_workflows(Ops!Bounded(FullPlan), OpsAsked)

\* A workflow that ends the run when it is executed, and what the first k leave behind.
Fatal(flow) == Ops!Escapes(flow)
OutputsUpto(k) == [i \in 1 .. k |-> <<Approved[i].tool, Ops!Evidence(Approved[i])>>]
ReadsUpto(k) == UNION {Ops!ReadBy(Approved[i]) : i \in 1 .. k}

OpsUnread(g) == g.calls = 0 /\ g.outputs = <<>> /\ g.reads = {} /\ g.executions = 0
Executed(g, k) == /\ k \in 0 .. Len(Approved)
                  /\ g.calls = k /\ g.outputs = OutputsUpto(k) /\ g.reads = ReadsUpto(k)
                  /\ \A i \in 1 .. k : ~Fatal(Approved[i])
Completed(g) == Executed(g, Len(Approved)) /\ Len(Approved) > 0 /\ g.plan = Approved
Builds == /\ Approved[1].tool \in Ops!MCP_PROMETHEUS_TOOLS \cup Ops!DETERMINISTIC_BUILDER_REGISTRY
          /\ Ops!Evidence(Approved[1]) \notin {"snapshot", "text"}

\* Why the request is denied, and why it fails.
OpsDenial(g) ==
  /\ OpsUnread(g)
  /\ \/ /\ OpsAsked.size # "fits" /\ g.plan = <<>> /\ g.reason = "invalid_request"
        /\ ~Ops!Planned(g)
     \/ /\ OpsAsked.size = "fits" /\ Len(Approved) = 0 /\ g.plan = Approved
        /\ g.reason = "no_authorized_workflows"

OpsFailure(g) ==
  /\ OpsAsked.size = "fits" /\ Len(Approved) > 0 /\ g.plan = Approved
  /\ g.at = "failed" => g.answer = "apology"
  /\ \/ /\ Completed(g) /\ ~Builds /\ world.model = "raises"
     \/ \E k \in 1 .. Len(Approved) :
          /\ Fatal(Approved[k]) /\ \A i \in 1 .. k - 1 : ~Fatal(Approved[i])
          /\ g.calls = k /\ g.outputs = <<>> /\ g.reads = ReadsUpto(k)

OpsNode(g) ==
  CASE g.at \in {"off", "validate_request"} ->
         OpsUnread(g) /\ g.allowed /\ g.plan = <<>> /\ ~Ops!Planned(g)
    [] g.at = "select_workflow" ->
         /\ OpsUnread(g) /\ g.allowed /\ g.plan = <<>> /\ ~Ops!Planned(g)
         /\ OpsAsked.size = "fits"
    [] g.at = "authorize_workflow" ->
         OpsUnread(g) /\ g.allowed /\ g.plan = FullPlan /\ OpsAsked.size = "fits"
    [] g.at = "call_n8n_workflow" ->
         /\ g.allowed /\ g.plan = Approved /\ Len(Approved) > 0 /\ OpsAsked.size = "fits"
         /\ Executed(g, g.calls)
    [] g.at \in {"apply_kpi_rules", "generate_answer"} ->
         g.allowed /\ Completed(g) /\ OpsAsked.size = "fits"
    [] g.at = "answered" ->
         /\ Completed(g) /\ OpsAsked.size = "fits"
         /\ g.answer = IF Builds THEN "deterministic" ELSE "model"
         /\ ~Builds => world.model # "raises"
    [] g.at = "deny_request" -> OpsDenial(g) /\ ~g.allowed
    [] g.at = "denied" -> OpsDenial(g) /\ g.answer = g.reason
    [] g.at \in {"raised", "failed"} -> OpsFailure(g)
    [] g.at = "closed" -> TRUE

OpsReasons == {"", "request_validated", "invalid_request", "no_authorized_workflows",
               "workflow_authorized"}

OpsNodes == {"off", "validate_request", "select_workflow", "authorize_workflow",
             "call_n8n_workflow", "apply_kpi_rules", "generate_answer", "answered",
             "deny_request", "denied", "raised", "failed", "closed"}

StepNames == OpsNodes \cup {"runtime_error"}

OpsAt(g, r) ==
  /\ DOMAIN g = OpsFields /\ g.at \in OpsNodes
  /\ g.reason \in OpsReasons /\ g.steps \in Seq(StepNames) /\ PlanIs(g.plan)
  /\ Ops!Planned(g) => g.plan # <<>> \/ g.reason = "no_authorized_workflows"
  /\ g.at # "off" => r = OpsAsked
  /\ OpsNode(g)

OpsInv == mode = "ioa_v3_langgraph_n8n" => \A c \in Clients : OpsAt(graph[c], request[c])

-----------------------------------------------------------------------------
(* What the Ops Graph plans and approves. *)

LEMMA FullPlanIs ==
  ASSUME IInv, mode = "ioa_v3_langgraph_n8n"
  PROVE  Planning(FullPlan, OpsAsked.words) /\ Len(FullPlan) > 0
<1> DEFINE S == {world.proposal[i] : i \in DOMAIN world.proposal}
           p == OpsAsked.words
           r == FullPlan
<1>1. world.proposal \in Seq(S)
  <2>1. scenario \in Scenarios /\ world = scenario.world
    BY DEF IInv, Typed
  <2>2. Ops!World(scenario.world)
    BY <2>1, ScenariosAssumption DEF mode
  <2>3. QED
    BY <2>1, <2>2 DEF Ops!World
<1>2. CASE world.planner = "proposes"
  <2> DEFINE q == world.proposal
  <2>1. r = Ops!plan_workflows(q, p)
    BY <1>2 DEF FullPlan
  <2>2. q \in Seq(S)
    BY <1>1
  <2> HIDE DEF p, q, r, S
  <2>3. Planning(r, p) /\ Len(r) > 0
    BY <2>1, <2>2, PlansAre
  <2>4. QED
    BY <2>3 DEF r, p
<1>3. CASE world.planner # "proposes"
  <2>1. r = Ops!plan_deterministically(p)
    BY <1>3 DEF FullPlan
  <2> HIDE DEF p, r
  <2>2. Planning(r, p) /\ Len(r) > 0
    BY <2>1, DeterministicIs
  <2>3. QED
    BY <2>2 DEF r, p
<1>4. QED
  BY <1>2, <1>3

\* What is approved is part of the plan and reads granted sources only.
LEMMA ApprovedIs ==
  ASSUME IInv, mode = "ioa_v3_langgraph_n8n"
  PROVE  /\ PlanIs(Approved)
         /\ \A i \in 1 .. Len(Approved) :
              Ops!Source(Approved[i].tool) \in Ops!Granted(OpsAsked)
<1> DEFINE s == Ops!Bounded(FullPlan)
           allows(flow) == Ops!authorize_single_workflow(flow, OpsAsked.selected, OpsAsked.active)
                             = "workflow_authorized"
           I == {i \in DOMAIN s : allows(s[i])}
           kept == Ops!Kept(s, I)
<1>1. FullPlan \in Seq(FineFlows)
  BY FullPlanIs DEF Planning, PlanIs
<1>2. s \in Seq(FineFlows) /\ Len(s) \in 0 .. 5
  BY <1>1, BoundedIs
<1>3. Approved = kept
  BY Zenon DEF Approved, Ops!authorized_workflows
<1>4. I \in SUBSET DOMAIN s /\ \A i \in I : allows(s[i])
  OBVIOUS
<1>5. \A flow : allows(flow) => Ops!Source(flow.tool) \in Ops!Granted(OpsAsked)
  BY DEF Ops!authorize_single_workflow, Ops!Source, Ops!Granted, Ops!If
<1> HIDE DEF I, s, allows
<1>6. /\ Cardinality(I) \in 0 .. Len(s)
      /\ kept \in Seq(FineFlows) /\ Len(kept) = Cardinality(I)
      /\ \A k \in 1 .. Cardinality(I) : \E i \in I : kept[k] = s[i]
  BY <1>2, <1>4, KeptIs
<1> HIDE DEF kept
<1>7. PlanIs(kept)
  <2> DEFINE m == Len(s)
             n == Len(kept)
  <2>1. m \in 0 .. 5 /\ n \in 0 .. m
    BY <1>2, <1>6
  <2> HIDE DEF m, n
  <2>2. n <= 5
    BY <2>1
  <2>3. QED
    BY <1>6, <2>2 DEF PlanIs, n
<1>8. \A k \in 1 .. Len(kept) : Ops!Source(kept[k].tool) \in Ops!Granted(OpsAsked)
  BY <1>4, <1>5, <1>6
<1>9. QED
  BY <1>3, <1>7, <1>8

-----------------------------------------------------------------------------
(* The nodes of the Ops Graph. *)

\* A record that differs from another only in where it is, its steps and its answer.
OpsCarries(g, result) ==
  /\ DOMAIN g = OpsFields
  /\ g.allowed = result.allowed /\ g.reason = result.reason /\ g.plan = result.plan
  /\ g.outputs = result.outputs /\ g.reads = result.reads /\ g.calls = result.calls
  /\ g.executions = result.executions /\ g.prompts = result.prompts

OthersStay(c) == /\ request' = request
                 /\ \A d \in Clients \ {c} : graph'[d] = graph[d]

OpsLeftWith(c, node, result) ==
  /\ OpsCarries(graph'[c], result) /\ graph'[c].answer = result.answer
  /\ graph'[c].steps = Append(result.steps, node)
  /\ graph'[c].at = Ops!Route(c, node, result.allowed)
  /\ OthersStay(c)

LEMMA OpsLeft ==
  ASSUME NEW c \in Clients, DOMAIN graph = Clients, NEW node, NEW result,
         DOMAIN result = OpsFields, Ops!Leaves(c, node, result)
  PROVE  OpsLeftWith(c, node, result)
<1> DEFINE at == Ops!Route(c, node, result.allowed)
           steps == Append(result.steps, node)
           g == [result EXCEPT !.steps = steps, !.at = at]
<1>1. graph' = [graph EXCEPT ![c] = g] /\ request' = request
  BY DEF Ops!Leaves
<1> HIDE DEF at, steps
<1>2. OpsCarries(g, result) /\ g.answer = result.answer /\ g.steps = steps /\ g.at = at
  BY DEF OpsCarries, OpsFields, Ops!initial_state
<1> HIDE DEF g
<1>3. graph'[c] = g /\ \A d \in Clients \ {c} : graph'[d] = graph[d]
  BY <1>1
<1>4. QED
  BY <1>1, <1>2, <1>3 DEF OpsLeftWith, OthersStay, at, steps

OpsRaisedWith(c, g) ==
  /\ OpsCarries(graph'[c], g)
  /\ \/ graph'[c].at = "raised" /\ graph'[c].steps = g.steps
     \/ /\ graph'[c].at = "failed" /\ graph'[c].answer = "apology"
        /\ graph'[c].steps = Append(g.steps, "runtime_error")
  /\ OthersStay(c)

LEMMA OpsRaised ==
  ASSUME NEW c \in Clients, DOMAIN graph = Clients, NEW g,
         DOMAIN g = OpsFields, Ops!Raises(c, g)
  PROVE  OpsRaisedWith(c, g)
<1> DEFINE steps == Append(g.steps, "runtime_error")
           a == [g EXCEPT !.at = "failed", !.answer = "apology", !.steps = steps]
           b == [g EXCEPT !.at = "raised"]
<1>1. (graph' = [graph EXCEPT ![c] = a] \/ graph' = [graph EXCEPT ![c] = b]) /\ request' = request
  BY DEF Ops!Raises
<1> HIDE DEF steps
<1>2. OpsCarries(a, g) /\ a.steps = steps /\ a.at = "failed" /\ a.answer = "apology"
  BY DEF OpsCarries, OpsFields, Ops!initial_state
<1>3. OpsCarries(b, g) /\ b.steps = g.steps /\ b.at = "raised"
  BY DEF OpsCarries, OpsFields, Ops!initial_state
<1> HIDE DEF a, b
<1>4. (graph'[c] = a \/ graph'[c] = b) /\ \A d \in Clients \ {c} : graph'[d] = graph[d]
  BY <1>1
<1>5. QED
  BY <1>1, <1>2, <1>3, <1>4 DEF OpsRaisedWith, OthersStay, steps

LEMMA StepTaken ==
  ASSUME NEW g, NEW h, g.steps \in Seq(StepNames), NEW node \in StepNames,
         h.steps = Append(g.steps, node)
  PROVE  /\ h.steps \in Seq(StepNames)
         /\ Ops!Planned(h) <=> (Ops!Planned(g) \/ node = "select_workflow")
<1> DEFINE s == g.steps
           t == h.steps
<1>1. s \in Seq(StepNames) /\ t = Append(s, node)
  OBVIOUS
<1>2. Ops!Planned(g) <=> \E i \in DOMAIN s : s[i] = "select_workflow"
  BY DEF Ops!Planned
<1>3. Ops!Planned(h) <=> \E i \in DOMAIN t : t[i] = "select_workflow"
  BY DEF Ops!Planned
<1> HIDE DEF s, t
<1>4. /\ t \in Seq(StepNames) /\ Len(s) \in Nat
      /\ DOMAIN s = 1 .. Len(s) /\ DOMAIN t = 1 .. Len(s) + 1
      /\ \A i \in DOMAIN s : t[i] = s[i]
      /\ t[Len(s) + 1] = node
  BY <1>1
<1>5. (\E i \in DOMAIN t : t[i] = "select_workflow")
        <=> (\E i \in DOMAIN s : s[i] = "select_workflow") \/ node = "select_workflow"
  BY <1>4
<1>6. QED
  BY <1>2, <1>3, <1>4, <1>5 DEF t

\* What stands in for the sources of R: the simulator, for a company database that is down.
OpsStandIns(R) == IF world.company # "answers" /\ "company" \in R THEN {"simulator"} ELSE {}

\* Where a node leads.  Only the execution of a workflow counts, and reads what was granted
\* or stands in for it.
OpsReads(g, h) ==
  /\ h.calls = g.calls + 1
  /\ \E R \in SUBSET Ops!Granted(OpsAsked) :
       \E F \in SUBSET OpsStandIns(R) : h.reads = g.reads \cup R \cup F

OpsEdge(c) ==
  LET g == graph[c]
      h == graph'[c]
  IN \/ /\ h.calls = g.calls /\ h.reads = g.reads
        /\ \/ g.at = "off" /\ h.at = "validate_request"
           \/ g.at = "validate_request" /\ h.at \in {"select_workflow", "deny_request"}
           \/ g.at = "select_workflow" /\ h.at = "authorize_workflow"
           \/ g.at = "authorize_workflow" /\ h.at \in {"call_n8n_workflow", "deny_request"}
           \/ g.at = "call_n8n_workflow" /\ h.at = "apply_kpi_rules"
           \/ g.at = "apply_kpi_rules" /\ h.at = "generate_answer"
           \/ g.at = "generate_answer" /\ h.at \in {"answered", "raised", "failed"}
           \/ g.at = "deny_request" /\ h.at = "denied"
           \/ g.at \notin {"off", "answered", "denied", "failed"} /\ h.at = "closed"
           \/ g.at = h.at
     \/ /\ g.at = "call_n8n_workflow" /\ h.at \in {"call_n8n_workflow", "raised", "failed"}
        /\ OpsReads(g, h)

OpsNodeInv(c) == /\ OpsAt(graph'[c], request'[c])
                 /\ graph[c].at # "off" => request'[c] = request[c]
                 /\ \A d \in Clients \ {c} : graph'[d] = graph[d] /\ request'[d] = request[d]

OpsNodeOf(c) == OpsNodeInv(c) /\ OpsEdge(c)

LEMMA OpsValidated ==
  ASSUME IInv, mode = "ioa_v3_langgraph_n8n", NEW c \in Clients, OpsAt(graph[c], request[c]),
         Ops!ValidateRequest(c)
  PROVE  OpsNodeOf(c)
<1> DEFINE g == graph[c]
           h == graph'[c]
           fits == request[c].size = "fits"
           reason == IF fits THEN "request_validated" ELSE "invalid_request"
           v == [g EXCEPT !.allowed = fits, !.reason = reason]
<1>1. g.at = "validate_request" /\ Ops!Leaves(c, "validate_request", v)
  BY DEF Ops!ValidateRequest, Ops!Enters
<1>2. /\ request[c] = OpsAsked /\ DOMAIN g = OpsFields /\ DOMAIN graph = Clients
      /\ OpsUnread(g) /\ g.plan = <<>> /\ ~Ops!Planned(g) /\ PlanIs(g.plan)
      /\ g.steps \in Seq(StepNames)
  BY <1>1 DEF OpsAt, OpsNode, IInv, Typed
<1>3. fits <=> OpsAsked.size = "fits"
  BY <1>2
<1> HIDE DEF fits
<1>4. /\ DOMAIN v = OpsFields /\ v.allowed = fits /\ v.reason = reason /\ v.plan = g.plan
      /\ v.outputs = g.outputs /\ v.reads = g.reads /\ v.calls = g.calls
      /\ v.executions = g.executions /\ v.steps = g.steps
  BY <1>2 DEF OpsFields, Ops!initial_state
<1> HIDE DEF v
<1>5. OpsLeftWith(c, "validate_request", v)
  BY <1>1, <1>2, <1>4, OpsLeft
<1>6. h.steps \in Seq(StepNames) /\ ~Ops!Planned(h)
  BY <1>2, <1>4, <1>5, StepTaken DEF OpsLeftWith, StepNames, OpsNodes
<1>7. OpsUnread(h) /\ h.plan = <<>> /\ PlanIs(h.plan) /\ h.reason = reason /\ h.allowed = fits
      /\ DOMAIN h = OpsFields
  BY <1>2, <1>4, <1>5 DEF OpsLeftWith, OpsCarries, OpsUnread
<1>8. CASE fits
  <2>1. h.at = "select_workflow"
    BY <1>4, <1>5, <1>8 DEF OpsLeftWith, Ops!Route, Ops!After
  <2>2. OpsNode(h)
    BY <1>3, <1>6, <1>7, <1>8, <2>1 DEF OpsNode
  <2>3. OpsAt(h, request'[c])
    BY <1>2, <1>5, <1>6, <1>7, <1>8, <2>1, <2>2
       DEF OpsAt, OpsNodes, OpsReasons, OpsLeftWith, OthersStay
  <2>4. OpsNodeInv(c)
    BY <1>5, <2>3 DEF OpsNodeInv, OpsLeftWith, OthersStay
  <2>5. OpsEdge(c)
    BY <1>1, <1>2, <1>7, <2>1 DEF OpsEdge, OpsUnread
  <2>6. QED
    BY <2>4, <2>5 DEF OpsNodeOf
<1>9. CASE ~fits
  <2>1. h.at = "deny_request"
    BY <1>4, <1>5, <1>9 DEF OpsLeftWith, Ops!Route, Ops!Conditional
  <2>2. OpsNode(h)
    BY <1>3, <1>6, <1>7, <1>9, <2>1 DEF OpsNode, OpsDenial
  <2>3. OpsAt(h, request'[c])
    BY <1>2, <1>5, <1>6, <1>7, <1>9, <2>1, <2>2
       DEF OpsAt, OpsNodes, OpsReasons, OpsLeftWith, OthersStay
  <2>4. OpsNodeInv(c)
    BY <1>5, <2>3 DEF OpsNodeInv, OpsLeftWith, OthersStay
  <2>5. OpsEdge(c)
    BY <1>1, <1>2, <1>7, <2>1 DEF OpsEdge, OpsUnread
  <2>6. QED
    BY <2>4, <2>5 DEF OpsNodeOf
<1>10. QED
  BY <1>8, <1>9

LEMMA OpsSelected ==
  ASSUME IInv, mode = "ioa_v3_langgraph_n8n", NEW c \in Clients, OpsAt(graph[c], request[c]),
         Ops!SelectWorkflow(c)
  PROVE  OpsNodeOf(c)
<1> DEFINE g == graph[c]
           h == graph'[c]
           v == [g EXCEPT !.plan = FullPlan]
<1>1. g.at = "select_workflow"
  BY DEF Ops!SelectWorkflow, Ops!Enters
<1>2. /\ request[c] = OpsAsked /\ DOMAIN g = OpsFields /\ DOMAIN graph = Clients
      /\ OpsUnread(g) /\ g.allowed /\ OpsAsked.size = "fits"
      /\ g.steps \in Seq(StepNames) /\ g.reason \in OpsReasons
  BY <1>1 DEF OpsAt, OpsNode, IInv, Typed
<1>3. Ops!Leaves(c, "select_workflow", v)
  BY <1>2 DEF Ops!SelectWorkflow, FullPlan
<1>4. /\ DOMAIN v = OpsFields /\ v.allowed = g.allowed /\ v.reason = g.reason /\ v.plan = FullPlan
      /\ v.outputs = g.outputs /\ v.reads = g.reads /\ v.calls = g.calls
      /\ v.executions = g.executions /\ v.steps = g.steps
  BY <1>2 DEF OpsFields, Ops!initial_state
<1> HIDE DEF v
<1>5. OpsLeftWith(c, "select_workflow", v)
  BY <1>2, <1>3, <1>4, OpsLeft
<1>6. h.steps \in Seq(StepNames)
  BY <1>2, <1>4, <1>5, StepTaken DEF OpsLeftWith, StepNames, OpsNodes
<1>7. OpsUnread(h) /\ h.plan = FullPlan /\ h.reason \in OpsReasons /\ h.allowed
      /\ DOMAIN h = OpsFields
  BY <1>2, <1>4, <1>5 DEF OpsLeftWith, OpsCarries, OpsUnread
<1>8. PlanIs(FullPlan) /\ FullPlan # <<>>
  <2>1. PlanIs(FullPlan) /\ Len(FullPlan) > 0
    BY FullPlanIs DEF Planning
  <2>2. QED
    BY <2>1
<1>9. h.at = "authorize_workflow"
  BY <1>2, <1>4, <1>5 DEF OpsLeftWith, Ops!Route, Ops!After
<1>10. OpsNode(h)
  BY <1>2, <1>7, <1>9 DEF OpsNode
<1>11. OpsAt(h, request'[c])
  BY <1>2, <1>5, <1>6, <1>7, <1>8, <1>9, <1>10 DEF OpsAt, OpsNodes, OpsLeftWith, OthersStay
<1>12. OpsNodeInv(c)
  BY <1>5, <1>11 DEF OpsNodeInv, OpsLeftWith, OthersStay
<1>13. OpsEdge(c)
  BY <1>1, <1>2, <1>7, <1>9 DEF OpsEdge, OpsUnread
<1>14. QED
  BY <1>12, <1>13 DEF OpsNodeOf

LEMMA OpsAuthorized ==
  ASSUME IInv, mode = "ioa_v3_langgraph_n8n", NEW c \in Clients, OpsAt(graph[c], request[c]),
         Ops!AuthorizeWorkflow(c)
  PROVE  OpsNodeOf(c)
<1> DEFINE g == graph[c]
           h == graph'[c]
           in_budget == g.plan # <<>> /\ g.executions < Ops!max_tool_executions
           over == Len(g.plan) > Ops!max_tool_executions
           allowed == in_budget /\ Approved # <<>>
           reason == IF Approved = <<>> THEN "no_authorized_workflows"
                     ELSE IF over THEN "workflow_authorized_with_budget_truncation"
                     ELSE IF in_budget THEN "workflow_authorized" ELSE "workflow_denied"
           v == [g EXCEPT !.plan = Approved, !.allowed = allowed, !.reason = reason]
<1>1. g.at = "authorize_workflow"
  BY DEF Ops!AuthorizeWorkflow, Ops!Enters
<1>2. /\ request[c] = OpsAsked /\ DOMAIN g = OpsFields /\ DOMAIN graph = Clients
      /\ OpsUnread(g) /\ g.plan = FullPlan /\ OpsAsked.size = "fits"
      /\ g.steps \in Seq(StepNames)
  BY <1>1 DEF OpsAt, OpsNode, IInv, Typed
<1>3. Ops!Leaves(c, "authorize_workflow", v)
  BY <1>2 DEF Ops!AuthorizeWorkflow, Approved
<1>4. PlanIs(g.plan) /\ Len(g.plan) > 0
  BY <1>2, FullPlanIs DEF Planning
<1>5. in_budget /\ ~over
  BY <1>2, <1>4 DEF OpsUnread, Ops!max_tool_executions, Ops!MAX_WORKFLOW_EXECUTIONS, PlanIs
<1> HIDE DEF in_budget, over
<1>6. PlanIs(Approved) /\ (Approved = <<>> <=> Len(Approved) = 0) /\ Len(Approved) \in Nat
  <2>1. PlanIs(Approved)
    BY ApprovedIs
  <2>2. QED
    BY <2>1, EmptySeq DEF PlanIs
<1>7. /\ allowed <=> Len(Approved) # 0
      /\ reason = IF Len(Approved) = 0 THEN "no_authorized_workflows" ELSE "workflow_authorized"
  BY <1>5, <1>6
<1> HIDE DEF allowed, reason
<1>8. /\ DOMAIN v = OpsFields /\ v.allowed = allowed /\ v.reason = reason /\ v.plan = Approved
      /\ v.outputs = g.outputs /\ v.reads = g.reads /\ v.calls = g.calls
      /\ v.executions = g.executions /\ v.steps = g.steps
  BY <1>2 DEF OpsFields, Ops!initial_state
<1> HIDE DEF v
<1>9. OpsLeftWith(c, "authorize_workflow", v)
  BY <1>2, <1>3, <1>8, OpsLeft
<1>10. h.steps \in Seq(StepNames)
  BY <1>2, <1>8, <1>9, StepTaken DEF OpsLeftWith, StepNames, OpsNodes
<1>11. OpsUnread(h) /\ h.plan = Approved /\ h.reason = reason /\ h.allowed = allowed
       /\ DOMAIN h = OpsFields /\ h.reads = g.reads /\ h.calls = g.calls
  BY <1>2, <1>8, <1>9 DEF OpsLeftWith, OpsCarries, OpsUnread
<1>12. ASSUME OpsNode(h), h.at \in {"call_n8n_workflow", "deny_request"}
       PROVE  OpsNodeOf(c)
  <2>1. OpsAt(h, request'[c])
    BY <1>2, <1>6, <1>7, <1>9, <1>10, <1>11, <1>12
       DEF OpsAt, OpsNodes, OpsReasons, OpsLeftWith, OthersStay
  <2>2. OpsNodeInv(c)
    BY <1>9, <2>1 DEF OpsNodeInv, OpsLeftWith, OthersStay
  <2>3. OpsEdge(c)
    BY <1>1, <1>11, <1>12 DEF OpsEdge
  <2>4. QED
    BY <2>2, <2>3 DEF OpsNodeOf
<1>13. CASE allowed
  <2>1. h.at = "call_n8n_workflow"
    BY <1>8, <1>9, <1>13 DEF OpsLeftWith, Ops!Route, Ops!After
  <2>2. OutputsUpto(0) = <<>> /\ ReadsUpto(0) = {}
    BY DEF OutputsUpto, ReadsUpto
  <2>3. Executed(h, 0)
    BY <1>6, <1>11, <2>2 DEF Executed, OpsUnread
  <2>4. OpsNode(h)
    BY <1>2, <1>6, <1>7, <1>11, <1>13, <2>1, <2>3 DEF OpsNode, OpsUnread
  <2>5. QED
    BY <1>12, <2>1, <2>4
<1>14. CASE ~allowed
  <2>1. h.at = "deny_request"
    BY <1>8, <1>9, <1>14 DEF OpsLeftWith, Ops!Route, Ops!Conditional
  <2>2. OpsNode(h)
    BY <1>2, <1>7, <1>11, <1>14, <2>1 DEF OpsNode, OpsDenial
  <2>3. QED
    BY <1>12, <2>1, <2>2
<1>15. QED
  BY <1>13, <1>14

\* One more workflow: what it adds to the outputs and to what was read.
LEMMA OneMore ==
  ASSUME NEW k \in Nat
  PROVE  /\ Len(OutputsUpto(k)) = k
         /\ Append(OutputsUpto(k), <<Approved[k + 1].tool, Ops!Evidence(Approved[k + 1])>>)
              = OutputsUpto(k + 1)
         /\ ReadsUpto(k + 1) = ReadsUpto(k) \cup Ops!ReadBy(Approved[k + 1])
<1> DEFINE at(i) == <<Approved[i].tool, Ops!Evidence(Approved[i])>>
           last == at(k + 1)
           S == {at(i) : i \in 1 .. k + 1}
           s == OutputsUpto(k)
           t == OutputsUpto(k + 1)
           a == Append(s, last)
<1>1. s = [i \in 1 .. k |-> at(i)] /\ t = [i \in 1 .. k + 1 |-> at(i)]
  BY DEF OutputsUpto
<1> HIDE DEF at, s, t
<1>2. \A i \in 1 .. k + 1 : at(i) \in S
  OBVIOUS
<1> HIDE DEF S
<1>3. s \in Seq(S) /\ Len(s) = k /\ \A i \in 1 .. k : s[i] = at(i)
  BY <1>1, <1>2
<1>4. t \in Seq(S) /\ Len(t) = k + 1 /\ \A i \in 1 .. k + 1 : t[i] = at(i)
  BY <1>1, <1>2
<1>5. last \in S
  BY <1>2
<1> HIDE DEF last
<1>6. a \in Seq(S) /\ Len(a) = k + 1 /\ a[k + 1] = last /\ \A i \in 1 .. k : a[i] = at(i)
  BY <1>3, <1>5
<1>7. \A i \in 1 .. k + 1 : a[i] = t[i]
  BY <1>4, <1>6 DEF last
<1> HIDE DEF a
<1>8. a = t
  BY <1>4, <1>6, <1>7
<1>9. ReadsUpto(k + 1) = ReadsUpto(k) \cup Ops!ReadBy(Approved[k + 1])
  <2>1. \A j : j \in 1 .. k + 1 <=> (j \in 1 .. k \/ j = k + 1)
    OBVIOUS
  <2>2. QED
    BY <2>1 DEF ReadsUpto
<1>10. Append(s, at(k + 1)) = t
  BY <1>8 DEF a, last
<1>11. QED
  BY <1>3, <1>9, <1>10 DEF s, t, at

LEMMA OpsExecuted ==
  ASSUME IInv, mode = "ioa_v3_langgraph_n8n", NEW c \in Clients, OpsAt(graph[c], request[c]),
         Ops!ExecuteWorkflow(c)
  PROVE  OpsNodeOf(c)
<1> DEFINE g == graph[c]
           h == graph'[c]
           k == g.calls
           n == Len(g.outputs) + 1
           flow == g.plan[n]
           count == g.calls + 1
           reads == g.reads \cup Ops!ReadBy(flow)
           outputs == Append(g.outputs, <<flow.tool, Ops!Evidence(flow)>>)
           read == [g EXCEPT !.calls = count, !.reads = reads]
           lost == [read EXCEPT !.outputs = <<>>]
           seen == [read EXCEPT !.outputs = outputs]
<1>1. g.at = "call_n8n_workflow" /\ Len(g.outputs) < Len(g.plan)
  BY DEF Ops!ExecuteWorkflow, Ops!Enters
<1>2. /\ request[c] = OpsAsked /\ DOMAIN g = OpsFields /\ DOMAIN graph = Clients
      /\ g.allowed /\ g.plan = Approved /\ Len(Approved) > 0 /\ OpsAsked.size = "fits"
      /\ Executed(g, k) /\ g.steps \in Seq(StepNames) /\ g.reason \in OpsReasons
  BY <1>1 DEF OpsAt, OpsNode, IInv, Typed
<1>3. read.outputs = g.outputs
  BY <1>2 DEF OpsFields, Ops!initial_state
<1>4. \/ Fatal(flow) /\ Ops!Raises(c, lost)
      \/ ~Fatal(flow) /\ graph' = [graph EXCEPT ![c] = seen] /\ request' = request
  <2> HIDE DEF n
  <2>1. /\ n = Len(g.outputs) + 1
        /\ reads = g.reads \cup Ops!ReadBy(flow) /\ outputs = Append(g.outputs, <<flow.tool, Ops!Evidence(flow)>>)
    BY DEF n
  <2>2. QED
    BY <1>3 DEF Ops!ExecuteWorkflow, Fatal, n
<1>5. PlanIs(Approved) /\ Len(Approved) \in Nat
  BY ApprovedIs DEF PlanIs
<1>6. k \in 0 .. Len(Approved) - 1 /\ n = k + 1 /\ g.outputs = OutputsUpto(k)
      /\ g.reads = ReadsUpto(k) /\ flow = Approved[k + 1]
  <2>1. k \in Nat /\ k <= Len(Approved) /\ g.outputs = OutputsUpto(k) /\ g.reads = ReadsUpto(k)
    BY <1>2, <1>5 DEF Executed
  <2>2. Len(g.outputs) = k
    BY <2>1, OneMore
  <2>3. QED
    BY <1>1, <1>2, <1>5, <2>1, <2>2
<1>7. count = k + 1 /\ reads = ReadsUpto(k + 1) /\ outputs = OutputsUpto(k + 1)
  <2> HIDE DEF flow
  <2> DEFINE one == <<flow.tool, Ops!Evidence(flow)>>
             other == <<Approved[k + 1].tool, Ops!Evidence(Approved[k + 1])>>
  <2>1. k \in Nat /\ count = k + 1
    BY <1>6
  <2>2. /\ Append(OutputsUpto(k), other) = OutputsUpto(k + 1)
        /\ ReadsUpto(k + 1) = ReadsUpto(k) \cup Ops!ReadBy(Approved[k + 1])
    BY <2>1, OneMore
  <2>3. one = other
    BY <1>6
  <2>4. reads = ReadsUpto(k + 1)
    BY <1>6, <2>2
  <2>5. outputs = Append(g.outputs, one)
    OBVIOUS
  <2> HIDE DEF one, other, outputs, reads, count
  <2>6. outputs = OutputsUpto(k + 1)
    BY <1>6, <2>2, <2>3, <2>5, Zenon
  <2>7. QED
    BY <2>1, <2>4, <2>6
<1>8. \E R \in SUBSET Ops!Granted(OpsAsked) :
        \E F \in SUBSET OpsStandIns(R) : reads = g.reads \cup R \cup F
  <2> DEFINE from == Ops!Source(flow.tool)
             R == IF Ops!Queries(flow) THEN {from} ELSE {}
             F == IF Ops!Queries(flow) /\ Ops!Snapshot(flow) THEN {"simulator"} ELSE {}
  <2>1. from \in Ops!Granted(OpsAsked)
    BY <1>5, <1>6, ApprovedIs
  <2>2. Ops!Snapshot(flow) => world.company # "answers" /\ from = "company"
    BY DEF Ops!Snapshot, Ops!FallsBack, Ops!Source
  <2>3. Ops!ReadBy(flow) = R \cup F
    BY DEF Ops!ReadBy, Ops!If
  <2> HIDE DEF from, flow
  <2>4. R \in SUBSET Ops!Granted(OpsAsked) /\ F \in SUBSET OpsStandIns(R)
    BY <2>1, <2>2 DEF OpsStandIns
  <2>5. reads = g.reads \cup R \cup F
    BY <2>3
  <2> HIDE DEF R, F, reads
  <2>6. QED
    BY <2>4, <2>5
<1> HIDE DEF count, reads, outputs
<1>9. /\ DOMAIN read = OpsFields /\ read.reads = reads /\ read.calls = count
      /\ read.plan = g.plan /\ read.reason = g.reason /\ read.steps = g.steps
      /\ read.allowed = g.allowed /\ read.at = g.at
  BY <1>2 DEF OpsFields, Ops!initial_state
<1> HIDE DEF read
<1>10. /\ DOMAIN lost = OpsFields /\ lost.reads = reads /\ lost.calls = count
       /\ lost.plan = g.plan /\ lost.reason = g.reason /\ lost.steps = g.steps
       /\ lost.outputs = <<>>
  BY <1>9 DEF OpsFields, Ops!initial_state
<1>11. /\ DOMAIN seen = OpsFields /\ seen.reads = reads /\ seen.calls = count
       /\ seen.plan = g.plan /\ seen.reason = g.reason /\ seen.steps = g.steps
       /\ seen.outputs = outputs /\ seen.allowed = g.allowed /\ seen.at = g.at
  BY <1>9 DEF OpsFields, Ops!initial_state
<1> HIDE DEF lost, seen, flow
<1>12. Approved # <<>>
  BY <1>2
<1>13. \A i \in 1 .. k : ~Fatal(Approved[i])
  BY <1>2 DEF Executed
<1>14. CASE Fatal(flow) /\ Ops!Raises(c, lost)
  <2>1. OpsRaisedWith(c, lost)
    BY <1>2, <1>10, <1>14, OpsRaised
  <2>2. /\ h.steps \in Seq(StepNames) /\ h.at \in {"raised", "failed"} /\ h.plan = Approved
        /\ h.at = "failed" => h.answer = "apology"
    BY <1>2, <1>10, <2>1, StepTaken DEF OpsRaisedWith, OpsCarries, StepNames
  <2>3. h.calls = k + 1 /\ h.outputs = <<>> /\ h.reads = ReadsUpto(k + 1) /\ h.reason \in OpsReasons
        /\ DOMAIN h = OpsFields
    BY <1>2, <1>7, <1>10, <2>1 DEF OpsRaisedWith, OpsCarries
  <2>4. OpsFailure(h)
    <3>1. k + 1 \in 1 .. Len(Approved) /\ (k + 1) - 1 = k
      BY <1>5, <1>6
    <3>2. Fatal(Approved[k + 1]) /\ \A i \in 1 .. (k + 1) - 1 : ~Fatal(Approved[i])
      BY <1>6, <1>13, <1>14, <3>1
    <3>3. QED
      BY <1>2, <2>2, <2>3, <3>1, <3>2 DEF OpsFailure
  <2>5. OpsNode(h)
    BY <2>2, <2>4 DEF OpsNode
  <2>6. OpsAt(h, request'[c])
    BY <1>2, <1>5, <1>12, <2>1, <2>2, <2>3, <2>5 DEF OpsAt, OpsNodes, OpsRaisedWith, OthersStay
  <2>7. OpsNodeInv(c)
    BY <2>1, <2>6 DEF OpsNodeInv, OpsRaisedWith, OthersStay
  <2>8. OpsReads(g, h)
    BY <1>6, <1>7, <1>8, <2>3 DEF OpsReads
  <2>9. OpsEdge(c)
    BY <1>1, <2>2, <2>8 DEF OpsEdge
  <2>10. QED
    BY <2>7, <2>9 DEF OpsNodeOf
<1>15. CASE ~Fatal(flow) /\ graph' = [graph EXCEPT ![c] = seen] /\ request' = request
  <2>1. h = seen /\ \A d \in Clients \ {c} : graph'[d] = graph[d]
    BY <1>2, <1>15
  <2>2. \A i \in 1 .. k + 1 : ~Fatal(Approved[i])
    BY <1>6, <1>13, <1>15
  <2>3. Executed(h, k + 1)
    BY <1>5, <1>6, <1>7, <1>11, <2>1, <2>2 DEF Executed
  <2>4. h.calls = k + 1 /\ h.at = "call_n8n_workflow" /\ h.plan = Approved
    BY <1>1, <1>2, <1>7, <1>11, <2>1
  <2>5. OpsNode(h)
    BY <1>2, <1>11, <2>1, <2>3, <2>4 DEF OpsNode
  <2>6. OpsAt(h, request'[c])
    BY <1>2, <1>5, <1>11, <1>12, <1>15, <2>1, <2>4, <2>5 DEF OpsAt, OpsNodes
  <2>7. OpsNodeInv(c)
    BY <1>15, <2>1, <2>6 DEF OpsNodeInv
  <2>8. OpsReads(g, h)
    BY <1>7, <1>8, <1>11, <2>1 DEF OpsReads
  <2>9. OpsEdge(c)
    BY <1>1, <2>4, <2>8 DEF OpsEdge
  <2>10. QED
    BY <2>7, <2>9 DEF OpsNodeOf
<1>16. QED
  BY <1>4, <1>14, <1>15

LEMMA OpsFinished ==
  ASSUME IInv, mode = "ioa_v3_langgraph_n8n", NEW c \in Clients, OpsAt(graph[c], request[c]),
         Ops!FinishWorkflows(c) \/ Ops!ApplyKpiRules(c)
  PROVE  OpsNodeOf(c)
<1> DEFINE g == graph[c]
           h == graph'[c]
           count == g.executions + Len(g.outputs)
           finished == [g EXCEPT !.executions = count]
<1>1. /\ DOMAIN g = OpsFields /\ DOMAIN graph = Clients /\ g.steps \in Seq(StepNames)
      /\ g.reason \in OpsReasons /\ g.at \in {"call_n8n_workflow", "apply_kpi_rules"}
      /\ request[c] = OpsAsked
  BY DEF OpsAt, IInv, Typed, Ops!FinishWorkflows, Ops!ApplyKpiRules, Ops!Enters
<1>2. PlanIs(Approved) /\ Len(Approved) \in Nat
  BY ApprovedIs DEF PlanIs
<1>3. Completed(g) /\ g.allowed /\ OpsAsked.size = "fits"
  <2>1. CASE Ops!FinishWorkflows(c)
    <3>1. g.at = "call_n8n_workflow" /\ Len(g.outputs) = Len(g.plan)
      BY <2>1 DEF Ops!FinishWorkflows, Ops!Enters
    <3>2. /\ g.allowed /\ g.plan = Approved /\ Len(Approved) > 0 /\ OpsAsked.size = "fits"
          /\ Executed(g, g.calls)
      BY <3>1 DEF OpsAt, OpsNode
    <3>3. g.calls \in Nat /\ g.outputs = OutputsUpto(g.calls)
      BY <1>2, <3>2 DEF Executed
    <3>4. g.calls = Len(Approved)
      BY <3>1, <3>2, <3>3, OneMore
    <3>5. QED
      BY <3>2, <3>4 DEF Completed
  <2>2. CASE Ops!ApplyKpiRules(c)
    BY <2>2 DEF Ops!ApplyKpiRules, Ops!Enters, OpsAt, OpsNode
  <2>3. QED
    BY <2>1, <2>2
<1> HIDE DEF count
<1>4. /\ DOMAIN finished = OpsFields /\ finished.allowed = g.allowed /\ finished.reason = g.reason
      /\ finished.plan = g.plan /\ finished.outputs = g.outputs /\ finished.reads = g.reads
      /\ finished.calls = g.calls /\ finished.steps = g.steps
  BY <1>1 DEF OpsFields, Ops!initial_state
<1>5. \/ g.at = "call_n8n_workflow" /\ Ops!Leaves(c, "call_n8n_workflow", finished)
      \/ g.at = "apply_kpi_rules" /\ Ops!Leaves(c, "apply_kpi_rules", g)
  BY DEF Ops!FinishWorkflows, Ops!ApplyKpiRules, Ops!Enters, count
<1> HIDE DEF finished
<1>6. ASSUME NEW v, NEW node \in {"call_n8n_workflow", "apply_kpi_rules"},
             g.at = node, Ops!Leaves(c, node, v), DOMAIN v = OpsFields, v.allowed = g.allowed,
             v.reason = g.reason, v.plan = g.plan, v.outputs = g.outputs, v.reads = g.reads,
             v.calls = g.calls, v.steps = g.steps
      PROVE  OpsNodeOf(c)
  <2>1. OpsLeftWith(c, node, v)
    BY <1>1, <1>6, OpsLeft
  <2>2. h.steps \in Seq(StepNames)
    BY <1>1, <1>6, <2>1, StepTaken DEF OpsLeftWith, StepNames, OpsNodes
  <2>3. Completed(h) /\ h.allowed /\ DOMAIN h = OpsFields /\ h.reason = g.reason
        /\ h.calls = g.calls /\ h.reads = g.reads /\ h.plan = Approved
    BY <1>3, <1>6, <2>1 DEF OpsLeftWith, OpsCarries, Completed, Executed
  <2>4. h.at = IF node = "call_n8n_workflow" THEN "apply_kpi_rules" ELSE "generate_answer"
    BY <1>3, <1>6, <2>1 DEF OpsLeftWith, Ops!Route, Ops!After
  <2>5. OpsNode(h)
    BY <1>3, <2>3, <2>4 DEF OpsNode
  <2>6. Approved # <<>>
    BY <1>3 DEF Completed
  <2>7. OpsAt(h, request'[c])
    BY <1>1, <1>2, <2>1, <2>2, <2>3, <2>4, <2>5, <2>6 DEF OpsAt, OpsNodes, OpsLeftWith, OthersStay
  <2>8. OpsNodeInv(c)
    BY <2>1, <2>7 DEF OpsNodeInv, OpsLeftWith, OthersStay
  <2>9. OpsEdge(c)
    BY <1>6, <2>3, <2>4 DEF OpsEdge
  <2>10. QED
    BY <2>8, <2>9 DEF OpsNodeOf
<1> HIDE DEF g
<1>7. QED
  BY <1>1, <1>4, <1>5, <1>6

LEMMA OpsGenerated ==
  ASSUME IInv, mode = "ioa_v3_langgraph_n8n", NEW c \in Clients, OpsAt(graph[c], request[c]),
         Ops!GenerateAnswer(c)
  PROVE  OpsNodeOf(c)
<1> DEFINE g == graph[c]
           h == graph'[c]
           count == g.prompts + 1
           steps == Append(g.steps, "generate_answer")
           asked == [g EXCEPT !.prompts = count]
           built == [g EXCEPT !.at = "answered", !.answer = "deterministic", !.steps = steps]
           told == [asked EXCEPT !.at = "answered", !.answer = "model", !.steps = steps]
<1>1. g.at = "generate_answer"
  BY DEF Ops!GenerateAnswer, Ops!Enters
<1>2. /\ request[c] = OpsAsked /\ DOMAIN g = OpsFields /\ DOMAIN graph = Clients
      /\ Completed(g) /\ g.allowed /\ OpsAsked.size = "fits"
      /\ g.steps \in Seq(StepNames) /\ g.reason \in OpsReasons
  BY <1>1 DEF OpsAt, OpsNode, IInv, Typed
<1>3. PlanIs(Approved) /\ Approved # <<>> /\ g.plan = Approved /\ Len(Approved) > 0
  BY <1>2, ApprovedIs DEF Completed
<1>4. Ops!HasBuilder(g) <=> Builds
  <2>1. g.outputs = OutputsUpto(Len(Approved)) /\ Len(Approved) \in Nat
    BY <1>2, <1>3 DEF Completed, Executed, PlanIs
  <2>2. 1 \in 1 .. Len(Approved)
    BY <1>3, <2>1
  <2>3. g.outputs[1] = <<Approved[1].tool, Ops!Evidence(Approved[1])>>
    BY <2>1, <2>2 DEF OutputsUpto
  <2>4. g.outputs[1][2] = Ops!Evidence(Approved[1])
    BY <2>3
  <2>5. QED
    BY <1>3, <2>4 DEF Ops!HasBuilder, Builds
<1>5. asked.steps = g.steps
  BY <1>2 DEF OpsFields, Ops!initial_state
<1>6. \/ Builds /\ graph' = [graph EXCEPT ![c] = built] /\ request' = request
      \/ ~Builds /\ world.model = "raises" /\ Ops!Raises(c, asked)
      \/ ~Builds /\ world.model # "raises" /\ graph' = [graph EXCEPT ![c] = told] /\ request' = request
  BY <1>4, <1>5 DEF Ops!GenerateAnswer
<1>7. steps \in Seq(StepNames)
  <2>1. "generate_answer" \in StepNames
    BY DEF StepNames, OpsNodes
  <2>2. QED
    BY <1>2, <2>1
<1> HIDE DEF count, steps
<1>8. OpsCarries(built, g) /\ built.at = "answered" /\ built.answer = "deterministic"
      /\ built.steps = steps
  BY <1>2 DEF OpsCarries, OpsFields, Ops!initial_state
<1>9. /\ DOMAIN asked = OpsFields /\ asked.allowed = g.allowed /\ asked.reason = g.reason
      /\ asked.plan = g.plan /\ asked.outputs = g.outputs /\ asked.reads = g.reads
      /\ asked.calls = g.calls /\ asked.steps = g.steps
  BY <1>2 DEF OpsFields, Ops!initial_state
<1> HIDE DEF asked, built
<1>10. OpsCarries(told, asked) /\ told.at = "answered" /\ told.answer = "model"
       /\ told.steps = steps
  BY <1>9 DEF OpsCarries, OpsFields, Ops!initial_state
<1> HIDE DEF told
<1>11. ASSUME NEW v, graph' = [graph EXCEPT ![c] = v], request' = request,
              DOMAIN v = OpsFields, v.at = "answered", v.steps = steps,
              v.reason = g.reason, v.plan = g.plan, v.outputs = g.outputs, v.reads = g.reads,
              v.calls = g.calls, v.answer = IF Builds THEN "deterministic" ELSE "model",
              ~Builds => world.model # "raises"
       PROVE  OpsNodeOf(c)
  <2>1. h = v /\ \A d \in Clients \ {c} : graph'[d] = graph[d]
    BY <1>2, <1>11
  <2>2. Completed(h)
    BY <1>2, <1>11, <2>1 DEF Completed, Executed
  <2>3. OpsNode(h)
    BY <1>2, <1>11, <2>1, <2>2 DEF OpsNode
  <2>4. OpsAt(h, request'[c])
    BY <1>2, <1>3, <1>7, <1>11, <2>1, <2>3 DEF OpsAt, OpsNodes
  <2>5. OpsNodeInv(c)
    BY <1>11, <2>1, <2>4 DEF OpsNodeInv
  <2>6. OpsEdge(c)
    BY <1>1, <1>11, <2>1 DEF OpsEdge
  <2>7. QED
    BY <2>5, <2>6 DEF OpsNodeOf
<1>12. CASE Builds /\ graph' = [graph EXCEPT ![c] = built] /\ request' = request
  BY <1>8, <1>11, <1>12 DEF OpsCarries
<1>13. CASE ~Builds /\ world.model # "raises" /\ graph' = [graph EXCEPT ![c] = told]
            /\ request' = request
  BY <1>9, <1>10, <1>11, <1>13 DEF OpsCarries
<1>14. CASE ~Builds /\ world.model = "raises" /\ Ops!Raises(c, asked)
  <2>1. OpsRaisedWith(c, asked)
    BY <1>2, <1>9, <1>14, OpsRaised
  <2>2. /\ h.steps \in Seq(StepNames) /\ h.at \in {"raised", "failed"} /\ h.plan = Approved
        /\ h.at = "failed" => h.answer = "apology"
    BY <1>2, <1>3, <1>9, <2>1, StepTaken DEF OpsRaisedWith, OpsCarries, StepNames
  <2>3. Completed(h) /\ h.calls = g.calls /\ h.reads = g.reads /\ h.reason \in OpsReasons
        /\ DOMAIN h = OpsFields
    BY <1>2, <1>9, <2>1 DEF OpsRaisedWith, OpsCarries, Completed, Executed
  <2>4. OpsFailure(h)
    BY <1>2, <1>3, <1>14, <2>2, <2>3 DEF OpsFailure
  <2>5. OpsNode(h)
    BY <2>2, <2>4 DEF OpsNode
  <2>6. OpsAt(h, request'[c])
    BY <1>2, <1>3, <2>1, <2>2, <2>3, <2>5 DEF OpsAt, OpsNodes, OpsRaisedWith, OthersStay
  <2>7. OpsNodeInv(c)
    BY <2>1, <2>6 DEF OpsNodeInv, OpsRaisedWith, OthersStay
  <2>8. OpsEdge(c)
    BY <1>1, <2>2, <2>3 DEF OpsEdge
  <2>9. QED
    BY <2>7, <2>8 DEF OpsNodeOf
<1>15. QED
  BY <1>6, <1>12, <1>13, <1>14

LEMMA OpsDenied ==
  ASSUME IInv, mode = "ioa_v3_langgraph_n8n", NEW c \in Clients, OpsAt(graph[c], request[c]),
         Ops!DenyRequest(c)
  PROVE  OpsNodeOf(c)
<1> DEFINE g == graph[c]
           h == graph'[c]
           v == [g EXCEPT !.at = "denied", !.answer = g.reason,
                          !.steps = Append(@, "deny_request")]
<1>1. g.at = "deny_request" /\ DOMAIN graph = Clients /\ DOMAIN g = OpsFields
  BY DEF Ops!DenyRequest, Ops!Enters, IInv, Typed, OpsAt
<1>2. /\ request[c] = OpsAsked /\ OpsDenial(g) /\ g.steps \in Seq(StepNames)
      /\ g.reason \in OpsReasons /\ PlanIs(g.plan)
      /\ Ops!Planned(g) => g.plan # <<>> \/ g.reason = "no_authorized_workflows"
  BY <1>1 DEF OpsAt, OpsNode
<1>3. graph' = [graph EXCEPT ![c] = v] /\ request' = request
  BY <1>1 DEF Ops!DenyRequest
<1>4. OpsCarries(v, g) /\ v.at = "denied" /\ v.answer = g.reason
      /\ v.steps = Append(g.steps, "deny_request")
  BY <1>1 DEF OpsCarries, OpsFields, Ops!initial_state
<1> HIDE DEF v
<1>5. h = v /\ \A d \in Clients \ {c} : graph'[d] = graph[d]
  BY <1>1, <1>3
<1>6. h.steps \in Seq(StepNames) /\ (Ops!Planned(h) <=> Ops!Planned(g))
  <2>1. h.steps = Append(g.steps, "deny_request") /\ g.steps \in Seq(StepNames)
    BY <1>2, <1>4, <1>5
  <2>2. "deny_request" \in StepNames
    BY DEF StepNames, OpsNodes
  <2> HIDE DEF g, h
  <2>3. QED
    BY <2>1, <2>2, StepTaken
<1>7. OpsDenial(h)
  BY <1>2, <1>4, <1>5, <1>6 DEF OpsDenial, OpsCarries, OpsUnread
<1>8. OpsNode(h)
  BY <1>4, <1>5, <1>7 DEF OpsNode, OpsCarries
<1>9. OpsAt(h, request'[c])
  BY <1>2, <1>3, <1>4, <1>5, <1>6, <1>8 DEF OpsAt, OpsNodes, OpsCarries
<1>10. OpsNodeInv(c)
  BY <1>3, <1>5, <1>9 DEF OpsNodeInv
<1>11. OpsEdge(c)
  BY <1>1, <1>4, <1>5 DEF OpsEdge, OpsCarries
<1>12. QED
  BY <1>10, <1>11 DEF OpsNodeOf

LEMMA OpsMoves ==
  ASSUME IInv, mode = "ioa_v3_langgraph_n8n", NEW c \in Clients, OpsAt(graph[c], request[c]),
         Ops!Step(c)
  PROVE  OpsNodeOf(c)
BY OpsValidated, OpsSelected, OpsAuthorized, OpsExecuted, OpsFinished, OpsGenerated, OpsDenied
   DEF Ops!Step

LEMMA SameOps ==
  ASSUME scenario' = scenario, world' = world, NEW c
  PROVE  OpsAt(graph[c], request[c])' <=> OpsAt(graph'[c], request'[c])
<1>1. OpsAsked' = OpsAsked
  BY DEF OpsAsked, active_source, mode
<1>2. FullPlan' = FullPlan
  BY <1>1 DEF FullPlan
<1>3. Approved' = Approved
  BY <1>1, <1>2 DEF Approved
<1>4. (Builds' <=> Builds) /\ \A i : Fatal(Approved[i])' <=> Fatal(Approved[i])
  BY <1>3 DEF Builds, Fatal, Ops!Escapes, Ops!Evidence, Ops!Snapshot
<1>5. \A k : OutputsUpto(k)' = OutputsUpto(k) /\ ReadsUpto(k)' = ReadsUpto(k)
  BY <1>3 DEF OutputsUpto, ReadsUpto, Ops!Evidence, Ops!ReadBy, Ops!Snapshot
<1>6. (\A k : Executed(graph[c], k)' <=> Executed(graph'[c], k))
      /\ (Executed(graph[c], graph[c].calls)' <=> Executed(graph'[c], graph'[c].calls))
  BY <1>3, <1>4, <1>5 DEF Executed
<1>7. Completed(graph[c])' <=> Completed(graph'[c])
  BY <1>3, <1>4, <1>5 DEF Completed, Executed
<1>8. /\ OpsUnread(graph[c])' <=> OpsUnread(graph'[c])
      /\ Ops!Planned(graph[c])' <=> Ops!Planned(graph'[c])
      /\ OpsDenial(graph[c])' <=> OpsDenial(graph'[c])
  BY <1>1, <1>3 DEF OpsUnread, Ops!Planned, OpsDenial
<1>9. OpsFailure(graph[c])' <=> OpsFailure(graph'[c])
  BY <1>1, <1>3, <1>4, <1>5, <1>7 DEF OpsFailure
<1>10. OpsNode(graph[c])' <=> OpsNode(graph'[c])
  BY <1>1, <1>2, <1>3, <1>4, <1>6, <1>7, <1>8, <1>9 DEF OpsNode
<1>11. QED
  BY <1>1, <1>8, <1>10 DEF OpsAt, PlanIs

\* A request that is let in, and one whose stream is closed.
LEMMA OpsStarts ==
  ASSUME NEW c \in Clients, DOMAIN graph = Clients, OpsAt(graph[c], request[c]),
         DOMAIN request = Clients, Ops!Start(c, OpsAsked)
  PROVE  OpsNodeOf(c)
<1> DEFINE g == graph[c]
           h == graph'[c]
           v == [g EXCEPT !.at = "validate_request"]
<1>1. graph' = [graph EXCEPT ![c] = v] /\ request' = [request EXCEPT ![c] = OpsAsked] /\ g.at = "off"
  BY DEF Ops!Start
<1>2. OpsCarries(v, g) /\ v.at = "validate_request" /\ v.steps = g.steps
  BY DEF OpsAt, OpsCarries, OpsFields, Ops!initial_state
<1>3. /\ OpsUnread(g) /\ g.allowed /\ g.plan = <<>> /\ ~Ops!Planned(g)
      /\ g.reason \in OpsReasons /\ g.steps \in Seq(StepNames) /\ PlanIs(g.plan)
  BY <1>1 DEF OpsAt, OpsNode
<1> HIDE DEF v
<1>4. h = v /\ request'[c] = OpsAsked
      /\ \A d \in Clients \ {c} : graph'[d] = graph[d] /\ request'[d] = request[d]
  BY <1>1
<1>5. Ops!Planned(h) <=> Ops!Planned(g)
  BY <1>2, <1>4 DEF Ops!Planned
<1>6. OpsNode(h)
  BY <1>2, <1>3, <1>4, <1>5 DEF OpsNode, OpsCarries, OpsUnread
<1>7. OpsAt(h, request'[c])
  BY <1>2, <1>3, <1>4, <1>5, <1>6 DEF OpsAt, OpsNodes, OpsCarries
<1>8. OpsNodeInv(c)
  BY <1>1, <1>4, <1>7 DEF OpsNodeInv
<1>9. OpsEdge(c)
  BY <1>1, <1>2, <1>4 DEF OpsEdge, OpsCarries
<1>10. QED
  BY <1>8, <1>9 DEF OpsNodeOf

LEMMA OpsCloses ==
  ASSUME NEW c \in Clients, DOMAIN graph = Clients, OpsAt(graph[c], request[c]), AgentCloses(c)
  PROVE  OpsNodeOf(c)
<1> DEFINE g == graph[c]
           h == graph'[c]
           at == IF g.at \in {"answered", "denied", "failed", "invalid", "off"} THEN g.at
                 ELSE "closed"
           v == [g EXCEPT !.at = at]
<1>1. graph' = [graph EXCEPT ![c] = v] /\ request' = request
  BY DEF AgentCloses
<1>2. at = g.at \/ (at = "closed" /\ g.at \notin {"answered", "denied", "failed", "off"})
  OBVIOUS
<1> HIDE DEF at
<1>3. OpsCarries(v, g) /\ v.at = at /\ v.steps = g.steps /\ v.answer = g.answer
  BY DEF OpsAt, OpsCarries, OpsFields, Ops!initial_state
<1> HIDE DEF v
<1>4. h = v /\ \A d \in Clients \ {c} : graph'[d] = graph[d]
  BY <1>1
<1>5. Ops!Planned(h) <=> Ops!Planned(g)
  BY <1>3, <1>4 DEF Ops!Planned
<1>6. OpsNode(h)
  <2>1. CASE at = "closed"
    BY <1>3, <1>4, <2>1 DEF OpsNode
  <2>2. CASE at = g.at
    <3>1. (\A k : Executed(h, k) <=> Executed(g, k)) /\ (Completed(h) <=> Completed(g))
          /\ h.calls = g.calls
      BY <1>3, <1>4 DEF OpsCarries, Executed, Completed
    <3>2. (OpsUnread(h) <=> OpsUnread(g)) /\ (OpsDenial(h) <=> OpsDenial(g))
      BY <1>3, <1>4, <1>5 DEF OpsCarries, OpsUnread, OpsDenial
    <3>3. OpsFailure(h) <=> OpsFailure(g)
      BY <1>3, <1>4, <2>2, <3>1 DEF OpsCarries, OpsFailure
    <3>4. h.at = g.at /\ h.answer = g.answer /\ h.plan = g.plan /\ h.reason = g.reason
          /\ h.allowed = g.allowed
      BY <1>3, <1>4, <2>2 DEF OpsCarries
    <3>5. OpsNode(g) /\ g.at \in OpsNodes
      BY DEF OpsAt
    <3>8. Executed(h, h.calls) <=> Executed(g, g.calls)
      BY <3>1
    <3> HIDE DEF g, h
    <3>6. OpsNode(h)
      BY <1>5, <3>1, <3>2, <3>3, <3>4, <3>5, <3>8 DEF OpsNode, OpsNodes
    <3>7. QED
      BY <3>6
  <2>3. QED
    BY <1>2, <2>1, <2>2
<1>7. /\ DOMAIN h = OpsFields /\ h.at \in OpsNodes /\ h.reason \in OpsReasons
      /\ h.steps \in Seq(StepNames) /\ PlanIs(h.plan)
      /\ Ops!Planned(h) => h.plan # <<>> \/ h.reason = "no_authorized_workflows"
      /\ h.at # "off" => request[c] = OpsAsked
  BY <1>2, <1>3, <1>4, <1>5 DEF OpsAt, OpsNodes, OpsCarries
<1>8. OpsAt(h, request'[c])
  BY <1>1, <1>6, <1>7 DEF OpsAt
<1>9. OpsNodeInv(c)
  BY <1>1, <1>4, <1>8 DEF OpsNodeInv
<1>10. OpsEdge(c)
  BY <1>2, <1>3, <1>4 DEF OpsEdge, OpsCarries
<1>11. QED
  BY <1>9, <1>10 DEF OpsNodeOf

LEMMA OpsGoes ==
  ASSUME AInv, OpsInv, [Next]_vars, mode = "ioa_v3_langgraph_n8n"
  PROVE  AgentsRest \/ \E d \in Clients : OpsNodeOf(d)
<1>1. IInv /\ DOMAIN graph = Clients /\ DOMAIN request = Clients
  BY DEF AInv, IInv, Typed, PolicyInv
<1>2. \A c \in Clients : OpsAt(graph[c], request[c])
  BY DEF OpsInv
<1>3. ASSUME NEW d \in Clients, AgentStarts(d)
      PROVE  OpsNodeOf(d)
  <2>1. Ops!Start(d, OpsAsked)
    BY <1>3 DEF AgentStarts, StartAgent, OpsAsked
  <2>2. QED
    BY <1>1, <1>2, <2>1, OpsStarts
<1>4. ASSUME NEW d \in Clients, AgentMoves(d)
      PROVE  OpsNodeOf(d)
  BY <1>1, <1>2, <1>4, OpsMoves DEF AgentMoves, AgentStep
<1>5. ASSUME NEW d \in Clients, AgentCloses(d)
      PROVE  OpsNodeOf(d)
  BY <1>1, <1>2, <1>5, OpsCloses
<1>6. QED
  BY <1>1, <1>3, <1>4, <1>5, Moves

LEMMA OpsKept ==
  ASSUME AInv, OpsInv, [Next]_vars
  PROVE  OpsInv'
<1>1. scenario' = scenario /\ world' = world
  BY SetupStays DEF AInv
<1>2. CASE mode # "ioa_v3_langgraph_n8n"
  BY <1>1, <1>2 DEF OpsInv, mode
<1>3. CASE mode = "ioa_v3_langgraph_n8n"
  <2>1. \A c \in Clients : OpsAt(graph[c], request[c])
    BY <1>3 DEF OpsInv
  <2>2. SUFFICES \A c \in Clients : OpsAt(graph'[c], request'[c])
    BY <1>1, SameOps DEF OpsInv
  <2>3. CASE AgentsRest
    BY <2>1, <2>3 DEF AgentsRest
  <2>4. ASSUME NEW d \in Clients, OpsNodeOf(d), NEW c \in Clients
        PROVE  OpsAt(graph'[c], request'[c])
    <3>1. CASE c = d
      BY <2>4, <3>1 DEF OpsNodeOf, OpsNodeInv
    <3>2. CASE c # d
      <4>1. graph'[c] = graph[c] /\ request'[c] = request[c]
        BY <2>4, <3>2 DEF OpsNodeOf, OpsNodeInv
      <4>2. QED
        BY <2>1, <4>1
    <3>3. QED
      BY <3>1, <3>2
  <2>5. QED
    BY <1>3, <2>3, <2>4, OpsGoes
<1>4. QED
  BY <1>2, <1>3

LEMMA OpsBegins ==
  LET g == Ops!initial_state
  IN /\ DOMAIN g = OpsFields /\ g.at = "off" /\ g.allowed /\ g.reason = "" /\ g.plan = <<>>
     /\ g.outputs = <<>> /\ g.reads = {} /\ g.calls = 0 /\ g.executions = 0 /\ g.steps = <<>>
BY DEF OpsFields, Ops!initial_state

LEMMA OpsInitially == Init => OpsInv
<1> SUFFICES ASSUME Init, mode = "ioa_v3_langgraph_n8n", NEW c \in Clients
             PROVE  OpsAt(graph[c], request[c])
  BY DEF OpsInv
<1> DEFINE g == graph[c]
<1>1. g = Ops!initial_state
  BY DEF Init
<1>2. /\ DOMAIN g = OpsFields /\ g.at = "off" /\ g.allowed /\ g.reason = "" /\ g.plan = <<>>
      /\ g.outputs = <<>> /\ g.reads = {} /\ g.calls = 0 /\ g.executions = 0 /\ g.steps = <<>>
  BY <1>1, OpsBegins
<1> HIDE DEF g
<1>3. \A S : <<>> \in Seq(S)
  OBVIOUS
<1>4. Len(<<>>) <= 5 /\ DOMAIN <<>> = {}
  OBVIOUS
<1>5. g.steps \in Seq(StepNames) /\ PlanIs(g.plan)
  BY <1>2, <1>3, <1>4, Zenon DEF PlanIs
<1>6. ~Ops!Planned(g)
  BY <1>2, <1>4 DEF Ops!Planned
<1>7. OpsNode(g)
  BY <1>2, <1>6 DEF OpsNode, OpsUnread
<1>8. QED
  BY <1>2, <1>5, <1>6, <1>7 DEF OpsAt, OpsNodes, OpsReasons, g

\* Where each request of the Ops Graph is, and what it has planned, read and found
\* there: the invariant of its nodes, together with that of the other agents.
THEOREM OpsInvariant == Spec => [](AInv /\ OpsInv)
<1>1. Init => OpsInv
  BY OpsInitially
<1>2. AInv /\ OpsInv /\ [Next]_vars => OpsInv'
  BY OpsKept
<1>3. QED
  BY <1>1, <1>2, AgentsInvariant, PTL DEF Spec

\* What either governed agent decides to run needs no refusal: the LangGraph agent's
\* tool is registered (ClassifierAgrees), and no plan of the Ops Graph, whatever the
\* model proposed, has a parameter its tool does not allow or more workflows than the
\* budget, and none is cut short by it.
THEOREM PlansAuthorizable == Spec => []PlansAreAuthorizable
<1>1. ASSUME OpsInv, mode = "ioa_v3_langgraph_n8n", NEW c \in Clients, Ops!Planned(graph[c])
      PROVE  /\ graph[c].plan # <<>> \/ graph[c].reason = "no_authorized_workflows"
             /\ Len(graph[c].plan) <= Ops!max_tool_executions
             /\ \A i \in DOMAIN graph[c].plan :
                  graph[c].plan[i].params \subseteq Ops!allowed_params(graph[c].plan[i].tool)
             /\ graph[c].reason # "workflow_authorized_with_budget_truncation"
  <2> DEFINE g == graph[c]
  <2>1. OpsAt(g, request[c]) /\ Ops!Planned(g)
    BY <1>1 DEF OpsInv
  <2> HIDE DEF g
  <2>2. g.plan # <<>> \/ g.reason = "no_authorized_workflows"
    BY <2>1 DEF OpsAt
  <2>3. g.plan \in Seq(FineFlows) /\ Len(g.plan) <= 5
    BY <2>1 DEF OpsAt, PlanIs
  <2>4. \A i \in DOMAIN g.plan : g.plan[i].params \subseteq Ops!allowed_params(g.plan[i].tool)
    BY <2>3 DEF FineFlows
  <2>5. g.reason # "workflow_authorized_with_budget_truncation"
    BY <2>1 DEF OpsAt, OpsReasons
  <2>6. QED
    BY <2>2, <2>3, <2>4, <2>5 DEF g, Ops!max_tool_executions, Ops!MAX_WORKFLOW_EXECUTIONS
<1>2. OpsInv /\ ClassifierMatchesRegistry => PlansAreAuthorizable
  BY <1>1 DEF PlansAreAuthorizable, Ops!PlansAreAuthorizable
<1>3. QED
  BY <1>2, OpsInvariant, ClassifierAgrees, PTL

\* A question that calls for a runbook has the runbook's tool as its primary workflow,
\* also when the model proposed something else, unless it asks for an overview.
THEOREM RunbookFirst == Spec => []RunbookComesFirst
<1>1. ASSUME AInv, OpsInv, mode = "ioa_v3_langgraph_n8n", NEW c \in Clients,
             graph[c].at = "authorize_workflow",
             Ops!classify_tool(request[c].words).tool \in Ops!Runbooks
      PROVE  \/ graph[c].plan[1].tool = Ops!classify_tool(request[c].words).tool
             \/ Ops!Overview(request[c].words) /\ graph[c].plan[1].tool = "grafana_k8s_health"
  <2>1. graph[c].plan = FullPlan /\ request[c] = OpsAsked
    BY <1>1 DEF OpsInv, OpsAt, OpsNode
  <2>2. Planning(FullPlan, OpsAsked.words)
    BY <1>1, FullPlanIs DEF AInv
  <2>3. QED
    BY <1>1, <2>1, <2>2 DEF Planning
<1>2. AInv /\ OpsInv => RunbookComesFirst
  BY <1>1 DEF RunbookComesFirst, Ops!RunbookComesFirst
<1>3. QED
  BY <1>2, OpsInvariant, PTL

\* run and run_stream of the Ops Graph come to the same end on the same question.
LEMMA OpsDriversAgree == OpsInv /\ mode = "ioa_v3_langgraph_n8n" => Ops!RunAndStreamAgree
<1> DEFINE Lost == {"raised", "failed"}
           First(k) == /\ k \in 1 .. Len(Approved) /\ Fatal(Approved[k])
                       /\ \A i \in 1 .. k - 1 : ~Fatal(Approved[i])
           Tells(g) ==
             \/ /\ g.at = "answered" /\ Completed(g) /\ OpsAsked.size = "fits"
                /\ g.answer = IF Builds THEN "deterministic" ELSE "model"
                /\ ~Builds => world.model # "raises"
             \/ /\ g.at = "denied" /\ OpsDenial(g) /\ g.answer = g.reason
             \/ /\ g.at \in Lost /\ OpsAsked.size = "fits" /\ Len(Approved) > 0
                /\ Completed(g) /\ ~Builds /\ world.model = "raises"
             \/ /\ g.at \in Lost /\ OpsAsked.size = "fits" /\ Len(Approved) > 0
                /\ g.plan = Approved /\ g.outputs = <<>>
                /\ \E k \in 1 .. Len(Approved) : First(k) /\ g.reads = ReadsUpto(k)
<1> SUFFICES ASSUME OpsInv, mode = "ioa_v3_langgraph_n8n", NEW c \in Clients, NEW d \in Clients,
                    Ops!Ended(graph[c]), Ops!Ended(graph[d])
             PROVE  /\ graph[c].plan = graph[d].plan
                    /\ graph[c].outputs = graph[d].outputs
                    /\ graph[c].reads = graph[d].reads
                    /\ (graph[c].at \in Lost) = (graph[d].at \in Lost)
                    /\ graph[c].at \notin Lost => graph[c].answer = graph[d].answer
  BY DEF Ops!RunAndStreamAgree
<1>1. ASSUME NEW e \in Clients, Ops!Ended(graph[e])
      PROVE  Tells(graph[e])
  <2>1. OpsNode(graph[e])
    BY DEF OpsInv, OpsAt
  <2>2. graph[e].at \in {"answered", "denied", "raised", "failed"}
    BY <1>1 DEF Ops!Ended
  <2> DEFINE g == graph[e]
  <2> HIDE DEF g
  <2>3. g.at \in {"raised", "failed"} => OpsFailure(g)
    BY <2>1 DEF OpsNode, g
  <2>4. g.at = "denied" => OpsDenial(g) /\ g.answer = g.reason
    BY <2>1 DEF OpsNode, g
  <2>5. g.at = "answered" => /\ Completed(g) /\ OpsAsked.size = "fits"
                             /\ g.answer = IF Builds THEN "deterministic" ELSE "model"
                             /\ ~Builds => world.model # "raises"
    BY <2>1 DEF OpsNode, g
  <2>6. Tells(g)
    BY <2>2, <2>3, <2>4, <2>5 DEF OpsFailure, g
  <2>7. QED
    BY <2>6 DEF g
<1>2. Tells(graph[c]) /\ Tells(graph[d])
  BY <1>1
<1>3. \A k, j : First(k) /\ First(j) => k = j
  <2>1. ASSUME NEW k, NEW j, First(k), First(j), k < j
        PROVE  FALSE
    <3>1. k \in 1 .. j - 1
      BY <2>1
    <3>2. QED
      BY <2>1, <3>1
  <2>2. QED
    <3>1. TAKE k, j
    <3>2. HAVE First(k) /\ First(j)
    <3>3. k \in Int /\ j \in Int
      BY <3>2
    <3>4. k < j \/ j < k \/ k = j
      BY <3>3
    <3> HIDE DEF First
    <3>5. QED
      BY <2>1, <3>2, <3>4
<1>4. \A k : First(k) => k \in 1 .. Len(Approved) /\ Fatal(Approved[k])
  OBVIOUS
<1> HIDE DEF First
<1> DEFINE g == graph[c]
           h == graph[d]
<1>5. Tells(g) /\ Tells(h)
  BY <1>2
<1> HIDE DEF g, h
<1>6. \A e \in {g, h} : Completed(e) =>
         /\ e.plan = Approved /\ e.outputs = OutputsUpto(Len(Approved))
         /\ e.reads = ReadsUpto(Len(Approved)) /\ Len(Approved) > 0
         /\ \A k : ~First(k)
  BY <1>4 DEF Completed, Executed
<1>7. \A e \in {g, h} : OpsDenial(e) =>
         /\ e.outputs = <<>> /\ e.reads = {}
         /\ \/ OpsAsked.size # "fits" /\ e.plan = <<>> /\ e.reason = "invalid_request"
            \/ OpsAsked.size = "fits" /\ Len(Approved) = 0 /\ e.plan = Approved
               /\ e.reason = "no_authorized_workflows"
  BY DEF OpsDenial, OpsUnread
<1>8. /\ g.plan = h.plan /\ g.outputs = h.outputs /\ g.reads = h.reads
      /\ (g.at \in Lost) = (h.at \in Lost)
      /\ g.at \notin Lost => g.answer = h.answer
  <2> HIDE DEF Completed
  <2>1. CASE OpsDenial(g) /\ g.at = "denied" /\ g.answer = g.reason
    <3>1. OpsAsked.size = "fits" => ~(Len(Approved) > 0)
      BY <1>7, <2>1
    <3>2. h.at = "denied" /\ OpsDenial(h) /\ h.answer = h.reason
      BY <1>5, <1>6, <3>1
    <3>3. g.plan = h.plan /\ g.reason = h.reason
      BY <1>7, <2>1, <3>2
    <3>4. g.outputs = h.outputs /\ g.reads = h.reads
      BY <1>7, <2>1, <3>2
    <3>5. QED
      BY <2>1, <3>2, <3>3, <3>4
  <2>2. CASE Completed(g) /\ OpsAsked.size = "fits"
    BY <1>5, <1>6, <1>7, <2>2
  <2>3. CASE /\ g.at \in Lost /\ OpsAsked.size = "fits" /\ Len(Approved) > 0
             /\ g.plan = Approved /\ g.outputs = <<>>
             /\ \E k \in 1 .. Len(Approved) : First(k) /\ g.reads = ReadsUpto(k)
    BY <1>3, <1>5, <1>6, <1>7, <2>3
  <2>4. QED
    BY <1>5, <2>1, <2>2, <2>3
<1>9. QED
  BY <1>8 DEF g, h

\* Both drivers of a governed agent take the same decisions: whatever the scheduling,
\* two requests with the same question end with the same plan, reads and answer.
THEOREM DriversAgree == Spec => []GraphsAgree
<1>1. AInv /\ OpsInv => GraphsAgree
  BY PolicyDriversAgree, OpsDriversAgree DEF GraphsAgree
<1>2. QED
  BY <1>1, OpsInvariant, PTL

-----------------------------------------------------------------------------
(* The Ops Graph is governed too, under the mapping of OpsGraph.               *)

OpsSeen == Only("ioa_v3_langgraph_n8n", Ops!initial_state)

opsGrant(g, r) == IF g.at = "off" THEN {} ELSE OpsView!Granted(r)

opsPhase == [c \in Clients |-> OpsView!Phase(OpsSeen[c])]
opsGranted == [c \in Clients |-> IF OpsSeen[c].at = "off" THEN {} ELSE OpsView!Granted(request[c])]
opsTouched == [c \in Clients |-> OpsSeen[c].reads]
opsCount == [c \in Clients |-> OpsSeen[c].calls]
opsDown == IF world.company # "answers" THEN {"company"} ELSE {}

LEMMA OpsStandInsAre ==
  ASSUME NEW R
  PROVE  OpsView!Governed!StandIns(R) = OpsStandIns(R)
BY DEF OpsView!Governed!StandIns, OpsStandIns

\* A step of one request, seen through the mapping.
LEMMA OpsViewMoves ==
  ASSUME mode = "ioa_v3_langgraph_n8n", mode' = mode, NEW d \in Clients,
         \A c \in Clients \ {d} : graph'[c] = graph[c] /\ request'[c] = request[c]
  PROVE  /\ opsPhase' = [opsPhase EXCEPT ![d] = OpsView!Phase(graph'[d])]
         /\ opsGranted' = [opsGranted EXCEPT ![d] = opsGrant(graph'[d], request'[d])]
         /\ opsTouched' = [opsTouched EXCEPT ![d] = graph'[d].reads]
         /\ opsCount' = [opsCount EXCEPT ![d] = graph'[d].calls]
         /\ opsPhase[d] = OpsView!Phase(graph[d])
         /\ opsGranted[d] = opsGrant(graph[d], request[d])
         /\ opsTouched[d] = graph[d].reads /\ opsCount[d] = graph[d].calls
<1>1. OpsSeen = graph /\ OpsSeen' = graph'
  BY DEF OpsSeen, Only
<1>2. \A c \in Clients : OpsView!Phase(OpsSeen[c])' = OpsView!Phase(graph'[c])
  BY <1>1 DEF OpsView!Phase
<1>3. \A c \in Clients : OpsView!Granted(request[c])' = OpsView!Granted(request'[c])
  BY DEF OpsView!Granted
<1>4. opsPhase' = [opsPhase EXCEPT ![d] = OpsView!Phase(graph'[d])]
      /\ opsPhase[d] = OpsView!Phase(graph[d])
  BY <1>1, <1>2 DEF opsPhase
<1>5. opsGranted' = [opsGranted EXCEPT ![d] = opsGrant(graph'[d], request'[d])]
      /\ opsGranted[d] = opsGrant(graph[d], request[d])
  BY <1>1, <1>3 DEF opsGranted, opsGrant
<1>6. /\ opsTouched' = [opsTouched EXCEPT ![d] = graph'[d].reads]
      /\ opsTouched[d] = graph[d].reads
  BY <1>1 DEF opsTouched
<1>7. /\ opsCount' = [opsCount EXCEPT ![d] = graph'[d].calls]
      /\ opsCount[d] = graph[d].calls
  BY <1>1 DEF opsCount
<1>8. QED
  BY <1>4, <1>5, <1>6, <1>7

LEMMA OpsViewStays ==
  ASSUME opsPhase' = opsPhase, opsGranted' = opsGranted, opsTouched' = opsTouched,
         opsCount' = opsCount, opsDown' = opsDown
  PROVE  UNCHANGED OpsView!Governed!vars
BY DEF OpsView!Governed!vars, opsPhase, opsGranted, opsTouched, opsCount, opsDown, OpsSeen

\* What one request does in the governed workflow, as for the LangGraph agent, but with
\* up to five executions.
OpsGovernedAsk(p, q, S, T, U, m, n) ==
  /\ p = "idle" /\ q = "asked" /\ S \in SUBSET {"grafana", "company", "simulator"}
  /\ T = U /\ m = n
OpsGovernedExecute(p, q, R, S, T, U, m, n) ==
  /\ p = "approved" /\ q \in {"approved", "failed"} /\ R = S
  /\ m \in 0 .. 4 /\ n = m + 1
  /\ \E G \in SUBSET R : \E F \in SUBSET OpsStandIns(G) : U = T \cup G \cup F
OpsGovernedMove(p, q, R, S, T, U, m, n) ==
  \/ OpsGovernedAsk(p, q, S, T, U, m, n)
  \/ OpsGovernedExecute(p, q, R, S, T, U, m, n)
  \/ GovernedPhase(p, q, m) /\ R = S /\ T = U /\ m = n

LEMMA OpsWithinBudget ==
  ASSUME NEW g, NEW r, OpsAt(g, r), g.at \in {"call_n8n_workflow", "raised", "failed"}
  PROVE  g.calls \in 0 .. 5
<1>1. PlanIs(g.plan) /\ OpsNode(g) /\ g.plan = Approved
  BY DEF OpsAt, OpsNode, OpsFailure
<1> DEFINE m == Len(Approved)
           k == g.calls
<1>2. m \in Nat /\ m <= 5
  BY <1>1 DEF PlanIs
<1>3. ASSUME g.at = "call_n8n_workflow"
      PROVE  k \in 0 .. m
  BY <1>1, <1>3 DEF OpsNode, Executed
<1>4. ASSUME g.at \in {"raised", "failed"}
      PROVE  k \in 0 .. m
  <2>1. Executed(g, m) \/ k \in 1 .. m
    BY <1>1, <1>4 DEF OpsNode, OpsFailure, Completed
  <2>2. Executed(g, m) => k = m
    BY DEF Executed
  <2> HIDE DEF m, k
  <2>3. k \in 0 .. m
    BY <1>2, <2>1, <2>2
  <2>4. QED
    BY <2>3 DEF m, k
<1>5. k \in 0 .. m
  BY <1>3, <1>4
<1> HIDE DEF m, k
<1>6. k \in 0 .. 5
  BY <1>2, <1>5
<1>7. QED
  BY <1>6 DEF k

LEMMA OpsEdgesAreGoverned ==
  ASSUME NEW d \in Clients, OpsNodeOf(d), OpsAt(graph[d], request[d])
  PROVE  LET g == graph[d]
             h == graph'[d]
         IN OpsGovernedMove(OpsView!Phase(g), OpsView!Phase(h),
                            opsGrant(g, request[d]), opsGrant(h, request'[d]),
                            g.reads, h.reads, g.calls, h.calls)
<1> DEFINE g == graph[d]
           h == graph'[d]
           p == OpsView!Phase(g)
           q == OpsView!Phase(h)
           R == opsGrant(g, request[d])
           S == opsGrant(h, request'[d])
           G == Ops!Granted(OpsAsked)
<1>1. OpsAt(g, request[d]) /\ OpsAt(h, request'[d]) /\ OpsEdge(d)
      /\ (g.at # "off" => request'[d] = request[d])
  BY DEF OpsNodeOf, OpsNodeInv
<1>2. OpsView!Granted(OpsAsked) = G /\ G \subseteq {"grafana", "company"}
  BY DEF OpsView!Granted, OpsView!If, Ops!Granted, Ops!If
<1>3. /\ R = IF g.at = "off" THEN {} ELSE G
      /\ S = IF h.at = "off" THEN {} ELSE G
  BY <1>1, <1>2 DEF OpsAt, opsGrant
<1>4. g.at \in OpsNodes /\ h.at \in OpsNodes
  BY <1>1 DEF OpsAt
<1>5. g.at \in {"apply_kpi_rules", "generate_answer"} => g.calls > 0
  <2>1. ASSUME g.at \in {"apply_kpi_rules", "generate_answer"}
        PROVE  g.calls > 0
    <3>1. g.calls = Len(Approved) /\ Len(Approved) > 0
      BY <1>1, <2>1 DEF OpsAt, OpsNode, Completed, Executed
    <3>2. QED
      BY <3>1
  <2>2. QED
    BY <2>1
<1>6. CASE /\ g.at = "call_n8n_workflow" /\ h.at \in {"call_n8n_workflow", "raised", "failed"}
           /\ OpsReads(g, h)
  <2>1. g.calls \in 0 .. 5 /\ h.calls \in 0 .. 5
    BY <1>1, <1>6, OpsWithinBudget
  <2>2. /\ h.calls = g.calls + 1
        /\ \E T \in SUBSET G : \E F \in SUBSET OpsStandIns(T) : h.reads = g.reads \cup T \cup F
    BY <1>6 DEF OpsReads
  <2>3. p = "approved" /\ q \in {"approved", "failed"} /\ R = G /\ S = G
    BY <1>3, <1>6 DEF OpsView!Phase
  <2>4. g.calls \in 0 .. 4
    BY <2>1, <2>2
  <2> HIDE DEF g, h, R, S, p, q, G
  <2>5. OpsGovernedExecute(p, q, R, S, g.reads, h.reads, g.calls, h.calls)
    BY <2>2, <2>3, <2>4 DEF OpsGovernedExecute
  <2>6. OpsGovernedMove(p, q, R, S, g.reads, h.reads, g.calls, h.calls)
    BY <2>5 DEF OpsGovernedMove
  <2>7. QED
    BY <2>6 DEF g, h, R, S, p, q
<1>7. CASE g.at = "off" /\ h.at = "validate_request" /\ h.reads = g.reads /\ h.calls = g.calls
  <2>1. p = "idle" /\ q = "asked"
    BY <1>7 DEF OpsView!Phase
  <2>2. S \in SUBSET {"grafana", "company", "simulator"}
    BY <1>2, <1>3
  <2> HIDE DEF g, h, R, S, p, q
  <2>3. OpsGovernedMove(p, q, R, S, g.reads, h.reads, g.calls, h.calls)
    BY <1>7, <2>1, <2>2 DEF OpsGovernedAsk, OpsGovernedMove
  <2>4. QED
    BY <2>3 DEF g, h, R, S, p, q
<1>8. CASE /\ h.calls = g.calls /\ h.reads = g.reads
           /\ ~(g.at = "off" /\ h.at = "validate_request")
  <2> HIDE DEF G
  <2>1. R = S
    <3>1. g.at = "off" <=> h.at = "off"
      BY <1>1, <1>8 DEF OpsEdge
    <3> HIDE DEF R, S, g, h
    <3>2. QED
      BY <1>3, <3>1
  <2>2. GovernedPhase(p, q, g.calls)
    <3>1. CASE g.at = h.at
      BY <3>1 DEF GovernedPhase, OpsView!Phase
    <3>2. CASE g.at = "validate_request" /\ h.at \in {"select_workflow", "deny_request"}
      BY <3>2 DEF GovernedPhase, OpsView!Phase
    <3>3. CASE g.at = "select_workflow" /\ h.at = "authorize_workflow"
      BY <3>3 DEF GovernedPhase, OpsView!Phase
    <3>4. CASE g.at = "authorize_workflow" /\ h.at \in {"call_n8n_workflow", "deny_request"}
      BY <3>4 DEF GovernedPhase, OpsView!Phase
    <3>5. CASE g.at = "call_n8n_workflow" /\ h.at = "apply_kpi_rules"
      BY <3>5 DEF GovernedPhase, OpsView!Phase
    <3>6. CASE g.at = "apply_kpi_rules" /\ h.at = "generate_answer"
      <4>1. p = "approved" /\ q = "collected" /\ g.calls > 0
        BY <1>5, <3>6 DEF OpsView!Phase
      <4> HIDE DEF p, q
      <4>2. QED
        BY <4>1 DEF GovernedPhase
    <3>7. CASE g.at = "generate_answer" /\ h.at \in {"answered", "raised", "failed"}
      BY <3>7 DEF GovernedPhase, OpsView!Phase
    <3>8. CASE g.at = "deny_request" /\ h.at = "denied"
      BY <3>8 DEF GovernedPhase, OpsView!Phase
    <3>9. CASE g.at \notin {"off", "answered", "denied", "failed"} /\ h.at = "closed"
      BY <1>4, <3>9 DEF GovernedPhase, OpsView!Phase, OpsNodes
    <3>11. CASE g.at = "call_n8n_workflow" /\ h.at \in {"raised", "failed"}
      BY <3>11 DEF GovernedPhase, OpsView!Phase
    <3>10. QED
      BY <1>1, <1>8, <3>1, <3>2, <3>3, <3>4, <3>5, <3>6, <3>7, <3>8, <3>9, <3>11 DEF OpsEdge
  <2> HIDE DEF R, S, p, q, g, h
  <2>3. OpsGovernedMove(p, q, R, S, g.reads, h.reads, g.calls, h.calls)
    BY <1>8, <2>1, <2>2 DEF OpsGovernedMove
  <2>4. QED
    BY <2>3 DEF R, S, p, q, g, h
<1>9. QED
  BY <1>1, <1>6, <1>7, <1>8 DEF OpsEdge

\* A governed move of one request is a step of GovernedWorkflow, or none.
LEMMA OpsMovesAreGoverned ==
  ASSUME NEW d \in Clients, NEW q, NEW S, NEW U, NEW n,
         opsPhase' = [opsPhase EXCEPT ![d] = q], opsGranted' = [opsGranted EXCEPT ![d] = S],
         opsTouched' = [opsTouched EXCEPT ![d] = U], opsCount' = [opsCount EXCEPT ![d] = n],
         opsDown' = opsDown,
         OpsGovernedMove(opsPhase[d], q, opsGranted[d], S, opsTouched[d], U, opsCount[d], n)
  PROVE  [OpsView!Governed!Next]_OpsView!Governed!vars
<1> DEFINE p == opsPhase[d]
<1>1. /\ opsPhase = [c \in Clients |-> opsPhase[c]]
      /\ opsGranted = [c \in Clients |-> opsGranted[c]]
      /\ opsTouched = [c \in Clients |-> opsTouched[c]]
      /\ opsCount = [c \in Clients |-> opsCount[c]]
  BY DEF opsPhase, opsGranted, opsTouched, opsCount
<1>2. CASE OpsGovernedAsk(p, q, S, opsTouched[d], U, opsCount[d], n)
  <2>1. opsTouched' = opsTouched /\ opsCount' = opsCount /\ opsPhase[d] = "idle"
        /\ opsPhase' = [opsPhase EXCEPT ![d] = "asked"]
        /\ \E G \in SUBSET {"grafana", "company", "simulator"} :
             opsGranted' = [opsGranted EXCEPT ![d] = G]
    BY <1>1, <1>2 DEF OpsGovernedAsk
  <2>2. OpsView!Governed!Ask(d)
    BY <2>1 DEF OpsView!Governed!Ask, OpsView!Governed!Becomes, opsPhase, opsGranted,
         opsTouched, opsCount, opsDown, OpsSeen
  <2>3. QED
    BY <2>2 DEF OpsView!Governed!Next
<1>3. CASE OpsGovernedExecute(p, q, opsGranted[d], S, opsTouched[d], U, opsCount[d], n)
  <2>1. /\ opsPhase[d] = "approved" /\ opsGranted' = opsGranted
        /\ opsPhase' = opsPhase \/ opsPhase' = [opsPhase EXCEPT ![d] = "failed"]
    BY <1>1, <1>3 DEF OpsGovernedExecute
  <2>2. PICK G \in SUBSET opsGranted[d] :
          \E F \in SUBSET OpsStandIns(G) : U = opsTouched[d] \cup G \cup F
    BY <1>3 DEF OpsGovernedExecute
  <2>3. /\ opsCount' = [opsCount EXCEPT ![d] = opsCount[d] + 1]
        /\ 1 \in 0 .. OpsView!max_tool_executions - opsCount[d]
    <3>1. opsCount[d] \in 0 .. 4 /\ n = opsCount[d] + 1
      BY <1>3 DEF OpsGovernedExecute
    <3>2. OpsView!max_tool_executions = 5
      BY DEF OpsView!max_tool_executions, OpsView!MAX_WORKFLOW_EXECUTIONS
    <3> DEFINE m == opsCount[d]
    <3> HIDE DEF m
    <3>3. 1 \in 0 .. OpsView!max_tool_executions - m
      BY <3>1, <3>2 DEF m
    <3>4. QED
      BY <3>1, <3>3 DEF m
  <2>4. OpsView!Governed!Execute(d)
    <3>1. \E k \in 0 .. OpsView!max_tool_executions - opsCount[d], R \in SUBSET opsGranted[d] :
            \E F \in SUBSET OpsView!Governed!StandIns(R) :
              /\ k = 0 => R = {}
              /\ opsCount' = [opsCount EXCEPT ![d] = @ + k]
              /\ opsTouched' = [opsTouched EXCEPT ![d] = @ \cup R \cup F]
      <4>1. PICK F \in SUBSET OpsStandIns(G) : U = opsTouched[d] \cup G \cup F
        BY <2>2
      <4>2. /\ 1 = 0 => G = {}
            /\ opsCount' = [opsCount EXCEPT ![d] = @ + 1]
            /\ opsTouched' = [opsTouched EXCEPT ![d] = @ \cup G \cup F]
        <5>1. opsTouched' = [opsTouched EXCEPT ![d] = opsTouched[d] \cup G \cup F]
          BY <4>1, Zenon
        <5>2. 1 # 0
          OBVIOUS
        <5>3. QED
          BY <2>3, <5>1, <5>2, Zenon
      <4>3. F \in SUBSET OpsView!Governed!StandIns(G)
        BY <4>1, OpsStandInsAre
      <4>4. QED
        BY <2>2, <2>3, <4>2, <4>3, Zenon
    <3>2. opsPhase[d] = "approved" /\ opsGranted' = opsGranted
      BY <2>1
    <3>3. opsPhase' = opsPhase \/ opsPhase' = [opsPhase EXCEPT ![d] = "failed"]
      BY <2>1
    <3>4. QED
      BY <3>1, <3>2, <3>3, Zenon
         DEF OpsView!Governed!Execute, OpsView!Governed!Becomes, opsPhase,
             opsGranted, opsTouched, opsCount, opsDown, OpsSeen
  <2>5. QED
    BY <2>4 DEF OpsView!Governed!Next
<1>4. CASE /\ GovernedPhase(p, q, opsCount[d]) /\ opsGranted[d] = S /\ opsTouched[d] = U
           /\ opsCount[d] = n
  <2>1. opsGranted' = opsGranted /\ opsTouched' = opsTouched /\ opsCount' = opsCount
    BY <1>1, <1>4
  <2>2. CASE p = q
    <3>1. opsPhase' = opsPhase
      BY <1>1, <2>2
    <3>2. QED
      BY <2>1, <3>1, OpsViewStays
  <2>3. CASE p = "asked" /\ q = "approved"
    <3>1. OpsView!Governed!Approve(d)
      BY <2>1, <2>3 DEF OpsView!Governed!Approve, OpsView!Governed!Becomes, opsPhase,
           opsGranted, opsTouched, opsCount, opsDown, OpsSeen
    <3>2. QED
      BY <3>1 DEF OpsView!Governed!Next
  <2>4. CASE p = "approved" /\ opsCount[d] > 0 /\ q = "collected"
    <3>1. OpsView!Governed!Collect(d)
      BY <2>1, <2>4 DEF OpsView!Governed!Collect, OpsView!Governed!Becomes, opsPhase,
           opsGranted, opsTouched, opsCount, opsDown, OpsSeen
    <3>2. QED
      BY <3>1 DEF OpsView!Governed!Next
  <2>5. CASE p = "collected" /\ q = "answered"
    <3>1. OpsView!Governed!Answer(d)
      BY <2>1, <2>5 DEF OpsView!Governed!Answer, OpsView!Governed!Becomes, opsPhase,
           opsGranted, opsTouched, opsCount, opsDown, OpsSeen
    <3>2. QED
      BY <3>1 DEF OpsView!Governed!Next
  <2>6. CASE (p = "asked" \/ (p = "approved" /\ opsCount[d] > 0)) /\ q = "refused"
    <3>1. OpsView!Governed!Refuse(d)
      BY <2>1, <2>6 DEF OpsView!Governed!Refuse, OpsView!Governed!Becomes, opsPhase,
           opsGranted, opsTouched, opsCount, opsDown, OpsSeen
    <3>2. QED
      BY <3>1 DEF OpsView!Governed!Next
  <2>7. CASE p \in {"asked", "approved", "collected"} /\ q = "failed"
    <3>1. OpsView!Governed!Fail(d)
      BY <2>1, <2>7 DEF OpsView!Governed!Fail, OpsView!Governed!Becomes, opsPhase,
           opsGranted, opsTouched, opsCount, opsDown, OpsSeen
    <3>2. QED
      BY <3>1 DEF OpsView!Governed!Next
  <2>8. QED
    BY <1>4, <2>2, <2>3, <2>4, <2>5, <2>6, <2>7 DEF GovernedPhase
<1>5. QED
  BY <1>2, <1>3, <1>4 DEF OpsGovernedMove

LEMMA OpsGovernedInit == Init => OpsView!Governed!Init
<1> SUFFICES ASSUME Init
             PROVE  OpsView!Governed!Init
  OBVIOUS
<1>1. \A c \in Clients : OpsSeen[c] = Ops!initial_state
  <2>1. CASE mode = "ioa_v3_langgraph_n8n"
    BY <2>1 DEF Init, OpsSeen, Only
  <2>2. CASE mode # "ioa_v3_langgraph_n8n"
    BY <2>2 DEF OpsSeen, Only
  <2>3. QED
    BY <2>1, <2>2
<1>2. \A c \in Clients : /\ OpsSeen[c].at = "off" /\ OpsSeen[c].reads = {}
                         /\ OpsSeen[c].calls = 0
  BY <1>1, OpsBegins
<1>3. \A c \in Clients : OpsView!Phase(OpsSeen[c]) = "idle"
  BY <1>2 DEF OpsView!Phase
<1>4. QED
  BY <1>2, <1>3 DEF OpsView!Governed!Init, OpsSeen

LEMMA OpsGovernedNext ==
  AInv /\ OpsInv /\ [Next]_vars => [OpsView!Governed!Next]_OpsView!Governed!vars
<1> SUFFICES ASSUME AInv, OpsInv, [Next]_vars
             PROVE  [OpsView!Governed!Next]_OpsView!Governed!vars
  OBVIOUS
<1>1. scenario' = scenario /\ mode' = mode /\ opsDown' = opsDown
  BY SetupStays DEF AInv, mode, opsDown
<1>2. CASE mode # "ioa_v3_langgraph_n8n"
  <2>1. OpsSeen = [c \in Clients |-> Ops!initial_state] /\ OpsSeen' = OpsSeen
    BY <1>1, <1>2 DEF OpsSeen, Only
  <2>2. \A c \in Clients : OpsSeen[c].at = "off"
    BY <2>1, OpsBegins
  <2>3. opsGranted' = opsGranted
    BY <2>1, <2>2 DEF opsGranted
  <2>4. opsPhase' = opsPhase /\ opsTouched' = opsTouched /\ opsCount' = opsCount
    <3>1. \A c \in Clients : OpsView!Phase(OpsSeen[c])' = OpsView!Phase(OpsSeen[c])
      BY <2>1 DEF OpsView!Phase
    <3>2. QED
      BY <2>1, <3>1 DEF opsPhase, opsTouched, opsCount
  <2>5. QED
    BY <1>1, <2>3, <2>4, OpsViewStays
<1>3. CASE mode = "ioa_v3_langgraph_n8n" /\ AgentsRest
  <2>1. OpsSeen' = OpsSeen /\ request' = request
    BY <1>1, <1>3 DEF OpsSeen, Only, AgentsRest
  <2>2. \A c \in Clients : /\ OpsView!Phase(OpsSeen[c])' = OpsView!Phase(OpsSeen[c])
                           /\ OpsView!Granted(request[c])' = OpsView!Granted(request[c])
    BY <2>1 DEF OpsView!Phase, OpsView!Granted
  <2>3. opsPhase' = opsPhase /\ opsGranted' = opsGranted
        /\ opsTouched' = opsTouched /\ opsCount' = opsCount
    BY <2>1, <2>2 DEF opsPhase, opsGranted, opsTouched, opsCount
  <2>4. QED
    BY <1>1, <2>3, OpsViewStays
<1>4. ASSUME mode = "ioa_v3_langgraph_n8n", NEW d \in Clients, OpsNodeOf(d)
      PROVE  [OpsView!Governed!Next]_OpsView!Governed!vars
  <2> DEFINE q == OpsView!Phase(graph'[d])
             S == opsGrant(graph'[d], request'[d])
             U == graph'[d].reads
             n == graph'[d].calls
  <2>1. \A c \in Clients \ {d} : graph'[c] = graph[c] /\ request'[c] = request[c]
    BY <1>4 DEF OpsNodeOf, OpsNodeInv
  <2>2. OpsAt(graph[d], request[d])
    BY <1>4 DEF OpsInv
  <2>3. /\ opsPhase' = [opsPhase EXCEPT ![d] = q] /\ opsGranted' = [opsGranted EXCEPT ![d] = S]
        /\ opsTouched' = [opsTouched EXCEPT ![d] = U] /\ opsCount' = [opsCount EXCEPT ![d] = n]
        /\ opsPhase[d] = OpsView!Phase(graph[d])
        /\ opsGranted[d] = opsGrant(graph[d], request[d])
        /\ opsTouched[d] = graph[d].reads /\ opsCount[d] = graph[d].calls
    BY <1>1, <1>4, <2>1, OpsViewMoves
  <2>4. OpsGovernedMove(OpsView!Phase(graph[d]), q, opsGrant(graph[d], request[d]), S,
                        graph[d].reads, U, graph[d].calls, n)
    BY <1>4, <2>2, OpsEdgesAreGoverned
  <2> HIDE DEF q, S, U, n
  <2>5. OpsGovernedMove(opsPhase[d], q, opsGranted[d], S, opsTouched[d], U, opsCount[d], n)
    BY <2>3, <2>4
  <2>6. QED
    BY <1>1, <2>3, <2>5, OpsMovesAreGoverned
<1>5. QED
  BY <1>2, <1>3, <1>4, OpsGoes

\* Every request of the two governed agents, however it is driven and however it ends,
\* stays inside the governed workflow: it reads after its approval, what it was granted
\* and within its budget, and answers after it read.
THEOREM AgentsGoverned == Spec => AgentsAreGoverned
<1>1. Init => OpsView!Governed!Init
  BY OpsGovernedInit
<1>2. AInv /\ OpsInv /\ [Next]_vars => [OpsView!Governed!Next]_OpsView!Governed!vars
  BY OpsGovernedNext
<1>3. Spec => OpsView!ImplementsGoverned
  BY <1>1, <1>2, OpsInvariant, PTL
     DEF Spec, OpsView!ImplementsGoverned, OpsView!Governed!Spec
<1>4. QED
  BY <1>3, PolicyIsGoverned, PTL DEF AgentsAreGoverned

-----------------------------------------------------------------------------
(* What both endpoints come to.  The custom agent does in each of its turns    *)
(* what the model's replies and the target determine, although its requests    *)
(* share the target of the last one.                                           *)

Target == IF world.target = "device" THEN "device" ELSE "SYSTEM"

\* What is observed before a turn, and how the turn ends.
Observes(seen, reply) ==
  IF reply \in React!TOOLS THEN Append(seen, reply)
  ELSE IF seen = <<>> THEN <<React!required(Target)>> ELSE seen

Seen(t) ==
  LET second == Observes(<<>>, world.replies[1])
  IN CASE t = 1 -> <<>>
       [] t = 2 -> second
       [] OTHER -> Observes(second, world.replies[2])

Suffices(seen) == /\ Target = "SYSTEM"
                  /\ React!SYSTEM_LEVEL_TOOLS \subseteq {seen[i] : i \in DOMAIN seen}

Fate(t) ==
  LET reply == world.replies[t]
  IN CASE reply \in {"raises", "bare"} -> "raised"
       [] reply = "unknown" -> "invalid"
       [] reply = "prose" -> "concludes"
       [] reply = "final" -> IF Seen(t) # <<>> THEN "answered"
                             ELSE IF t = 3 THEN "concludes" ELSE "goes on"
       [] OTHER -> IF t = 3 \/ Suffices(Append(Seen(t), reply)) THEN "concludes" ELSE "goes on"

Reached(t) == t \in 1 .. 3 /\ \A i \in 1 .. t - 1 : Fate(i) = "goes on"
Meets(fate) == \E t \in 1 .. 3 : Reached(t) /\ Fate(t) = fate

CustomTurn(g) == /\ world.target # "raises" /\ Reached(g.turn)
                 /\ g.observations = Seen(g.turn) /\ g.target = Target

CustomRun(g) ==
  CASE g.at \in {"off", "extract_target"} -> g.turn = 1 /\ g.observations = <<>>
    [] g.at = "choose_next_step" -> CustomTurn(g)
    [] g.at = "execute_tool" ->
         CustomTurn(g) /\ world.replies[g.turn] \in React!TOOLS \cup {"unknown"}
    [] g.at = "generate_final_answer" -> world.target # "raises" /\ Meets("concludes")
    [] g.at = "answered" ->
         /\ g.answer = "answer" /\ world.target # "raises"
         /\ Meets("answered") \/ (Meets("concludes") /\ world.model # "raises")
    [] g.at = "invalid" -> g.answer = "invalid_tool"
    [] g.at = "raised" ->
         \/ world.target = "raises" \/ Meets("raised")
         \/ Meets("concludes") /\ world.model = "raises"
    [] g.at = "closed" -> TRUE
    [] OTHER -> FALSE

MayRefer(m) == m.last_target = "none" \/ (m.last_target = "device" /\ world.target = "device")

LastTarget == MayRefer(memory)

\* The state of every request of the custom agent, and the target that is shared.
CustomAgrees == mode = "ioa_v2_custom" => LastTarget /\ \A c \in Clients : CustomRun(graph[c])

\* What a request that was served was told.
Broken == \/ "raises" \in {world.remote, world.log}
          \/ mode = "ioa_v2_n8n" /\ world.remote = "object"
          \/ mode = "ioa_v2_langchain" /\ world.remote = "silent"

Left(c, type) == \E i \in DOMAIN job[c].todo : job[c].todo[i].type = type

ToldByAgent(c) ==
  /\ Serving(c) => job[c].todo = Script(c) \/ graph[c].at \in Done
  /\ Sent(c, "final") => graph[c].at \in Done
  /\ (job[c].handling /\ world.log # "raises" /\ job[c].at # "gone") => graph[c].at = "raised"

ToldByCall(c) ==
  /\ Serving(c) =>
       /\ world.remote = "raises" => Left(c, "call")
       /\ world.log = "raises" => mode = "ioa_v1_custom" \/ Left(c, "log")
  /\ Sent(c, "final") => /\ world.remote # "raises"
                         /\ world.log = "raises" => mode = "ioa_v1_custom"
  /\ job[c].handling => Broken

Told(c) == /\ mode \in AgentModes => ToldByAgent(c)
           /\ mode \in Called => ToldByCall(c)

VInv == CustomAgrees /\ \A c \in Clients : Told(c)

LEMMA SeenNext ==
  /\ Seen(1) = <<>>
  /\ \A t \in 1 .. 2 : Seen(t + 1) = Observes(Seen(t), world.replies[t])
<1>1. Seen(1) = <<>> /\ Seen(2) = Observes(<<>>, world.replies[1])
      /\ Seen(3) = Observes(Observes(<<>>, world.replies[1]), world.replies[2])
  BY DEF Seen
<1>2. \A t \in 1 .. 2 : t = 1 \/ t = 2
  OBVIOUS
<1>3. 1 + 1 = 2 /\ 2 + 1 = 3
  OBVIOUS
<1>4. QED
  BY <1>1, <1>2, <1>3

LEMMA ReachedIs ==
  /\ \A t : Reached(t) => t \in {1, 2, 3}
  /\ Reached(1)
  /\ Reached(2) <=> Fate(1) = "goes on"
  /\ Reached(3) <=> Fate(1) = "goes on" /\ Fate(2) = "goes on"
<1>1. 1 .. 3 = {1, 2, 3} /\ 1 .. 1 - 1 = {} /\ 1 .. 2 - 1 = {1} /\ 1 .. 3 - 1 = {1, 2}
  OBVIOUS
<1>2. QED
  BY <1>1 DEF Reached

LEMMA ReachedNext ==
  \A t \in 1 .. 2 : Reached(t) /\ Fate(t) = "goes on" => Reached(t + 1)
<1>1. \A t \in 1 .. 2 : (t = 1 /\ t + 1 = 2) \/ (t = 2 /\ t + 1 = 3)
  OBVIOUS
<1>2. QED
  BY <1>1, ReachedIs

\* A request ends its turns in one way.
LEMMA OneFate ==
  ASSUME NEW s, NEW t, Reached(s), Reached(t), Fate(s) # "goes on", Fate(t) # "goes on"
  PROVE  s = t
<1>1. s \in {1, 2, 3} /\ t \in {1, 2, 3}
  BY ReachedIs
<1>2. CASE s = 1
  BY <1>1, <1>2, ReachedIs
<1>3. CASE s = 2
  BY <1>1, <1>3, ReachedIs
<1>4. CASE s = 3
  BY <1>1, <1>4, ReachedIs
<1>5. QED
  BY <1>1, <1>2, <1>3, <1>4

LEMMA OneTwo == 1 \in 1 .. 2 /\ 2 \in 1 .. 2
OBVIOUS

\* A turn that does not end the request leads to the next, or to the conclusion.
LEMMA TurnRuns ==
  ASSUME NEW g, DOMAIN g = CustomFields, NEW t, g.turn = t, Reached(t), world.target # "raises",
         g.target = Target, g.observations = Observes(Seen(t), world.replies[t]),
         Fate(t) = IF t = 3 THEN "concludes" ELSE "goes on"
  PROVE  CustomRun(React!Turn(g))
<1> DEFINE k == React!Turn(g)
           at == IF t = 3 THEN "generate_final_answer" ELSE "choose_next_step"
<1>1. t \in {1, 2, 3}
  BY ReachedIs
<1>2. /\ k.at = at /\ k.turn = t + 1 /\ k.target = g.target /\ k.observations = g.observations
  BY DEF React!Turn, React!max_iterations, CustomFields, React!initial_state
<1> HIDE DEF k
<1>3. CASE t = 3
  <2>1. k.at = "generate_final_answer" /\ Meets("concludes")
    BY <1>2, <1>3 DEF Meets, Reached
  <2>2. CustomRun(k)
    BY <2>1 DEF CustomRun
  <2>3. QED
    BY <2>2 DEF k
<1>4. CASE t # 3
  <2>1. t \in 1 .. 2
    <3>1. t = 1 \/ t = 2
      BY <1>1, <1>4
    <3>2. QED
      BY <3>1, OneTwo
  <2>5. k.at = "choose_next_step"
    BY <1>2, <1>4
  <2>2. Reached(t + 1) /\ k.observations = Seen(t + 1)
    BY <1>2, <1>4, <2>1, ReachedNext, SeenNext
  <2>3. CustomTurn(k)
    BY <1>2, <2>2 DEF CustomTurn
  <2>4. CustomRun(k)
    BY <2>3, <2>5 DEF CustomRun
  <2>6. QED
    BY <2>4 DEF k
<1>5. QED
  BY <1>3, <1>4

CustomRuns(c) == /\ CustomRun(graph'[c])
                 /\ MayRefer(memory')
                 /\ \A d \in Clients \ {c} : graph'[d] = graph[d]

LEMMA CustomRaisesRuns ==
  ASSUME NEW c \in Clients, DOMAIN graph = Clients, CustomState(c), React!Raises(c),
         MayRefer(memory'),
         \/ world.target = "raises" \/ Meets("raised")
         \/ Meets("concludes") /\ world.model = "raises"
  PROVE  CustomRuns(c)
<1> DEFINE g == [graph[c] EXCEPT !.at = "raised"]
<1>1. graph' = [graph EXCEPT ![c] = g]
  BY DEF React!Raises
<1>2. g.at = "raised"
  BY DEF CustomState, CustomFields, React!initial_state
<1> HIDE DEF g
<1>3. graph'[c] = g /\ \A d \in Clients \ {c} : graph'[d] = graph[d]
  BY <1>1
<1>4. CustomRun(g)
  BY <1>2 DEF CustomRun
<1>5. QED
  BY <1>3, <1>4 DEF CustomRuns

LEMMA ExtractsRuns ==
  ASSUME MemoryInv, LastTarget, NEW c \in Clients, DOMAIN graph = Clients, CustomState(c),
         CustomRun(graph[c]), React!ExtractTarget(c)
  PROVE  CustomRuns(c)
<1> DEFINE last == memory.last_target
           refers == last # "none" /\ request[c].refers
           target == CASE refers -> last
                       [] ~refers /\ world.target \in {"device", "SYSTEM"} -> world.target
                       [] OTHER -> IF last = "none" THEN "SYSTEM" ELSE last
           own == IF refers THEN 0 ELSE 1
           g == [graph[c] EXCEPT !.at = "choose_next_step", !.target = target, !.own = own]
<1>1. \/ ~refers /\ world.target = "raises" /\ React!Raises(c) /\ memory' = React!Reset
      \/ /\ refers \/ world.target # "raises"
         /\ graph' = [graph EXCEPT ![c].at = "choose_next_step", ![c].target = target,
                                   ![c].own = own]
         /\ memory' = [React!Reset EXCEPT !.token_usage = IF refers THEN @ ELSE @ + 1,
                         !.last_target = IF target = "SYSTEM" THEN @ ELSE target]
  BY Zenon DEF React!ExtractTarget
<1>2. graph[c].turn = 1 /\ graph[c].observations = <<>>
  BY DEF React!ExtractTarget, React!Enters, CustomRun
<1>3. last = "none" \/ (last = "device" /\ world.target = "device")
  BY DEF LastTarget, MayRefer
<1>4. refers \/ world.target # "raises" => target = Target /\ world.target # "raises"
  <2>1. CASE refers
    <3>1. last = "device" /\ world.target = "device"
      BY <1>3, <2>1
    <3>2. target = last
      BY <2>1
    <3>3. QED
      BY <3>1, <3>2 DEF Target
  <2>2. CASE ~refers
    BY <1>3, <2>2 DEF Target
  <2>3. QED
    BY <2>1, <2>2
<1>5. /\ DOMAIN React!Reset = DOMAIN React!initial_memory
      /\ React!Reset.last_target = last
  BY DEF MemoryInv, React!initial_memory, React!Reset
<1> HIDE DEF target, refers, own
<1>6. CASE ~refers /\ world.target = "raises" /\ React!Raises(c) /\ memory' = React!Reset
  <2>1. MayRefer(memory')
    BY <1>3, <1>5, <1>6 DEF MayRefer
  <2>2. QED
    BY <1>6, <2>1, CustomRaisesRuns
<1>7. CASE /\ refers \/ world.target # "raises"
           /\ graph' = [graph EXCEPT ![c].at = "choose_next_step", ![c].target = target,
                                     ![c].own = own]
           /\ memory' = [React!Reset EXCEPT !.token_usage = IF refers THEN @ ELSE @ + 1,
                           !.last_target = IF target = "SYSTEM" THEN @ ELSE target]
  <2>1. memory'.last_target = IF target = "SYSTEM" THEN last ELSE target
    BY <1>5, <1>7 DEF React!initial_memory
  <2>2. graph' = [graph EXCEPT ![c] = g]
    BY <1>7
  <2>3. /\ g.at = "choose_next_step" /\ g.target = target /\ g.turn = 1 /\ g.observations = <<>>
    BY <1>2 DEF CustomState, CustomFields, React!initial_state
  <2> HIDE DEF g, last
  <2>4. CustomTurn(g)
    BY <1>4, <1>7, <2>3, SeenNext, ReachedIs DEF CustomTurn
  <2>5. CustomRun(g)
    BY <2>3, <2>4 DEF CustomRun
  <2>6. graph'[c] = g /\ \A d \in Clients \ {c} : graph'[d] = graph[d]
    BY <2>2
  <2>7. MayRefer(memory')
    BY <1>3, <1>4, <1>7, <2>1 DEF MayRefer, Target
  <2>8. QED
    BY <2>5, <2>6, <2>7 DEF CustomRuns
<1>8. QED
  BY <1>1, <1>6, <1>7

LEMMA ConcludesRuns ==
  ASSUME MemoryInv, LastTarget, NEW c \in Clients, DOMAIN graph = Clients, CustomState(c),
         CustomRun(graph[c]), React!GenerateFinalAnswer(c)
  PROVE  CustomRuns(c)
<1> DEFINE asked == [graph[c] EXCEPT !.own = @ + 1]
           usage == React!Counted.token_usage
           g == [asked EXCEPT !.at = "answered", !.answer = "answer", !.reported = usage]
<1>1. \/ world.model = "raises" /\ React!Raises(c) /\ memory' = memory
      \/ world.model # "raises" /\ React!Answers(c, asked, "answer", usage)
  BY DEF React!GenerateFinalAnswer
<1>2. world.target # "raises" /\ Meets("concludes")
  BY DEF React!GenerateFinalAnswer, React!Enters, CustomRun
<1>3. CASE world.model = "raises" /\ React!Raises(c) /\ memory' = memory
  BY <1>2, <1>3, CustomRaisesRuns DEF LastTarget, MayRefer
<1>4. CASE world.model # "raises" /\ React!Answers(c, asked, "answer", usage)
  <2>1. graph' = [graph EXCEPT ![c] = g] /\ memory'.last_target = memory.last_target
    BY <1>4 DEF React!Answers, MemoryInv, React!initial_memory
  <2>2. DOMAIN asked = CustomFields
    BY DEF CustomState, CustomFields, React!initial_state
  <2> HIDE DEF asked, usage
  <2>3. g.at = "answered" /\ g.answer = "answer"
    BY <2>2 DEF CustomFields, React!initial_state
  <2> HIDE DEF g
  <2>4. CustomRun(g)
    BY <1>2, <1>4, <2>3 DEF CustomRun
  <2>5. graph'[c] = g /\ \A d \in Clients \ {c} : graph'[d] = graph[d]
    BY <2>1
  <2>6. QED
    BY <2>1, <2>4, <2>5 DEF CustomRuns, LastTarget, MayRefer
<1>5. QED
  BY <1>1, <1>3, <1>4

LEMMA CustomLeft ==
  ASSUME NEW c \in Clients, DOMAIN graph = Clients, NEW k, graph' = [graph EXCEPT ![c] = k],
         CustomRun(k), MayRefer(memory')
  PROVE  CustomRuns(c)
<1>1. graph'[c] = k /\ \A d \in Clients \ {c} : graph'[d] = graph[d]
  OBVIOUS
<1>2. QED
  BY <1>1 DEF CustomRuns

\* How a reply of the model ends a turn.
LEMMA FateIs ==
  ASSUME NEW t
  PROVE  LET reply == world.replies[t]
         IN /\ reply \in {"raises", "bare"} => Fate(t) = "raised"
            /\ reply = "unknown" => Fate(t) = "invalid"
            /\ reply = "prose" => Fate(t) = "concludes"
            /\ (reply = "final" /\ Seen(t) # <<>>) => Fate(t) = "answered"
            /\ (reply = "final" /\ Seen(t) = <<>>)
                 => /\ Fate(t) = IF t = 3 THEN "concludes" ELSE "goes on"
                    /\ Observes(Seen(t), reply) = <<React!required(Target)>>
            /\ reply \in React!TOOLS
                 => /\ Fate(t) = IF t = 3 \/ Suffices(Append(Seen(t), reply)) THEN "concludes"
                                 ELSE "goes on"
                    /\ Observes(Seen(t), reply) = Append(Seen(t), reply)
<1> DEFINE reply == world.replies[t]
           seen == Seen(t)
<1>1. "final" \notin React!TOOLS /\ {"raises", "bare", "unknown", "prose", "final"} \cap React!TOOLS = {}
  BY DEF React!TOOLS, React!SYSTEM_LEVEL_TOOLS
<1>2. Fate(t) =
        CASE reply \in {"raises", "bare"} -> "raised"
          [] reply = "unknown" -> "invalid"
          [] reply = "prose" -> "concludes"
          [] reply = "final" -> IF seen # <<>> THEN "answered"
                                ELSE IF t = 3 THEN "concludes" ELSE "goes on"
          [] OTHER -> IF t = 3 \/ Suffices(Append(seen, reply)) THEN "concludes" ELSE "goes on"
  BY Zenon DEF Fate
<1>3. Observes(seen, reply) = IF reply \in React!TOOLS THEN Append(seen, reply)
                              ELSE IF seen = <<>> THEN <<React!required(Target)>> ELSE seen
  BY Zenon DEF Observes
<1> DEFINE app == Append(seen, reply)
           first == <<React!required(Target)>>
           enough == Suffices(app)
<1> HIDE DEF reply, seen, app, first, enough
<1>4. /\ Fate(t) =
           CASE reply \in {"raises", "bare"} -> "raised"
             [] reply = "unknown" -> "invalid"
             [] reply = "prose" -> "concludes"
             [] reply = "final" -> IF seen # <<>> THEN "answered"
                                   ELSE IF t = 3 THEN "concludes" ELSE "goes on"
             [] OTHER -> IF t = 3 \/ enough THEN "concludes" ELSE "goes on"
      /\ Observes(seen, reply) = IF reply \in React!TOOLS THEN app
                                 ELSE IF seen = <<>> THEN first ELSE seen
  BY <1>2, <1>3, Zenon DEF app, first, enough
<1>5. /\ reply \in {"raises", "bare"} => Fate(t) = "raised"
      /\ reply = "unknown" => Fate(t) = "invalid"
      /\ reply = "prose" => Fate(t) = "concludes"
      /\ (reply = "final" /\ seen # <<>>) => Fate(t) = "answered"
      /\ (reply = "final" /\ seen = <<>>)
           => /\ Fate(t) = IF t = 3 THEN "concludes" ELSE "goes on"
              /\ Observes(seen, reply) = first
      /\ reply \in React!TOOLS
           => /\ Fate(t) = IF t = 3 \/ enough THEN "concludes" ELSE "goes on"
              /\ Observes(seen, reply) = app
  BY <1>1, <1>4
<1>6. QED
  BY <1>5, Zenon DEF reply, seen, app, first, enough

LEMMA ChoosesRuns ==
  ASSUME MemoryInv, LastTarget, NEW c \in Clients, DOMAIN graph = Clients, CustomState(c),
         CustomRun(graph[c]), React!ChooseNextStep(c)
  PROVE  CustomRuns(c)
<1> DEFINE t == graph[c].turn
           reply == world.replies[t]
           asked == [graph[c] EXCEPT !.own = @ + 1]
           usage == React!Counted.token_usage
           k == React!Collected(asked)
           gives == [k EXCEPT !.at = "generate_final_answer"]
           acts == [asked EXCEPT !.at = "execute_tool"]
           answers == [asked EXCEPT !.at = "answered", !.answer = "answer", !.reported = usage]
<1>1. \/ reply \in {"raises", "bare"} /\ React!Raises(c) /\ memory' \in {memory, React!Counted}
      \/ /\ reply = "final" /\ asked.observations # <<>>
         /\ React!Answers(c, asked, "answer", usage)
      \/ /\ reply = "final" /\ asked.observations = <<>> /\ memory' = React!Counted
         /\ graph' = [graph EXCEPT ![c] = React!Turn(k)]
      \/ reply = "prose" /\ graph' = [graph EXCEPT ![c] = gives] /\ memory' = React!Counted
      \/ /\ reply \in React!TOOLS \cup {"unknown"} /\ memory' = React!Counted
         /\ graph' = [graph EXCEPT ![c] = acts]
  BY DEF React!ChooseNextStep
<1>2. CustomTurn(graph[c])
  BY DEF React!ChooseNextStep, React!Enters, CustomRun
<1>3. /\ DOMAIN asked = CustomFields /\ asked.observations = graph[c].observations
      /\ asked.turn = t /\ asked.target = graph[c].target
  BY DEF CustomState, CustomFields, React!initial_state
<1>4. /\ world.target # "raises" /\ Reached(t) /\ asked.observations = Seen(t)
      /\ asked.target = Target
  BY <1>2, <1>3 DEF CustomTurn
<1>5. MayRefer(React!Counted) /\ MayRefer(memory)
  BY DEF LastTarget, MayRefer, React!Counted, MemoryInv, React!initial_memory
<1>6. \A fate : Fate(t) = fate => Meets(fate)
  BY <1>4 DEF Meets, Reached
<1> HIDE DEF asked, usage, t
<1>7. CASE reply \in {"raises", "bare"} /\ React!Raises(c) /\ memory' \in {memory, React!Counted}
  <2>1. Meets("raised")
    BY <1>6, <1>7, FateIs
  <2>2. MayRefer(memory')
    BY <1>5, <1>7
  <2>3. QED
    BY <1>7, <2>1, <2>2, CustomRaisesRuns
<1>8. CASE reply = "final" /\ asked.observations # <<>> /\ React!Answers(c, asked, "answer", usage)
  <2>1. Meets("answered")
    BY <1>4, <1>6, <1>8, FateIs
  <2>2. graph' = [graph EXCEPT ![c] = answers] /\ memory'.last_target = memory.last_target
    BY <1>8 DEF React!Answers, MemoryInv, React!initial_memory
  <2>3. answers.at = "answered" /\ answers.answer = "answer"
    BY <1>3 DEF CustomFields, React!initial_state
  <2> HIDE DEF answers
  <2>4. CustomRun(answers)
    BY <1>4, <2>1, <2>3 DEF CustomRun
  <2>5. MayRefer(memory')
    BY <1>5, <2>2 DEF MayRefer
  <2>6. QED
    BY <2>2, <2>4, <2>5, CustomLeft
<1>9. ASSUME NEW g, graph' = [graph EXCEPT ![c] = g], memory' = React!Counted, CustomRun(g)
      PROVE  CustomRuns(c)
  <2>1. MayRefer(memory')
    BY <1>5, <1>9
  <2>2. QED
    BY <1>9, <2>1, CustomLeft
<1>10. CASE /\ reply = "final" /\ asked.observations = <<>> /\ memory' = React!Counted
            /\ graph' = [graph EXCEPT ![c] = React!Turn(k)]
  <2>1. /\ Fate(t) = IF t = 3 THEN "concludes" ELSE "goes on"
        /\ Observes(Seen(t), world.replies[t]) = <<React!required(Target)>>
    BY <1>4, <1>10, FateIs
  <2>2. k = [asked EXCEPT !.observations = <<React!required(Target)>>]
    BY <1>4, <1>10 DEF React!Collected
  <2> DEFINE o == <<React!required(Target)>>
  <2> HIDE DEF o
  <2>3. Observes(Seen(t), world.replies[t]) = o /\ k = [asked EXCEPT !.observations = o]
    BY <2>1, <2>2, Zenon DEF o
  <2> HIDE DEF k
  <2>4. /\ DOMAIN k = CustomFields /\ k.turn = t /\ k.target = Target
        /\ k.observations = Observes(Seen(t), world.replies[t])
    BY <1>3, <1>4, <2>3 DEF CustomFields, React!initial_state
  <2>5. CustomRun(React!Turn(k))
    BY <1>4, <2>1, <2>4, TurnRuns
  <2>6. QED
    BY <1>9, <1>10, <2>5
<1>11. CASE reply = "prose" /\ graph' = [graph EXCEPT ![c] = gives] /\ memory' = React!Counted
  <2>1. Meets("concludes")
    BY <1>6, <1>11, FateIs
  <2>2. DOMAIN k = CustomFields
    BY <1>3 DEF React!Collected, CustomFields, React!initial_state
  <2> HIDE DEF k
  <2>3. gives.at = "generate_final_answer"
    BY <2>2 DEF CustomFields, React!initial_state
  <2> HIDE DEF gives
  <2>4. CustomRun(gives)
    BY <1>4, <2>1, <2>3 DEF CustomRun
  <2>5. QED
    BY <1>9, <1>11, <2>4
<1>12. CASE /\ reply \in React!TOOLS \cup {"unknown"} /\ memory' = React!Counted
            /\ graph' = [graph EXCEPT ![c] = acts]
  <2>1. /\ acts.at = "execute_tool" /\ acts.turn = t /\ acts.observations = Seen(t)
        /\ acts.target = Target
    BY <1>3, <1>4 DEF CustomFields, React!initial_state
  <2> HIDE DEF acts
  <2>2. CustomTurn(acts)
    BY <1>4, <2>1 DEF CustomTurn
  <2>3. CustomRun(acts)
    BY <1>12, <2>1, <2>2 DEF CustomRun
  <2>4. QED
    BY <1>9, <1>12, <2>3
<1>13. QED
  BY <1>1, <1>7, <1>8, <1>10, <1>11, <1>12

LEMMA ExecutesRuns ==
  ASSUME LastTarget, NEW c \in Clients, DOMAIN graph = Clients, CustomState(c),
         CustomRun(graph[c]), React!ExecuteTool(c)
  PROVE  CustomRuns(c)
<1> DEFINE t == graph[c].turn
           action == world.replies[t]
           seen == [graph[c] EXCEPT !.observations = Append(@, action)]
           bad == [graph[c] EXCEPT !.at = "invalid", !.answer = "invalid_tool",
                                   !.reported = memory.token_usage]
           gives == [seen EXCEPT !.at = "generate_final_answer"]
<1>1. \/ action \notin React!TOOLS /\ graph' = [graph EXCEPT ![c] = bad]
      \/ action \in React!TOOLS /\ React!Enough(seen) /\ graph' = [graph EXCEPT ![c] = gives]
      \/ /\ action \in React!TOOLS /\ ~React!Enough(seen)
         /\ graph' = [graph EXCEPT ![c] = React!Turn(seen)]
  BY DEF React!ExecuteTool
<1>2. CustomTurn(graph[c]) /\ MayRefer(memory')
  BY DEF React!ExecuteTool, React!Enters, CustomRun, LastTarget
<1>3. /\ world.target # "raises" /\ Reached(t) /\ graph[c].observations = Seen(t)
      /\ graph[c].target = Target
  BY <1>2 DEF CustomTurn
<1> DEFINE app == Append(graph[c].observations, action)
<1>4. seen = [graph[c] EXCEPT !.observations = app]
  OBVIOUS
<1>5. app = Append(Seen(t), action)
  BY <1>3
<1>6. bad.at = "invalid" /\ bad.answer = "invalid_tool"
  BY DEF CustomState, CustomFields, React!initial_state
<1> HIDE DEF t, app, bad, seen
<1>7. DOMAIN seen = CustomFields /\ seen.turn = t /\ seen.target = Target /\ seen.observations = app
  BY <1>3, <1>4 DEF CustomState, CustomFields, React!initial_state, t
<1>8. Suffices(app) = React!Enough(seen)
  BY <1>7 DEF Suffices, React!Enough
<1>9. CASE action \notin React!TOOLS /\ graph' = [graph EXCEPT ![c] = bad]
  <2>1. CustomRun(bad)
    BY <1>6 DEF CustomRun
  <2>2. QED
    BY <1>2, <1>9, <2>1, CustomLeft
<1>10. action \in React!TOOLS
       => /\ Fate(t) = IF t = 3 \/ Suffices(app) THEN "concludes" ELSE "goes on"
          /\ Observes(Seen(t), world.replies[t]) = app
  BY <1>5, FateIs
<1>11. CASE action \in React!TOOLS /\ React!Enough(seen) /\ graph' = [graph EXCEPT ![c] = gives]
  <2>1. Meets("concludes")
    BY <1>3, <1>8, <1>10, <1>11 DEF Meets, Reached
  <2>2. gives.at = "generate_final_answer"
    BY <1>7 DEF CustomFields, React!initial_state
  <2> HIDE DEF gives
  <2>3. CustomRun(gives)
    BY <1>3, <2>1, <2>2 DEF CustomRun
  <2>4. QED
    BY <1>2, <1>11, <2>3, CustomLeft
<1>12. CASE /\ action \in React!TOOLS /\ ~React!Enough(seen)
            /\ graph' = [graph EXCEPT ![c] = React!Turn(seen)]
  <2>1. /\ Fate(t) = IF t = 3 THEN "concludes" ELSE "goes on"
        /\ seen.observations = Observes(Seen(t), world.replies[t])
    BY <1>7, <1>8, <1>10, <1>12
  <2>2. CustomRun(React!Turn(seen))
    BY <1>3, <1>7, <2>1, TurnRuns
  <2>3. QED
    BY <1>2, <1>12, <2>2, CustomLeft
<1>13. QED
  BY <1>1, <1>9, <1>11, <1>12

LEMMA CustomRunsOn ==
  ASSUME MemoryInv, LastTarget, NEW c \in Clients, DOMAIN graph = Clients, CustomState(c),
         CustomRun(graph[c]), React!Step(c)
  PROVE  CustomRuns(c)
BY ExtractsRuns, ChoosesRuns, ExecutesRuns, ConcludesRuns DEF React!Step

\* The target and the replies of the model do not change.
LEMMA SameCustom ==
  ASSUME world' = world, NEW c
  PROVE  /\ CustomRun(graph[c])' <=> CustomRun(graph'[c])
         /\ LastTarget' <=> MayRefer(memory')
<1>1. Target' = Target
  BY DEF Target
<1>2. \A seen, reply : Observes(seen, reply)' = Observes(seen, reply)
  BY <1>1 DEF Observes
<1>3. \A t : Seen(t)' = Seen(t)
  BY <1>2 DEF Seen
<1>4. \A seen : Suffices(seen)' <=> Suffices(seen)
  BY <1>1 DEF Suffices
<1>5. \A t : Fate(t)' = Fate(t)
  BY <1>3, <1>4 DEF Fate
<1>6. (\A t : Reached(t)' <=> Reached(t)) /\ (\A fate : Meets(fate)' <=> Meets(fate))
  BY <1>5 DEF Reached, Meets
<1>7. CustomTurn(graph[c])' <=> CustomTurn(graph'[c])
  BY <1>1, <1>3, <1>6 DEF CustomTurn
<1>8. CustomRun(graph[c])' <=> CustomRun(graph'[c])
  BY <1>6, <1>7 DEF CustomRun
<1>9. QED
  BY <1>8 DEF LastTarget, MayRefer

LEMMA CustomAgreesKept ==
  ASSUME AInv, CustomAgrees, [Next]_vars
  PROVE  CustomAgrees'
<1>1. scenario' = scenario /\ world' = world
  BY SetupStays DEF AInv
<1>2. CASE mode # "ioa_v2_custom"
  BY <1>1, <1>2 DEF CustomAgrees, mode
<1>3. CASE mode = "ioa_v2_custom"
  <2>1. /\ LastTarget /\ MemoryInv /\ DOMAIN graph = Clients
        /\ \A c \in Clients : CustomRun(graph[c]) /\ CustomState(c)
    BY <1>3 DEF CustomAgrees, AInv, CustomInv, IInv, Typed
  <2>2. SUFFICES MayRefer(memory') /\ \A c \in Clients : CustomRun(graph'[c])
    BY <1>1, SameCustom DEF CustomAgrees
  <2>3. MayRefer(memory)
    BY <2>1 DEF LastTarget
  <2>4. CASE AgentsRest
    BY <2>1, <2>3, <2>4 DEF AgentsRest
  <2>5. ASSUME NEW d \in Clients, NEW g, graph' = [graph EXCEPT ![d] = g], memory' = memory,
               CustomRun(g)
        PROVE  MayRefer(memory') /\ \A c \in Clients : CustomRun(graph'[c])
    <3>1. CustomRuns(d)
      BY <2>1, <2>3, <2>5, CustomLeft
    <3>2. QED
      BY <2>1, <3>1 DEF CustomRuns
  <2>6. ASSUME NEW d \in Clients, AgentStarts(d)
        PROVE  MayRefer(memory') /\ \A c \in Clients : CustomRun(graph'[c])
    <3> DEFINE g == [graph[d] EXCEPT !.at = "extract_target"]
    <3>1. graph' = [graph EXCEPT ![d] = g] /\ memory' = memory /\ graph[d].at = "off"
      BY <1>3, <2>6 DEF AgentStarts, StartAgent, React!Start
    <3>2. /\ g.at = "extract_target" /\ g.turn = graph[d].turn
          /\ g.observations = graph[d].observations
      BY <2>1 DEF CustomState, CustomFields, React!initial_state
    <3>3. CustomRun(graph[d])
      BY <2>1
    <3> HIDE DEF g
    <3>4. CustomRun(g)
      BY <3>1, <3>2, <3>3 DEF CustomRun
    <3>5. QED
      BY <2>5, <3>1, <3>4
  <2>7. ASSUME NEW d \in Clients, AgentMoves(d)
        PROVE  MayRefer(memory') /\ \A c \in Clients : CustomRun(graph'[c])
    <3>1. React!Step(d)
      BY <1>3, <2>7 DEF AgentMoves, AgentStep
    <3>2. CustomRuns(d)
      BY <2>1, <3>1, CustomRunsOn
    <3>3. QED
      BY <2>1, <3>2 DEF CustomRuns
  <2>8. ASSUME NEW d \in Clients, AgentCloses(d)
        PROVE  MayRefer(memory') /\ \A c \in Clients : CustomRun(graph'[c])
    <3> DEFINE at == IF graph[d].at \in {"answered", "denied", "failed", "invalid", "off"}
                     THEN graph[d].at ELSE "closed"
               g == [graph[d] EXCEPT !.at = at]
    <3>1. graph' = [graph EXCEPT ![d] = g] /\ memory' = memory
      BY <2>8 DEF AgentCloses
    <3>2. at = graph[d].at \/ at = "closed"
      OBVIOUS
    <3> HIDE DEF at
    <3>3. /\ g.at = at /\ g.turn = graph[d].turn /\ g.target = graph[d].target
          /\ g.observations = graph[d].observations /\ g.answer = graph[d].answer
      BY <2>1 DEF CustomState, CustomFields, React!initial_state
    <3>4. CustomRun(graph[d])
      BY <2>1
    <3> HIDE DEF g
    <3>5. CASE at = "closed"
      <4>1. CustomRun(g)
        BY <3>3, <3>5 DEF CustomRun
      <4>2. QED
        BY <2>5, <3>1, <4>1
    <3>6. CASE at = graph[d].at
      <4>1. CustomTurn(g) <=> CustomTurn(graph[d])
        BY <3>3 DEF CustomTurn
      <4>2. CustomRun(g)
        BY <3>3, <3>4, <3>6, <4>1 DEF CustomRun
      <4>3. QED
        BY <2>5, <3>1, <4>2
    <3>7. QED
      BY <3>2, <3>5, <3>6
  <2>9. QED
    BY <2>4, <2>6, <2>7, <2>8, Moves DEF AInv
<1>4. QED
  BY <1>2, <1>3

-----------------------------------------------------------------------------
(* What a client is told, action by action. *)

\* Every script of a runtime calls it, and logs that it did but the streams of v1.
LEMMA CalledScripts ==
  ASSUME NEW c, mode \in Called
  PROVE  /\ \E i \in DOMAIN Script(c) : Script(c)[i].type = "call"
         /\ mode = "ioa_v1_custom" \/ \E i \in DOMAIN Script(c) : Script(c)[i].type = "log"
<1>1. mode \in Modes
  BY DEF Modes
<1>2. ScriptShape(Script(c), c)
  BY <1>1, ScriptsAreShaped
<1>3. mode = "ioa_v1_custom" \/ \E i \in DOMAIN Script(c) : Script(c)[i].type = "log"
  BY <1>2 DEF ScriptShape
<1>4. Call.type = "call"
  BY DEF Call
<1>5. CASE c \notin Streams
  <2> DEFINE s == JsonScript
  <2>1. s = <<Call, Log("success"), Final("answer")>>
    BY DEF JsonScript
  <2>2. 1 \in DOMAIN s /\ s[1] = Call
    BY <2>1
  <2>3. Script(c) = s
    BY <1>5 DEF Script
  <2>4. QED
    BY <1>3, <1>4, <2>2, <2>3
<1>6. CASE c \in Streams
  <2> DEFINE s == StreamScript
  <2>1. Script(c) = s
    BY <1>6 DEF Script
  <2>2. CASE mode = "ioa_v1_custom"
    <3>1. s = <<Call, Final("answer")>>
      BY <2>2 DEF StreamScript
    <3>2. 1 \in DOMAIN s /\ s[1] = Call
      BY <3>1
    <3>3. QED
      BY <1>4, <2>1, <2>2, <3>2
  <2>3. CASE mode \in {"ioa_v2_langchain", "ioa_v2_n8n"}
    <3>1. 4 \in DOMAIN s /\ s[4] = Call
      BY <2>3 DEF StreamScript, Relayed
    <3>2. QED
      BY <1>3, <1>4, <2>1, <3>1
  <2>4. CASE mode = "ioa_v2_dify"
    <3>1. 2 \in DOMAIN s /\ s[2] = Call
      BY <2>4 DEF StreamScript, Relayed
    <3>2. QED
      BY <1>3, <1>4, <2>1, <3>1
  <2>5. QED
    BY <2>2, <2>3, <2>4 DEF Called
<1>7. QED
  BY <1>5, <1>6

LEMMA ToldFrame ==
  ASSUME Fixed, NEW d, Told(d), Untouched(d)
  PROVE  Told(d)'
<1>1. mode' = mode /\ Script(d)' = Script(d) /\ world' = world
  BY SameScripts DEF Fixed
<1>2. job'[d] = job[d] /\ wire'[d] = wire[d] /\ graph'[d] = graph[d]
  BY DEF Untouched
<1>3. ToldByAgent(d)' <=> ToldByAgent(d)
  BY <1>1, <1>2 DEF ToldByAgent, Serving, Sent
<1>4. ToldByCall(d)' <=> ToldByCall(d)
  BY <1>1, <1>2 DEF ToldByCall, Serving, Sent, Left, Broken
<1>5. QED
  BY <1>1, <1>3, <1>4 DEF Told

\* An event that was sent.
LEMMA SentNow ==
  ASSUME NEW c, EventSeq(wire[c]), NEW e, e.type \in Types, wire'[c] = Append(wire[c], e)
  PROVE  Sent(c, "final")' <=> (Sent(c, "final") \/ e.type = "final")
<1> DEFINE w == wire[c]
           v == wire'[c]
           n == Len(w)
<1>1. /\ n \in Nat /\ DOMAIN w = 1 .. n /\ DOMAIN v = 1 .. n + 1
      /\ (\A i \in DOMAIN w : v[i] = w[i]) /\ v[n + 1] = e
  BY EventAppended
<1> HIDE DEF w, v, n
<1>2. (\E i \in DOMAIN v : v[i].type = "final")
      <=> (\E i \in DOMAIN w : w[i].type = "final") \/ e.type = "final"
  <2>1. \A i \in DOMAIN v : i \in DOMAIN w \/ i = n + 1
    BY <1>1
  <2>2. \A i \in DOMAIN w : i \in DOMAIN v
    BY <1>1
  <2>3. n + 1 \in DOMAIN v
    BY <1>1
  <2>4. QED
    BY <1>1, <2>1, <2>2, <2>3
<1>3. QED
  BY <1>2 DEF Sent, w, v

\* What is left of a script in which the next item is done.
LEMMA StillLeft ==
  ASSUME IInv, NEW c \in Clients, job[c].at = "serving", job[c].todo # <<>>, Advances(c)
  PROVE  /\ job'[c].at = "serving" /\ job'[c].handling = job[c].handling
         /\ \A type : Left(c, type) /\ Current(c).type # type => Left(c, type)'
         /\ Len(job[c].todo) = 1 => \A type : Left(c, type) => Current(c).type = type
         /\ job[c].todo = Script(c) => Current(c) = Script(c)[1]
<1> DEFINE t == job[c].todo
           u == Tail(t)
           m == Len(t)
<1>1. /\ m \in Nat \ {0} /\ DOMAIN t = 1 .. m /\ DOMAIN u = 1 .. m - 1
      /\ (\A i \in DOMAIN u : u[i] = t[i + 1]) /\ Current(c) = t[1]
  BY NextItem
<1>2. job \in [Clients -> Job]
  BY DEF IInv, Typed
<1>3. /\ job'[c].at = "serving" /\ job'[c].handling = job[c].handling /\ job'[c].todo = u
  BY <1>2 DEF Advances, Job
<1> DEFINE e == Current(c)
<1> HIDE DEF u, m, e
<1>4. ASSUME NEW type, Left(c, type), e.type # type
      PROVE  Left(c, type)'
  <2>1. PICK i \in DOMAIN t : t[i].type = type
    BY <1>4 DEF Left
  <2>2. i # 1 /\ i \in 1 .. m
    BY <1>1, <1>4, <2>1 DEF e
  <2>3. i - 1 \in DOMAIN u /\ (i - 1) + 1 = i
    BY <1>1, <2>2
  <2>4. u[i - 1].type = type
    BY <1>1, <2>1, <2>3
  <2>5. QED
    BY <1>3, <2>3, <2>4 DEF Left
<1>5. ASSUME m = 1, NEW type, Left(c, type)
      PROVE  e.type = type
  <2>1. \A i \in DOMAIN t : i = 1
    BY <1>1, <1>5
  <2>2. QED
    BY <1>1, <1>5, <2>1 DEF Left, e
<1>6. t = Script(c) => e = Script(c)[1]
  BY <1>1 DEF e
<1>7. QED
  BY <1>3, <1>4, <1>5, <1>6 DEF e, m

\* An item of the script or of the handler is done.
LEMMA ToldDone ==
  ASSUME IInv, NEW c \in Clients, Told(c), job[c].at = "serving", job[c].todo # <<>>, Done1(c),
         Current(c).type = "call" => world.remote # "raises",
         Current(c).type = "log" => world.log # "raises",
         Current(c).type = "agent" => graph[c].at \in Done
  PROVE  Told(c)'
<1> DEFINE e == Current(c)
<1>1. /\ mode \in Modes /\ EventSeq(wire[c]) /\ DOMAIN wire = Clients
      /\ mode' = mode /\ Script(c)' = Script(c) /\ world' = world /\ graph' = graph
  BY SameScripts DEF IInv, Typed, Done1, Fixed
<1>2. /\ job'[c].at = "serving" /\ job'[c].handling = job[c].handling
      /\ \A type : Left(c, type) /\ e.type # type => Left(c, type)'
      /\ Len(job[c].todo) = 1 => \A type : Left(c, type) => e.type = type
      /\ job[c].todo = Script(c) => e = Script(c)[1]
  BY StillLeft DEF Done1
<1>3. Sent(c, "final")' <=> (Sent(c, "final") \/ e.type = "final")
  <2>1. CASE e.type \in Types
    <3>1. wire'[c] = Append(wire[c], e)
      BY <1>1, <2>1 DEF Done1
    <3>2. QED
      BY <1>1, <2>1, <3>1, SentNow
  <2>2. CASE e.type \notin Types
    <3>1. wire' = wire /\ e.type # "final"
      BY <2>2 DEF Done1, Types
    <3>2. QED
      BY <3>1 DEF Sent
  <2>3. QED
    BY <2>1, <2>2
<1>4. /\ e.type = "final" => ~job[c].handling
      /\ (e.type = "final" /\ ~job[c].handling) => Len(job[c].todo) = 1
  BY NextItem DEF Ends
<1> HIDE DEF e
<1>5. CASE mode \in AgentModes
  <2>1. ToldByAgent(c) /\ mode \notin Called
    BY <1>5 DEF Told, AgentModes
  <2>2. job[c].todo = Script(c) => e.type = "agent"
    BY <1>1, <1>2, <1>5, ScriptsAreShaped DEF ScriptShape
  <2>3. ~job[c].handling => graph[c].at \in Done
    BY <2>1, <2>2 DEF ToldByAgent, Serving, e
  <2>4. ToldByAgent(c)'
    BY <1>1, <1>2, <1>3, <1>4, <2>1, <2>3 DEF ToldByAgent, Serving
  <2>5. QED
    BY <1>1, <2>1, <2>4 DEF Told
<1>6. CASE mode \in Called
  <2>1. ToldByCall(c) /\ mode \notin AgentModes
    BY <1>6 DEF Told, AgentModes
  <2>2. world.remote = "raises" /\ ~job[c].handling => Left(c, "call") /\ e.type # "call"
    BY <2>1 DEF ToldByCall, Serving, e
  <2>3. world.log = "raises" /\ ~job[c].handling /\ mode # "ioa_v1_custom"
        => Left(c, "log") /\ e.type # "log"
    BY <2>1 DEF ToldByCall, Serving, e
  <2>4. e.type = "final" => /\ world.remote # "raises"
                            /\ world.log = "raises" => mode = "ioa_v1_custom"
    BY <1>2, <1>4, <2>2, <2>3
  <2>5. ToldByCall(c)'
    BY <1>1, <1>2, <1>3, <2>1, <2>2, <2>3, <2>4 DEF ToldByCall, Serving, Broken
  <2>6. QED
    BY <1>1, <2>1, <2>5 DEF Told
<1>7. QED
  BY <1>1, <1>5, <1>6 DEF AgentModes

\* It fails.
LEMMA ToldRaised ==
  ASSUME IInv, NEW c \in Clients, Told(c), job[c].at = "serving", job[c].todo # <<>>, Raised(c),
         Current(c).type = "call" => world.remote = "raises"
  PROVE  Told(c)'
<1> DEFINE e == Current(c)
<1>1. /\ mode \in Modes /\ mode' = mode /\ world' = world /\ graph' = graph /\ wire' = wire
  BY SameScripts DEF IInv, Typed, Raised, Fixed
<1>2. job'[c].at = "serving" /\ job'[c].handling
  BY DEF IInv, Typed, Job, Raised, Fails
<1>3. Sent(c, "final")' <=> Sent(c, "final")
  BY <1>1 DEF Sent
<1>4. \/ e.type = "agent" /\ graph[c].at = "raised"
      \/ e.type = "call" /\ world.remote = "raises"
      \/ e.type = "log" /\ world.log = "raises"
      \/ e.type \in Types /\ ~Renders(e)
  BY DEF Raised
<1>5. ~job[c].handling =>
        /\ e.type = "agent" => mode \in AgentModes
        /\ e.node = "preview" => mode = "ioa_v2_n8n"
        /\ e.node = "first_step" => mode = "ioa_v2_langchain"
        /\ mode \in AgentModes => e.type # "call" /\ (e.type \in Types => Renders(e))
  <2>1. ASSUME ~job[c].handling
        PROVE  Position(c) + 1 \in DOMAIN Script(c) /\ e = Script(c)[Position(c) + 1]
    BY <2>1, NextItem
  <2>2. QED
    BY <1>1, <2>1, ScriptsAreShaped DEF ScriptShape
<1> HIDE DEF e
<1>6. CASE mode \in AgentModes
  <2>1. ToldByAgent(c) /\ mode \notin Called
    BY <1>6 DEF Told, AgentModes
  <2>2. world.log # "raises" => graph[c].at = "raised"
    BY <1>4, <1>5, <1>6, <2>1 DEF ToldByAgent
  <2>3. ToldByAgent(c)'
    BY <1>1, <1>2, <1>3, <2>1, <2>2 DEF ToldByAgent, Serving
  <2>4. QED
    BY <1>1, <2>1, <2>3 DEF Told
<1>7. CASE mode \in Called
  <2>1. ToldByCall(c) /\ mode \notin AgentModes
    BY <1>7 DEF Told, AgentModes
  <2>2. ~Renders(e) => (e.node = "preview" /\ world.remote = "object")
                       \/ (e.node = "first_step" /\ world.remote = "silent")
    BY DEF Renders
  <2>3. Broken
    BY <1>4, <1>5, <2>1, <2>2 DEF ToldByCall, Broken
  <2>4. ToldByCall(c)'
    BY <1>1, <1>2, <1>3, <2>1, <2>3 DEF ToldByCall, Serving, Broken
  <2>5. QED
    BY <1>1, <2>1, <2>4 DEF Told
<1>8. QED
  BY <1>1, <1>6, <1>7 DEF AgentModes

Tells(c) == Told(c)' /\ Fixed /\ \A d \in Clients \ {c} : Untouched(d)

LEMMA DoneTells ==
  ASSUME IInv, NEW c \in Clients, Told(c), job[c].at = "serving", job[c].todo # <<>>, Done1(c),
         Current(c).type = "call" => world.remote # "raises",
         Current(c).type = "log" => world.log # "raises",
         Current(c).type = "agent" => graph[c].at \in Done
  PROVE  Tells(c)
<1>1. \A d \in Clients \ {c} : Untouched(d)
  BY DEF IInv, Typed, Done1, Advances, Untouched
<1>2. QED
  BY <1>1, ToldDone DEF Tells, Done1

LEMMA RaisedTells ==
  ASSUME IInv, NEW c \in Clients, Told(c), job[c].at = "serving", job[c].todo # <<>>, Raised(c),
         Current(c).type = "call" => world.remote = "raises"
  PROVE  Tells(c)
<1>1. \A d \in Clients \ {c} : Untouched(d)
  BY DEF IInv, Typed, Raised, Fails, Untouched
<1>2. QED
  BY <1>1, ToldRaised DEF Tells, Raised

LEMMA ReturnTells ==
  ASSUME IInv, NEW c \in Clients, Told(c), AgentReturns(c)
  PROVE  Tells(c)
<1>1. /\ job[c].at = "serving" /\ job[c].todo # <<>> /\ Current(c).type = "agent"
      /\ outbox[c] = <<>> /\ holder' = c /\ UNCHANGED <<scenario, wire, logs, graph, outbox, world>>
  BY DEF AgentReturns, Item, Runs, agentVars
<1>2. /\ Current(c).type \notin Types /\ Current(c).type # "log"
      /\ Current(c).type # "call"
  BY <1>1 DEF Types
<1>3. CASE graph[c].at \in {"answered", "denied", "failed", "invalid"} /\ Advances(c)
  <2>1. Done1(c) /\ graph[c].at \in Done
    BY <1>1, <1>2, <1>3 DEF Done1, Fixed, Done
  <2>2. QED
    BY <1>1, <1>2, <2>1, DoneTells
<1>4. CASE graph[c].at = "raised" /\ Fails(c)
  <2>1. Raised(c)
    BY <1>1, <1>4 DEF Raised, Fixed
  <2>2. QED
    BY <1>1, <1>2, <2>1, RaisedTells
<1>5. QED
  BY <1>3, <1>4 DEF AgentReturns

LEMMA SendTells ==
  ASSUME IInv, NEW c \in Clients, Told(c), Send(c)
  PROVE  Tells(c)
<1>1. /\ job[c].at = "serving" /\ job[c].todo # <<>> /\ Current(c).type \in Types
      /\ UNCHANGED <<scenario, logs, graph, outbox, world>>
  BY DEF Send, Runs, agentVars
<1>2. /\ Current(c).type # "log" /\ Current(c).type # "agent"
      /\ Current(c).type # "call"
  BY <1>1 DEF Types
<1>3. CASE Renders(Current(c))
  <2>1. /\ Advances(c) /\ holder' = Nobody
        /\ wire' = [wire EXCEPT ![c] = Append(@, Current(c))]
    BY <1>3 DEF Send, Sends
  <2>2. Done1(c)
    BY <1>1, <1>2, <2>1 DEF Done1, Fixed
  <2>3. QED
    BY <1>1, <1>2, <2>2, DoneTells
<1>4. CASE ~Renders(Current(c))
  <2>1. Fails(c) /\ holder' = c /\ wire' = wire
    BY <1>4 DEF Send
  <2>2. Raised(c)
    BY <1>1, <1>4, <2>1 DEF Raised, Fixed
  <2>3. QED
    BY <1>1, <1>2, <2>2, RaisedTells
<1>5. QED
  BY <1>3, <1>4

LEMMA CallTells ==
  ASSUME IInv, NEW c \in Clients, Told(c), CallRuntime(c)
  PROVE  Tells(c)
<1>1. /\ job[c].at = "serving" /\ job[c].todo # <<>> /\ Current(c).type = "call" /\ holder' = c
      /\ UNCHANGED <<scenario, wire, logs, graph, outbox, world>>
  BY DEF CallRuntime, Item, Runs, agentVars
<1>2. Current(c).type \notin Types /\ Current(c).type # "log" /\ Current(c).type # "agent"
  BY <1>1 DEF Types
<1>3. CASE Advances(c) /\ world.remote # "raises"
  <2>1. Done1(c)
    BY <1>1, <1>2, <1>3 DEF Done1, Fixed
  <2>2. QED
    BY <1>1, <1>2, <1>3, <2>1, DoneTells
<1>4. CASE Fails(c) /\ world.remote = "raises"
  <2>1. Raised(c)
    BY <1>1, <1>4 DEF Raised, Fixed
  <2>2. QED
    BY <1>1, <1>4, <2>1, RaisedTells
<1>5. QED
  BY <1>3, <1>4 DEF CallRuntime

LEMMA LogTells ==
  ASSUME IInv, NEW c \in Clients, Told(c), LogBenchmark(c)
  PROVE  Tells(c)
<1>1. /\ job[c].at = "serving" /\ job[c].todo # <<>> /\ Current(c).type = "log" /\ holder' = c
      /\ UNCHANGED <<scenario, wire, graph, outbox, world>>
  BY DEF LogBenchmark, Item, Runs, agentVars
<1>2. Current(c).type \notin Types /\ Current(c).type # "agent" /\ Current(c).type # "call"
  BY <1>1 DEF Types
<1>3. CASE /\ world.log # "raises" /\ Advances(c)
           /\ logs' = [logs EXCEPT ![c] = Append(@, Current(c).node)]
  <2>1. Done1(c)
    BY <1>1, <1>2, <1>3 DEF Done1, Fixed
  <2>2. QED
    BY <1>1, <1>2, <1>3, <2>1, DoneTells
<1>4. CASE world.log = "raises" /\ Fails(c) /\ UNCHANGED logs
  <2>1. Raised(c)
    BY <1>1, <1>4 DEF Raised, Fixed
  <2>2. QED
    BY <1>1, <1>2, <2>1, RaisedTells
<1>5. QED
  BY <1>3, <1>4 DEF LogBenchmark

LEMMA AdmitTells ==
  ASSUME IInv, NEW c \in Clients, Told(c), Admit(c)
  PROVE  Tells(c)
<1>1. Typed /\ mode \in Modes /\ job[c].at = "idle"
  BY DEF IInv, Typed, Admit
<1>2. graph[c].at = "off" /\ wire[c] = <<>> /\ ~job[c].handling
  BY <1>1 DEF IInv, Sound, AtRest
<1>3. /\ world' = world /\ outbox' = outbox
      /\ \A d \in Clients \ {c} : graph'[d] = graph[d]
  BY <1>1, <1>2, StartAgentState DEF Admit
<1>4. scenario' = scenario /\ wire' = wire /\ logs' = logs
  BY DEF Admit
<1>5. mode' = mode /\ Script(c)' = Script(c) /\ Fixed
  BY <1>3, <1>4, SameScripts DEF Fixed
<1>6. job' = [job EXCEPT ![c].at = "serving", ![c].todo = Script(c)]
  BY DEF Admit, Script
<1>7. /\ job'[c].at = "serving" /\ job'[c].todo = Script(c) /\ ~job'[c].handling
      /\ \A d \in Clients \ {c} : job'[d] = job[d]
  BY <1>1, <1>2, <1>6 DEF Typed, Job
<1>8. ~Sent(c, "final")'
  BY <1>2, <1>4 DEF Sent
<1>9. ToldByAgent(c)'
  BY <1>5, <1>7, <1>8 DEF ToldByAgent, Serving
<1>10. mode \in Called => ToldByCall(c)'
  <2>1. ASSUME mode \in Called
        PROVE  Left(c, "call")' /\ (mode = "ioa_v1_custom" \/ Left(c, "log")')
    BY <1>7, <2>1, CalledScripts DEF Left
  <2>2. QED
    BY <1>5, <1>7, <1>8, <2>1 DEF ToldByCall, Serving
<1>11. Told(c)'
  BY <1>5, <1>9, <1>10 DEF Told
<1>12. QED
  BY <1>3, <1>4, <1>5, <1>7, <1>11 DEF Tells, Untouched

LEMMA RefuseTells ==
  ASSUME IInv, NEW c \in Clients, Told(c), Refuse(c)
  PROVE  Tells(c)
<1>1. Typed /\ job[c].at = "idle" /\ ~job[c].handling
  BY DEF IInv, Typed, Refuse, Sound, AtRest
<1>2. /\ UNCHANGED <<scenario, logs, graph, outbox, world>>
      /\ job' = [job EXCEPT ![c].at = "ended"] /\ wire' = [wire EXCEPT ![c] = <<Error>>]
  BY DEF Refuse, agentVars
<1>3. /\ job'[c].at = "ended" /\ ~job'[c].handling /\ wire'[c] = <<Error>>
      /\ \A d \in Clients \ {c} : job'[d] = job[d] /\ wire'[d] = wire[d]
  BY <1>1, <1>2 DEF Typed, Job
<1>4. ~Sent(c, "final")'
  <2> DEFINE v == <<Error>>
  <2>1. DOMAIN v = {1} /\ v[1].type # "final"
    BY DEF Error
  <2>2. QED
    BY <1>3, <2>1 DEF Sent
<1>5. Told(c)'
  BY <1>3, <1>4 DEF Told, ToldByAgent, ToldByCall, Serving
<1>6. QED
  BY <1>2, <1>3, <1>5 DEF Tells, Untouched, Fixed

LEMMA RunTells ==
  ASSUME IInv, NEW c \in Clients, Told(c), RunAgent(c)
  PROVE  Tells(c)
<1>1. Outcome(c)
  BY AgentSteps DEF RunAgent, IInv
<1>2. /\ graph[c].at \in Working /\ UNCHANGED <<scenario, job, wire, logs>> /\ world' = world
      /\ \A d \in Clients \ {c} : graph'[d] = graph[d] /\ outbox'[d] = outbox[d]
  BY <1>1 DEF RunAgent, Outcome
<1>3. Serving(c) /\ job[c].todo = Script(c) /\ mode \in AgentModes
  BY <1>2 DEF IInv, Sound, AtWork
<1>4. mode' = mode /\ Script(c)' = Script(c) /\ Fixed
  BY <1>2, SameScripts DEF Fixed
<1>5. ToldByAgent(c) /\ mode \notin Called
  BY <1>3 DEF Told, AgentModes
<1>6. ~Sent(c, "final")
  BY <1>2, <1>5 DEF ToldByAgent, Working, Done
<1>7. ToldByAgent(c)'
  BY <1>2, <1>3, <1>4, <1>6 DEF ToldByAgent, Serving, Sent
<1>8. Told(c)'
  BY <1>4, <1>5, <1>7 DEF Told
<1>9. QED
  BY <1>2, <1>4, <1>8 DEF Tells, Untouched

LEMMA RelayTells ==
  ASSUME IInv, NEW c \in Clients, Told(c), Relay(c)
  PROVE  Tells(c)
<1> DEFINE o == outbox[c]
           e == Head(o)
<1>1. /\ o # <<>> /\ UNCHANGED <<scenario, job, logs, graph, world>>
      /\ outbox' = [outbox EXCEPT ![c] = Tail(o)]
      /\ wire' = [wire EXCEPT ![c] = Append(@, e)]
  BY DEF Relay, Sends
<1>2. /\ DOMAIN wire = Clients /\ DOMAIN outbox = Clients /\ EventSeq(wire[c]) /\ EventSeq(o)
  BY DEF IInv, Typed
<1>3. mode \in AgentModes /\ (Ending(o) => graph[c].at \in Done)
  BY <1>1 DEF IInv, Sound, AtWork
<1>4. e.type \in Types /\ e = o[1] /\ 1 \in DOMAIN o
  <2>1. e = o[1] /\ e.type \in Types /\ Len(o) \in Nat \ {0} /\ DOMAIN o = 1 .. Len(o)
    BY <1>1, <1>2, EventTaken
  <2>2. QED
    BY <2>1
<1>5. e.type = "final" => graph[c].at \in Done
  BY <1>3, <1>4 DEF Ending, Ends
<1> HIDE DEF e
<1>6. Sent(c, "final")' <=> (Sent(c, "final") \/ e.type = "final")
  BY <1>1, <1>2, <1>4, SentNow
<1>7. mode' = mode /\ Script(c)' = Script(c) /\ Fixed
  BY <1>1, SameScripts DEF Fixed
<1>8. ToldByAgent(c) /\ mode \notin Called
  BY <1>3 DEF Told, AgentModes
<1>9. ToldByAgent(c)'
  BY <1>1, <1>5, <1>6, <1>7, <1>8 DEF ToldByAgent, Serving
<1>10. Told(c)'
  BY <1>7, <1>8, <1>9 DEF Told
<1>11. \A d \in Clients \ {c} : Untouched(d)
  BY <1>1, <1>2 DEF Untouched
<1>12. QED
  BY <1>7, <1>10, <1>11 DEF Tells

LEMMA FinishTells ==
  ASSUME IInv, NEW c \in Clients, Told(c), Finish(c)
  PROVE  Tells(c)
<1>1. UNCHANGED <<scenario, wire, logs, graph, outbox, world>> /\ job[c].at = "serving"
  BY DEF Finish, Runs, agentVars
<1>2. /\ job'[c].at = "ended" /\ job'[c].handling = job[c].handling
      /\ \A d \in Clients \ {c} : job'[d] = job[d]
  BY DEF IInv, Typed, Job, Finish
<1>3. mode' = mode /\ Fixed
  BY <1>1, SameScripts DEF Fixed
<1>4. ToldByAgent(c) => ToldByAgent(c)'
  BY <1>1, <1>2 DEF ToldByAgent, Serving, Sent
<1>5. ToldByCall(c) => ToldByCall(c)'
  BY <1>1, <1>2, <1>3 DEF ToldByCall, Serving, Sent, Broken
<1>6. QED
  BY <1>1, <1>2, <1>3, <1>4, <1>5 DEF Told, Tells, Untouched

LEMMA DisconnectTells ==
  ASSUME IInv, NEW c \in Clients, Told(c), Disconnect(c)
  PROVE  Tells(c)
<1> DEFINE at == IF graph[c].at \in {"answered", "denied", "failed", "invalid", "off"}
                 THEN graph[c].at ELSE "closed"
<1>1. /\ UNCHANGED <<scenario, wire, logs, world>>
      /\ graph' = [graph EXCEPT ![c].at = at] /\ outbox' = [outbox EXCEPT ![c] = <<>>]
      /\ job' = [job EXCEPT ![c].at = "gone", ![c].todo = <<>>]
  BY DEF Disconnect
<1>2. graph[c].at \in Done => at \in Done
  BY DEF Done
<1> HIDE DEF at
<1>3. /\ DOMAIN graph = Clients /\ DOMAIN outbox = Clients /\ "at" \in DOMAIN graph[c]
      /\ job \in [Clients -> Job]
  BY DEF IInv, Typed, AgentState
<1>4. /\ job'[c].at = "gone" /\ job'[c].handling = job[c].handling /\ graph'[c].at = at
  BY <1>1, <1>3 DEF Job
<1>5. \A d \in Clients \ {c} : Untouched(d)
  BY <1>1, <1>3 DEF Untouched
<1>6. mode' = mode /\ Fixed
  BY <1>1, SameScripts DEF Fixed
<1>7. ToldByAgent(c) => ToldByAgent(c)'
  BY <1>1, <1>2, <1>4 DEF ToldByAgent, Serving, Sent
<1>8. ToldByCall(c) => ToldByCall(c)'
  BY <1>1, <1>4, <1>6 DEF ToldByCall, Serving, Sent, Broken
<1>9. QED
  BY <1>5, <1>6, <1>7, <1>8 DEF Told, Tells

LEMMA ToldKept ==
  ASSUME IInv, \A c \in Clients : Told(c), [Next]_vars
  PROVE  \A c \in Clients : Told(c)'
<1>1. ASSUME NEW c \in Clients, Tells(c)
      PROVE  \A d \in Clients : Told(d)'
  BY <1>1, ToldFrame DEF Tells
<1>2. ASSUME UNCHANGED vars
      PROVE  \A d \in Clients : Told(d)'
  BY <1>2, ToldFrame DEF vars, Untouched, Fixed
<1>3. ASSUME NEW c \in Clients, Serve(c)
      PROVE  Tells(c)
  BY <1>3, RunTells, ReturnTells, RelayTells, SendTells, CallTells, LogTells, FinishTells DEF Serve
<1>4. QED
  BY <1>1, <1>2, <1>3, AdmitTells, RefuseTells, DisconnectTells DEF Next, Over

LEMMA ToldInitially == Init => VInv
<1> SUFFICES ASSUME Init PROVE VInv
  OBVIOUS
<1>1. IInv
  BY InitiallySound
<1>2. ASSUME NEW c \in Clients
      PROVE  Told(c)
  <2>1. job[c].at = "idle" /\ ~job[c].handling /\ wire[c] = <<>>
    BY DEF Init
  <2>2. ~Sent(c, "final")
    BY <2>1 DEF Sent
  <2>3. QED
    BY <2>1, <2>2 DEF Told, ToldByAgent, ToldByCall, Serving
<1>3. ASSUME mode = "ioa_v2_custom", NEW c \in Clients
      PROVE  CustomRun(graph[c])
  <2>1. graph[c] = React!initial_state
    BY <1>3 DEF Init
  <2>2. LET g == React!initial_state IN g.at = "off" /\ g.turn = 1 /\ g.observations = <<>>
    BY DEF React!initial_state
  <2> DEFINE g == graph[c]
  <2>3. g.at = "off" /\ g.turn = 1 /\ g.observations = <<>>
    BY <2>1, <2>2
  <2> HIDE DEF g
  <2>4. CustomRun(g)
    BY <2>3 DEF CustomRun
  <2>5. QED
    BY <2>4 DEF g
<1>4. LastTarget
  BY DEF Init, LastTarget, MayRefer, React!initial_memory
<1>5. QED
  BY <1>2, <1>3, <1>4 DEF VInv, CustomAgrees

\* What every request of the custom agent has come to, and what every client was told.
THEOREM VerdictsInvariant == Spec => [](AInv /\ OpsInv /\ VInv)
<1>1. Init => VInv
  BY ToldInitially
<1>2. AInv /\ VInv /\ [Next]_vars => VInv'
  <2>1. ASSUME AInv, VInv, [Next]_vars
        PROVE  VInv'
    BY <2>1, CustomAgreesKept, ToldKept DEF AInv, VInv
  <2>2. QED
    BY <2>1
<1>3. QED
  BY <1>1, <1>2, OpsInvariant, PTL DEF Spec

\* What the agents' requests come to is the same for both endpoints.
LEMMA CustomEndsAlike ==
  ASSUME CustomAgrees, mode = "ioa_v2_custom", NEW c \in Clients, NEW d \in Clients,
         graph[c].at = "answered", graph[d].at = "raised"
  PROVE  FALSE
<1>1. CustomRun(graph[c]) /\ CustomRun(graph[d])
  BY DEF CustomAgrees
<1>2. world.target # "raises" /\ (Meets("answered") \/ (Meets("concludes") /\ world.model # "raises"))
  BY <1>1 DEF CustomRun
<1>3. Meets("raised") \/ (Meets("concludes") /\ world.model = "raises")
  BY <1>1, <1>2 DEF CustomRun
<1>4. ASSUME NEW f, NEW h, Meets(f), Meets(h), f # "goes on", h # "goes on"
      PROVE  f = h
  BY <1>4, OneFate DEF Meets
<1>5. QED
  BY <1>2, <1>3, <1>4

\* Both endpoints come to the same verdict, but for what Differ lists.
THEOREM VerdictsAreAlike == Spec => []VerdictsAgree
<1>1. ASSUME AInv, OpsInv, VInv
      PROVE  VerdictsAgree
  <2> SUFFICES ASSUME NEW c \in Clients, NEW d \in Clients, Served(c), Served(d), ~Differ
               PROVE  Verdict(c) = Verdict(d)
    BY DEF VerdictsAgree
  <2>1. IInv /\ mode \in Modes /\ \A e \in Clients : Told(e) /\ OnWire(e)
    BY <1>1 DEF AInv, VInv, IInv, Typed, Sound
  <2>2. CASE mode \in Called
    <3>1. ToldByCall(c) /\ ToldByCall(d)
      BY <2>1, <2>2 DEF Told
    <3>2. /\ ~(mode = "ioa_v2_n8n" /\ world.remote = "object")
          /\ ~(mode = "ioa_v2_langchain" /\ world.remote = "silent")
          /\ ~(mode = "ioa_v1_custom" /\ world.log = "raises")
      BY DEF Differ
    <3>3. ASSUME NEW e \in {c, d}
          PROVE  Sent(e, "final") <=> "raises" \notin {world.remote, world.log}
      BY <3>1, <3>2, <3>3 DEF ToldByCall, Broken, Served
    <3>4. \A e \in {c, d} : Verdict(e) = IF Sent(e, "final") THEN "answer" ELSE "error"
      BY <2>2 DEF Verdict
    <3>5. QED
      BY <3>3, <3>4
  <2>3. CASE mode \in AgentModes
    <3>1. mode \notin Called /\ world.log # "raises"
      BY <2>3 DEF AgentModes, Differ
    <3>2. ASSUME NEW e \in {c, d}
          PROVE  \/ Verdict(e) = "error" /\ graph[e].at = "raised"
                 \/ Verdict(e) = graph[e].answer /\ graph[e].at \in Done
      <4>1. ToldByAgent(e) /\ OnWire(e) /\ Served(e)
        BY <2>1, <2>3 DEF Told
      <4>2. CASE job[e].handling
        <5>1. ~Sent(e, "final")
          BY <3>1, <4>1, <4>2 DEF OnWire
        <5>2. graph[e].at = "raised"
          BY <3>1, <4>1, <4>2 DEF ToldByAgent, Served
        <5>3. QED
          BY <5>1, <5>2 DEF Verdict
      <4>3. CASE ~job[e].handling
        <5>1. Sent(e, "final") /\ graph[e].at \in Done
          BY <4>1, <4>3 DEF ToldByAgent, Served
        <5>2. QED
          BY <3>1, <5>1 DEF Verdict
      <4>4. QED
        BY <4>2, <4>3
    <3>3. ASSUME /\ {graph[c].at, graph[d].at} \subseteq Done => graph[c].answer = graph[d].answer
                 /\ ~(graph[c].at \in Done /\ graph[d].at = "raised")
                 /\ ~(graph[d].at \in Done /\ graph[c].at = "raised")
          PROVE  Verdict(c) = Verdict(d)
      BY <3>2, <3>3
    <3>4. CASE mode = "ioa_v2_custom"
      <4>1. CustomAgrees /\ \A e \in Clients : CustomRun(graph[e]) /\ graph[e].answer # "invalid_tool"
        BY <1>1, <3>4 DEF VInv, CustomAgrees, Differ
      <4>2. \A e \in Clients : graph[e].at \in Done => graph[e].at = "answered" /\ graph[e].answer = "answer"
        BY <4>1 DEF CustomRun, Done
      <4>3. QED
        BY <3>3, <3>4, <4>1, <4>2, CustomEndsAlike
    <3>5. CASE mode = "ioa_v2_langgraph"
      <4>1. ASSUME NEW e \in {c, d}
            PROVE  PolicyAt(graph[e], request[e])
        BY <1>1, <3>5 DEF AInv, PolicyInv, PolicyState
      <4>2. ASSUME NEW e \in {c, d}
            PROVE  /\ graph[e].at \in Done => graph[e].at \in {"answered", "denied"}
                   /\ graph[e].at \in {"answered", "denied"} => graph[e].answer # "none"
                   /\ graph[e].at = "raised" => graph[e].answer = "none"
                   /\ graph[e].at # "off" => request[e] = Asked
        BY <4>1 DEF PolicyAt, AtNode, PolicyNodes, Done, Denial
      <4>3. {graph[c].at, graph[d].at} \subseteq {"answered", "denied", "raised"}
            => graph[c].answer = graph[d].answer
        BY <1>1, <3>5, <4>2, PolicyDriversAgree DEF Policy!RunAndStreamAgree
      <4>4. QED
        BY <3>2, <3>3, <4>2, <4>3
    <3>6. CASE mode = "ioa_v3_langgraph_n8n"
      <4>1. ASSUME NEW e \in {c, d}
            PROVE  OpsAt(graph[e], request[e]) /\ graph[e].answer # "apology"
        BY <1>1, <3>6 DEF OpsInv, Differ
      <4>2. ASSUME NEW e \in {c, d}
            PROVE  /\ graph[e].at \in Done => graph[e].at \in {"answered", "denied"}
                   /\ graph[e].at # "off" => request[e] = OpsAsked
        BY <4>1 DEF OpsAt, OpsNode, OpsNodes, OpsFailure, Done
      <4>3. {graph[c].at, graph[d].at} \subseteq {"answered", "denied", "raised"}
            => /\ (graph[c].at \in {"raised", "failed"}) = (graph[d].at \in {"raised", "failed"})
               /\ graph[c].at \notin {"raised", "failed"} => graph[c].answer = graph[d].answer
        BY <1>1, <3>6, <4>2, OpsDriversAgree DEF Ops!RunAndStreamAgree, Ops!Ended
      <4>4. QED
        BY <3>3, <4>2, <4>3
    <3>7. QED
      BY <2>3, <3>4, <3>5, <3>6 DEF AgentModes, Modes, Called
  <2>4. QED
    BY <2>1, <2>2, <2>3 DEF AgentModes
<1>2. QED
  BY <1>1, VerdictsInvariant, PTL
=============================================================================
