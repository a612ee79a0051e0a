------------------------------ MODULE Diagnosis ------------------------------
(* routes/diagnose_routes.py and services/diagnose_service.py: a question is  *)
(* put to one of seven runtimes, by /api/diagnose, which replies once, or by  *)
(* /api/diagnose-stream, which relays events.  The governed agents and the    *)
(* custom agent are the modules PolicyGraph, OpsGraph and ReactAgent; the     *)
(* other runtimes are one call in a fixed script of events.  The server runs  *)
(* its requests as greenlets that only switch while an event is sent, so a    *)
(* request holds the thread from one event to the next.                       *)
EXTENDS Naturals, Sequences, StreamEvents

CONSTANTS Clients, Streams,   \* the requests, and those of /api/diagnose-stream
          Scenarios,          \* what is asked, and what the services do
          Nobody

VARIABLES scenario,   \* the scenario of this behaviour
          job,        \* job[c]: the part of c's script that is left
          wire,       \* wire[c]: what was sent to the client
          logs,       \* logs[c]: the benchmark rows written for c
          holder,     \* the request that runs on the server's thread
          request, graph, outbox, world, memory   \* of the agents

agentVars == <<request, graph, outbox, world>>
vars == <<scenario, job, wire, logs, holder, request, graph, outbox, world, memory>>

Policy == INSTANCE PolicyGraph WITH Callers <- Clients, Requests <- {s.question : s \in Scenarios}
Ops == INSTANCE OpsGraph WITH Callers <- Clients, Requests <- {s.question : s \in Scenarios},
                              Worlds <- {s.world : s \in Scenarios}
React == INSTANCE ReactAgent WITH Callers <- Clients

Called == {"ioa_v1_custom", "ioa_v2_langchain", "ioa_v2_n8n", "ioa_v2_dify"}
Modes == Called \cup {"ioa_v2_custom", "ioa_v2_langgraph", "ioa_v3_langgraph_n8n"}
mode == scenario.mode

ASSUME ScenariosAssumption ==
  \A s \in Scenarios :
    /\ s.mode \in Modes
    /\ s.mode = "ioa_v2_langgraph" =>
         s.question \in Policy!Request /\ s.world.tool \in {"evidence", "none", "fails", "lost"}
    /\ s.mode = "ioa_v3_langgraph_n8n" => s.question \in Ops!Request /\ Ops!World(s.world)

ASSUME NobodyAssumption == Nobody \notin Clients

-----------------------------------------------------------------------------
(* resolve_agent_operational_context, and for ioa_v3 the resolution that looks *)
(* at the configuration instead of the health of the company database.         *)
active_source ==
  CASE scenario.selected # "company" -> "simulator"
    [] scenario.selected = "company" /\ scenario.company = "up" -> "company_mongodb"
    [] OTHER -> IF mode = "ioa_v3_langgraph_n8n" /\ scenario.company = "down"
                THEN "company_mongodb" ELSE "simulator_fallback"

effective_data_source == IF active_source = "company_mongodb" THEN "company" ELSE "simulator"

-----------------------------------------------------------------------------
(* A script is what the handler does: send an event, run the agent, call the   *)
(* runtime, log the benchmark row.  The JSON handler sends one event only, a   *)
(* final one with status 200 or an error with status 500.                      *)
Agent == [type |-> "agent", node |-> "none"]
Call == [type |-> "call", node |-> "none"]
Log(status) == [type |-> "log", node |-> status]

Relayed(node) == <<Observation(node), Thought("step"), Observation("step"), Final("answer")>>

StreamScript ==
  CASE mode = "ioa_v1_custom" -> <<Call, Final("answer")>>
    [] mode = "ioa_v2_langchain" ->
         <<Thought("create_agent"), Observation("create_agent"), Thought("agent_loop"),
           Call, Log("success")>> \o Relayed("first_step")
    [] mode = "ioa_v2_n8n" ->
         <<Thought("webhook"), Observation("webhook"), Thought("workflow"),
           Call, Log("success")>> \o Relayed("preview")
    [] mode = "ioa_v2_dify" -> <<Thought("chat_api"), Call, Log("success")>> \o Relayed("step")
    [] OTHER -> <<Agent, Log("success")>>

\* Faulty variant: the reply is sent before its row is written, which is lost.
JsonScriptUnlogged == <<IF mode \in Called THEN Call ELSE Agent, Final("answer")>>

JsonScript == <<IF mode \in Called THEN Call ELSE Agent, Log("success"), Final("answer")>>

\* Faulty variant: the inner handler raises again after its error event.
HandlerRaisingAgain(c) == <<Observation("error"), Error, Error>>

(* What the handlers of an exception do; one raised by them ends in an error.  *)
Handler(c) ==
  CASE mode \in {"ioa_v2_n8n", "ioa_v2_dify"} ->
         <<Log("error")>> \o (IF c \in Streams THEN <<Observation("error")>> ELSE <<>>) \o <<Error>>
    [] mode = "ioa_v3_langgraph_n8n" /\ c \in Streams -> <<Observation("error"), Error>>
    [] OTHER -> <<Error>>

Runs(c) == job[c].at = "serving" /\ holder \in {c, Nobody}
Current(c) == Head(job[c].todo)
Item(c, type) == Runs(c) /\ job[c].todo # <<>> /\ Current(c).type = type

Advances(c) == job' = [job EXCEPT ![c].todo = Tail(@)]

Fails(c) == job' = [job EXCEPT ![c].todo = IF job[c].handling THEN <<Error>> ELSE Handler(c),
                               ![c].handling = TRUE]

-----------------------------------------------------------------------------
StartAgent(c) ==
  CASE mode = "ioa_v2_langgraph" ->
         Policy!Start(c, [scenario.question EXCEPT !.source = effective_data_source])
           /\ UNCHANGED memory
    [] mode = "ioa_v3_langgraph_n8n" ->
         Ops!Start(c, [scenario.question EXCEPT !.active = active_source,
                                                !.selected = scenario.selected])
           /\ UNCHANGED memory
    [] mode = "ioa_v2_custom" -> React!Start(c, scenario.question)
    [] OTHER -> UNCHANGED <<agentVars, memory>>

(* A request that is let in has its source resolved before its stream begins.  *)
Admit(c) == /\ job[c].at = "idle" /\ holder = Nobody
            /\ job' = [job EXCEPT ![c].at = "serving",
                                  ![c].todo = IF c \in Streams THEN StreamScript ELSE JsonScript]
            /\ StartAgent(c)
            /\ holder' = c
            /\ UNCHANGED <<scenario, wire, logs>>

(* Not logged in, over the rate limit, empty or too long.                      *)
Refuse(c) == /\ job[c].at = "idle" /\ holder = Nobody
             /\ job' = [job EXCEPT ![c].at = "ended"]
             /\ wire' = [wire EXCEPT ![c] = <<Error>>]
             /\ UNCHANGED <<scenario, logs, holder, agentVars, memory>>

AgentStep(c) ==
  \/ mode = "ioa_v2_langgraph" /\ Policy!Step(c) /\ UNCHANGED memory
  \/ mode = "ioa_v3_langgraph_n8n" /\ Ops!Step(c) /\ UNCHANGED memory
  \/ mode = "ioa_v2_custom" /\ React!Step(c)

RunAgent(c) == /\ Item(c, "agent")
               /\ AgentStep(c)
               /\ holder' = c
               /\ UNCHANGED <<scenario, job, wire, logs>>

(* The agent is done: it has answered, or it has raised.                       *)
AgentReturns(c) ==
  /\ Item(c, "agent") /\ outbox[c] = <<>>
  /\ \/ graph[c].at \in {"answered", "denied", "failed", "invalid"} /\ Advances(c)
     \/ graph[c].at = "raised" /\ Fails(c)
  /\ holder' = c
  /\ UNCHANGED <<scenario, wire, logs, agentVars, memory>>

(* An event goes out, from the agent's generator or from the script; the       *)
(* thread may serve another request meanwhile.  An event that is made from     *)
(* something the runtime did not return raises instead.                        *)
Sends(c, event) == /\ wire' = [wire EXCEPT ![c] = Append(@, event)]
                   /\ holder' = Nobody

Relay(c) == /\ Item(c, "agent") /\ outbox[c] # <<>>
            /\ outbox' = [outbox EXCEPT ![c] = Tail(@)]
            /\ Sends(c, Head(outbox[c]))
            /\ UNCHANGED <<scenario, job, logs, request, graph, world, memory>>

\* Faulty variant: only an answer with steps can be shown.
RendersStepsOnly(event) ==
  event.node \in {"preview", "first_step"} => world.remote \notin {"object", "silent"}

Renders(event) == /\ event.node = "preview" => world.remote # "object"
                  /\ event.node = "first_step" => world.remote # "silent"

Send(c) ==
  /\ Runs(c) /\ job[c].todo # <<>> /\ Current(c).type \in Types
  /\ IF Renders(Current(c))
     THEN Advances(c) /\ Sends(c, Current(c))
     ELSE Fails(c) /\ holder' = c /\ UNCHANGED wire
  /\ UNCHANGED <<scenario, logs, agentVars, memory>>

CallRuntime(c) ==
  /\ Item(c, "call")
  /\ IF world.remote = "raises" THEN Fails(c) ELSE Advances(c)
  /\ holder' = c
  /\ UNCHANGED <<scenario, wire, logs, agentVars, memory>>

LogBenchmark(c) ==
  /\ Item(c, "log")
  /\ IF world.log = "raises"
     THEN Fails(c) /\ UNCHANGED logs
     ELSE Advances(c) /\ logs' = [logs EXCEPT ![c] = Append(@, Current(c).node)]
  /\ holder' = c
  /\ UNCHANGED <<scenario, wire, agentVars, memory>>

Finish(c) == /\ Runs(c) /\ job[c].todo = <<>>
             /\ job' = [job EXCEPT ![c].at = "ended"]
             /\ holder' = Nobody
             /\ UNCHANGED <<scenario, wire, logs, agentVars, memory>>

(* The client of a stream goes away: its generator is closed where it is       *)
(* suspended, which no handler of an exception notices.                        *)
Disconnect(c) == /\ c \in Streams /\ job[c].at = "serving" /\ holder = Nobody
                 /\ job' = [job EXCEPT ![c].at = "gone", ![c].todo = <<>>]
                 /\ graph' = [graph EXCEPT ![c].at = IF @ \in {"answered", "denied", "failed", "invalid", "off"}
                                                     THEN @ ELSE "closed"]
                 /\ outbox' = [outbox EXCEPT ![c] = <<>>]
                 /\ UNCHANGED <<scenario, wire, logs, holder, request, world, memory>>

Serve(c) == \/ RunAgent(c) \/ AgentReturns(c) \/ Relay(c) \/ Send(c)
            \/ CallRuntime(c) \/ LogBenchmark(c) \/ Finish(c)

Init == /\ scenario \in Scenarios
        /\ world = scenario.world
        /\ job = [c \in Clients |-> [at |-> "idle", todo |-> <<>>, handling |-> FALSE]]
        /\ wire = [c \in Clients |-> <<>>]
        /\ logs = [c \in Clients |-> <<>>]
        /\ holder = Nobody
        /\ request = [c \in Clients |-> scenario.question]
        /\ graph = [c \in Clients |-> CASE mode = "ioa_v3_langgraph_n8n" -> Ops!initial_state
                                        [] mode = "ioa_v2_custom" -> React!initial_state
                                        [] OTHER -> Policy!initial_state]
        /\ outbox = [c \in Clients |-> <<>>]
        /\ memory = React!initial_memory

(* The behaviour is over when both requests are.                               *)
Over == (\A c \in Clients : job[c].at \in {"ended", "gone"}) /\ UNCHANGED vars

Next == \/ \E c \in Clients : Admit(c) \/ Refuse(c) \/ Serve(c) \/ Disconnect(c)
        \/ Over

Spec == Init /\ [][Next]_vars
-----------------------------------------------------------------------------
Nodes == {"none", "success", "error", "answer", "create_agent", "agent_loop", "first_step",
          "webhook", "workflow", "preview", "chat_api", "step"}
Items == [type : Types \cup {"agent", "call", "log"}, node : Nodes]

TypeOK == /\ mode \in Modes
          /\ \A c \in Clients :
               /\ job[c].at \in {"idle", "serving", "ended", "gone"}
               /\ \A i \in DOMAIN job[c].todo : job[c].todo[i] \in Items
               /\ \A i \in DOMAIN wire[c] : wire[c][i].type \in Types
               /\ \A i \in DOMAIN logs[c] : logs[c][i] \in {"success", "error"}
               /\ outbox[c] # <<>> => c \in Streams
          /\ holder \in Clients \cup {Nobody}

AgentModes == Modes \ Called
Sent(c, type) == \E i \in DOMAIN wire[c] : wire[c][i].type = type

(* A client is told how its request ended once: nothing follows a final or an  *)
(* error event, unless the benchmark row that an agent's stream writes after   *)
(* its final event fails, which adds an error.  /api/diagnose sends one reply. *)
EndsOnce ==
  \A c \in Clients :
    /\ c \notin Streams => Len(wire[c]) <= 1
    /\ \A i \in DOMAIN wire[c], j \in DOMAIN wire[c] :
         (i < j /\ Ends(wire[c][i])) =>
            /\ mode \in AgentModes /\ world.log = "raises"
            /\ wire[c][i].type # "error" \/ mode = "ioa_v2_custom"
            /\ wire[c][j].type = "observation" => mode = "ioa_v3_langgraph_n8n"

(* Both endpoints come to the same verdict on the same question, except in the *)
(* cases listed: a stream of IOA v3 apologises where the reply is an error (a  *)
(* workflow of n8n, the threshold scan, the snapshot of the simulator or the   *)
(* model failed), a stream of the custom agent reports an unknown tool as an   *)
(* error, n8n streams preview an answer that is no text, LangChain streams     *)
(* show a step that is missing, and a benchmark row that fails costs the reply *)
(* but not a final event that is out already.  A company read that fails is no *)
(* error to the other company tools.                                           *)
Verdict(c) == IF ~Sent(c, "final") THEN "error"
              ELSE IF mode \in Called THEN "answer" ELSE graph[c].answer

Differ ==
  \/ mode = "ioa_v3_langgraph_n8n" /\ \E c \in Clients : graph[c].answer = "apology"
  \/ mode = "ioa_v2_custom" /\ \E c \in Clients : graph[c].answer = "invalid_tool"
  \/ mode = "ioa_v2_n8n" /\ world.remote = "object"
  \/ mode = "ioa_v2_langchain" /\ world.remote = "silent"
  \/ mode \in AgentModes \cup {"ioa_v1_custom"} /\ world.log = "raises"

Served(c) == job[c].at = "ended" /\ (job[c].handling \/ Sent(c, "final"))

VerdictsAgree ==
  \A c, d \in Clients : Served(c) /\ Served(d) => Verdict(c) = Verdict(d) \/ Differ

(* The benchmark has one row for every request that was answered, and it says  *)
(* that it succeeded; only the streams of v1 write none.  A row of success is  *)
(* followed by one of failure only for the n8n answer that cannot be shown.    *)
BenchmarkRows ==
  \A c \in Clients :
    /\ (job[c].at = "ended" /\ Sent(c, "final") /\ world.log # "raises")
       => logs[c] = IF c \in Streams /\ mode = "ioa_v1_custom" THEN <<>> ELSE <<"success">>
    /\ Len(logs[c]) > 1 => /\ logs[c] = <<"success", "error">>
                           /\ c \in Streams /\ mode = "ioa_v2_n8n"
                           /\ world.remote = "object"

(* Both governed agents implement the governed workflow while they are served, *)
(* streamed, failed and abandoned by the routes: the simulator is read for a   *)
(* company request only in place of a company database that could not be read. *)
Only(m, initial) == IF mode = m THEN graph ELSE [c \in Clients |-> initial]

PolicyView == INSTANCE PolicyGraph
                WITH Callers <- Clients, Requests <- {s.question : s \in Scenarios},
                     graph <- Only("ioa_v2_langgraph", Policy!initial_state)
OpsView == INSTANCE OpsGraph
             WITH Callers <- Clients, Requests <- {s.question : s \in Scenarios},
                  Worlds <- {s.world : s \in Scenarios},
                  graph <- Only("ioa_v3_langgraph_n8n", Ops!initial_state)

AgentsAreGoverned == PolicyView!ImplementsGoverned /\ OpsView!ImplementsGoverned

(* Every tool a classified question leads to is one the registry knows, of the *)
(* source and the intent of the question, and within the budget.               *)
ClassifierMatchesRegistry == mode = "ioa_v2_langgraph" => Policy!ClassifierMatchesRegistry

(* What a governed agent decides to run, its authorization does not have to    *)
(* refuse or truncate: the same holds of the LangGraph agent's classifier, and *)
(* no plan of IOA v3, whatever the model proposes, has a parameter its tool    *)
(* does not allow or more workflows than the budget.                           *)
PlansAreAuthorizable == /\ ClassifierMatchesRegistry
                        /\ mode = "ioa_v3_langgraph_n8n" => Ops!PlansAreAuthorizable

(* A prompt that calls for a runbook is answered by its tool, whatever the     *)
(* model proposes.                                                             *)
RunbookComesFirst == mode = "ioa_v3_langgraph_n8n" => Ops!RunbookComesFirst

(* The two drivers of a governed agent, run and run_stream, take the same      *)
(* decisions: the same plan, the same reads, the same answer.                  *)
GraphsAgree == /\ mode = "ioa_v2_langgraph" => Policy!RunAndStreamAgree
               /\ mode = "ioa_v3_langgraph_n8n" => Ops!RunAndStreamAgree

(* No runtime answers without having looked: the model of the governed agent   *)
(* is prompted with validated evidence only, which may be a snapshot of the    *)
(* simulator, and the custom agent collects the required evidence for a model  *)
(* that would answer at once.                                                  *)
AnsweredWithEvidence == /\ mode = "ioa_v2_langgraph" => Policy!PromptedWithEvidence
                        /\ mode = "ioa_v2_custom" => React!AnswersHaveEvidence

(* What all requests of the custom agent share: its conversation stays one of  *)
(* questions followed by their own answers, and the tokens a reply reports are *)
(* those of its own calls, although streams are suspended with theirs counted. *)
HistoryIsPaired == React!HistoryIsPaired
RunReportsItsOwnUsage == mode = "ioa_v2_custom" => React!RunReportsItsOwnUsage

(* What an answer was made from.                                               *)
Reads(c) ==
  CASE mode \in {"ioa_v2_langgraph", "ioa_v3_langgraph_n8n"} -> graph[c].reads
    [] mode = "ioa_v2_custom" -> IF graph[c].observations = <<>> THEN {} ELSE {"simulator"}
    [] OTHER -> IF Sent(c, "final") THEN {"simulator"} ELSE {}

AnsweredFromSimulator(c) ==
  active_source = "company_mongodb" /\ Sent(c, "final") /\ "simulator" \in Reads(c)

(* docs/COMPANY_DB_DISCOVERY.md:79: "Fallback data must never be presented as  *)
(* company evidence."  A request whose active source is the company database   *)
(* is not answered from simulator telemetry: neither by a runtime that is given*)
(* the context which was resolved with the source, nor, when the read that     *)
(* follows fails, by a governed agent from a snapshot of the simulator.        *)
SimulatorIsNotCompany == \A c \in Clients : ~AnsweredFromSimulator(c)
=============================================================================
