----------------------------- MODULE PolicyGraph -----------------------------
(* agents/langgraph_agent.py: the workflow ioa_v2_langgraph, a graph of nodes *)
(* that validate a request, select one tool by keyword, authorize it, run it, *)
(* validate its evidence and only then prompt the language model.  The same   *)
(* nodes are driven twice in the code: run() lets LangGraph route between     *)
(* them, run_stream() calls them in a loop of its own and yields two events   *)
(* per node.  A caller in Streams is served by run_stream, any other by run.  *)
EXTENDS Naturals, Sequences, StreamEvents

CONSTANTS Callers,    \* the requests being served
          Streams,    \* those served by run_stream
          Requests    \* what may be asked (see Request)

VARIABLES request,    \* request[c]: what c asked, of which data source
          graph,      \* graph[c]: LangGraphState and the node that is next
          outbox,     \* outbox[c]: events yielded and not yet taken
          world       \* what the tools and the model do in this behaviour

graphVars == <<request, graph, outbox, world>>

-----------------------------------------------------------------------------
(* The text of a request is the set of keyword groups it holds, whether it is *)
(* blank or over the limit, and how it names a simulator device: not at all,  *)
(* in lower case, or with capitals, which only a lowered copy recognises.     *)
Words == {"above", "alert", "coverage", "rule", "disconnected", "device",
          "diagnose", "inventory", "history", "number"}

Request == [size : {"blank", "fits", "long"}, words : SUBSET Words,
            device : {"none", "plain", "capital"},
            source : {"simulator", "company", "other"}]

(* TOOL_REGISTRY: each tool with the source, the intent and the argument it   *)
(* is registered for.                                                         *)
ToolSpec(source, intent, needs) == [source |-> source, intent |-> intent, needs |-> needs]

TOOL_REGISTRY ==
  [get_device_history |-> ToolSpec("simulator", "simulator_device_history", "device"),
   get_device_status  |-> ToolSpec("simulator", "simulator_device_status", "device"),
   get_fleet_status   |-> ToolSpec("simulator", "simulator_fleet_status", "none"),
   get_company_device |-> ToolSpec("company", "company_device_inspection", "company_device"),
   get_company_disconnected_devices |-> ToolSpec("company", "company_disconnected_devices", "none"),
   get_company_fleet_summary        |-> ToolSpec("company", "company_fleet_summary", "none"),
   get_company_inventory            |-> ToolSpec("company", "company_inventory", "none"),
   get_company_provisional_alerts   |-> ToolSpec("company", "company_provisional_alerts", "none"),
   get_company_rule_readiness       |-> ToolSpec("company", "company_rule_readiness", "none"),
   get_company_telemetry_coverage   |-> ToolSpec("company", "company_telemetry_coverage", "none"),
   scan_company_threshold           |-> ToolSpec("company", "company_threshold_scan", "none")]

(* classify_intent: keyword rules in the order the code tries them, each with *)
(* the words that fire it, the intent and the tool.                           *)
CompanyRules ==
  <<<<{"above"},        "company_threshold_scan",       "scan_company_threshold">>,
    <<{"alert"},        "company_provisional_alerts",   "get_company_provisional_alerts">>,
    <<{"coverage"},     "company_telemetry_coverage",   "get_company_telemetry_coverage">>,
    <<{"rule"},         "company_rule_readiness",       "get_company_rule_readiness">>,
    <<{"disconnected"}, "company_disconnected_devices", "get_company_disconnected_devices">>,
    <<{"device", "diagnose"}, "company_device_inspection", "get_company_device">>,
    <<{"inventory"},    "company_inventory",            "get_company_inventory">>>>

First(S) == CHOOSE i \in S : \A j \in S : i <= j

classify_intent(r) ==
  IF r.source = "company"
  THEN LET fires == {i \in DOMAIN CompanyRules : CompanyRules[i][1] \cap r.words # {}}
       IN IF fires = {}
          THEN [intent |-> "company_fleet_summary", tool |-> "get_company_fleet_summary"]
          ELSE [intent |-> CompanyRules[First(fires)][2], tool |-> CompanyRules[First(fires)][3]]
  ELSE CASE "history" \in r.words ->
              [intent |-> "simulator_device_history", tool |-> "get_device_history"]
         [] "history" \notin r.words /\ "diagnose" \in r.words /\ r.device # "none" ->
              [intent |-> "simulator_device_status", tool |-> "get_device_status"]
         [] OTHER ->
              [intent |-> "simulator_fleet_status", tool |-> "get_fleet_status"]

-----------------------------------------------------------------------------
(* initial_state, and the place before the graph is entered.                  *)
initial_state ==
  [at |-> "off", allowed |-> TRUE, reason |-> "", intent |-> "", tool |-> "",
   evidence |-> "none", executions |-> 0, reads |-> {}, prompts |-> 0,
   steps |-> <<>>, answer |-> "none"]

max_tool_executions == 1

(* The nodes after which LangGraph routes by policy_allowed, and the next one *)
(* when it is allowed.                                                        *)
Conditional == {"validate_request", "authorize_tool", "validate_evidence"}

After(node) ==
  CASE node = "validate_request" -> "select_tool"
    [] node = "select_tool" -> "authorize_tool"
    [] node = "authorize_tool" -> "run_tool"
    [] node = "run_tool" -> "validate_evidence"
    [] node = "validate_evidence" -> "generate_answer"

\* Faulty variant: run_stream forgets to test policy_allowed.
RouteByGraphOnly(c, node, allowed) ==
  IF ~allowed /\ c \notin Streams /\ node \in Conditional
  THEN "deny_request" ELSE After(node)

(* route_after_policy between the nodes of run; run_stream's own loop tests   *)
(* policy_allowed after every node.                                           *)
Route(c, node, allowed) ==
  IF ~allowed /\ (c \in Streams \/ node \in Conditional)
  THEN "deny_request" ELSE After(node)

(* A node runs when the previous one is done and, in a stream, when both of   *)
(* its events were taken: the generator is suspended at its yields.           *)
Enters(c, node) == graph[c].at = node /\ outbox[c] = <<>>

(* The node's result: it is appended to the steps, routed and, in a stream,   *)
(* yielded (append_step, stream_step).                                        *)
Leaves(c, node, result) ==
  /\ graph' = [graph EXCEPT ![c] =
                 [result EXCEPT !.steps = Append(@, node),
                                !.at = Route(c, node, result.allowed)]]
  /\ outbox' = [outbox EXCEPT ![c] = IF c \in Streams THEN StepEvents(node) ELSE <<>>]
  /\ UNCHANGED <<request, world>>

(* The first of the checks that fails is the reason of a denial; each check   *)
(* is the condition that fails it and the reason it gives.                    *)
Failing(checks) == {i \in DOMAIN checks : checks[i][1]}

Verdict(g, ok, checks) ==
  IF Failing(checks) = {} THEN [g EXCEPT !.allowed = TRUE, !.reason = ok]
  ELSE [g EXCEPT !.allowed = FALSE, !.reason = checks[First(Failing(checks))][2]]

-----------------------------------------------------------------------------
Start(c, r) == /\ graph[c].at = "off"
               /\ request' = [request EXCEPT ![c] = r]
               /\ graph' = [graph EXCEPT ![c].at = "validate_request"]
               /\ UNCHANGED <<outbox, world>>

ValidateRequest(c) ==
  /\ Enters(c, "validate_request")
  /\ LET r == request[c]
     IN Leaves(c, "validate_request",
          Verdict(graph[c], "request_validated",
            <<<<r.size = "blank", "empty_request">>,
              <<r.size = "long", "request_too_large">>,
              <<r.source \notin {"simulator", "company"}, "invalid_data_source">>>>))

SelectTool(c) ==
  /\ Enters(c, "select_tool")
  /\ LET decision == classify_intent(request[c])
     IN Leaves(c, "select_tool", [graph[c] EXCEPT !.intent = decision.intent,
                                                  !.tool = decision.tool])

(* extract_device_id reads the text as it was written.  The identifier of a   *)
(* company device is the last word when no word looks like one, so the tool   *)
(* that requires it is never refused for it.                                  *)
extract_device_id(r) == r.device = "plain"

AuthorizeTool(c) ==
  /\ Enters(c, "authorize_tool")
  /\ LET g == graph[c]
         r == request[c]
         unknown == g.tool \notin DOMAIN TOOL_REGISTRY
         spec == TOOL_REGISTRY[g.tool]
     IN Leaves(c, "authorize_tool",
          Verdict(g, "tool_authorized",
            <<<<unknown, "unknown_tool">>,
              <<~unknown /\ spec.source # r.source, "tool_source_mismatch">>,
              <<~unknown /\ spec.intent # g.intent, "intent_tool_mismatch">>,
              <<g.executions >= max_tool_executions, "tool_execution_budget_exhausted">>,
              <<~unknown /\ spec.needs = "device" /\ ~extract_device_id(r),
                "missing_device_identifier">>>>))

(* run_tool_node calls the tool of the registry; the threshold scan without a *)
(* number calls nothing and makes up an error as its evidence.  A company     *)
(* tool other than the scan catches a database that cannot be read and        *)
(* returns simulator_fallback_snapshot instead, which reads the simulator's   *)
(* telemetry: it is evidence like any other to the nodes.  Where the snapshot *)
(* cannot be read either, and where another tool fails, the tool raises,      *)
(* which no node catches.  The status of an unknown device is nothing.        *)
Calls(c) == ~(graph[c].tool = "scan_company_threshold" /\ "number" \notin request[c].words)

ReadFails == world.tool \in {"fails", "lost"}

FallsBack(tool) == TOOL_REGISTRY[tool].source = "company" /\ tool # "scan_company_threshold"

ToolReads(c) ==
  IF ~Calls(c) THEN {}
  ELSE {TOOL_REGISTRY[graph[c].tool].source}
         \cup (IF ReadFails /\ FallsBack(graph[c].tool) THEN {"simulator"} ELSE {})

ToolRaises(c) == /\ Calls(c) /\ ReadFails
                 /\ FallsBack(graph[c].tool) => world.tool = "lost"

ToolOutput(c) ==
  CASE ~Calls(c) -> "error"
    [] Calls(c) /\ ReadFails -> "snapshot"
    [] OTHER -> IF world.tool = "none" /\ graph[c].tool = "get_device_status"
                THEN "none" ELSE "evidence"

Raises(c, g) == /\ graph' = [graph EXCEPT ![c] = [g EXCEPT !.at = "raised"]]
                /\ UNCHANGED <<request, outbox, world>>

RunTool(c) ==
  /\ Enters(c, "run_tool")
  /\ LET g == graph[c]
         read == [g EXCEPT !.reads = @ \cup ToolReads(c), !.executions = @ + 1]
     IN IF ~g.allowed \/ TOOL_REGISTRY[g.tool].source # request[c].source
        THEN Raises(c, g)
        ELSE IF ToolRaises(c)
        THEN Raises(c, read)
        ELSE Leaves(c, "run_tool", [read EXCEPT !.evidence = ToolOutput(c)])

ValidateEvidence(c) ==
  /\ Enters(c, "validate_evidence")
  /\ Leaves(c, "validate_evidence",
       Verdict(graph[c], "evidence_validated",
               <<<<graph[c].evidence = "none", "missing_tool_evidence">>>>))

(* The stream announces the answer before it prompts the model.               *)
AnnounceAnswer(c) ==
  /\ c \in Streams
  /\ Enters(c, "generate_answer")
  /\ graph' = [graph EXCEPT ![c].at = "await_model"]
  /\ outbox' = [outbox EXCEPT ![c] = <<Thought("generate_answer")>>]
  /\ UNCHANGED <<request, world>>

GenerateAnswer(c) ==
  /\ Enters(c, IF c \in Streams THEN "await_model" ELSE "generate_answer")
  /\ LET g == [graph[c] EXCEPT !.prompts = @ + 1]
     IN IF world.model = "raises"
        THEN Raises(c, g)
        ELSE /\ graph' = [graph EXCEPT ![c] =
                            [g EXCEPT !.at = "answered", !.answer = "answer",
                                      !.steps = IF c \in Streams THEN @
                                                ELSE Append(@, "generate_answer")]]
             /\ outbox' = [outbox EXCEPT ![c] =
                             IF c \in Streams
                             THEN <<Observation("generate_answer"), Final("answer")>>
                             ELSE <<>>]
             /\ UNCHANGED <<request, world>>

(* The denial names the reason.  run_stream yields only its final event, and  *)
(* not the step the node appended.                                            *)
DenyRequest(c) ==
  /\ Enters(c, "deny_request")
  /\ graph' = [graph EXCEPT ![c].at = "denied", ![c].answer = graph[c].reason,
                            ![c].evidence = "error",
                            ![c].steps = Append(@, "deny_request")]
  /\ outbox' = [outbox EXCEPT ![c] = IF c \in Streams THEN <<Final(graph[c].reason)>> ELSE <<>>]
  /\ UNCHANGED <<request, world>>

(* The consumer of the generator takes an event, or closes it.                *)
Pull(c) == /\ outbox[c] # <<>>
           /\ outbox' = [outbox EXCEPT ![c] = Tail(@)]
           /\ UNCHANGED <<request, graph, world>>

Abandon(c) == /\ c \in Streams
              /\ graph[c].at \notin {"off", "raised", "closed"}
              /\ outbox[c] # <<>>
              /\ graph' = [graph EXCEPT ![c].at = IF @ \in {"answered", "denied"} THEN @ ELSE "closed"]
              /\ outbox' = [outbox EXCEPT ![c] = <<>>]
              /\ UNCHANGED <<request, world>>

Step(c) == \/ ValidateRequest(c) \/ SelectTool(c) \/ AuthorizeTool(c) \/ RunTool(c)
           \/ ValidateEvidence(c) \/ AnnounceAnswer(c) \/ GenerateAnswer(c) \/ DenyRequest(c)

Worlds == [tool : {"evidence", "none", "fails", "lost"}, model : {"answers", "raises"}]

Init == /\ request = [c \in Callers |-> CHOOSE r \in Requests : TRUE]
        /\ graph = [c \in Callers |-> initial_state]
        /\ outbox = [c \in Callers |-> <<>>]
        /\ world \in Worlds

Next == \E c \in Callers : (\E r \in Requests : Start(c, r)) \/ Step(c) \/ Pull(c) \/ Abandon(c)

Spec == Init /\ [][Next]_graphVars
-----------------------------------------------------------------------------
(* The workflow is governed: how far a request is, what it may read, what it  *)
(* has read and how often.  The simulator stands in for a company database    *)
(* that cannot be read, and for nothing else.                                 *)
Phase(g) ==
  CASE g.at = "off" -> "idle"
    [] g.at \in {"validate_request", "select_tool", "authorize_tool"} -> "asked"
    [] g.at = "deny_request" -> IF g.executions = 0 THEN "asked" ELSE "approved"
    [] g.at \in {"run_tool", "validate_evidence"} -> "approved"
    [] g.at \in {"generate_answer", "await_model"} -> "collected"
    [] g.at = "answered" -> "answered"
    [] g.at = "denied" -> "refused"
    [] g.at \in {"raised", "closed"} -> "failed"

Governed == INSTANCE GovernedWorkflow WITH
              Runs <- Callers,
              Sources <- {"simulator", "company", "other"},
              Fallback <- [simulator |-> {}, company |-> {"simulator"}, other |-> {}],
              Budget <- max_tool_executions,
              phase <- [c \in Callers |-> Phase(graph[c])],
              granted <- [c \in Callers |->
                            IF graph[c].at = "off" THEN {} ELSE {request[c].source}],
              touched <- [c \in Callers |-> graph[c].reads],
              count <- [c \in Callers |-> graph[c].executions],
              down <- IF ReadFails THEN {"company"} ELSE {}

(* Both ways of driving the nodes implement the governed workflow.            *)
ImplementsGoverned == Governed!Spec

(* The language model is prompted at most once per request, only with         *)
(* evidence that was validated, and never for a request that is denied.       *)
PromptedWithEvidence ==
  \A c \in Callers :
    /\ graph[c].prompts <= 1
    /\ graph[c].prompts = 1 => /\ graph[c].executions = 1
                              /\ graph[c].evidence # "none"
                              /\ graph[c].at \notin {"deny_request", "denied"}

(* run and run_stream are two drivers of one workflow: asked the same while   *)
(* the tools and the model behave the same, they read the same sources and    *)
(* come to the same answer or the same refusal.                               *)
RunAndStreamAgree ==
  \A c, d \in Callers :
    /\ request[c] = request[d]
    /\ {graph[c].at, graph[d].at} \subseteq {"answered", "denied", "raised"}
    => /\ graph[c].answer = graph[d].answer
       /\ graph[c].reads = graph[d].reads
       /\ graph[c].prompts = graph[d].prompts

(* The classifier and the registry agree: no classified request is refused    *)
(* because its tool is unknown, belongs to another source or another intent,  *)
(* and none is refused for the budget of one execution.                       *)
ClassifierMatchesRegistry ==
  \A c \in Callers :
    graph[c].reason \in {"", "request_validated", "tool_authorized", "evidence_validated",
                        "empty_request", "request_too_large", "invalid_data_source",
                        "missing_device_identifier", "missing_tool_evidence"}
=============================================================================
